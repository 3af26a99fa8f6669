SPECIFICATION FairSpec
CONSTANTS
  w1 = w1
  w2 = w2
  Workers <- TwoWorkers
  Decisions <- SomeDecisions
  BoundPolicies <- OnePolicy
  Registries <- SomeRegistries
  MaxRecoveries = 1
  MaxChanges = 1
  MaxCrashes = 1
  MaxPauses = 1
CHECK_DEADLOCK FALSE
INVARIANTS
  SentAtMostOnce
  CompletedIsTrue
PROPERTIES
  OnlyOwnersSettle
  ClaimedSettles
  ImplementsOneSend
