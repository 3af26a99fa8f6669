SPECIFICATION FairSpec
CONSTANTS
  Workers = {w1, w2}
  NoOne = NoOne
  MaxAttempts = 2
  GiveUpAt = 2
  AttemptLimit = 4
  MaxFaults = 1
CHECK_DEADLOCK FALSE
INVARIANTS
  TypeOK
PROPERTIES
  KeepsLooking
  SuppressionQuiesces
  OverdueEscalates
  RequestIsAnswered
  EventSettles
