SPECIFICATION SpecAll
CONSTANTS
  Specs <- MCSpecs
  Profiles <- MCProfiles
  Decisions <- MCDecisions
  MaxEvidence = 2
  Effects = {"okta", "refund", "capture"}
  MaxLooks = 2
  MaxFaults = 1
  MaxChanges = 1
  Roles = 2
  Resolvers = {r1, r2}
  Scenarios = {"happy_verified", "confirmed_absent", "eventually_consistent",
               "wrong_then_compensated", "goal_state_preexisting"}
  MaxRecords = 3
  MaxResolutions = 2
  MaxStops = 1
SYMMETRY MCSymmetry
CHECK_DEADLOCK FALSE
INVARIANTS
  TypesOK
  CertaintyIsEvidenced
  AuthorizationFitsClaim
  FloorsOnlyTighten
  FloorsConverge
  AdaptersTellTheTruth
  EngineHolds
  ShadowAgrees
