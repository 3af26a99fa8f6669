SPECIFICATION Spec
CONSTANTS
  c1 = c1
  c2 = c2
  h1 = h1
  h2 = h2
  source = source
  dependent = dependent
  NoAction = NoAction
  Callers <- TwoCallers
  Hosts <- TwoHosts
  HostOf <- Apart
  Actions <- OneAction
  Commands <- DispatchCommands
  Source <- NoSource
  Provider = "github"
  ContractErrors = FALSE
  MaxCalls = 3
  MaxCrashes = 0
  MaxFaults = 1
  MaxChanges = 0
SYMMETRY Alike
CHECK_DEADLOCK FALSE
INVARIANTS
  TypeOK
  NotSentIsTrue
  AtMostOneMutation
  NotSentRecordIsTrue
  OneDispatcher
PROPERTIES
  RetryClaimIsCurrent
  ImplementsConsequence
