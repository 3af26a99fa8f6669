SPECIFICATION Spec
CONSTANTS
  c1 = c1
  c2 = c2
  h1 = h1
  h2 = h2
  source = source
  dependent = dependent
  NoAction = NoAction
  Callers <- OneCaller
  Hosts <- TwoHosts
  HostOf <- Alone
  Actions <- OneAction
  Commands <- ReconcileCommands
  Source <- NoSource
  Provider = "github"
  ContractErrors = FALSE
  MaxCalls = 3
  MaxCrashes = 0
  MaxFaults = 0
  MaxChanges = 2
CHECK_DEADLOCK FALSE
INVARIANTS
  SatisfiedIsCurrent
