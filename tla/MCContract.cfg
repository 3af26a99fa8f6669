SPECIFICATION Spec
CONSTANTS
  c1 = c1
  c2 = c2
  h1 = h1
  h2 = h2
  source = source
  dependent = dependent
  NoAction = NoAction
  Callers <- TwoCallers
  Hosts <- TwoHosts
  HostOf <- Apart
  Actions <- OneAction
  Commands <- DispatchCommands
  Source <- NoSource
  Provider = "github"
  ContractErrors = TRUE
  MaxCalls = 3
  MaxCrashes = 1
  MaxFaults = 0
  MaxChanges = 0
CHECK_DEADLOCK FALSE
INVARIANTS
  NotSentIsTrue
