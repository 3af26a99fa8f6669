SPECIFICATION FairSpec
CONSTANTS
  c1 = c1
  c2 = c2
  h1 = h1
  h2 = h2
  source = source
  dependent = dependent
  NoAction = NoAction
  Callers <- TwoCallers
  Hosts <- TwoHosts
  HostOf <- Together
  Actions <- OneAction
  Commands <- TogetherCommands
  Source <- NoSource
  Provider = "github"
  ContractErrors = TRUE
  MaxCalls = 2
  MaxCrashes = 1
  MaxFaults = 0
  MaxChanges = 1
CHECK_DEADLOCK FALSE
PROPERTIES
  EveryCallReturns
