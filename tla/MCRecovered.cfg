SPECIFICATION Spec
CONSTANTS
  c1 = c1
  c2 = c2
  h1 = h1
  h2 = h2
  source = source
  dependent = dependent
  NoAction = NoAction
  Callers <- TwoCallers
  Hosts <- TwoHosts
  HostOf <- Apart
  Actions <- BothActions
  Commands <- RecoveredCommands
  Source <- Dependency
  Provider = "reference"
  ContractErrors = FALSE
  MaxCalls = 3
  MaxCrashes = 1
  MaxFaults = 0
  MaxChanges = 1
CHECK_DEADLOCK FALSE
PROPERTIES
  ContinuationIsCurrent
