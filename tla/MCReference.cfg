SPECIFICATION Spec
CONSTANTS
  c1 = c1
  c2 = c2
  h1 = h1
  h2 = h2
  source = source
  dependent = dependent
  NoAction = NoAction
  Callers <- TwoCallers
  Hosts <- TwoHosts
  HostOf <- Apart
  Actions <- OneAction
  Commands <- ReferenceCommands
  Source <- NoSource
  Provider = "reference"
  ContractErrors = FALSE
  MaxCalls = 3
  MaxCrashes = 0
  MaxFaults = 1
  MaxChanges = 1
SYMMETRY Alike
CHECK_DEADLOCK FALSE
INVARIANTS
  CompensationIsSingle
  VerifiedIsTrue
