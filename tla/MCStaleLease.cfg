SPECIFICATION SpecAll
CONSTANTS
  Null = Null
  Callers = {c1, c2}
  Keys = {k1, k2}
  Requests <- MCRequests
  Budgets <- MCBudgets
  Rules <- MCRules
  Exceptions <- MCExceptions
  Scopes <- MCScopes
  Hour = 2
  MaxTime = 2
  MaxCalls = 2
  MaxChanges = 2
  MaxCrashes = 1
  Bodies = {k1, k2}
  MaxCommands = 4
  Providers = {k1, k2}
  Values <- MCValues
  Required <- MCRequired
  Subject = "alice"
  Property = "access"
  Instances = {k1, k2}
  Freshness = 1
  Deadline = 1
  MaxWork = 5
  Sources = {s}
  Events = {k1, k2}
  Topics = {k1, k2}
  Nonces = {n}
  MaxPushes = 3
  Leases = {l}
  AutoContinuation = TRUE
  MaxEvidence = 2
  MaxResolutions = 2
  MaxChecks <- MCChecks
  MaxRuns = 2
  Subjects = {"g1", "g2"}
  MailOf <- MCMailOf
  Mails <- MCMails
  States = {k1, k2}
  Handles = {k1, k2}
  MaxCallbacks = 2
  MaxDisconnects = 1
  MAX_REQUESTS_PER_HOUR = 2
  MaxEntries = 5
  Provider = "github"
  Trust = 0
  Ids = {k1, k2}
  Operator = Operator
  Foreign = Foreign
  Stated <- MCStated
  Proved = {"repository:read"}
  Failures = {"insufficient_permission"}
  MaxQuestions = 3
  MaxEdits = 1
  Approvals <- MCApprovals
  Agents = {"a"}
  Effects = {"refund", "notice"}
  Resources = {"alice", "bob"}
  Permitted <- MCPermitted
  MaxEvaluations = 1
  ApiKeys = {"own", "shared"}
  AgentOf <- MCAgentOf
  Effect = "refund"
  Plans <- MCPlans
  Term = 1
  Horizon = 1
SYMMETRY Alike
CHECK_DEADLOCK FALSE
INVARIANT
  LeaseIsOfCurrent
