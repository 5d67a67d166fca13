SPECIFICATION Spec
CONSTANTS
  s1 = s1
  s2 = s2
  r1 = r1
  r2 = r2
  Steps <- OneStep
  BatchTypes = {}
  Tokens <- OneToken
  SummaryTurns = 6
  SummaryTokens = 2
  SummaryEvents = 3
  ReadSteps = {}
  ReportTypes <- ToolReports
  Recoverers <- OneRecoverer
  MaxTurns = 1
  MaxRequests = 3
  MaxWorking = 1
  MaxReports = 2
  MaxAttempts = 0
  MaxReplays = 1
  RecoveryFaults = {"recovery_cut"}
PROPERTIES SkippedNotRedone
CHECK_DEADLOCK FALSE
