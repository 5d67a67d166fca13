SPECIFICATION FairSpec
CONSTANTS
  s1 = s1
  s2 = s2
  r1 = r1
  r2 = r2
  Steps <- OneStep
  BatchTypes <- ReadyReports
  Tokens = {}
  SummaryTurns = 6
  SummaryTokens = 2
  SummaryEvents = 3
  ReadSteps <- OneStep
  ReportTypes = {}
  Recoverers <- OneRecoverer
  MaxTurns = 2
  MaxRequests = 3
  MaxWorking = 1
  MaxReports = 1
  MaxAttempts = 1
  MaxReplays = 1
  RecoveryFaults <- TurnFaults
PROPERTIES TurnsEnd
CHECK_DEADLOCK FALSE
