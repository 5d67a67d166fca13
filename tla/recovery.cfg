SPECIFICATION Spec
CONSTANTS
  s1 = s1
  s2 = s2
  r1 = r1
  r2 = r2
  Steps <- OneStep
  BatchTypes <- BatchReports
  Tokens <- OneToken
  SummaryTurns = 6
  SummaryTokens = 2
  SummaryEvents = 3
  ReadSteps = {}
  ReportTypes <- StepReports
  Recoverers <- TwoRecoverers
  MaxTurns = 1
  MaxRequests = 3
  MaxWorking = 1
  MaxReports = 2
  MaxAttempts = 0
  MaxReplays = 1
  RecoveryFaults <- StepFaults
INVARIANTS TurnsAgree StepsCovered TotalsAgree SummaryInTime StepsCaughtUp TokensPerReplay
PROPERTIES WritesAllowed RedoClean 
SYMMETRY RecovererSymmetry
CHECK_DEADLOCK FALSE
