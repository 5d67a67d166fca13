SPECIFICATION FairPathSpec
CONSTANTS
  c1 = c1
  Calls <- OneCall
  ToolNames <- Names
  Builtins <- Basics
  ExtraFile <- Extras
  HttpAdapters <- Adapters
  MaxResults = 2
  BankFaults <- AllBankFaults
  Followed = 1
  GatewayFaults <- AllGatewayFaults
  Turns <- TwoTurns
INVARIANTS PathTypeOK ListedIsRouted StepsPaired PendingIsAwaited FirstResultWins ShownIsStream DoneIsEnd ShownIsReported
PROPERTIES CallsAnswered EndIsShown
CHECK_DEADLOCK FALSE
