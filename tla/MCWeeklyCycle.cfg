CONSTANTS
  Categories <- CategoryOrder
  Horizon = 5
  TopN = 2
  MonthlyOpex = 400
  Books <- AllBooks
  Reloads = 1
  LiquidityWeeks = 4
SPECIFICATION CycleSpec
INVARIANTS
  NothingIsSilent
  PolicyJudgesWhatWasSigned
  FiguresAgree
PROPERTIES
  MondayReachesReview
\* A Monday ends: checked, or failed on its first read.
CHECK_DEADLOCK FALSE
