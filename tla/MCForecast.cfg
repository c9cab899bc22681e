CONSTANTS
  LastYear = 2029
  MaxClosedRun = 7
  Horizon = 13
  DriverSets <- Companies
  FirstMondays <- Mondays
  Rolls = 1
  OpeningBalances <- Balances
  OverrideCells <- Cells
  OverrideAmounts <- Adjustments
  Materiality <- PolicyMateriality
  MonthlyOpex = 100
  Settled <- LastWeek
  MaxPeriods = 4
SPECIFICATION ForecastSpec
INVARIANTS
  SchedulesAreWindowIndependent
  EveryObligationFallsDue
  CashIsConserved
PROPERTIES
  RollIsExplained
\* The last version rolled is the last.
CHECK_DEADLOCK FALSE
