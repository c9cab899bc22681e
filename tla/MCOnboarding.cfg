SPECIFICATION Spec
CONSTANTS
  Urls = {erp}
  Tenants = {t1, t2}
  Snapshots <- MCSnapshots
  ControlTotals <- MCControlTotals
  Tolerances = {0}
  Currencies <- MCCurrencies
  HomeCurrency = "USD"
  MaxRows = 10
  MaxPolicy = 2
  MaxLoads = 2
  MaxChanges = 1
INVARIANTS
  RecordIsSound
  NobodyElsesNumbers
PROPERTIES
  KeepsTheRecord
  ReloadIsIdempotent
\* The counts of loads and changes are bounds.
CHECK_DEADLOCK FALSE
