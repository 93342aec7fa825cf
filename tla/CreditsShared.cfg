CONSTANTS
  Teams = {t1}
  Runs = {r1, r2}
  Payer <- SharedPayer
  UnitCost = 1
  AssistCost = 1
  FreeMonthly = 2
  Opening = 1
  Grants <- SmallGrants
  MaxWrites = 2
  MaxMonth = 1
  MaxRestarts = 1
  MaxEntries = 4
  RouteOf <- AllStream
  NoRun = NoRun
SPECIFICATION SpecRuns
SYMMETRY Symmetry
INVARIANTS
  TypeOK
  LedgerIsHonest
  HeldIsPromised
PROPERTIES
  AllowanceIsHonest
  HoldCoversRun
CHECK_DEADLOCK FALSE
