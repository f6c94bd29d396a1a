\* Two records in flight over two months, with failures.
SPECIFICATION Spec
CONSTANTS
  None = None
  Tenant = {t1}
  Kind <- MCKind
  MaxUsage <- MCMaxUsage
  Amount <- MCAmount
  Largest <- MCLargest
  Req = {r1, r2}
  LastMonth = 1
  Cap = 4
SYMMETRY Slots
INVARIANT TypeOK
INVARIANT OvershootBounded
INVARIANT QuotaIsMonthly
INVARIANT SnapshotBounded
