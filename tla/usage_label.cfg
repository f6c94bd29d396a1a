\* A month and the capture that follows it.
SPECIFICATION Spec
CONSTANTS
  None = None
  Tenant = {t1}
  Kind <- MCKind
  MaxUsage <- MCMaxUsage
  Amount <- MCAmount
  Largest <- MCLargest
  Req = {r1}
  LastMonth = 1
  Cap = 4
INVARIANT SnapshotOfItsMonth
