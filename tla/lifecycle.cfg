\* Two handlers at a time over one tenant, which may fail at any await.
SPECIFICATION Spec
CONSTANTS
  None = None
  t1 = t1
  t2 = t2
  e1 = e1
  e2 = e2
  p1 = p1
  r1 = r1
  r2 = r2
  Tenant = {t1}
  Preapproval = {p1}
  Email <- MCEmail
  EmailOf <- MCDistinct
  PayerOf <- MCPayerSame
  Req = {r1, r2}
  PlanInput = {"pro"}
  StatusInput = {"suspended"}
  Offered = {"create", "activate", "updateStatus", "deactivate", "instance", "updatePlan", "softDelete", "restore", "hardDelete", "checkout", "manualActivate", "cancel"}
  Faults = TRUE
SYMMETRY Slots
INVARIANT TypeOK
INVARIANT LifecycleOK
INVARIANT PaidPlanHasCause
PROPERTY DeletedKeepsPlan
PROPERTY ImplementsLifecycle
