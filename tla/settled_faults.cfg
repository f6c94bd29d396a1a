\* One handler at a time, which may fail at any await.
SPECIFICATION Spec
CONSTANTS
  None = None
  t1 = t1
  t2 = t2
  e1 = e1
  e2 = e2
  p1 = p1
  r1 = r1
  Tenant = {t1}
  Preapproval = {p1}
  Email <- MCEmail
  EmailOf <- MCDistinct
  PayerOf <- MCPayerSame
  Req = {r1}
  PlanInput = {"pro"}
  StatusInput = {"suspended"}
  Offered = {"create", "updateStatus", "deactivate", "checkout", "cancel", "pause", "resume", "mpSite"}
  Faults = TRUE
INVARIANT SettledAgreesWithMp
