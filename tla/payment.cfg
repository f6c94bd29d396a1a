\* A payment and the deliveries of its notification.
SPECIFICATION FairSpec
CONSTANTS
  None = None
  t1 = t1
  t2 = t2
  e1 = e1
  e2 = e2
  p1 = p1
  r1 = r1
  r2 = r2
  Tenant = {t1}
  Preapproval = {p1}
  Email <- MCEmail
  EmailOf <- MCDistinct
  PayerOf <- MCPayerSame
  Req = {r1, r2}
  PlanInput = {"pro"}
  StatusInput = {"suspended"}
  Offered = {"create", "checkout"}
  Faults = FALSE
INVARIANT LatestPaymentRecorded
PROPERTY PaymentActivates
