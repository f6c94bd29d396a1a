\* Two payments of a customer, and two handlers at a time, which may fail at
\* any await.
SPECIFICATION DeliveriesSpec
CONSTANTS
  None = None
  t1 = t1
  t2 = t2
  e1 = e1
  e2 = e2
  p1 = p1
  p2 = p2
  r1 = r1
  r2 = r2
  Tenant = {t1}
  Preapproval = {p1, p2}
  Email <- MCEmail
  EmailOf <- MCDistinct
  PayerOf <- MCPayerSame
  Req = {r1, r2}
  PlanInput = {"pro"}
  StatusInput = {"suspended"}
  Offered = {"create", "checkout", "cancel"}
  Faults = TRUE
SYMMETRY Ids
INVARIANT LoneDeliveryRepairs
INVARIANT CheckoutPaymentRecorded
