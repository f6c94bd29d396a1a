\* Two payments of a customer, who may pay with another e-mail than the
\* tenant's, and two handlers at a time, which may fail.
SPECIFICATION Spec
CONSTANTS
  None = None
  t1 = t1
  t2 = t2
  e1 = e1
  e2 = e2
  p1 = p1
  p2 = p2
  r1 = r1
  r2 = r2
  Tenant = {t1}
  Preapproval = {p1, p2}
  Email <- MCEmail
  EmailOf <- MCDistinct
  PayerOf <- MCPayerAny
  Req = {r1, r2}
  PlanInput = {"pro"}
  StatusInput = {"suspended"}
  Offered = {"create", "checkout", "cancel"}
  Faults = TRUE
SYMMETRY Ids
INVARIANT CancelledIsNotCharged
INVARIANT PreapprovalIsOwn
