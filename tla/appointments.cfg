\* Two bookings of one customer in flight, with the panel and a reminder.
SPECIFICATION Spec
CONSTANTS
  None = None
  Id = {i1, i2, i3}
  Customer = {c1}
  At = {a1, a2}
  Kind = {k1}
  Req = {r1, r2}
  Job = {j1}
  ByPanel = 2
SYMMETRY Interchangeable
INVARIANT TypeOK
INVARIANT ActiveBounded
INVARIANT MarkedIsReminded
