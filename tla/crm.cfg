\* Clients use some of the operations together, on two contacts, with two jobs
\* in flight: three deals, sales and pipelines show one more than two.
SPECIFICATION Spec
CONSTANTS
  None = None
  Contact = {c1, c2}
  Pipeline = {p1, p2, p3}
  Deal = {d1, d2, d3}
  Sale = {s1, s2, s3}
  Field = {f1, f2}
  Job = {j1, j2}
  ByPanel = 1
  Offers = {{"kanban", "message", "panel"}, {"message", "reply"},
            {"kanban", "sale", "notify", "remind"}, {"message", "notify"},
            {"kanban", "notify", "panel"}, {"kanban", "panel", "advance"}}
SYMMETRY Interchangeable
INVARIANT TypeOK
INVARIANT PipelinesBounded
INVARIANT OpenDealsBounded
INVARIANT SalesOfDealBounded
INVARIANT SaleAndDealAgree
INVARIANT RemindedOnce
PROPERTY FieldsKept
