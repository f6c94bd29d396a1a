---------------------------- MODULE MCDeliveries ----------------------------
(***************************************************************************)
(* Instances of Deliveries for TLC.                                        *)
(***************************************************************************)
EXTENDS Deliveries, TLC

CONSTANTS t1, t2, e1, e2

MCEmail == {e1, e2}
MCDistinct == [t \in Tenant |-> IF t = t1 THEN e1 ELSE e2]
MCPayerSame == [t \in Tenant |-> {EmailOf[t]}]

\* Request slots are interchangeable, and so are the ids of preapprovals.
Ids == Permutations(Req) \cup Permutations(Preapproval)
=============================================================================
