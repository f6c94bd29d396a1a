------------------------------ MODULE MCBilling ------------------------------
(***************************************************************************)
(* Instances of Billing for TLC.                                           *)
(***************************************************************************)
EXTENDS Billing, TLC

CONSTANTS t1, t2, e1, e2

MCEmail == {e1, e2}
MCDistinct == [t \in Tenant |-> IF t = t1 THEN e1 ELSE e2]

\* The customers pay with the tenant's e-mail, or with any.
MCPayerSame == [t \in Tenant |-> {EmailOf[t]}]
MCPayerAny == [t \in Tenant |-> MCEmail]

\* Request slots are interchangeable.
Slots == Permutations(Req)

\* So are the ids of preapprovals.
Ids == Slots \cup Permutations(Preapproval)
=============================================================================
