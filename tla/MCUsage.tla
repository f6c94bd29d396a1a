------------------------------- MODULE MCUsage -------------------------------
(***************************************************************************)
(* Instances of Usage for TLC.                                             *)
(***************************************************************************)
EXTENDS Usage, TLC

MCKind == {"messages", "tokens"}
MCMaxUsage == [k \in MCKind |-> 2]
MCAmount == {[k \in MCKind |-> IF k = "messages" THEN 1 ELSE 2]}
MCLargest == [k \in MCKind |-> IF k = "messages" THEN 1 ELSE 2]

\* Request slots are interchangeable.
Slots == Permutations(Req)
=============================================================================
