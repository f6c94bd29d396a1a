-------------------------------- MODULE MCCrm -------------------------------
(***************************************************************************)
(* Instances of Crm for TLC.                                               *)
(***************************************************************************)
EXTENDS Crm, TLC

\* Ids of deals and sales and job slots are interchangeable.
Interchangeable ==
  Permutations(Deal) \cup Permutations(Sale) \cup Permutations(Job)
=============================================================================
