--------------------------- MODULE MCAppointments ---------------------------
(***************************************************************************)
(* Instances of Appointments for TLC.                                      *)
(***************************************************************************)
EXTENDS Appointments, TLC

\* Ids, dates and booking slots are interchangeable.
Interchangeable == Permutations(Id) \cup Permutations(At) \cup Permutations(Req)
=============================================================================
