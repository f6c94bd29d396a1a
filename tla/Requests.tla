------------------------------ MODULE Requests ------------------------------
(***************************************************************************)
(* What the services of the panel have in common: requests in flight.      *)
(* Each handler runs from one await to the next while others run, and may  *)
(* die there, by an error or a restart of the process.                     *)
(***************************************************************************)
EXTENDS Naturals, FiniteSets

CONSTANTS
  Req,        \* requests in flight at one time          (bounds concurrency)
  Uses,       \* sets of operations that may be in use   (bounds inputs)
  None

VARIABLE use  \* the operations that clients use: one of Uses

ASSUME RequestsAssumption == IsFiniteSet(Req) /\ Req # {}

\* No request is in flight.
Idle == [r \in Req |-> None]
=============================================================================
