----------------------------- MODULE MercadoPago -----------------------------
(***************************************************************************)
(* MercadoPago as billing.service.ts uses it: an external service that     *)
(* keeps preapprovals (recurring charges), changes them when its customers *)
(* or the backend ask, and posts a notification for every change until the *)
(* webhook answers 2xx.  A notification carries the preapproval's id only, *)
(* so the pending ones are a set of ids; it may be delivered again before  *)
(* its first delivery is answered.                                         *)
(*                                                                         *)
(* External assumptions: a cancelled preapproval is final; one payment     *)
(* follows one checkout.                                                   *)
(***************************************************************************)
CONSTANTS
  Preapproval,   \* ids MercadoPago can issue     (bounds the payments)
  Email,
  None           \* the null of the documents

VARIABLES
  mp,      \* the preapprovals, as MercadoPago holds them
  notif    \* ids with a notification not answered yet

MpStatus == {"pending", "authorized", "paused", "cancelled"}

\* "paid" remembers that the preapproval was authorized at some time.
MpRecord == [status : MpStatus \cup {"none"}, payer : Email \cup {None},
             paid : BOOLEAN]

MpInit ==
  /\ mp = [p \in Preapproval |-> [status |-> "none", payer |-> None,
                                  paid |-> FALSE]]
  /\ notif = {}

\* The changes MercadoPago accepts for a preapproval in status s.
MpAccepts(s) ==
  CASE s = "pending"    -> {"authorized", "cancelled"}
    [] s = "authorized" -> {"authorized", "paused", "cancelled"}
    [] s = "paused"     -> {"authorized", "paused", "cancelled"}
    [] OTHER            -> {}

MpChange(p, s) ==
  /\ s \in MpAccepts(mp[p].status)
  /\ mp' = [mp EXCEPT ![p].status = s,
                      ![p].paid = IF s = "authorized" THEN TRUE ELSE @]
  /\ notif' = notif \cup {p}

\* A customer subscribes on the checkout page; the card is accepted at once
\* or stays pending.
MpSubscribe(p, e, s) ==
  /\ mp[p].status = "none"
  /\ s \in {"pending", "authorized"}
  /\ mp' = [mp EXCEPT ![p] = [status |-> s, payer |-> e,
                              paid |-> s = "authorized"]]
  /\ notif' = notif \cup {p}
=============================================================================
