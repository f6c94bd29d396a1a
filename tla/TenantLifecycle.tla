--------------------------- MODULE TenantLifecycle ---------------------------
(***************************************************************************)
(* What the tenants API promises about a tenant, as one phase:             *)
(*   absent   not registered, or erased                                    *)
(*   off      registered; the bot does not answer                          *)
(*   on       the bot answers                                              *)
(*   deleted  soft-deleted: off and invisible, until it is restored (off)  *)
(*            or erased                                                    *)
(* In particular a new tenant and a restored one start off, and a deleted  *)
(* tenant cannot be switched on.                                           *)
(***************************************************************************)
CONSTANT Tenant

VARIABLE phase

TenantPhase == {"absent", "off", "on", "deleted"}

Init == phase = [t \in Tenant |-> "absent"]

Move(t, from, to) ==
  /\ phase[t] \in from
  /\ phase' = [phase EXCEPT ![t] = to]

Register(t)  == Move(t, {"absent"}, "off")
SwitchOn(t)  == Move(t, {"off"}, "on")
SwitchOff(t) == Move(t, {"on"}, "off")
Retire(t)    == Move(t, {"off", "on"}, "deleted")
Recover(t)   == Move(t, {"deleted"}, "off")
Erase(t)     == Move(t, {"off", "on", "deleted"}, "absent")

Next ==
  \E t \in Tenant :
    \/ Register(t) \/ SwitchOn(t) \/ SwitchOff(t)
    \/ Retire(t) \/ Recover(t) \/ Erase(t)

Spec == Init /\ [][Next]_phase
=============================================================================
