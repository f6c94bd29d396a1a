------------------------------- MODULE Tenants -------------------------------
(***************************************************************************)
(* The tenants collection and the writes of tenants.service.ts on it.      *)
(*                                                                         *)
(* MongoDB makes one document write atomic and nothing else, so a write    *)
(* here is one findOneAndUpdate / create / deleteOne.  A handler that is   *)
(* a single write is a whole action; a handler of several awaits is cut    *)
(* into steps by module Billing, which uses these writes.                  *)
(*                                                                         *)
(* A tenant document is abstracted to what the lifecycle tells apart:      *)
(*   doc       "absent" (no document), "live" (deletedAt null) or          *)
(*             "deleted" (deletedAt set)                                   *)
(*   status    the granular status;  isActive  the flag n8n reads          *)
(*   plan      the plan's name                                             *)
(*   instance  WhatsApp reachable: own apiUrl+apiKey or an instanceName    *)
(***************************************************************************)
CONSTANTS
  Tenant,       \* tenant identifiers: tenant_<phone digits>
  PlanInput,    \* paid plans the requests of a run ask for   (bounds inputs)
  StatusInput   \* statuses the admins of a run ask for       (bounds inputs)

VARIABLE tenant

TenantStatus == {"active", "inactive", "suspended", "trial", "cancelled"}
PaidPlan == {"pro", "enterprise"}
Plan == PaidPlan \cup {"free"}

ASSUME InputAssumption ==
  /\ PlanInput \subseteq PaidPlan
  /\ StatusInput \subseteq TenantStatus

TenantDoc == [doc : {"absent", "live", "deleted"}, status : TenantStatus,
              isActive : BOOLEAN, plan : Plan, instance : BOOLEAN]

NoTenant == [doc |-> "absent", status |-> "inactive", isActive |-> FALSE,
             plan |-> "free", instance |-> FALSE]

TenantsInit == tenant = [t \in Tenant |-> NoTenant]

Live(t) == tenant[t].doc = "live"

-----------------------------------------------------------------------------
(***************************************************************************)
(* Faulty variants, each a plausible slip in one write.  No specification  *)
(* uses them: they show that the properties notice the slip.               *)
(***************************************************************************)
ActivateDeletedToo(t) ==
  tenant' = [tenant EXCEPT ![t].isActive = TRUE, ![t].status = "active"]

AssignPlanDeletedToo(t, p) ==
  tenant' = [tenant EXCEPT ![t].plan = p]

RestoreAsItWas(t) ==
  /\ tenant[t].doc = "deleted"
  /\ tenant' = [tenant EXCEPT ![t].doc = "live", ![t].status = "active",
                              ![t].isActive = TRUE]

-----------------------------------------------------------------------------
(***************************************************************************)
(* The writes.  The filter of each one is its first conjunct.              *)
(***************************************************************************)

\* create: the unique indexes on phone and tenantId also reject the phone of
\* a soft-deleted tenant; every tenant starts inactive.
CreateTenant(t, p) ==
  /\ tenant[t].doc = "absent"
  /\ tenant' = [tenant EXCEPT ![t] = [NoTenant EXCEPT !.doc = "live",
                                                      !.plan = p]]

\* updateStatus, and deactivate, which writes the same two fields.
SetStatus(t, s) ==
  /\ Live(t)
  /\ tenant' = [tenant EXCEPT ![t].status = s, ![t].isActive = (s = "active")]

\* The second await of activate: filtered by deletedAt only, so it writes
\* whatever became of the credentials it checked; a tenant deleted meanwhile
\* matches nothing and the handler returns null.
ActivateWrite(t) ==
  tenant' = IF Live(t)
              THEN [tenant EXCEPT ![t].isActive = TRUE, ![t].status = "active"]
              ELSE tenant

\* The tenant half of updatePlan; nothing happens to a deleted tenant.
AssignPlan(t, p) ==
  tenant' = IF Live(t) THEN [tenant EXCEPT ![t].plan = p] ELSE tenant

\* updateEvolutionInstance: link the WhatsApp instance or clear it.
SetInstance(t, b) ==
  /\ Live(t)
  /\ tenant' = [tenant EXCEPT ![t].instance = b]

SoftDelete(t) ==
  /\ Live(t)
  /\ tenant' = [tenant EXCEPT ![t].doc = "deleted", ![t].isActive = FALSE,
                              ![t].status = "cancelled"]

Restore(t) ==
  /\ tenant[t].doc = "deleted"
  /\ tenant' = [tenant EXCEPT ![t].doc = "live", ![t].isActive = FALSE,
                              ![t].status = "inactive"]

\* The last await of hardDelete: deleteOne, with no condition on its state.
EraseTenant(t) == tenant' = [tenant EXCEPT ![t] = NoTenant]
=============================================================================
