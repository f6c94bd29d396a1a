------------------------------- MODULE Billing -------------------------------
(***************************************************************************)
(* Plans, subscriptions and activation: tenants.service.ts and             *)
(* billing.service.ts over the collections tenants and subscriptions, with *)
(* MercadoPago outside.                                                    *)
(*                                                                         *)
(* A request handler is a sequence of awaits.  Other handlers run between  *)
(* two awaits, and an error or a restart of the process may end a handler  *)
(* there; nothing is rolled back.  req[r] is the handler in request slot   *)
(* r: its locals and todo, the awaits it still has to do.  The arrival of  *)
(* a request is merged with its first access to the database, since        *)
(* nobody can observe the time between.                                    *)
(***************************************************************************)
EXTENDS Naturals, Sequences, Tenants, MercadoPago

CONSTANTS
  EmailOf,   \* the e-mail each tenant was created with, in lower case
  PayerOf,   \* the e-mails its customer may have at MercadoPago, as typed there
  Req,       \* request slots            (bounds the handlers in flight)
  Offered,   \* operations offered to the users of a run
  Faults     \* whether awaits may fail in a run

VARIABLES
  sub,       \* subscriptions, one document per tenant (unique tenantId)
  req,       \* the handlers in flight
  link,      \* checkout of t's customer: None, the plan, then the payment
  granted,   \* history: tenants given a paid plan by an administrator
  invoiced,  \* history: invoices sent for a preapproval, counted up to 2
  crossed    \* history: tenants that an administrator moved to free, or whose
             \* subscription changed its preapproval while a cancellation was
             \* in flight, since their last checkout without one

vars == <<tenant, mp, notif, sub, req, link, granted, invoiced, crossed>>
world == <<mp, link, granted, invoiced, crossed>>

Operation == {"create", "updatePlan", "updateStatus", "deactivate", "activate",
              "instance", "softDelete", "restore", "hardDelete", "checkout",
              "cancel", "pause", "resume", "manualActivate", "mpSite"}

ASSUME BillingAssumption ==
  /\ EmailOf \in [Tenant -> Email]
  /\ PayerOf \in [Tenant -> SUBSET Email]
  /\ None \notin Tenant \cup Email \cup Preapproval \cup Plan
  /\ Preapproval \cap Plan = {}
  /\ Offered \subseteq Operation
  /\ Faults \in BOOLEAN

SubStatus == {"authorized", "pending", "paused", "cancelled", "free"}

\* dated: canceledAt is set.  The period dates are left out.
SubDoc == [status : SubStatus \cup {"none"}, pre : Preapproval \cup {None},
           email : Email \cup {None}, planName : PaidPlan \cup {None},
           dated : BOOLEAN]

NoSub == [status |-> "none", pre |-> None, email |-> None, planName |-> None,
          dated |-> FALSE]

Step == {"activateWrite", "syncSub", "eraseSub", "eraseTenant", "openSub",
         "mpSet", "subStatus", "setPlan", "grantSub", "goActive", "findByPre",
         "findByEmail", "assign", "stamp", "invoice"}

Handler == [op : Operation \cup {"idle", "webhook"}, t : Tenant \cup {None},
            pre : Preapproval \cup {None}, plan : Plan \cup {None},
            status : MpStatus \cup {None}, was : BOOLEAN, todo : Seq(Step)]

Idle == [op |-> "idle", t |-> None, pre |-> None, plan |-> None,
         status |-> None, was |-> FALSE, todo |-> <<>>]

Init ==
  /\ TenantsInit
  /\ MpInit
  /\ sub = [t \in Tenant |-> NoSub]
  /\ req = [r \in Req |-> Idle]
  /\ link = [t \in Tenant |-> None]
  /\ granted = {}
  /\ invoiced = [p \in Preapproval |-> 0]
  /\ crossed = {}

-----------------------------------------------------------------------------
(***************************************************************************)
(* Faulty variants, as in Tenants: each replaces the definition it is      *)
(* named after to show that a property notices the slip.                   *)
(***************************************************************************)
ThrowAcknowledged(r) ==
  /\ req' = [req EXCEPT ![r] = Idle]
  /\ UNCHANGED notif

OpenedKeepsPre(t, plan) ==
  [sub[t] EXCEPT !.status = "pending", !.email = EmailOf[t],
                 !.planName = plan, !.dated = FALSE]

CancelLocalFirst == <<"subStatus", "mpSet", "setPlan", "syncSub">>

RouteIgnoresStatus(status, was) ==
  IF status = "cancelled"
    THEN <<"assign", "setPlan", "syncSub", "stamp">>
    ELSE <<"setPlan", "syncSub", "goActive", "assign">>

RouteNoAssign(status, was) ==
  CASE status = "authorized" -> <<"setPlan", "syncSub", "goActive">>
    [] status = "cancelled" -> <<"assign", "setPlan", "syncSub", "stamp">>
    [] OTHER -> <<"assign">>

-----------------------------------------------------------------------------
(***************************************************************************)
(* Handlers in slots.                                                      *)
(***************************************************************************)
Free(r, op) == req[r] = Idle /\ op \in Offered \cup {"webhook"}

Begin(r, h) == req' = [req EXCEPT ![r] = h]

Awaits(r, step) == req[r].todo # <<>> /\ Head(req[r].todo) = step

\* The await returns; after the last one the slot is free.
Proceed(r) ==
  req' = [req EXCEPT ![r] = IF Len(@.todo) = 1
                              THEN Idle
                              ELSE [@ EXCEPT !.todo = Tail(req[r].todo)]]

\* The handler throws.  A webhook then answers 5xx and MercadoPago keeps the
\* notification (the catch block re-throws for that).
Throw(r) ==
  /\ req' = [req EXCEPT ![r] = Idle]
  /\ notif' = IF req[r].op = "webhook" THEN notif \cup {req[r].pre} ELSE notif

\* A request with the locals the later awaits need.
Request(op, t, pre, plan, status, todo) ==
  [op |-> op, t |-> t, pre |-> pre, plan |-> plan, status |-> status,
   was |-> FALSE, todo |-> todo]

-----------------------------------------------------------------------------
(***************************************************************************)
(* Subscription documents as the writes leave them.                        *)
(***************************************************************************)

\* The upsert of updatePlan and of manualActivate for a paid plan.
Authorized(s, plan) ==
  [s EXCEPT !.status = "authorized", !.planName = plan, !.dated = FALSE]

\* The update of updatePlan for the plan free; its filter takes three statuses.
Cancelled(s) ==
  IF s.status \in {"authorized", "pending", "paused"}
    THEN [s EXCEPT !.status = "cancelled", !.dated = TRUE]
    ELSE s

\* createCheckout overwrites the whole document.
Opened(t, plan) ==
  [status |-> "pending", pre |-> None, email |-> EmailOf[t],
   planName |-> plan, dated |-> FALSE]

\* The last update of a webhook; no upsert, so nothing without a document.
Assigned(s, status, p) ==
  IF s.status = "none" THEN s ELSE [s EXCEPT !.status = status, !.pre = p]

-----------------------------------------------------------------------------
(***************************************************************************)
(* tenants.service.ts: handlers of one write.                              *)
(***************************************************************************)
Create(t, plan) ==
  /\ "create" \in Offered
  /\ CreateTenant(t, plan)
  /\ granted' = IF plan = "free" THEN granted ELSE granted \cup {t}
  /\ UNCHANGED <<mp, notif, sub, req, link, invoiced, crossed>>

UpdateStatus(t, s) ==
  /\ "updateStatus" \in Offered
  /\ SetStatus(t, s)
  /\ UNCHANGED <<notif, sub, req, world>>

Deactivate(t) ==
  /\ "deactivate" \in Offered
  /\ SetStatus(t, "inactive")
  /\ UNCHANGED <<notif, sub, req, world>>

UpdateInstance(t, b) ==
  /\ "instance" \in Offered
  /\ SetInstance(t, b)
  /\ UNCHANGED <<notif, sub, req, world>>

\* The subscription and its preapproval are left as they are.
Delete(t) ==
  /\ "softDelete" \in Offered
  /\ SoftDelete(t)
  /\ UNCHANGED <<notif, sub, req, world>>

Undelete(t) ==
  /\ "restore" \in Offered
  /\ Restore(t)
  /\ UNCHANGED <<notif, sub, req, world>>

(***************************************************************************)
(* tenants.service.ts: handlers of several awaits.                         *)
(***************************************************************************)
Activate(r, t) ==
  /\ Free(r, "activate")
  /\ Live(t) /\ tenant[t].instance
  /\ Begin(r, Request("activate", t, None, None, None, <<"activateWrite">>))
  /\ UNCHANGED <<tenant, notif, sub, world>>

ActivateWriteStep(r) ==
  /\ Awaits(r, "activateWrite")
  /\ ActivateWrite(req[r].t)
  /\ Proceed(r)
  /\ UNCHANGED <<notif, sub, world>>

UpdatePlan(r, t, plan) ==
  /\ Free(r, "updatePlan")
  /\ Live(t)
  /\ AssignPlan(t, plan)
  /\ Begin(r, Request("updatePlan", t, None, plan, None, <<"syncSub">>))
  /\ granted' = IF plan = "free" THEN granted ELSE granted \cup {t}
  /\ crossed' = IF plan = "free" THEN crossed \cup {t} ELSE crossed
  /\ UNCHANGED <<mp, notif, sub, link, invoiced>>

\* hardDelete of a tenant live or deleted; the deletes of other collections
\* are left out.
HardDelete(r, t) ==
  /\ Free(r, "hardDelete")
  /\ tenant[t].doc # "absent"
  /\ Begin(r, Request("hardDelete", t, None, None, None,
                      <<"eraseSub", "eraseTenant">>))
  /\ UNCHANGED <<tenant, notif, sub, world>>

\* Best effort: an error is logged and the next step runs all the same.
EraseSub(r) ==
  /\ Awaits(r, "eraseSub")
  /\ \/ sub' = [sub EXCEPT ![req[r].t] = NoSub]
     \/ Faults /\ UNCHANGED sub
  /\ Proceed(r)
  /\ UNCHANGED <<tenant, notif, world>>

EraseTenantStep(r) ==
  /\ Awaits(r, "eraseTenant")
  /\ EraseTenant(req[r].t)
  /\ Proceed(r)
  /\ UNCHANGED <<notif, sub, world>>

(***************************************************************************)
(* The awaits of updatePlan and updateStatus('active') inside other        *)
(* handlers.                                                               *)
(***************************************************************************)
SetPlan(r) ==
  /\ Awaits(r, "setPlan")
  /\ AssignPlan(req[r].t, req[r].plan)
  /\ IF Live(req[r].t) THEN Proceed(r) /\ UNCHANGED notif ELSE Throw(r)
  /\ UNCHANGED <<sub, world>>

SyncSub(r) ==
  /\ Awaits(r, "syncSub")
  /\ sub' = [sub EXCEPT ![req[r].t] = IF req[r].plan = "free"
                                        THEN Cancelled(@)
                                        ELSE Authorized(@, req[r].plan)]
  /\ Proceed(r)
  /\ UNCHANGED <<tenant, notif, world>>

GoActive(r) ==
  /\ Awaits(r, "goActive")
  /\ \/ SetStatus(req[r].t, "active") /\ Proceed(r) /\ UNCHANGED notif
     \/ ~Live(req[r].t) /\ Throw(r) /\ UNCHANGED tenant
  /\ UNCHANGED <<sub, world>>

-----------------------------------------------------------------------------
(***************************************************************************)
(* billing.service.ts: requests.                                           *)
(***************************************************************************)
Checkout(r, t, plan) ==
  /\ Free(r, "checkout")
  /\ Live(t)
  /\ Begin(r, Request("checkout", t, None, plan, None, <<"openSub">>))
  /\ UNCHANGED <<tenant, notif, sub, world>>

\* The handlers that will write to t what follows from a cancellation.
Cancelling(t) == {r \in Req : req[r].t = t /\ req[r].plan = "free"}

OpenSub(r) ==
  /\ Awaits(r, "openSub")
  /\ sub' = [sub EXCEPT ![req[r].t] = Opened(req[r].t, req[r].plan)]
  /\ link' = [link EXCEPT ![req[r].t] = req[r].plan]
  /\ crossed' = IF Cancelling(req[r].t) = {} THEN crossed \ {req[r].t}
                                            ELSE crossed \cup {req[r].t}
  /\ Proceed(r)
  /\ UNCHANGED <<tenant, mp, notif, granted, invoiced>>

CancelSteps == <<"mpSet", "subStatus", "setPlan", "syncSub">>

Cancel(r, t) ==
  /\ Free(r, "cancel")
  /\ sub[t].pre # None
  /\ Begin(r, Request("cancel", t, sub[t].pre, "free", "cancelled", CancelSteps))
  /\ UNCHANGED <<tenant, notif, sub, world>>

Pause(r, t) ==
  /\ Free(r, "pause")
  /\ sub[t].pre # None
  /\ Begin(r, Request("pause", t, sub[t].pre, None, "paused",
                      <<"mpSet", "subStatus">>))
  /\ UNCHANGED <<tenant, notif, sub, world>>

Resume(r, t) ==
  /\ Free(r, "resume")
  /\ sub[t].pre # None
  /\ Begin(r, Request("resume", t, sub[t].pre, None, "authorized",
                      <<"mpSet", "subStatus">>))
  /\ UNCHANGED <<tenant, notif, sub, world>>

\* MercadoPago refuses a change it does not accept, and the handler throws.
MpSet(r) ==
  /\ Awaits(r, "mpSet")
  /\ \/ MpChange(req[r].pre, req[r].status) /\ Proceed(r)
     \/ /\ req[r].status \notin MpAccepts(mp[req[r].pre].status)
        /\ Throw(r)
        /\ UNCHANGED mp
  /\ UNCHANGED <<tenant, sub, link, granted, invoiced, crossed>>

\* The local status, written by tenantId whatever preapproval is there now.
SubStatusStep(r) ==
  /\ Awaits(r, "subStatus")
  /\ sub' = IF sub[req[r].t].status = "none"
              THEN sub
              ELSE [sub EXCEPT ![req[r].t].status = req[r].status,
                               ![req[r].t].dated = @ \/ req[r].op = "cancel"]
  /\ Proceed(r)
  /\ UNCHANGED <<tenant, notif, world>>

ManualActivate(r, t, plan) ==
  /\ Free(r, "manualActivate")
  /\ Live(t)
  /\ Begin(r, Request("manualActivate", t, None, plan, None,
                      <<"grantSub", "setPlan", "syncSub", "goActive", "invoice">>))
  /\ granted' = granted \cup {t}
  /\ UNCHANGED <<tenant, mp, notif, sub, link, invoiced, crossed>>

GrantSub(r) ==
  /\ Awaits(r, "grantSub")
  /\ sub' = [sub EXCEPT ![req[r].t] = Authorized(@, req[r].plan)]
  /\ Proceed(r)
  /\ UNCHANGED <<tenant, notif, world>>

-----------------------------------------------------------------------------
(***************************************************************************)
(* billing.service.ts: the webhook of a preapproval.                       *)
(***************************************************************************)

\* The notification arrives and the handler GETs the preapproval.  The same
\* notification may be posted once more while this delivery runs.
Deliver(r, p) ==
  /\ Free(r, "webhook")
  /\ p \in notif
  /\ Begin(r, Request("webhook", None, p, None, mp[p].status, <<"findByPre">>))
  /\ notif' \in {notif \ {p}, notif}
  /\ UNCHANGED <<tenant, sub, world>>

\* The awaits left once the subscription is found.
Route(status, was) ==
  CASE status = "authorized" /\ was ->
         <<"setPlan", "syncSub", "goActive", "assign">>
    [] status = "authorized" /\ ~was ->
         <<"setPlan", "syncSub", "goActive", "assign", "invoice">>
    [] status = "cancelled" ->
         <<"assign", "setPlan", "syncSub", "stamp">>
    [] OTHER -> <<"assign">>

\* The handler goes on with the subscription of t; wasAlreadyAuthorized is
\* read here and used at the end.
Found(r, t) ==
  LET was == sub[t].status = "authorized"
      paid == IF sub[t].planName = None THEN "enterprise" ELSE sub[t].planName
      plan == CASE req[r].status = "authorized" -> paid
                [] req[r].status = "cancelled" -> "free"
                [] OTHER -> None
  IN Begin(r, [req[r] EXCEPT !.t = t, !.was = was, !.plan = plan,
                             !.todo = Route(req[r].status, was)])

FindByPre(r) ==
  /\ Awaits(r, "findByPre")
  /\ LET found == {t \in Tenant : sub[t].pre = req[r].pre}
     IN \/ \E t \in found : Found(r, t)
        \/ found = {} /\ Begin(r, [req[r] EXCEPT !.todo = <<"findByEmail">>])
  /\ UNCHANGED <<tenant, notif, sub, world>>

\* Faulty variant: the e-mail is missing from the filter.
FindByEmailAny(r) ==
  /\ Awaits(r, "findByEmail")
  /\ LET found == {t \in Tenant : sub[t].status = "pending"}
     IN \/ \E t \in found : Found(r, t)
        \/ found = {} /\ Begin(r, Idle)
  /\ UNCHANGED <<tenant, notif, sub, world>>

\* A preapproval that matches nothing is logged and acknowledged.
FindByEmail(r) ==
  /\ Awaits(r, "findByEmail")
  /\ LET found == {t \in Tenant : /\ sub[t].email = mp[req[r].pre].payer
                                  /\ sub[t].status = "pending"}
     IN \/ \E t \in found : Found(r, t)
        \/ found = {} /\ Begin(r, Idle)
  /\ UNCHANGED <<tenant, notif, sub, world>>

Assign(r) ==
  /\ Awaits(r, "assign")
  /\ sub' = [sub EXCEPT ![req[r].t] = Assigned(@, req[r].status, req[r].pre)]
  /\ crossed' = IF \E q \in Cancelling(req[r].t) : req[q].pre # req[r].pre
                  THEN crossed \cup {req[r].t} ELSE crossed
  /\ Proceed(r)
  /\ UNCHANGED <<tenant, notif, mp, link, granted, invoiced>>

\* canceledAt, on the subscription that holds the preapproval.
Stamp(r) ==
  /\ Awaits(r, "stamp")
  /\ LET held == {t \in Tenant : sub[t].pre = req[r].pre}
     IN \/ \E t \in held : sub' = [sub EXCEPT ![t].dated = TRUE]
        \/ held = {} /\ UNCHANGED sub
  /\ Proceed(r)
  /\ UNCHANGED <<tenant, notif, world>>

\* Best effort: the tenant may be gone (a webhook looks it up again) and the
\* mail may fail.  The count is of the invoices for a preapproval.
Invoice(r) ==
  LET p == req[r].pre
      sent == p # None /\ Live(req[r].t) /\ invoiced[p] < 2
  IN /\ Awaits(r, "invoice")
     /\ \/ invoiced' = IF sent THEN [invoiced EXCEPT ![p] = @ + 1] ELSE invoiced
        \/ Faults /\ UNCHANGED invoiced
     /\ Proceed(r)
     /\ UNCHANGED <<tenant, mp, notif, sub, link, granted, crossed>>

-----------------------------------------------------------------------------
(***************************************************************************)
(* The environment: customers at MercadoPago, and awaits that fail.        *)
(***************************************************************************)
Pay(t, p, s) ==
  /\ link[t] \in PaidPlan
  /\ \E e \in PayerOf[t] : MpSubscribe(p, e, s)
  /\ link' = [link EXCEPT ![t] = p]
  /\ UNCHANGED <<tenant, sub, req, granted, invoiced, crossed>>

\* A change on MercadoPago's side: a pending card clears, the customer pauses,
\* reactivates or cancels there, the charges fail.
MpSite(p, s) ==
  /\ "mpSite" \in Offered
  /\ s # mp[p].status
  /\ MpChange(p, s)
  /\ UNCHANGED <<tenant, sub, req, link, granted, invoiced, crossed>>

\* An await of r fails (database, HTTP, or a restart of the process, which
\* loses every slot and nothing else): the rest of the handler never runs.
Fail(r) ==
  /\ Faults
  /\ req[r] # Idle
  /\ Throw(r)
  /\ UNCHANGED <<tenant, sub, world>>

-----------------------------------------------------------------------------
TenantRequest ==
  \/ \E t \in Tenant :
       \/ \E plan \in PlanInput \cup {"free"} : Create(t, plan)
       \/ \E s \in StatusInput : UpdateStatus(t, s)
       \/ \E b \in BOOLEAN : UpdateInstance(t, b)
       \/ Deactivate(t) \/ Delete(t) \/ Undelete(t)
  \/ \E r \in Req, t \in Tenant :
       \/ Activate(r, t) \/ HardDelete(r, t)
       \/ \E plan \in PlanInput \cup {"free"} : UpdatePlan(r, t, plan)

BillingRequest ==
  \E r \in Req, t \in Tenant :
    \/ \E plan \in PlanInput : Checkout(r, t, plan) \/ ManualActivate(r, t, plan)
    \/ Cancel(r, t) \/ Pause(r, t) \/ Resume(r, t)

Webhook == \E r \in Req, p \in Preapproval : Deliver(r, p)

\* The next await of the handler in slot r.
Continue(r) ==
  \/ ActivateWriteStep(r) \/ EraseSub(r) \/ EraseTenantStep(r)
  \/ SetPlan(r) \/ SyncSub(r) \/ GoActive(r)
  \/ OpenSub(r) \/ MpSet(r) \/ SubStatusStep(r) \/ GrantSub(r)
  \/ FindByPre(r) \/ FindByEmail(r) \/ Assign(r) \/ Stamp(r) \/ Invoice(r)

Customer ==
  \E p \in Preapproval, s \in MpStatus :
    MpSite(p, s) \/ \E t \in Tenant : Pay(t, p, s)

Next ==
  \/ TenantRequest \/ BillingRequest \/ Webhook \/ Customer
  \/ \E r \in Req : Continue(r) \/ Fail(r)

Spec == Init /\ [][Next]_vars

-----------------------------------------------------------------------------
(***************************************************************************)
(* Properties.                                                             *)
(***************************************************************************)

\* Every variable has its type.
TypeOK ==
  /\ tenant \in [Tenant -> TenantDoc]
  /\ sub \in [Tenant -> SubDoc]
  /\ mp \in [Preapproval -> MpRecord]
  /\ notif \subseteq Preapproval
  /\ req \in [Req -> Handler]
  /\ link \in [Tenant -> PaidPlan \cup Preapproval \cup {None}]
  /\ granted \subseteq Tenant
  /\ invoiced \in [Preapproval -> 0..2]
  /\ crossed \subseteq Tenant

\* The two activity fields never disagree, and a soft-deleted tenant is off,
\* whichever of the eight writers of these fields interleave: activate checks
\* a tenant and writes it one await later, and webhooks and manual grants
\* switch tenants on after several awaits.
LifecycleOK ==
  \A t \in Tenant :
    /\ tenant[t].isActive <=> tenant[t].status = "active"
    /\ tenant[t].doc = "deleted" => tenant[t].status = "cancelled"
    /\ tenant[t].doc = "absent" => tenant[t] = NoTenant

\* What tenant t may owe a paid plan to.
Entitled(t) ==
  \/ t \in granted
  \/ \E p \in Preapproval : mp[p].payer = EmailOf[t] /\ mp[p].paid

\* A tenant has a paid plan, or a subscription that says authorized, only if
\* MercadoPago authorized a preapproval of its customer at some time or an
\* administrator gave it the plan: no interleaving of checkouts, webhooks,
\* retries and deletions upgrades a tenant out of nothing.
PaidPlanHasCause ==
  \A t \in Tenant :
    tenant[t].plan \in PaidPlan \/ sub[t].status = "authorized" => Entitled(t)

\* The preapproval a subscription holds is one its own customer opened, and
\* a cancel, pause or resume in flight touches only such a preapproval.
PreapprovalIsOwn ==
  /\ \A t \in Tenant :
       sub[t].pre # None => mp[sub[t].pre].payer = EmailOf[t]
  /\ \A r \in Req :
       req[r].op \in {"cancel", "pause", "resume"} =>
         mp[req[r].pre].payer = EmailOf[req[r].t]

\* A plan change, a webhook or a manual grant that was past its checks when
\* its tenant was deleted does not change the tenant's plan any more: restore
\* gives back the plan the tenant had.
DeletedKeepsPlan ==
  [][\A t \in Tenant :
       tenant[t].doc = "deleted" /\ tenant'[t].doc # "absent" =>
         tenant'[t].plan = tenant[t].plan]_vars

\* What the tenants of this module promise to the rest of the system: see
\* TenantLifecycle.
Phase(t) ==
  CASE ~Live(t)                      -> tenant[t].doc
    [] Live(t) /\ tenant[t].isActive -> "on"
    [] OTHER                         -> "off"

Lifecycle == INSTANCE TenantLifecycle WITH phase <- [t \in Tenant |-> Phase(t)]

\* Whatever requests, webhooks, errors and deletions interleave, a tenant only
\* moves as the abstract lifecycle allows, one tenant at a time.
ImplementsLifecycle == Lifecycle!Spec

\* No handler in flight and every notification acknowledged.
Quiet == notif = {} /\ \A r \in Req : req[r] = Idle

\* When everything has come to rest, a subscription that holds a preapproval
\* says what MercadoPago says of it, and the tenant's plan follows: the
\* plan subscribed to while it is authorized, free once it is cancelled, and
\* then the cancellation is dated.  Errors between the awaits, repeated and
\* late notifications and changes made at MercadoPago are all repaired by
\* the notifications that follow them.
SettledAgreesWithMp ==
  Quiet =>
    \A t \in Tenant :
      LET p == sub[t].pre IN
      p # None =>
        /\ sub[t].status = mp[p].status
        /\ sub[t].status = "authorized" => tenant[t].plan = sub[t].planName
        /\ sub[t].status = "cancelled" => tenant[t].plan = "free" /\ sub[t].dated

\* A subscription is shown as cancelled only when MercadoPago has stopped the
\* charges of the preapproval it holds (cancelSubscription tells MercadoPago
\* first), even if handlers die between the two, and however late webhooks are.
\* Cancellations are written by tenant, so that one in flight hits the
\* preapproval of a checkout that came meanwhile; and an administrator who
\* gives the plan free tells MercadoPago nothing.
CancelledIsNotCharged ==
  \A t \in Tenant \ crossed :
    sub[t].status = "cancelled" /\ sub[t].pre # None =>
      mp[sub[t].pre].status = "cancelled"

\* The payment that followed the last checkout is recorded when everything
\* is at rest: its id is in the subscription and the subscription authorized.
LatestPaymentRecorded ==
  Quiet =>
    \A t \in Tenant, p \in Preapproval :
      link[t] = p /\ mp[p].status = "authorized" =>
        sub[t].pre = p /\ sub[t].status = "authorized"

\* Fairness: an await of a handler in flight returns (or its error does), and
\* MercadoPago posts a notification until it is acknowledged, which the number
\* of slots of an instance must not prevent.  Users owe nothing.
Fairness ==
  /\ \A r \in Req : WF_vars(Continue(r))
  /\ \A p \in Preapproval : SF_vars(\E r \in Req : Deliver(r, p))

FairSpec == Spec /\ Fairness

\* A customer who paid after a checkout gets what was paid for: the tenant is
\* active on a paid plan and its subscription holds the preapproval, unless
\* the customer opens another checkout meanwhile.
PaymentActivates ==
  \A t \in Tenant, p \in Preapproval :
    link[t] = p /\ mp[p].status = "authorized" ~>
      \/ link[t] # p
      \/ /\ sub[t].pre = p /\ sub[t].status = "authorized"
         /\ tenant[t].isActive /\ tenant[t].plan \in PaidPlan

-----------------------------------------------------------------------------
(***************************************************************************)
(* What a comment of the repository says, and the code does not do.        *)
(***************************************************************************)

\* billing.service.ts, at the invoice: only on the initial activation, not on
\* the webhook's redeliveries.
InvoicedOnce == \A p \in Preapproval : invoiced[p] <= 1
=============================================================================
