---------------------------- MODULE BillingProofs ----------------------------
(***************************************************************************)
(* Proofs about Billing, for any tenants, preapprovals, slots and inputs.  *)
(***************************************************************************)
EXTENDS Deliveries, TLAPS, SequenceTheorems

-----------------------------------------------------------------------------
(***************************************************************************)
(* Handlers and their steps.                                               *)
(***************************************************************************)
\* What a handler must know before the await of a step.
StepReady(h, step) ==
  /\ step \notin {"findByPre", "findByEmail"} => h.t \in Tenant
  /\ step \in {"setPlan", "syncSub"} => h.plan \in Plan
  /\ step \in {"openSub", "grantSub"} => h.plan \in PaidPlan
  /\ step \in {"mpSet", "subStatus", "findByPre", "findByEmail", "assign"} =>
       h.pre \in Preapproval /\ h.status \in MpStatus

Ready(h) ==
  /\ h \in Handler
  /\ h.todo \in Seq({step \in Step : StepReady(h, step)})
  /\ h.op = "webhook" => h.pre \in Preapproval

\* No handler comes to an await whose inputs it does not have (a subscription
\* not found, a plan not chosen, a preapproval not read), and notifications
\* are about preapprovals that exist.
HandlersReady ==
  /\ \A r \in Req : Ready(req[r])
  /\ \A r \in Req : req[r].op = "webhook" => mp[req[r].pre].status # "none"
  /\ \A p \in notif : mp[p].status # "none"

LEMMA IdleReady == Ready(Idle)
<1>1. Idle \in Handler
  BY DEF Idle, Handler
<1> QED
  BY <1>1 DEF Ready, Idle

LEMMA BeginReady ==
  ASSUME \A q \in Req : Ready(req[q]), req \in [Req -> Handler],
         NEW r \in Req, NEW h, Ready(h), Begin(r, h)
  PROVE  /\ req' \in [Req -> Handler]
         /\ \A q \in Req : Ready(req'[q])
         /\ req'[r] = h
         /\ \A q \in Req \ {r} : req'[q] = req[q]
  BY DEF Begin, Ready

\* The step awaited is ready.
LEMMA AwaitsReady ==
  ASSUME NEW r \in Req, Ready(req[r]), NEW step, Awaits(r, step)
  PROVE  step \in Step /\ StepReady(req[r], step)
<1> DEFINE S == {x \in Step : StepReady(req[r], x)}
<1>1. req[r].todo \in Seq(S) /\ req[r].todo # <<>>
  BY DEF Ready, Awaits
<1>2. Head(req[r].todo) \in S
  BY <1>1, HeadTailProperties
<1> QED
  BY <1>2 DEF Awaits

\* A handler keeps its locals, and what is left of it is still ready.
LEMMA TailReady ==
  ASSUME NEW h, Ready(h), h.todo # <<>>
  PROVE  Ready([h EXCEPT !.todo = Tail(h.todo)])
<1> DEFINE S == {x \in Step : StepReady(h, x)}
           g == [h EXCEPT !.todo = Tail(h.todo)]
<1>1. h.todo \in Seq(S) /\ h.todo \in Seq(Step) /\ h \in Handler
  BY DEF Ready, Handler
<1>2. Tail(h.todo) \in Seq(S) /\ Tail(h.todo) \in Seq(Step)
  BY <1>1, HeadTailProperties
<1>3. g \in Handler
  BY <1>1, <1>2 DEF Handler
<1>4. g.t = h.t /\ g.plan = h.plan /\ g.pre = h.pre /\ g.status = h.status
      /\ g.op = h.op /\ g.todo = Tail(h.todo)
  BY <1>1 DEF Handler
<1>5. S = {x \in Step : StepReady(g, x)}
  BY <1>4 DEF StepReady
<1> QED
  BY <1>2, <1>3, <1>4, <1>5 DEF Ready

LEMMA ProceedReady ==
  ASSUME \A q \in Req : Ready(req[q]), req \in [Req -> Handler],
         NEW r \in Req, req[r].todo # <<>>, Proceed(r)
  PROVE  /\ req' \in [Req -> Handler]
         /\ \A q \in Req : Ready(req'[q])
         /\ \A q \in Req \ {r} : req'[q] = req[q]
         /\ \/ req'[r] = Idle
            \/ req'[r] = [req[r] EXCEPT !.todo = Tail(req[r].todo)]
<1> DEFINE h == IF Len(req[r].todo) = 1
                  THEN Idle
                  ELSE [req[r] EXCEPT !.todo = Tail(req[r].todo)]
<1>1. req' = [req EXCEPT ![r] = h]
  BY DEF Proceed
<1>2. Ready(h)
  BY IdleReady, TailReady
<1>3. h \in Handler
  BY <1>2 DEF Ready
<1> QED
  BY <1>1, <1>2, <1>3

-----------------------------------------------------------------------------
(***************************************************************************)
(* Values: requests, subscriptions, tenants, the script of a webhook.      *)
(***************************************************************************)
LEMMA SubTypes ==
  ASSUME NEW s \in SubDoc
  PROVE  /\ Cancelled(s) \in SubDoc
         /\ \A plan \in PaidPlan : Authorized(s, plan) \in SubDoc
         /\ \A st \in MpStatus, p \in Preapproval : Assigned(s, st, p) \in SubDoc
  BY DEF SubDoc, Cancelled, Authorized, Assigned, SubStatus, MpStatus

\* The writes on the tenants keep the documents well formed.
LEMMA TenantTypes ==
  ASSUME tenant \in [Tenant -> TenantDoc], NEW t \in Tenant,
         \/ \E p \in Plan : CreateTenant(t, p) \/ AssignPlan(t, p)
         \/ \E s \in TenantStatus : SetStatus(t, s)
         \/ \E b \in BOOLEAN : SetInstance(t, b)
         \/ ActivateWrite(t) \/ SoftDelete(t) \/ Restore(t) \/ EraseTenant(t)
  PROVE  tenant' \in [Tenant -> TenantDoc]
<1> USE DEF TenantDoc, TenantStatus
<1>1. NoTenant \in TenantDoc
  BY DEF NoTenant, Plan
<1>2. ASSUME NEW p \in Plan, CreateTenant(t, p)
      PROVE  tenant' \in [Tenant -> TenantDoc]
  BY <1>2, <1>1 DEF CreateTenant
<1>3. ASSUME NEW p \in Plan, AssignPlan(t, p)
      PROVE  tenant' \in [Tenant -> TenantDoc]
  BY <1>3 DEF AssignPlan
<1>4. ASSUME NEW s \in TenantStatus, SetStatus(t, s)
      PROVE  tenant' \in [Tenant -> TenantDoc]
  BY <1>4 DEF SetStatus
<1>5. ASSUME NEW b \in BOOLEAN, SetInstance(t, b)
      PROVE  tenant' \in [Tenant -> TenantDoc]
  BY <1>5 DEF SetInstance
<1>6. CASE ActivateWrite(t)
  BY <1>6 DEF ActivateWrite
<1>7. CASE SoftDelete(t) \/ Restore(t)
  BY <1>7 DEF SoftDelete, Restore
<1>8. CASE EraseTenant(t)
  BY <1>8, <1>1 DEF EraseTenant
<1> QED
  BY <1>2, <1>3, <1>4, <1>5, <1>6, <1>7, <1>8

\* The script of a webhook touches the plan only when the status chose one.
LEMMA RouteSteps ==
  ASSUME NEW status \in MpStatus, NEW was \in BOOLEAN
  PROVE  Route(status, was) \in
           Seq(IF status \in {"authorized", "cancelled"}
                 THEN {"setPlan", "syncSub", "goActive", "assign", "invoice", "stamp"}
                 ELSE {"assign"})
<1>1. CASE status = "authorized" /\ was
  BY <1>1 DEF Route
<1>2. CASE status = "authorized" /\ ~was
  BY <1>2 DEF Route
<1>3. CASE status = "cancelled"
  BY <1>3 DEF Route
<1>4. CASE status \notin {"authorized", "cancelled"}
<2>1. Route(status, was) = <<"assign">>
  BY <1>4 DEF Route
<2> QED
  BY <1>4, <2>1
<1> QED
  BY <1>1, <1>2, <1>3, <1>4

-----------------------------------------------------------------------------
(***************************************************************************)
(* Type correctness.  A type alone is not inductive: an await writes what  *)
(* the handler learnt before, so TypeOK needs HandlersReady.               *)
(***************************************************************************)
TypeInv == TypeOK /\ HandlersReady

LEMMA TypeInit == Init => TypeInv
<1> SUFFICES ASSUME Init PROVE TypeInv
  OBVIOUS
<1>1. tenant \in [Tenant -> TenantDoc]
  BY DEF Init, TenantsInit, NoTenant, TenantDoc, TenantStatus, Plan
<1>2. mp \in [Preapproval -> MpRecord] /\ notif = {}
  BY DEF Init, MpInit, MpRecord
<1>3. sub \in [Tenant -> SubDoc]
  BY DEF Init, NoSub, SubDoc
<1>4. req = [r \in Req |-> Idle] /\ Idle \in Handler
  BY IdleReady DEF Init, Ready
<1>5. TypeOK
  BY <1>1, <1>2, <1>3, <1>4 DEF Init, TypeOK
<1>6. HandlersReady
  BY <1>2, <1>4, IdleReady DEF HandlersReady, Idle
<1> QED
  BY <1>5, <1>6 DEF TypeInv

\* Handlers stay ready when preapprovals stay issued and every webhook is
\* about an issued one.
LEMMA HandlersKeep ==
  ASSUME TypeInv,
         \A r \in Req : Ready(req'[r]),
         \A r \in Req : req'[r].op = "webhook" =>
           \/ req[r].op = "webhook" /\ req'[r].pre = req[r].pre
           \/ mp[req'[r].pre].status # "none",
         \A p \in Preapproval : mp[p].status # "none" => mp'[p].status # "none",
         \A p \in notif' : p \in notif \/ mp'[p].status # "none"
  PROVE  HandlersReady'
<1>1. \A r \in Req : req'[r].op = "webhook" => mp'[req'[r].pre].status # "none"
  BY DEF TypeInv, HandlersReady, Ready
<1>2. \A p \in notif' : mp'[p].status # "none"
  BY DEF TypeInv, TypeOK, HandlersReady
<1> QED
  BY <1>1, <1>2 DEF HandlersReady, Ready

\* The handlers of one write touch no handler in flight.
LEMMA TenantWriteType ==
  ASSUME TypeInv, NEW t \in Tenant,
         \/ \E plan \in PlanInput \cup {"free"} : Create(t, plan)
         \/ \E s \in StatusInput : UpdateStatus(t, s)
         \/ \E b \in BOOLEAN : UpdateInstance(t, b)
         \/ Deactivate(t) \/ Delete(t) \/ Undelete(t)
  PROVE  TypeInv'
<1>1. tenant' \in [Tenant -> TenantDoc]
  BY TenantTypes, InputAssumption
     DEF TypeInv, TypeOK, Create, UpdateStatus, UpdateInstance, Deactivate,
         Delete, Undelete, Plan, TenantStatus
<1>2. /\ UNCHANGED <<mp, notif, sub, req, link, invoiced, crossed>>
      /\ granted' \in {granted, granted \cup {t}}
  BY DEF Create, UpdateStatus, UpdateInstance, Deactivate, Delete, Undelete, world
<1>3. TypeOK'
  BY <1>1, <1>2 DEF TypeInv, TypeOK
<1>4. HandlersReady'
  BY <1>2 DEF TypeInv, HandlersReady, Ready, StepReady
<1> QED
  BY <1>3, <1>4 DEF TypeInv

\* A request that begins a handler with the inputs of its steps.
LEMMA BeginType ==
  ASSUME TypeInv, NEW r \in Req, NEW h, Ready(h), Begin(r, h),
         h.op = "webhook" =>
           \/ req[r].op = "webhook" /\ h.pre = req[r].pre
           \/ mp[h.pre].status # "none",
         UNCHANGED mp, notif' \subseteq notif,
         tenant' \in [Tenant -> TenantDoc], sub' = sub,
         UNCHANGED <<link, invoiced>>, granted' \subseteq Tenant,
         crossed' \subseteq Tenant
  PROVE  TypeInv'
<1>1. /\ req' \in [Req -> Handler]
      /\ \A q \in Req : Ready(req'[q])
      /\ req'[r] = h
      /\ \A q \in Req \ {r} : req'[q] = req[q]
  BY BeginReady DEF TypeInv, TypeOK, HandlersReady
<1>2. TypeOK'
  BY <1>1 DEF TypeInv, TypeOK
<1>3. HandlersReady'
  BY <1>1, HandlersKeep
<1> QED
  BY <1>2, <1>3 DEF TypeInv

\* The inputs of the requests are the ones their steps need.
LEMMA RequestsReady ==
  ASSUME NEW t \in Tenant
  PROVE  /\ Ready(Request("activate", t, None, None, None,
                       <<"activateWrite">>))
         /\ Ready(Request("hardDelete", t, None, None, None,
                       <<"eraseSub", "eraseTenant">>))
         /\ \A plan \in Plan :
              Ready(Request("updatePlan", t, None, plan, None,
                       <<"syncSub">>))
         /\ \A plan \in PaidPlan :
              Ready(Request("checkout", t, None, plan, None,
                       <<"openSub">>))
         /\ \A plan \in PaidPlan :
              Ready(Request("manualActivate", t, None, plan, None,
                       <<"grantSub", "setPlan", "syncSub", "goActive", "invoice">>))
         /\ \A p \in Preapproval :
              Ready(Request("cancel", t, p, "free", "cancelled",
                       CancelSteps))
         /\ \A p \in Preapproval :
              Ready(Request("pause", t, p, None, "paused",
                       <<"mpSet", "subStatus">>))
         /\ \A p \in Preapproval :
              Ready(Request("resume", t, p, None, "authorized",
                       <<"mpSet", "subStatus">>))
<1>1. Ready(Request("activate", t, None, None, None,
                       <<"activateWrite">>))
  <2> DEFINE h == Request("activate", t, None, None, None,
                         <<"activateWrite">>)
             T == {"activateWrite"}
  <2>1. <<"activateWrite">> \in Seq(T)
    OBVIOUS
  <2>2. T \subseteq {step \in Step : StepReady(h, step)}
    BY DEF Step, StepReady, Request, MpStatus, Plan
  <2>3. /\ h.todo \in Seq(Step)
         /\ h.todo \in Seq({step \in Step : StepReady(h, step)})
    BY <2>1, <2>2 DEF Request
  <2> QED
    BY <2>3 DEF Ready, Handler, Request, Operation, MpStatus, Plan
<1>2. Ready(Request("hardDelete", t, None, None, None,
                       <<"eraseSub", "eraseTenant">>))
  <2> DEFINE h == Request("hardDelete", t, None, None, None,
                         <<"eraseSub", "eraseTenant">>)
             T == {"eraseSub", "eraseTenant"}
  <2>1. <<"eraseSub", "eraseTenant">> \in Seq(T)
    OBVIOUS
  <2>2. T \subseteq {step \in Step : StepReady(h, step)}
    BY DEF Step, StepReady, Request, MpStatus, Plan
  <2>3. /\ h.todo \in Seq(Step)
         /\ h.todo \in Seq({step \in Step : StepReady(h, step)})
    BY <2>1, <2>2 DEF Request
  <2> QED
    BY <2>3 DEF Ready, Handler, Request, Operation, MpStatus, Plan
<1>3. ASSUME NEW plan \in Plan
      PROVE  Ready(Request("updatePlan", t, None, plan, None,
                       <<"syncSub">>))
  <2> DEFINE h == Request("updatePlan", t, None, plan, None,
                         <<"syncSub">>)
             T == {"syncSub"}
  <2>1. <<"syncSub">> \in Seq(T)
    OBVIOUS
  <2>2. T \subseteq {step \in Step : StepReady(h, step)}
    BY DEF Step, StepReady, Request, MpStatus, Plan
  <2>3. /\ h.todo \in Seq(Step)
         /\ h.todo \in Seq({step \in Step : StepReady(h, step)})
    BY <2>1, <2>2 DEF Request
  <2> QED
    BY <2>3 DEF Ready, Handler, Request, Operation, MpStatus, Plan
<1>4. ASSUME NEW plan \in PaidPlan
      PROVE  Ready(Request("checkout", t, None, plan, None,
                       <<"openSub">>))
  <2> DEFINE h == Request("checkout", t, None, plan, None,
                         <<"openSub">>)
             T == {"openSub"}
  <2>1. <<"openSub">> \in Seq(T)
    OBVIOUS
  <2>2. T \subseteq {step \in Step : StepReady(h, step)}
    BY DEF Step, StepReady, Request, MpStatus, Plan
  <2>3. /\ h.todo \in Seq(Step)
         /\ h.todo \in Seq({step \in Step : StepReady(h, step)})
    BY <2>1, <2>2 DEF Request
  <2> QED
    BY <2>3 DEF Ready, Handler, Request, Operation, MpStatus, Plan
<1>5. ASSUME NEW plan \in PaidPlan
      PROVE  Ready(Request("manualActivate", t, None, plan, None,
                       <<"grantSub", "setPlan", "syncSub", "goActive", "invoice">>))
  <2> DEFINE h == Request("manualActivate", t, None, plan, None,
                         <<"grantSub", "setPlan", "syncSub", "goActive", "invoice">>)
             T == {"grantSub", "setPlan", "syncSub", "goActive", "invoice"}
  <2>1. <<"grantSub", "setPlan", "syncSub", "goActive", "invoice">> \in Seq(T)
    OBVIOUS
  <2>2. T \subseteq {step \in Step : StepReady(h, step)}
    BY DEF Step, StepReady, Request, MpStatus, Plan
  <2>3. /\ h.todo \in Seq(Step)
         /\ h.todo \in Seq({step \in Step : StepReady(h, step)})
    BY <2>1, <2>2 DEF Request
  <2> QED
    BY <2>3 DEF Ready, Handler, Request, Operation, MpStatus, Plan
<1>6. ASSUME NEW p \in Preapproval
      PROVE  Ready(Request("cancel", t, p, "free", "cancelled",
                       CancelSteps))
  <2> DEFINE h == Request("cancel", t, p, "free", "cancelled",
                         CancelSteps)
             T == {"mpSet", "subStatus", "setPlan", "syncSub"}
  <2>1. CancelSteps \in Seq(T)
    BY DEF CancelSteps
  <2>2. T \subseteq {step \in Step : StepReady(h, step)}
    BY DEF Step, StepReady, Request, MpStatus, Plan
  <2>3. /\ h.todo \in Seq(Step)
         /\ h.todo \in Seq({step \in Step : StepReady(h, step)})
    BY <2>1, <2>2 DEF Request, CancelSteps
  <2> QED
    BY <2>3 DEF Ready, Handler, Request, Operation, MpStatus, Plan
<1>7. ASSUME NEW p \in Preapproval
      PROVE  Ready(Request("pause", t, p, None, "paused",
                       <<"mpSet", "subStatus">>))
  <2> DEFINE h == Request("pause", t, p, None, "paused",
                         <<"mpSet", "subStatus">>)
             T == {"mpSet", "subStatus"}
  <2>1. <<"mpSet", "subStatus">> \in Seq(T)
    OBVIOUS
  <2>2. T \subseteq {step \in Step : StepReady(h, step)}
    BY DEF Step, StepReady, Request, MpStatus, Plan
  <2>3. /\ h.todo \in Seq(Step)
         /\ h.todo \in Seq({step \in Step : StepReady(h, step)})
    BY <2>1, <2>2 DEF Request
  <2> QED
    BY <2>3 DEF Ready, Handler, Request, Operation, MpStatus, Plan
<1>8. ASSUME NEW p \in Preapproval
      PROVE  Ready(Request("resume", t, p, None, "authorized",
                       <<"mpSet", "subStatus">>))
  <2> DEFINE h == Request("resume", t, p, None, "authorized",
                         <<"mpSet", "subStatus">>)
             T == {"mpSet", "subStatus"}
  <2>1. <<"mpSet", "subStatus">> \in Seq(T)
    OBVIOUS
  <2>2. T \subseteq {step \in Step : StepReady(h, step)}
    BY DEF Step, StepReady, Request, MpStatus, Plan
  <2>3. /\ h.todo \in Seq(Step)
         /\ h.todo \in Seq({step \in Step : StepReady(h, step)})
    BY <2>1, <2>2 DEF Request
  <2> QED
    BY <2>3 DEF Ready, Handler, Request, Operation, MpStatus, Plan
<1> QED
  BY <1>1, <1>2, <1>3, <1>4, <1>5, <1>6, <1>7, <1>8

LEMMA WebhookReady ==
  ASSUME NEW p \in Preapproval, NEW st \in MpStatus
  PROVE  Ready(Request("webhook", None, p, None, st, <<"findByPre">>))
<1> DEFINE h == Request("webhook", None, p, None, st,
                       <<"findByPre">>)
           T == {"findByPre"}
<1>1. <<"findByPre">> \in Seq(T)
  OBVIOUS
<1>2. T \subseteq {step \in Step : StepReady(h, step)}
  BY DEF Step, StepReady, Request, MpStatus, Plan
<1>3. /\ h.todo \in Seq(Step)
      /\ h.todo \in Seq({step \in Step : StepReady(h, step)})
  BY <1>1, <1>2 DEF Request
<1> QED
  BY <1>3 DEF Ready, Handler, Request, Operation, MpStatus, Plan

LEMMA RequestType ==
  ASSUME TypeInv, NEW r \in Req, NEW t \in Tenant,
         \/ Activate(r, t) \/ HardDelete(r, t)
         \/ \E plan \in PlanInput \cup {"free"} : UpdatePlan(r, t, plan)
         \/ \E plan \in PlanInput : Checkout(r, t, plan) \/ ManualActivate(r, t, plan)
         \/ Cancel(r, t) \/ Pause(r, t) \/ Resume(r, t)
  PROVE  TypeInv'
<1> USE DEF TypeInv, TypeOK, Request
<1>1. CASE Activate(r, t)
  BY <1>1, RequestsReady, BeginType DEF Activate, world
<1>2. CASE HardDelete(r, t)
  BY <1>2, RequestsReady, BeginType DEF HardDelete, world
<1>3. ASSUME NEW plan \in PlanInput \cup {"free"}, UpdatePlan(r, t, plan)
      PROVE  TypeInv'
  <2>1. plan \in Plan
    BY InputAssumption DEF Plan
  <2>2. tenant' \in [Tenant -> TenantDoc]
    BY <1>3, <2>1, TenantTypes DEF UpdatePlan
  <2> QED
    BY <1>3, <2>1, <2>2, RequestsReady, BeginType DEF UpdatePlan, world
<1>4. ASSUME NEW plan \in PlanInput, Checkout(r, t, plan)
      PROVE  TypeInv'
  BY <1>4, InputAssumption, RequestsReady, BeginType DEF Checkout, world, Plan
<1>5. ASSUME NEW plan \in PlanInput, ManualActivate(r, t, plan)
      PROVE  TypeInv'
  BY <1>5, InputAssumption, RequestsReady, BeginType
     DEF ManualActivate, world, Plan
<1>6. CASE Cancel(r, t) \/ Pause(r, t) \/ Resume(r, t)
  <2>1. sub[t].pre \in Preapproval
    BY <1>6 DEF Cancel, Pause, Resume, SubDoc
  <2> QED
    BY <1>6, <2>1, RequestsReady, BeginType DEF Cancel, Pause, Resume, world
<1> QED
  BY <1>1, <1>2, <1>3, <1>4, <1>5, <1>6

\* An await that returns, and one that throws.
LEMMA ProceedType ==
  ASSUME TypeInv, NEW r \in Req, req[r].todo # <<>>, Proceed(r),
         tenant' \in [Tenant -> TenantDoc], sub' \in [Tenant -> SubDoc],
         mp' \in [Preapproval -> MpRecord], notif' \subseteq Preapproval,
         \A p \in Preapproval : mp[p].status # "none" => mp'[p].status # "none",
         \A p \in notif' : p \in notif \/ mp'[p].status # "none",
         link' \in [Tenant -> PaidPlan \cup Preapproval \cup {None}],
         invoiced' \in [Preapproval -> 0..2], UNCHANGED granted,
         crossed' \subseteq Tenant
  PROVE  TypeInv'
<1>1. /\ req' \in [Req -> Handler]
      /\ \A q \in Req : Ready(req'[q])
      /\ \A q \in Req \ {r} : req'[q] = req[q]
      /\ \/ req'[r] = Idle
         \/ req'[r] = [req[r] EXCEPT !.todo = Tail(req[r].todo)]
  BY ProceedReady DEF TypeInv, TypeOK, HandlersReady
<1>2. TypeOK'
  BY <1>1 DEF TypeInv, TypeOK
<1>3. req'[r].op = "webhook" => req[r].op = "webhook" /\ req'[r].pre = req[r].pre
  BY <1>1 DEF TypeInv, TypeOK, Handler, Idle
<1>4. HandlersReady'
  BY <1>1, <1>3, HandlersKeep
<1> QED
  BY <1>2, <1>4 DEF TypeInv

LEMMA ThrowType ==
  ASSUME TypeInv, NEW r \in Req, Throw(r),
         UNCHANGED <<tenant, mp, sub, link, granted, invoiced, crossed>>
  PROVE  TypeInv'
<1>1. req[r].op = "webhook" =>
        req[r].pre \in Preapproval /\ mp[req[r].pre].status # "none"
  BY DEF TypeInv, HandlersReady, Ready
<1>2. /\ req' = [req EXCEPT ![r] = Idle]
      /\ Idle \in Handler
      /\ Idle.op # "webhook"
      /\ \A q \in Req : Ready(req'[q])
  BY IdleReady DEF Throw, TypeInv, TypeOK, HandlersReady, Ready, Idle
<1>3. /\ notif' \subseteq Preapproval
      /\ \A p \in notif' : p \in notif \/ mp[p].status # "none"
  BY <1>1 DEF Throw, TypeInv, TypeOK
<1>4. TypeOK'
  BY <1>2, <1>3 DEF TypeInv, TypeOK
<1>5. HandlersReady'
  BY <1>2, <1>3, HandlersKeep DEF TypeInv, TypeOK
<1> QED
  BY <1>4, <1>5 DEF TypeInv

\* The next await of a handler.
LEMMA TenantStepType ==
  ASSUME TypeInv, NEW r \in Req,
         \/ ActivateWriteStep(r) \/ EraseTenantStep(r)
         \/ SetPlan(r) \/ GoActive(r)
  PROVE  TypeInv'
<1> USE DEF TypeInv, TypeOK, StepReady, world
<1>0. Ready(req[r])
  BY DEF HandlersReady
<1>1. CASE ActivateWriteStep(r)
  <2>1. req[r].t \in Tenant /\ req[r].todo # <<>>
    BY <1>0, <1>1, AwaitsReady DEF ActivateWriteStep, Awaits
  <2>2. tenant' \in [Tenant -> TenantDoc]
    BY <1>1, <2>1, TenantTypes DEF ActivateWriteStep
  <2> QED
    BY <1>1, <2>1, <2>2, ProceedType DEF ActivateWriteStep
<1>2. CASE EraseTenantStep(r)
  <2>1. req[r].t \in Tenant /\ req[r].todo # <<>>
    BY <1>0, <1>2, AwaitsReady DEF EraseTenantStep, Awaits
  <2>2. tenant' \in [Tenant -> TenantDoc]
    BY <1>2, <2>1, TenantTypes DEF EraseTenantStep
  <2> QED
    BY <1>2, <2>1, <2>2, ProceedType DEF EraseTenantStep
<1>3. CASE SetPlan(r)
  <2>1. req[r].t \in Tenant /\ req[r].plan \in Plan /\ req[r].todo # <<>>
    BY <1>0, <1>3, AwaitsReady DEF SetPlan, Awaits
  <2>2. tenant' \in [Tenant -> TenantDoc]
    BY <1>3, <2>1, TenantTypes DEF SetPlan
  <2>3. CASE Live(req[r].t)
    BY <1>3, <2>1, <2>2, <2>3, ProceedType DEF SetPlan
  <2>4. CASE ~Live(req[r].t)
    BY <1>3, <2>4, ThrowType DEF SetPlan, AssignPlan
  <2> QED
    BY <2>3, <2>4
<1>4. CASE GoActive(r)
  <2>1. req[r].t \in Tenant /\ req[r].todo # <<>>
    BY <1>0, <1>4, AwaitsReady DEF GoActive, Awaits
  <2>2. CASE SetStatus(req[r].t, "active") /\ Proceed(r) /\ UNCHANGED notif
    <3>1. tenant' \in [Tenant -> TenantDoc]
      BY <2>1, <2>2, TenantTypes DEF TenantStatus
    <3> QED
      BY <1>4, <2>1, <2>2, <3>1, ProceedType DEF GoActive
  <2>3. CASE Throw(r) /\ UNCHANGED tenant
    BY <1>4, <2>3, ThrowType DEF GoActive
  <2> QED
    BY <1>4, <2>2, <2>3 DEF GoActive
<1> QED
  BY <1>1, <1>2, <1>3, <1>4

LEMMA SubStepType ==
  ASSUME TypeInv, NEW r \in Req,
         \/ EraseSub(r) \/ SyncSub(r) \/ OpenSub(r) \/ SubStatusStep(r)
         \/ GrantSub(r) \/ Assign(r) \/ Stamp(r)
  PROVE  TypeInv'
<1> USE DEF TypeInv, TypeOK
<1>0. Ready(req[r]) /\ (BOOLEAN = {TRUE, FALSE})
  BY DEF HandlersReady
<1>1. /\ req[r].todo # <<>> /\ Proceed(r)
      /\ UNCHANGED <<tenant, mp, notif, granted, invoiced>>
  BY DEF EraseSub, SyncSub, OpenSub, SubStatusStep, GrantSub, Assign, Stamp,
         Awaits, world
<1>c. crossed' \subseteq Tenant
  BY <1>0, AwaitsReady
     DEF EraseSub, SyncSub, OpenSub, SubStatusStep, GrantSub, Assign, Stamp, StepReady,
         world
<1>2. SUFFICES /\ sub' \in [Tenant -> SubDoc]
               /\ link' \in [Tenant -> PaidPlan \cup Preapproval \cup {None}]
  BY <1>1, <1>c, ProceedType
<1>3. CASE EraseSub(r)
  <2>1. NoSub \in SubDoc
    BY DEF NoSub, SubDoc
  <2> QED
    BY <1>3, <2>1 DEF EraseSub, world
<1>4. CASE SyncSub(r)
  <2>1. req[r].t \in Tenant /\ req[r].plan \in Plan
    BY <1>0, <1>4, AwaitsReady DEF SyncSub, StepReady
  <2>2. /\ Cancelled(sub[req[r].t]) \in SubDoc
        /\ \A plan \in PaidPlan : Authorized(sub[req[r].t], plan) \in SubDoc
    BY <2>1, SubTypes
  <2> QED
    BY <1>4, <2>1, <2>2 DEF SyncSub, world, Plan
<1>5. CASE OpenSub(r)
  <2>1. req[r].t \in Tenant /\ req[r].plan \in PaidPlan
    BY <1>0, <1>5, AwaitsReady DEF OpenSub, StepReady
  <2>2. Opened(req[r].t, req[r].plan) \in SubDoc
    BY <2>1, BillingAssumption DEF Opened, SubDoc, SubStatus
  <2> QED
    BY <1>5, <2>1, <2>2 DEF OpenSub
<1>6. CASE SubStatusStep(r)
  <2>1. req[r].t \in Tenant /\ req[r].status \in MpStatus
    BY <1>0, <1>6, AwaitsReady DEF SubStatusStep, StepReady
  <2> QED
    BY <1>6, <2>1 DEF SubStatusStep, world, SubDoc, SubStatus, MpStatus
<1>7. CASE GrantSub(r)
  <2>1. req[r].t \in Tenant /\ req[r].plan \in PaidPlan
    BY <1>0, <1>7, AwaitsReady DEF GrantSub, StepReady
  <2>2. Authorized(sub[req[r].t], req[r].plan) \in SubDoc
    BY <2>1, SubTypes
  <2> QED
    BY <1>7, <2>1, <2>2 DEF GrantSub, world
<1>8. CASE Assign(r)
  <2>1. /\ req[r].t \in Tenant /\ req[r].status \in MpStatus
        /\ req[r].pre \in Preapproval
    BY <1>0, <1>8, AwaitsReady DEF Assign, StepReady
  <2>2. Assigned(sub[req[r].t], req[r].status, req[r].pre) \in SubDoc
    BY <2>1, SubTypes
  <2> QED
    BY <1>8, <2>1, <2>2 DEF Assign, world
<1>9. CASE Stamp(r)
  BY <1>9 DEF Stamp, world, SubDoc
<1> QED
  BY <1>3, <1>4, <1>5, <1>6, <1>7, <1>8, <1>9

\* MercadoPago accepts changes of issued preapprovals only.
LEMMA MpChangeType ==
  ASSUME mp \in [Preapproval -> MpRecord], NEW p \in Preapproval,
         NEW st \in MpStatus, MpChange(p, st)
  PROVE  /\ mp' \in [Preapproval -> MpRecord]
         /\ mp[p].status # "none" /\ mp'[p].status # "none"
         /\ \A q \in Preapproval : mp[q].status # "none" => mp'[q].status # "none"
         /\ notif' = notif \cup {p}
<1>1. mp[p].status # "none"
  BY DEF MpChange, MpAccepts
<1>2. mp' \in [Preapproval -> MpRecord]
  BY DEF MpChange, MpRecord
<1> QED
  BY <1>1, <1>2 DEF MpChange, MpRecord, MpStatus

LEMMA MpSetType ==
  ASSUME TypeInv, NEW r \in Req, MpSet(r)
  PROVE  TypeInv'
<1> USE DEF TypeInv, TypeOK
<1>1. /\ req[r].pre \in Preapproval /\ req[r].status \in MpStatus
      /\ req[r].todo # <<>>
  BY AwaitsReady DEF HandlersReady, MpSet, StepReady, Awaits
<1>2. CASE MpChange(req[r].pre, req[r].status) /\ Proceed(r)
  BY <1>1, <1>2, MpChangeType, ProceedType DEF MpSet
<1>3. CASE Throw(r) /\ UNCHANGED mp
  BY <1>3, ThrowType DEF MpSet
<1> QED
  BY <1>2, <1>3 DEF MpSet

LEMMA InvoiceType ==
  ASSUME TypeInv, NEW r \in Req, Invoice(r)
  PROVE  TypeInv'
<1> USE DEF TypeInv, TypeOK
<1>1. /\ req[r].todo # <<>> /\ Proceed(r)
      /\ UNCHANGED <<tenant, mp, notif, sub, link, granted, crossed>>
  BY DEF Invoice, Awaits
<1>2. req[r].pre \in Preapproval \cup {None}
  BY DEF Handler
<1>3. invoiced' \in [Preapproval -> 0..2]
  BY <1>2 DEF Invoice
<1> QED
  BY <1>1, <1>3, ProceedType

\* The webhook of a preapproval: its arrival and the two searches.
LEMMA DeliverType ==
  ASSUME TypeInv, NEW r \in Req, NEW p \in Preapproval, Deliver(r, p)
  PROVE  TypeInv'
<1> USE DEF TypeInv, TypeOK
<1> DEFINE h == Request("webhook", None, p, None, mp[p].status, <<"findByPre">>)
<1>1. mp[p].status \in MpStatus
  BY DEF Deliver, HandlersReady, MpRecord
<1>2. Ready(h) /\ Begin(r, h)
  BY <1>1, WebhookReady DEF Deliver
<1>3. h.pre = p /\ mp[h.pre].status # "none"
  BY <1>1 DEF Request, MpStatus
<1>4. notif' \subseteq notif /\ UNCHANGED <<tenant, sub, mp, world>>
  BY DEF Deliver, world
<1> HIDE DEF h
<1> QED
  BY <1>2, <1>3, <1>4, BeginType DEF world

LEMMA FoundReady ==
  ASSUME TypeInv, NEW r \in Req, NEW t \in Tenant, Found(r, t),
         Ready(req[r]), req[r].status \in MpStatus, req[r].pre \in Preapproval
  PROVE  \E h : /\ Ready(h) /\ Begin(r, h)
                /\ h.op = req[r].op /\ h.pre = req[r].pre
<1> DEFINE st == req[r].status
           was == sub[t].status = "authorized"
           paid == IF sub[t].planName = None THEN "enterprise" ELSE sub[t].planName
           plan == CASE st = "authorized" -> paid
                     [] st = "cancelled" -> "free"
                     [] OTHER -> None
           h == [req[r] EXCEPT !.t = t, !.was = was, !.plan = plan,
                               !.todo = Route(st, was)]
           T == IF st \in {"authorized", "cancelled"}
                  THEN {"setPlan", "syncSub", "goActive", "assign", "invoice", "stamp"}
                  ELSE {"assign"}
<1>1. was \in BOOLEAN
  OBVIOUS
<1>2. /\ plan \in Plan \cup {None}
      /\ st \in {"authorized", "cancelled"} => plan \in Plan
  BY DEF TypeInv, TypeOK, SubDoc, Plan, PaidPlan
<1>3. Route(st, was) \in Seq(T)
  BY <1>1, RouteSteps
<1>4. T \subseteq Step
  BY DEF Step
<1>5. Begin(r, h)
  BY DEF Found
<1>6. /\ h.op = req[r].op /\ h.pre = req[r].pre /\ h.status = st
      /\ h.t = t /\ h.plan = plan /\ h.was = was /\ h.todo = Route(st, was)
      /\ h \in Handler
  <2>1. Route(st, was) \in Seq(Step)
    BY <1>3, <1>4
  <2> HIDE DEF plan, was, T
  <2> QED
    BY <1>1, <1>2, <2>1 DEF Ready, Handler
<1>7. T \subseteq {step \in Step : StepReady(h, step)}
  <2> HIDE DEF h, plan, was
  <2> QED
    BY <1>2, <1>4, <1>6 DEF StepReady
<1>8. Ready(h)
  <2>1. h.todo \in Seq({step \in Step : StepReady(h, step)})
    <3> HIDE DEF h, T, was
    <3> QED
      BY <1>3, <1>6, <1>7
  <2> HIDE DEF h
  <2> QED
    BY <2>1, <1>6 DEF Ready
<1> QED
  BY <1>5, <1>6, <1>8

LEMMA FindType ==
  ASSUME TypeInv, NEW r \in Req, FindByPre(r) \/ FindByEmail(r)
  PROVE  TypeInv'
<1> USE DEF TypeInv, TypeOK
<1>1. Ready(req[r]) /\ req[r].todo # <<>>
  BY DEF HandlersReady, FindByPre, FindByEmail, Awaits
<1>2. req[r].pre \in Preapproval /\ req[r].status \in MpStatus
  BY <1>1, AwaitsReady DEF FindByPre, FindByEmail, StepReady
<1>3. UNCHANGED <<tenant, notif, sub, mp, link, granted, invoiced, crossed>>
  BY DEF FindByPre, FindByEmail, world
<1>4. ASSUME NEW t \in Tenant, Found(r, t)
      PROVE  TypeInv'
  <2>1. PICK h : /\ Ready(h) /\ Begin(r, h)
                 /\ h.op = req[r].op /\ h.pre = req[r].pre
    BY <1>1, <1>2, <1>4, FoundReady
  <2>2. h.op = "webhook" => req[r].op = "webhook" /\ h.pre = req[r].pre
    BY <2>1
  <2> QED
    BY <1>3, <2>1, <2>2, BeginType
<1>5. CASE Begin(r, [req[r] EXCEPT !.todo = <<"findByEmail">>])
  <2> DEFINE h == [req[r] EXCEPT !.todo = <<"findByEmail">>]
             T == {"findByEmail"}
  <2>1. <<"findByEmail">> \in Seq(T) /\ T \subseteq Step
    BY DEF Step
  <2>2. /\ h \in Handler /\ h.op = req[r].op /\ h.pre = req[r].pre
        /\ h.status = req[r].status /\ h.todo = <<"findByEmail">>
    <3>1. <<"findByEmail">> \in Seq(Step)
      BY <2>1
    <3>2. req[r] \in Handler
      BY <1>1 DEF Ready
    <3> QED
      BY <3>1, <3>2 DEF Handler
  <2> HIDE DEF h
  <2>3. T \subseteq {step \in Step : StepReady(h, step)}
    BY <1>2, <2>1, <2>2 DEF StepReady
  <2>4. h.todo \in Seq({step \in Step : StepReady(h, step)})
    BY <2>1, <2>2, <2>3
  <2>5. Ready(h)
    BY <1>2, <2>2, <2>4 DEF Ready
  <2>6. Begin(r, h)
    BY <1>5 DEF h
  <2> QED
    BY <1>3, <2>2, <2>5, <2>6, BeginType
<1>6. CASE Begin(r, Idle)
  <2>1. Idle.op # "webhook"
    BY DEF Idle
  <2> QED
    BY <1>3, <1>6, <2>1, IdleReady, BeginType
<1> QED
  BY <1>4, <1>5, <1>6 DEF FindByPre, FindByEmail

\* The customers at MercadoPago.
LEMMA CustomerType ==
  ASSUME TypeInv, NEW p \in Preapproval, NEW st \in MpStatus,
         MpSite(p, st) \/ \E t \in Tenant : Pay(t, p, st)
  PROVE  TypeInv'
<1> USE DEF TypeInv, TypeOK
<1>1. UNCHANGED <<tenant, sub, req, granted, invoiced, crossed>>
  BY DEF MpSite, Pay
<1>2. CASE MpSite(p, st)
  <2>1. /\ mp' \in [Preapproval -> MpRecord]
        /\ \A q \in Preapproval : mp[q].status # "none" => mp'[q].status # "none"
        /\ notif' = notif \cup {p} /\ mp'[p].status # "none"
    BY <1>2, MpChangeType DEF MpSite
  <2> QED
    BY <1>1, <1>2, <2>1, HandlersKeep DEF MpSite, HandlersReady, Ready
<1>3. ASSUME NEW t \in Tenant, Pay(t, p, st)
      PROVE  TypeInv'
  <2>1. PICK e \in PayerOf[t] : MpSubscribe(p, e, st)
    BY <1>3 DEF Pay
  <2>2. e \in Email
    BY <2>1, BillingAssumption
  <2>3. /\ mp' \in [Preapproval -> MpRecord]
        /\ mp'[p].status # "none"
        /\ \A q \in Preapproval : mp[q].status # "none" => mp'[q].status # "none"
        /\ notif' = notif \cup {p}
    <3>1. (st = "authorized") \in BOOLEAN /\ st \in {"pending", "authorized"}
      BY <2>1 DEF MpSubscribe
    <3>2. mp' = [mp EXCEPT ![p] = [status |-> st, payer |-> e,
                                   paid |-> st = "authorized"]]
      BY <2>1 DEF MpSubscribe
    <3> QED
      BY <2>1, <2>2, <3>1, <3>2 DEF MpSubscribe, MpRecord, MpStatus
  <2>4. link' = [link EXCEPT ![t] = p]
    BY <1>3 DEF Pay
  <2> QED
    BY <1>1, <2>3, <2>4, HandlersKeep DEF HandlersReady, Ready
<1> QED
  BY <1>2, <1>3

LEMMA TypeStep == TypeInv /\ [Next]_vars => TypeInv'
<1> SUFFICES ASSUME TypeInv, [Next]_vars PROVE TypeInv'
  OBVIOUS
<1>1. CASE TenantRequest
  BY <1>1, TenantWriteType, RequestType DEF TenantRequest
<1>2. CASE BillingRequest
  BY <1>2, RequestType DEF BillingRequest
<1>3. CASE Webhook
  BY <1>3, DeliverType DEF Webhook
<1>4. CASE Customer
  BY <1>4, CustomerType DEF Customer
<1>5. ASSUME NEW r \in Req, Continue(r)
      PROVE  TypeInv'
  BY <1>5, TenantStepType, SubStepType, MpSetType, InvoiceType, FindType DEF Continue
<1>6. ASSUME NEW r \in Req, Fail(r)
      PROVE  TypeInv'
  BY <1>6, ThrowType DEF Fail, world
<1>7. CASE UNCHANGED vars
  BY <1>7 DEF vars, TypeInv, TypeOK, HandlersReady, Ready, StepReady
<1> QED
  BY <1>1, <1>2, <1>3, <1>4, <1>5, <1>6, <1>7 DEF Next

\* In every behaviour the variables have their types.
THEOREM TypeCorrect == Spec => []TypeOK
<1>1. TypeInv => TypeOK
  BY DEF TypeInv
<1> QED
  BY <1>1, TypeInit, TypeStep, PTL DEF Spec

-----------------------------------------------------------------------------
(***************************************************************************)
(* Causes: what a tenant has was paid for or given, and what a             *)
(* subscription holds is its customer's.  Neither is inductive: a handler  *)
(* writes what it read of MercadoPago some awaits before.  That stays true *)
(* since a preapproval keeps its payer and the memory of its payment, so   *)
(* that every await still to do can be held to what backs it.              *)
(***************************************************************************)

\* The preapprovals that were issued are those that have a payer, and an
\* authorized one was paid.
Issued ==
  \A p \in Preapproval :
    /\ mp[p].status = "authorized" => mp[p].paid
    /\ mp[p].status # "none" => mp[p].payer # None
    /\ mp[p].status = "none" => mp[p].payer = None /\ ~mp[p].paid

\* The handler has yet to tell MercadoPago.
Untold(h) == h.todo # <<>> /\ Head(h.todo) = "mpSet"

\* What backs an await of a handler: the payer is the tenant's customer, the
\* tenant is entitled to the plan, and authorized was true of the preapproval.
Backed(h, step) ==
  /\ step \in {"mpSet", "subStatus", "assign"} => mp[h.pre].payer = EmailOf[h.t]
  /\ step \in {"findByPre", "findByEmail"} => mp[h.pre].payer # None
  /\ step \in {"setPlan", "syncSub", "grantSub"} /\ h.plan \in PaidPlan =>
       Entitled(h.t)
  /\ step \in {"findByPre", "findByEmail", "subStatus", "assign"}
       /\ h.status = "authorized" => mp[h.pre].paid \/ Untold(h)

\* A handler with an await that nothing backs does not exist.
Sound(h) ==
  /\ h.todo \in Seq({step \in Step : Backed(h, step)})
  /\ h.op \in {"cancel", "pause", "resume"} =>
       /\ h.pre \in Preapproval /\ h.t \in Tenant
       /\ mp[h.pre].payer = EmailOf[h.t]

\* A subscription in the state s of tenant t has its causes.
SubSound(t, s) ==
  /\ s.email \in {None, EmailOf[t]}
  /\ s.pre # None => mp[s.pre].payer = EmailOf[t]
  /\ s.status = "authorized" => Entitled(t)

CauseInv ==
  /\ Issued
  /\ \A t \in Tenant : SubSound(t, sub[t])
  /\ \A t \in Tenant : tenant[t].plan \in PaidPlan => Entitled(t)
  /\ \A r \in Req : Sound(req[r])

LEMMA IdleSound == Sound(Idle)
  BY DEF Sound, Idle

LEMMA EmailsNotNone ==
  /\ None \notin Email /\ None \notin Preapproval /\ None \notin Tenant
  /\ None \notin PaidPlan /\ "free" \notin PaidPlan
  /\ \A t \in Tenant : EmailOf[t] \in Email /\ EmailOf[t] # None
  BY BillingAssumption DEF Plan, PaidPlan

LEMMA CauseInit == Init => CauseInv
<1> SUFFICES ASSUME Init PROVE CauseInv
  OBVIOUS
<1>1. Issued
  BY DEF Init, MpInit, Issued
<1>2. \A t \in Tenant : SubSound(t, sub[t])
  BY DEF Init, NoSub, SubSound
<1>3. \A t \in Tenant : tenant[t].plan \notin PaidPlan
  BY EmailsNotNone DEF Init, TenantsInit, NoTenant
<1>4. \A r \in Req : Sound(req[r])
  BY IdleSound DEF Init
<1> QED
  BY <1>1, <1>2, <1>3, <1>4 DEF CauseInv

\* A preapproval keeps its payer and that it was paid; what was given stays
\* given.
Lasting ==
  /\ \A p \in Preapproval : /\ mp[p].payer # None => mp'[p].payer = mp[p].payer
                            /\ mp[p].paid => mp'[p].paid
  /\ granted \subseteq granted'

LEMMA EntitledLasts ==
  ASSUME Lasting, NEW t \in Tenant, Entitled(t)
  PROVE  Entitled(t)'
  BY EmailsNotNone DEF Lasting, Entitled

LEMMA BackedLasts ==
  ASSUME Lasting, NEW h, NEW step \in Step, StepReady(h, step), Backed(h, step)
  PROVE  Backed(h, step)'
<1>1. step \in {"mpSet", "subStatus", "assign"} =>
        mp'[h.pre].payer = EmailOf[h.t]
  BY EmailsNotNone DEF Lasting, Backed, StepReady
<1>2. step \in {"findByPre", "findByEmail"} => mp'[h.pre].payer # None
  BY DEF Lasting, Backed, StepReady
<1>3. step \in {"setPlan", "syncSub", "grantSub"} /\ h.plan \in PaidPlan =>
        Entitled(h.t)'
  BY EntitledLasts DEF Backed, StepReady
<1>4. step \in {"findByPre", "findByEmail", "subStatus", "assign"}
        /\ h.status = "authorized" => mp'[h.pre].paid \/ Untold(h)
  BY DEF Lasting, Backed, StepReady
<1> QED
  BY <1>1, <1>2, <1>3, <1>4 DEF Backed, Untold

\* Sequences over two sets at once.
LEMMA SeqOfBoth ==
  ASSUME NEW S, NEW T, NEW s \in Seq(S), s \in Seq(T)
  PROVE  s \in Seq(S \cap T)
<1>1. s \in [1..Len(s) -> S] /\ s \in [1..Len(s) -> T] /\ Len(s) \in Nat
  OBVIOUS
<1>2. s \in [1..Len(s) -> S \cap T]
  BY <1>1
<1> QED
  BY <1>1, <1>2

LEMMA SoundLasts ==
  ASSUME Lasting, NEW h, Ready(h), Sound(h)
  PROVE  Sound(h)'
<1> DEFINE S == {step \in Step : StepReady(h, step)}
           T == {step \in Step : Backed(h, step)}
<1>1. h.todo \in Seq(S \cap T)
  BY SeqOfBoth DEF Ready, Sound
<1>2. S \cap T \subseteq {step \in Step : Backed(h, step)'}
  BY BackedLasts
<1>3. h.todo \in Seq({step \in Step : Backed(h, step)'})
  <2> HIDE DEF S, T
  <2> QED
    BY <1>1, <1>2
<1>4. h.op \in {"cancel", "pause", "resume"} =>
        mp'[h.pre].payer = EmailOf[h.t]
  BY EmailsNotNone DEF Sound, Lasting
<1> QED
  BY <1>3, <1>4 DEF Sound

\* The await that a handler has come to is backed.
LEMMA AwaitsBacked ==
  ASSUME NEW r \in Req, Sound(req[r]), NEW step, Awaits(r, step)
  PROVE  Backed(req[r], step)
<1> DEFINE S == {x \in Step : Backed(req[r], x)}
<1>1. req[r].todo \in Seq(S) /\ req[r].todo # <<>>
  BY DEF Sound, Awaits
<1>2. Head(req[r].todo) \in S
  BY <1>1, HeadTailProperties
<1> QED
  BY <1>2 DEF Awaits

\* What is left of a handler is backed, once MercadoPago was told.
LEMMA TailSound ==
  ASSUME NEW h, Ready(h), Sound(h)', h.todo # <<>>,
         Untold(h) => (h.status = "authorized" => mp'[h.pre].paid)
  PROVE  Sound([h EXCEPT !.todo = Tail(h.todo)])'
<1> DEFINE S == {x \in Step : Backed(h, x)'}
           g == [h EXCEPT !.todo = Tail(h.todo)]
<1>1. h.todo \in Seq(S) /\ h.todo \in Seq(Step) /\ h \in Handler
  BY DEF Sound, Ready, Handler
<1>2. Tail(h.todo) \in Seq(S) /\ Tail(h.todo) \in Seq(Step)
  BY <1>1, HeadTailProperties
<1>3. g.t = h.t /\ g.plan = h.plan /\ g.pre = h.pre /\ g.status = h.status
      /\ g.op = h.op /\ g.todo = Tail(h.todo)
  BY <1>1 DEF Handler
<1> HIDE DEF g
<1>4. S \subseteq {x \in Step : Backed(g, x)'}
  BY <1>3 DEF Backed, Untold, Entitled
<1>5. g.todo \in Seq({x \in Step : Backed(g, x)'})
  <2> HIDE DEF S
  <2> QED
    BY <1>2, <1>3, <1>4
<1>6. Sound(g)'
  BY <1>3, <1>5 DEF Sound
<1> QED
  BY <1>6 DEF g

\* A step keeps the causes if what it writes has them.
LEMMA CauseKept ==
  ASSUME TypeInv, CauseInv, Lasting, Issued',
         \A t \in Tenant : sub'[t] = sub[t] \/ (\E s : sub'[t] = s /\ SubSound(t, s)'),
         \A t \in Tenant :
           tenant'[t].plan \in PaidPlan => tenant[t].plan \in PaidPlan \/ Entitled(t)',
         \A r \in Req : \E h : req'[r] = h /\ Sound(h)'
  PROVE  CauseInv'
<1>1. \A t \in Tenant : SubSound(t, sub[t]) /\ sub[t].pre \in Preapproval \cup {None}
  BY DEF CauseInv, TypeInv, TypeOK, SubDoc
<1>2. ASSUME NEW t \in Tenant
      PROVE  SubSound(t, sub[t])'
  <2>1. CASE sub'[t] = sub[t]
    <3>1. sub[t].pre # None => mp'[sub[t].pre].payer = EmailOf[t]
      BY <1>1, EmailsNotNone DEF SubSound, Lasting
    <3>2. sub[t].status = "authorized" => Entitled(t)'
      BY <1>1, EntitledLasts DEF SubSound
    <3> QED
      BY <1>1, <2>1, <3>1, <3>2 DEF SubSound
  <2>2. CASE (\E s : sub'[t] = s /\ SubSound(t, s)')
    BY <2>2 DEF SubSound
  <2> QED
    BY <2>1, <2>2
<1>3. ASSUME NEW t \in Tenant, tenant'[t].plan \in PaidPlan
      PROVE  Entitled(t)'
  BY <1>3, EntitledLasts DEF CauseInv
<1>4. ASSUME NEW r \in Req
      PROVE  Sound(req[r])'
  <2>1. PICK h : req'[r] = h /\ Sound(h)'
    OBVIOUS
  <2> QED
    BY <2>1 DEF Sound, Backed, Untold, Entitled
<1> QED
  BY <1>2, <1>3, <1>4 DEF CauseInv

\* The slots after a handler began, went on, or ended.
LEMMA BeginSound ==
  ASSUME TypeInv, CauseInv, Lasting, NEW r \in Req, NEW h, Sound(h)', Begin(r, h)
  PROVE  \A q \in Req : \E g : req'[q] = g /\ Sound(g)'
<1>1. \A q \in Req \ {r} : req'[q] = req[q] /\ Ready(req[q]) /\ Sound(req[q])
  BY DEF Begin, TypeInv, TypeOK, HandlersReady, CauseInv
<1>2. ASSUME NEW q \in Req \ {r}
      PROVE  \E g : req'[q] = g /\ Sound(g)'
  <2>1. PICK g : g = req[q]
    OBVIOUS
  <2>2. Sound(g)'
    BY <1>1, <2>1, SoundLasts
  <2> QED
    BY <1>1, <2>1, <2>2
<1>3. req'[r] = h
  BY DEF Begin, TypeInv, TypeOK
<1> QED
  BY <1>2, <1>3

LEMMA SlotsSound ==
  ASSUME TypeInv, CauseInv, Lasting, UNCHANGED req
  PROVE  \A q \in Req : \E g : req'[q] = g /\ Sound(g)'
<1> TAKE q \in Req
<1>1. PICK g : g = req[q]
  OBVIOUS
<1>2. Ready(g) /\ Sound(g)
  BY <1>1 DEF TypeInv, HandlersReady, CauseInv
<1> QED
  BY <1>1, <1>2, SoundLasts

LEMMA ThrowSound ==
  ASSUME TypeInv, CauseInv, Lasting, NEW r \in Req, Throw(r)
  PROVE  \A q \in Req : \E g : req'[q] = g /\ Sound(g)'
<1>1. Sound(Idle)'
  BY DEF Sound, Idle
<1>2. Begin(r, Idle)
  BY DEF Throw, Begin
<1> QED
  BY <1>1, <1>2, BeginSound

LEMMA ProceedSound ==
  ASSUME TypeInv, CauseInv, Lasting, NEW r \in Req, req[r].todo # <<>>, Proceed(r),
         Untold(req[r]) => (req[r].status = "authorized" => mp'[req[r].pre].paid)
  PROVE  \A q \in Req : \E g : req'[q] = g /\ Sound(g)'
<1>1. PICK h : h = req[r]
  OBVIOUS
<1>2. Ready(h) /\ Sound(h)
  BY <1>1 DEF TypeInv, HandlersReady, CauseInv
<1>3. Untold(h) => (h.status = "authorized" => mp'[h.pre].paid)
  BY <1>1
<1>4. Sound([h EXCEPT !.todo = Tail(h.todo)])'
  BY <1>1, <1>2, <1>3, SoundLasts, TailSound
<1>5. Sound(Idle)'
  BY DEF Sound, Idle
<1>6. Begin(r, Idle) \/ Begin(r, [h EXCEPT !.todo = Tail(h.todo)])
  BY <1>1 DEF Proceed, Begin
<1> QED
  BY <1>4, <1>5, <1>6, BeginSound

\* A step that leaves MercadoPago and the grants alone.
LEMMA WorldLasts ==
  ASSUME CauseInv, UNCHANGED mp, granted \subseteq granted'
  PROVE  Lasting /\ Issued'
  BY DEF CauseInv, Lasting, Issued

\* The handlers of one write.
LEMMA TenantWriteCause ==
  ASSUME TypeInv, CauseInv, NEW t \in Tenant,
         \/ \E plan \in PlanInput \cup {"free"} : Create(t, plan)
         \/ \E s \in StatusInput : UpdateStatus(t, s)
         \/ \E b \in BOOLEAN : UpdateInstance(t, b)
         \/ Deactivate(t) \/ Delete(t) \/ Undelete(t)
  PROVE  CauseInv'
<1>1. UNCHANGED <<mp, sub, req>> /\ granted \subseteq granted'
  BY DEF Create, UpdateStatus, UpdateInstance, Deactivate, Delete, Undelete, world
<1>2. Lasting /\ Issued'
  BY <1>1, WorldLasts
<1>3. \A u \in Tenant :
        tenant'[u].plan \in PaidPlan => tenant[u].plan \in PaidPlan \/ u \in granted'
  <2> USE DEF TypeInv, TypeOK
  <2>1. ASSUME NEW plan \in PlanInput \cup {"free"}, Create(t, plan)
        PROVE  \A u \in Tenant :
                 tenant'[u].plan \in PaidPlan =>
                   tenant[u].plan \in PaidPlan \/ u \in granted'
    BY <2>1, EmailsNotNone, InputAssumption DEF Create, CreateTenant, NoTenant
  <2>2. CASE \/ \E s \in StatusInput : UpdateStatus(t, s)
             \/ \E b \in BOOLEAN : UpdateInstance(t, b)
             \/ Deactivate(t) \/ Delete(t) \/ Undelete(t)
    <3>1. ASSUME SetInstance(t, TRUE) \/ SetInstance(t, FALSE) \/ SoftDelete(t)
                 \/ Restore(t) \/ \E s : SetStatus(t, s)
          PROVE  \A u \in Tenant : tenant'[u].plan = tenant[u].plan
      <4>1. CASE SetInstance(t, TRUE) \/ SetInstance(t, FALSE)
        BY <4>1 DEF SetInstance, TenantDoc
      <4>2. CASE SoftDelete(t) \/ Restore(t)
        BY <4>2 DEF SoftDelete, Restore, TenantDoc
      <4>3. ASSUME NEW s, SetStatus(t, s)
            PROVE  \A u \in Tenant : tenant'[u].plan = tenant[u].plan
        BY <4>3 DEF SetStatus, TenantDoc
      <4> QED
        BY <3>1, <4>1, <4>2, <4>3
    <3>2. SetInstance(t, TRUE) \/ SetInstance(t, FALSE) \/ SoftDelete(t)
          \/ Restore(t) \/ \E s : SetStatus(t, s)
      BY <2>2 DEF UpdateStatus, UpdateInstance, Deactivate, Delete, Undelete
    <3> QED
      BY <3>1, <3>2
  <2> QED
    BY <2>1, <2>2
<1>4. \A u \in Tenant : tenant'[u].plan \in PaidPlan =>
        tenant[u].plan \in PaidPlan \/ Entitled(u)'
  BY <1>3 DEF Entitled
<1> QED
  BY <1>1, <1>2, <1>4, SlotsSound, CauseKept

\* The inputs of the requests are backed.
LEMMA RequestsSound ==
  ASSUME NEW t \in Tenant
  PROVE  /\ Sound(Request("activate", t, None, None, None, <<"activateWrite">>))'
         /\ Sound(Request("hardDelete", t, None, None, None,
                          <<"eraseSub", "eraseTenant">>))'
         /\ \A plan \in Plan : (plan \in PaidPlan => Entitled(t)') =>
              Sound(Request("updatePlan", t, None, plan, None, <<"syncSub">>))'
         /\ \A plan \in PaidPlan :
              Sound(Request("checkout", t, None, plan, None, <<"openSub">>))'
         /\ \A plan \in PaidPlan : Entitled(t)' =>
              Sound(Request("manualActivate", t, None, plan, None,
                 <<"grantSub", "setPlan", "syncSub", "goActive", "invoice">>))'
         /\ \A p \in Preapproval : mp'[p].payer = EmailOf[t] =>
              /\ Sound(Request("cancel", t, p, "free", "cancelled", CancelSteps))'
              /\ Sound(Request("pause", t, p, None, "paused",
                               <<"mpSet", "subStatus">>))'
              /\ Sound(Request("resume", t, p, None, "authorized",
                               <<"mpSet", "subStatus">>))'
<1>1. ASSUME NEW op, NEW p, NEW plan, NEW st, NEW todo, NEW T \in SUBSET Step,
             todo \in Seq(T), \A x \in T : Backed(Request(op, t, p, plan, st, todo), x)',
             op \in {"cancel", "pause", "resume"} =>
               p \in Preapproval /\ mp'[p].payer = EmailOf[t]
      PROVE  Sound(Request(op, t, p, plan, st, todo))'
  <2> DEFINE h == Request(op, t, p, plan, st, todo)
  <2>1. h.op = op /\ h.t = t /\ h.pre = p /\ h.todo = todo
    BY DEF Request
  <2>2. T \subseteq {x \in Step : Backed(h, x)'}
    BY <1>1
  <2>3. h.todo \in Seq({x \in Step : Backed(h, x)'})
    <3> HIDE DEF h
    <3> QED
      BY <1>1, <2>1, <2>2
  <2>4. Sound(h)'
    <3> HIDE DEF h
    <3> QED
      BY <1>1, <2>1, <2>3 DEF Sound
  <2> QED
    BY <2>4
<1>2. Sound(Request("activate", t, None, None, None, <<"activateWrite">>))'
  <2>1. /\ <<"activateWrite">> \in Seq({"activateWrite"})
        /\ {"activateWrite"} \in SUBSET Step
    BY DEF Step
  <2> QED
    BY <1>1, <2>1 DEF Backed, Request
<1>3. Sound(Request("hardDelete", t, None, None, None, <<"eraseSub", "eraseTenant">>))'
  <2>1. /\ <<"eraseSub", "eraseTenant">> \in Seq({"eraseSub", "eraseTenant"})
        /\ {"eraseSub", "eraseTenant"} \in SUBSET Step
    BY DEF Step
  <2> QED
    BY <1>1, <2>1 DEF Backed, Request
<1>4. ASSUME NEW plan \in Plan, plan \in PaidPlan => Entitled(t)'
      PROVE  Sound(Request("updatePlan", t, None, plan, None, <<"syncSub">>))'
  <2>1. <<"syncSub">> \in Seq({"syncSub"}) /\ {"syncSub"} \in SUBSET Step
    BY DEF Step
  <2> QED
    BY <1>1, <1>4, <2>1 DEF Backed, Request, Entitled
<1>5. ASSUME NEW plan \in PaidPlan
      PROVE  Sound(Request("checkout", t, None, plan, None, <<"openSub">>))'
  <2>1. <<"openSub">> \in Seq({"openSub"}) /\ {"openSub"} \in SUBSET Step
    BY DEF Step
  <2> QED
    BY <1>1, <2>1 DEF Backed, Request
<1>6. ASSUME NEW plan \in PaidPlan, Entitled(t)'
      PROVE  Sound(Request("manualActivate", t, None, plan, None,
                 <<"grantSub", "setPlan", "syncSub", "goActive", "invoice">>))'
  <2> DEFINE T == {"grantSub", "setPlan", "syncSub", "goActive", "invoice"}
  <2>1. /\ <<"grantSub", "setPlan", "syncSub", "goActive", "invoice">> \in Seq(T)
        /\ T \in SUBSET Step
    BY DEF Step
  <2>2. \A x \in T : Backed(Request("manualActivate", t, None, plan, None,
             <<"grantSub", "setPlan", "syncSub", "goActive", "invoice">>), x)'
    BY <1>6 DEF Backed, Request, Entitled
  <2> QED
    BY <1>1, <2>1, <2>2
<1>7. ASSUME NEW p \in Preapproval, mp'[p].payer = EmailOf[t]
      PROVE  /\ Sound(Request("cancel", t, p, "free", "cancelled", CancelSteps))'
             /\ Sound(Request("pause", t, p, None, "paused", <<"mpSet", "subStatus">>))'
             /\ Sound(Request("resume", t, p, None, "authorized",
                              <<"mpSet", "subStatus">>))'
  <2> DEFINE T == {"mpSet", "subStatus", "setPlan", "syncSub"}
  <2>1. /\ CancelSteps \in Seq(T) /\ <<"mpSet", "subStatus">> \in Seq(T)
        /\ T \in SUBSET Step
    BY DEF Step, CancelSteps
  <2>2. \A x \in T :
          /\ Backed(Request("cancel", t, p, "free", "cancelled", CancelSteps), x)'
          /\ Backed(Request("pause", t, p, None, "paused", <<"mpSet", "subStatus">>), x)'
          /\ Backed(Request("resume", t, p, None, "authorized",
                            <<"mpSet", "subStatus">>), x)'
    BY <1>7, EmailsNotNone DEF Backed, Request, Untold
  <2> QED
    BY <1>1, <1>7, <2>1, <2>2
<1> QED
  BY <1>2, <1>3, <1>4, <1>5, <1>6, <1>7

\* Requests that begin: what they will write is backed by what they read.
LEMMA RequestCause ==
  ASSUME TypeInv, CauseInv, NEW r \in Req, NEW t \in Tenant,
         \/ Activate(r, t) \/ HardDelete(r, t)
         \/ \E plan \in PlanInput \cup {"free"} : UpdatePlan(r, t, plan)
         \/ \E plan \in PlanInput : Checkout(r, t, plan) \/ ManualActivate(r, t, plan)
         \/ Cancel(r, t) \/ Pause(r, t) \/ Resume(r, t)
  PROVE  CauseInv'
<1>1. UNCHANGED <<mp, sub>> /\ granted \subseteq granted'
  BY DEF Activate, HardDelete, UpdatePlan, Checkout, ManualActivate, Cancel,
         Pause, Resume, world
<1>2. Lasting /\ Issued'
  BY <1>1, WorldLasts
<1>3. SUFFICES /\ \A q \in Req : \E g : req'[q] = g /\ Sound(g)'
               /\ \A u \in Tenant : tenant'[u].plan \in PaidPlan =>
                    tenant[u].plan \in PaidPlan \/ Entitled(u)'
  BY <1>1, <1>2, CauseKept
<1>4. CASE Activate(r, t) \/ HardDelete(r, t)
  BY <1>2, <1>4, RequestsSound, BeginSound DEF Activate, HardDelete
<1>5. ASSUME NEW plan \in PlanInput \cup {"free"}, UpdatePlan(r, t, plan)
      PROVE  /\ \A q \in Req : \E g : req'[q] = g /\ Sound(g)'
             /\ \A u \in Tenant : tenant'[u].plan \in PaidPlan =>
                  tenant[u].plan \in PaidPlan \/ Entitled(u)'
  <2>1. plan \in Plan /\ (plan \in PaidPlan => Entitled(t)')
    BY <1>5, InputAssumption, EmailsNotNone DEF UpdatePlan, Entitled, Plan
  <2>2. \A q \in Req : \E g : req'[q] = g /\ Sound(g)'
    BY <1>2, <1>5, <2>1, RequestsSound, BeginSound DEF UpdatePlan
  <2>3. \A u \in Tenant \ {t} : tenant'[u] = tenant[u]
    BY <1>5 DEF UpdatePlan, AssignPlan, TypeInv, TypeOK
  <2>4. tenant'[t].plan \in {plan, tenant[t].plan}
    BY <1>5 DEF UpdatePlan, AssignPlan, TypeInv, TypeOK, TenantDoc
  <2> QED
    BY <2>1, <2>2, <2>3, <2>4
<1>6. ASSUME NEW plan \in PlanInput, Checkout(r, t, plan)
      PROVE  /\ \A q \in Req : \E g : req'[q] = g /\ Sound(g)'
             /\ UNCHANGED tenant
  BY <1>2, <1>6, InputAssumption, RequestsSound, BeginSound DEF Checkout
<1>7. ASSUME NEW plan \in PlanInput, ManualActivate(r, t, plan)
      PROVE  /\ \A q \in Req : \E g : req'[q] = g /\ Sound(g)'
             /\ UNCHANGED tenant
  <2>1. Entitled(t)'
    BY <1>7 DEF ManualActivate, Entitled
  <2> QED
    BY <1>2, <1>7, <2>1, InputAssumption, RequestsSound, BeginSound
       DEF ManualActivate
<1>8. CASE Cancel(r, t) \/ Pause(r, t) \/ Resume(r, t)
  <2>1. sub[t].pre # None
    BY <1>8 DEF Cancel, Pause, Resume
  <2>2. PICK p \in Preapproval : p = sub[t].pre
    BY <2>1 DEF TypeInv, TypeOK, SubDoc
  <2>3. mp'[p].payer = EmailOf[t]
    BY <1>1, <2>1, <2>2 DEF CauseInv, SubSound
  <2>4. /\ Sound(Request("cancel", t, p, "free", "cancelled", CancelSteps))'
        /\ Sound(Request("pause", t, p, None, "paused", <<"mpSet", "subStatus">>))'
        /\ Sound(Request("resume", t, p, None, "authorized",
                         <<"mpSet", "subStatus">>))'
    BY <2>3, RequestsSound
  <2>5. \E h : Sound(h)' /\ Begin(r, h)
    BY <1>8, <2>2, <2>4 DEF Cancel, Pause, Resume
  <2> QED
    BY <1>2, <1>8, <2>5, BeginSound DEF Cancel, Pause, Resume
<1> QED
  BY <1>4, <1>5, <1>6, <1>7, <1>8 DEF Activate, HardDelete

\* The awaits that write tenants.
LEMMA TenantStepCause ==
  ASSUME TypeInv, CauseInv, NEW r \in Req,
         \/ ActivateWriteStep(r) \/ EraseTenantStep(r)
         \/ SetPlan(r) \/ GoActive(r)
  PROVE  CauseInv'
<1>1. UNCHANGED <<mp, sub, granted>>
  BY DEF ActivateWriteStep, EraseTenantStep, SetPlan, GoActive, world
<1>2. Lasting /\ Issued'
  BY <1>1, WorldLasts
<1>3. Ready(req[r]) /\ Sound(req[r])
  BY DEF TypeInv, HandlersReady, CauseInv
<1>4. /\ req[r].todo # <<>> /\ ~Untold(req[r])
      /\ Proceed(r) \/ Throw(r)
      /\ req[r].t \in Tenant
  BY <1>3, AwaitsReady
     DEF ActivateWriteStep, EraseTenantStep, SetPlan, GoActive, Awaits, Untold,
         StepReady
<1>5. \A q \in Req : \E g : req'[q] = g /\ Sound(g)'
  BY <1>2, <1>4, ProceedSound, ThrowSound
<1>6. \A u \in Tenant : tenant'[u].plan \in PaidPlan =>
        tenant[u].plan \in PaidPlan \/ Entitled(u)'
  <2> USE DEF TypeInv, TypeOK
  <2>1. CASE SetPlan(r)
    <3>1. req[r].plan \in PaidPlan => Entitled(req[r].t)
      BY <1>3, <2>1, AwaitsBacked DEF SetPlan, Backed
    <3>2. PICK t \in Tenant : t = req[r].t
      BY <1>4
    <3>3. req[r].plan \in PaidPlan => Entitled(t)'
      BY <1>2, <3>1, <3>2, EntitledLasts
    <3>4. /\ \A u \in Tenant \ {t} : tenant'[u] = tenant[u]
          /\ tenant'[t].plan \in {req[r].plan, tenant[t].plan}
      BY <2>1, <3>2 DEF SetPlan, AssignPlan, TenantDoc
    <3> QED
      BY <3>3, <3>4
  <2>2. CASE EraseTenantStep(r)
    BY <1>4, <2>2, EmailsNotNone DEF EraseTenantStep, EraseTenant, NoTenant
  <2>3. CASE ActivateWriteStep(r)
    BY <1>4, <2>3 DEF ActivateWriteStep, ActivateWrite, TenantDoc
  <2>4. CASE GoActive(r)
    BY <1>4, <2>4 DEF GoActive, SetStatus, TenantDoc
  <2> QED
    BY <2>1, <2>2, <2>3, <2>4
<1> QED
  BY <1>1, <1>2, <1>5, <1>6, CauseKept

\* What the writes on a subscription make of it.
LEMMA SubWrites ==
  ASSUME NEW t \in Tenant, NEW s \in SubDoc, SubSound(t, s)
  PROVE  /\ SubSound(t, NoSub)
         /\ SubSound(t, Cancelled(s))
         /\ SubSound(t, [s EXCEPT !.dated = TRUE])
         /\ \A plan \in PaidPlan :
              SubSound(t, Opened(t, plan)) /\ (Entitled(t) => SubSound(t, Authorized(s, plan)))
         /\ \A p \in Preapproval, st \in MpStatus :
              mp[p].payer = EmailOf[t] /\ (st = "authorized" => Entitled(t)) =>
                SubSound(t, Assigned(s, st, p))
         /\ \A st \in MpStatus, d \in BOOLEAN :
              (st = "authorized" => Entitled(t)) =>
                SubSound(t, [s EXCEPT !.status = st, !.dated = d])
  BY DEF SubSound, NoSub, Cancelled, Opened, Authorized, Assigned, SubDoc

\* The awaits that write subscriptions.
LEMMA SubStepCause ==
  ASSUME TypeInv, CauseInv, NEW r \in Req,
         \/ EraseSub(r) \/ SyncSub(r) \/ OpenSub(r) \/ SubStatusStep(r)
         \/ GrantSub(r) \/ Assign(r) \/ Stamp(r)
  PROVE  CauseInv'
<1>1. /\ req[r].todo # <<>> /\ ~Untold(req[r]) /\ Proceed(r)
      /\ UNCHANGED <<tenant, mp, granted>>
  BY DEF EraseSub, SyncSub, OpenSub, SubStatusStep, GrantSub, Assign, Stamp,
         Awaits, Untold, world
<1>2. Lasting /\ Issued'
  BY <1>1, WorldLasts
<1>3. Ready(req[r]) /\ Sound(req[r])
  BY DEF TypeInv, HandlersReady, CauseInv
<1>4. \A q \in Req : \E g : req'[q] = g /\ Sound(g)'
  BY <1>1, <1>2, ProceedSound
<1>5. ASSUME NEW t \in Tenant, NEW s, SubSound(t, s), sub' = [sub EXCEPT ![t] = s]
      PROVE  CauseInv'
  <2>1. SubSound(t, s)'
    BY <1>1, <1>5 DEF SubSound, Entitled
  <2>2. \A u \in Tenant : sub'[u] = sub[u] \/ \E x : sub'[u] = x /\ SubSound(u, x)'
    BY <1>5, <2>1 DEF TypeInv, TypeOK
  <2> QED
    BY <1>1, <1>2, <1>4, <2>2, CauseKept
<1>6. CASE UNCHANGED sub
  BY <1>1, <1>2, <1>4, <1>6, CauseKept
<1>7. /\ \A t \in Tenant : sub[t] \in SubDoc /\ SubSound(t, sub[t])
      /\ sub \in [Tenant -> SubDoc]
  BY DEF TypeInv, TypeOK, CauseInv
<1>8. CASE Stamp(r)
  <2>1. ASSUME NEW t \in Tenant, sub' = [sub EXCEPT ![t].dated = TRUE]
        PROVE  CauseInv'
    <3>1. SubSound(t, [sub[t] EXCEPT !.dated = TRUE])
      BY <1>7, SubWrites
    <3> QED
      BY <1>5, <2>1, <3>1
  <2> QED
    BY <1>6, <1>8, <2>1 DEF Stamp
<1>9. CASE ~Stamp(r)
  <2>1. req[r].t \in Tenant
    BY <1>3, <1>9, AwaitsReady
       DEF EraseSub, SyncSub, OpenSub, SubStatusStep, GrantSub, Assign, StepReady
  <2>2. PICK t \in Tenant : t = req[r].t
    BY <2>1
  <2>3. CASE EraseSub(r)
    BY <1>5, <1>6, <1>7, <2>2, <2>3, SubWrites DEF EraseSub
  <2>4. CASE SyncSub(r)
    <3>1. req[r].plan \in Plan /\ (req[r].plan \in PaidPlan => Entitled(t))
      BY <1>3, <2>2, <2>4, AwaitsReady, AwaitsBacked DEF SyncSub, StepReady, Backed
    <3>2. sub' = [sub EXCEPT ![t] = IF req[r].plan = "free"
                                      THEN Cancelled(sub[t])
                                      ELSE Authorized(sub[t], req[r].plan)]
      BY <2>2, <2>4 DEF SyncSub
    <3>3. CASE req[r].plan = "free"
      <4>1. SubSound(t, Cancelled(sub[t]))
        BY <1>7, SubWrites
      <4>2. sub' = [sub EXCEPT ![t] = Cancelled(sub[t])]
        BY <3>2, <3>3
      <4> QED
        BY <1>5, <4>1, <4>2
    <3>4. CASE req[r].plan # "free"
      <4>1. SubSound(t, Authorized(sub[t], req[r].plan))
        BY <1>7, <3>1, <3>4, SubWrites DEF Plan
      <4>2. sub' = [sub EXCEPT ![t] = Authorized(sub[t], req[r].plan)]
        BY <3>2, <3>4
      <4> QED
        BY <1>5, <4>1, <4>2
    <3> QED
      BY <3>3, <3>4
  <2>5. CASE OpenSub(r)
    <3>1. req[r].plan \in PaidPlan
      BY <1>3, <2>5, AwaitsReady DEF OpenSub, StepReady
    <3> QED
      BY <1>5, <1>7, <2>2, <2>5, <3>1, SubWrites DEF OpenSub
  <2>6. CASE GrantSub(r)
    <3>1. req[r].plan \in PaidPlan /\ Entitled(t)
      BY <1>3, <2>2, <2>6, AwaitsReady, AwaitsBacked DEF GrantSub, StepReady, Backed
    <3>2. SubSound(t, Authorized(sub[t], req[r].plan))
      BY <1>7, <3>1, SubWrites
    <3>3. sub' = [sub EXCEPT ![t] = Authorized(sub[t], req[r].plan)]
      BY <2>2, <2>6 DEF GrantSub
    <3> QED
      BY <1>5, <3>2, <3>3
  <2>7. ASSUME SubStatusStep(r) \/ Assign(r)
        PROVE  /\ req[r].status \in MpStatus /\ req[r].pre \in Preapproval
               /\ mp[req[r].pre].payer = EmailOf[t]
               /\ req[r].status = "authorized" => Entitled(t)
    <3>1. /\ req[r].status \in MpStatus /\ req[r].pre \in Preapproval
          /\ mp[req[r].pre].payer = EmailOf[t]
          /\ req[r].status = "authorized" => mp[req[r].pre].paid
      BY <1>1, <1>3, <2>2, <2>7, AwaitsReady, AwaitsBacked
         DEF SubStatusStep, Assign, StepReady, Backed
    <3> QED
      BY <3>1 DEF Entitled
  <2>8. CASE Assign(r)
    <3>1. SubSound(t, Assigned(sub[t], req[r].status, req[r].pre))
      BY <1>7, <2>7, <2>8, SubWrites
    <3>2. sub' = [sub EXCEPT ![t] = Assigned(sub[t], req[r].status, req[r].pre)]
      BY <2>2, <2>8 DEF Assign
    <3> QED
      BY <1>5, <3>1, <3>2
  <2>9. CASE SubStatusStep(r)
    <3>1. PICK d : d = (sub[t].dated \/ req[r].op = "cancel")
      OBVIOUS
    <3>2. d \in BOOLEAN
      BY <3>1
    <3>3. sub' = sub \/ sub' = [sub EXCEPT ![t] = [@ EXCEPT !.status = req[r].status,
                                                            !.dated = d]]
      BY <1>7, <2>2, <2>9, <3>1 DEF SubStatusStep, SubDoc
    <3>4. SubSound(t, [sub[t] EXCEPT !.status = req[r].status, !.dated = d])
      BY <1>7, <2>7, <2>9, <3>2, SubWrites
    <3> QED
      BY <1>5, <1>6, <3>3, <3>4
  <2> QED
    BY <1>9, <2>3, <2>4, <2>5, <2>6, <2>8, <2>9
<1> QED
  BY <1>8, <1>9

\* MercadoPago changes preapprovals that were issued, and issues new ones.
LEMMA MpChangeLasts ==
  ASSUME TypeInv, Issued, NEW p \in Preapproval, NEW st \in MpStatus,
         MpChange(p, st), granted \subseteq granted'
  PROVE  /\ Lasting /\ Issued'
         /\ st = "authorized" => mp'[p].paid
<1>1. mp[p].status # "none"
  BY DEF MpChange, MpAccepts
<1>2. /\ \A q \in Preapproval \ {p} : mp'[q] = mp[q]
      /\ mp'[p].status = st /\ mp'[p].payer = mp[p].payer
      /\ mp[p].paid => mp'[p].paid
      /\ st = "authorized" => mp'[p].paid
  BY DEF MpChange, TypeInv, TypeOK, MpRecord
<1>3. st # "none"
  BY DEF MpStatus
<1> QED
  BY <1>1, <1>2, <1>3 DEF Lasting, Issued

LEMMA MpSetCause ==
  ASSUME TypeInv, CauseInv, NEW r \in Req, MpSet(r)
  PROVE  CauseInv'
<1>1. UNCHANGED <<tenant, sub, granted>>
  BY DEF MpSet
<1>2. /\ req[r].pre \in Preapproval /\ req[r].status \in MpStatus
      /\ req[r].todo # <<>>
  BY AwaitsReady DEF TypeInv, HandlersReady, MpSet, StepReady, Awaits
<1>3. CASE MpChange(req[r].pre, req[r].status) /\ Proceed(r)
  <2>1. PICK p \in Preapproval : p = req[r].pre
    BY <1>2
  <2>2. /\ Lasting /\ Issued'
        /\ req[r].status = "authorized" => mp'[req[r].pre].paid
    BY <1>1, <1>2, <1>3, <2>1, MpChangeLasts DEF CauseInv
  <2>3. \A q \in Req : \E g : req'[q] = g /\ Sound(g)'
    BY <1>2, <1>3, <2>2, ProceedSound
  <2> QED
    BY <1>1, <2>2, <2>3, CauseKept
<1>4. CASE Throw(r) /\ UNCHANGED mp
  <2>1. Lasting /\ Issued'
    BY <1>1, <1>4, WorldLasts
  <2> QED
    BY <1>1, <1>4, <2>1, ThrowSound, CauseKept
<1> QED
  BY <1>3, <1>4 DEF MpSet

LEMMA InvoiceCause ==
  ASSUME TypeInv, CauseInv, NEW r \in Req, Invoice(r)
  PROVE  CauseInv'
<1>1. /\ UNCHANGED <<tenant, mp, sub, granted>> /\ Proceed(r)
      /\ req[r].todo # <<>> /\ ~Untold(req[r])
  BY DEF Invoice, Awaits, Untold
<1>2. Lasting /\ Issued'
  BY <1>1, WorldLasts
<1> QED
  BY <1>1, <1>2, ProceedSound, CauseKept

\* A webhook begins with what MercadoPago says of the preapproval.
LEMMA DeliverCause ==
  ASSUME TypeInv, CauseInv, NEW r \in Req, NEW p \in Preapproval, Deliver(r, p)
  PROVE  CauseInv'
<1>1. UNCHANGED <<tenant, mp, sub, granted>>
  BY DEF Deliver, world
<1>2. Lasting /\ Issued'
  BY <1>1, WorldLasts
<1>3. PICK st : st = mp[p].status
  OBVIOUS
<1>4. mp'[p].payer # None /\ (st = "authorized" => mp'[p].paid)
  BY <1>1, <1>3 DEF Deliver, TypeInv, HandlersReady, CauseInv, Issued
<1> DEFINE h == Request("webhook", None, p, None, st, <<"findByPre">>)
<1>5. h.op = "webhook" /\ h.pre = p /\ h.status = st /\ h.todo = <<"findByPre">>
  BY DEF Request
<1>6. Begin(r, h)
  BY <1>3 DEF Deliver
<1> HIDE DEF h
<1>7. {"findByPre"} \subseteq {x \in Step : Backed(h, x)'}
  BY <1>4, <1>5 DEF Backed, Step
<1>8. h.todo \in Seq({x \in Step : Backed(h, x)'})
  <2>1. <<"findByPre">> \in Seq({"findByPre"})
    OBVIOUS
  <2> QED
    BY <1>5, <1>7, <2>1
<1>9. Sound(h)'
  BY <1>5, <1>8 DEF Sound
<1> QED
  BY <1>1, <1>2, <1>6, <1>9, BeginSound, CauseKept

\* A webhook goes on with a subscription that is its payer's.
LEMMA FoundCause ==
  ASSUME TypeInv, CauseInv, UNCHANGED <<mp, granted>>, NEW r \in Req, NEW t \in Tenant,
         Found(r, t), req[r].status \in MpStatus, req[r].pre \in Preapproval,
         mp[req[r].pre].payer = EmailOf[t],
         req[r].status = "authorized" => mp[req[r].pre].paid
  PROVE  \A q \in Req : \E g : req'[q] = g /\ Sound(g)'
<1>1. Lasting
  BY WorldLasts
<1>w. PICK was : was = (sub[t].status = "authorized")
  OBVIOUS
<1>n. PICK plan :
         plan = CASE req[r].status = "authorized" ->
                       IF sub[t].planName = None THEN "enterprise"
                                                 ELSE sub[t].planName
                  [] req[r].status = "cancelled" -> "free"
                  [] OTHER -> None
  OBVIOUS
<1>2. /\ was \in BOOLEAN
      /\ req[r].status # "authorized" => plan \notin PaidPlan
      /\ Begin(r, [req[r] EXCEPT !.t = t, !.was = was, !.plan = plan,
                                 !.todo = Route(req[r].status, was)])
  <2>1. was \in BOOLEAN
    BY <1>w
  <2>2. req[r].status # "authorized" => plan \notin PaidPlan
    BY <1>n, EmailsNotNone
  <2>3. Begin(r, [req[r] EXCEPT !.t = t, !.was = was, !.plan = plan,
                                !.todo = Route(req[r].status, was)])
    BY <1>w, <1>n DEF Found
  <2> QED
    BY <2>1, <2>2, <2>3
<1>3. PICK st, p : st = req[r].status /\ p = req[r].pre
  OBVIOUS
<1>4. PICK h : h = [req[r] EXCEPT !.t = t, !.was = was, !.plan = plan,
                                  !.todo = Route(req[r].status, was)]
  OBVIOUS
<1>5. /\ h.t = t /\ h.pre = p /\ h.status = st /\ h.plan = plan
      /\ h.todo = Route(st, was)
  BY <1>3, <1>4 DEF TypeInv, TypeOK, Handler
<1> DEFINE T == IF st \in {"authorized", "cancelled"}
                  THEN {"setPlan", "syncSub", "goActive", "assign", "invoice", "stamp"}
                  ELSE {"assign"}
<1>6. Route(st, was) \in Seq(T)
  BY <1>2, <1>3, RouteSteps
<1>7. /\ mp'[p].payer = EmailOf[t] /\ p \in Preapproval
      /\ st = "authorized" => mp'[p].paid /\ Entitled(t)'
      /\ st # "authorized" => plan \notin PaidPlan
  BY <1>2, <1>3 DEF Entitled
<1>8. T \subseteq {x \in Step : Backed(h, x)'}
  BY <1>5, <1>7 DEF Backed, Step, Entitled
<1>9. h.todo \in Seq({x \in Step : Backed(h, x)'})
  <2> HIDE DEF T
  <2> QED
    BY <1>5, <1>6, <1>8
<1>10. Sound(h)'
  BY <1>5, <1>7, <1>9 DEF Sound
<1>11. Begin(r, h)
  BY <1>2, <1>4
<1> QED
  BY <1>1, <1>10, <1>11, BeginSound

LEMMA FindCause ==
  ASSUME TypeInv, CauseInv, NEW r \in Req, FindByPre(r) \/ FindByEmail(r)
  PROVE  CauseInv'
<1>1. UNCHANGED <<tenant, mp, sub, granted>>
  BY DEF FindByPre, FindByEmail, world
<1>2. Lasting /\ Issued'
  BY <1>1, WorldLasts
<1>3. SUFFICES \A q \in Req : \E g : req'[q] = g /\ Sound(g)'
  BY <1>1, <1>2, CauseKept
<1>4. Ready(req[r]) /\ Sound(req[r]) /\ ~Untold(req[r])
  BY DEF TypeInv, HandlersReady, CauseInv, FindByPre, FindByEmail, Awaits, Untold
<1>5. /\ req[r].pre \in Preapproval /\ req[r].status \in MpStatus
      /\ mp[req[r].pre].payer # None
      /\ req[r].status = "authorized" => mp[req[r].pre].paid
  BY <1>4, AwaitsReady, AwaitsBacked DEF FindByPre, FindByEmail, StepReady, Backed
<1>6. ASSUME NEW t \in Tenant, Found(r, t),
             \/ sub[t].pre = req[r].pre
             \/ sub[t].email = mp[req[r].pre].payer
      PROVE  \A q \in Req : \E g : req'[q] = g /\ Sound(g)'
  <2>1. mp[req[r].pre].payer = EmailOf[t]
    BY <1>5, <1>6, EmailsNotNone DEF CauseInv, SubSound
  <2> QED
    BY <1>1, <1>5, <1>6, <2>1, FoundCause
<1>7. CASE Begin(r, [req[r] EXCEPT !.todo = <<"findByEmail">>])
  <2>1. PICK h, p : p = req[r].pre /\ h = [req[r] EXCEPT !.todo = <<"findByEmail">>]
    OBVIOUS
  <2>2. /\ h.todo = <<"findByEmail">> /\ h.pre = p /\ h.status = req[r].status
        /\ h.op = req[r].op /\ h.t = req[r].t
    BY <2>1 DEF TypeInv, TypeOK, Handler
  <2>3. {"findByEmail"} \subseteq {x \in Step : Backed(h, x)'}
    BY <1>1, <1>5, <2>1, <2>2 DEF Backed, Step
  <2>4. h.todo \in Seq({x \in Step : Backed(h, x)'})
    <3>1. <<"findByEmail">> \in Seq({"findByEmail"})
      OBVIOUS
    <3> QED
      BY <2>2, <2>3, <3>1
  <2>5. Sound(h)'
    BY <1>1, <1>4, <2>1, <2>2, <2>4 DEF Sound
  <2>6. Begin(r, h)
    BY <1>7, <2>1
  <2> QED
    BY <1>2, <2>5, <2>6, BeginSound
<1>8. CASE Begin(r, Idle)
  <2>1. Sound(Idle)'
    BY DEF Sound, Idle
  <2> QED
    BY <1>2, <1>8, <2>1, BeginSound
<1> QED
  BY <1>6, <1>7, <1>8 DEF FindByPre, FindByEmail

LEMMA CustomerCause ==
  ASSUME TypeInv, CauseInv, NEW p \in Preapproval, NEW st \in MpStatus,
         MpSite(p, st) \/ \E t \in Tenant : Pay(t, p, st)
  PROVE  CauseInv'
<1>1. UNCHANGED <<tenant, sub, req, granted>>
  BY DEF MpSite, Pay
<1>2. Issued
  BY DEF CauseInv
<1>3. Lasting /\ Issued'
  <2>1. CASE MpSite(p, st)
    BY <1>1, <1>2, <2>1, MpChangeLasts DEF MpSite
  <2>2. ASSUME NEW t \in Tenant, Pay(t, p, st)
        PROVE  Lasting /\ Issued'
    <3>1. PICK e \in Email : MpSubscribe(p, e, st)
      BY <2>2, BillingAssumption DEF Pay
    <3>2. /\ \A q \in Preapproval \ {p} : mp'[q] = mp[q]
          /\ mp'[p].status = st /\ mp'[p].payer = e
          /\ mp'[p].paid <=> st = "authorized"
          /\ mp[p].payer = None /\ ~mp[p].paid
      BY <1>2, <3>1 DEF MpSubscribe, TypeInv, TypeOK, Issued
    <3>3. st # "none" /\ e # None
      BY EmailsNotNone DEF MpStatus
    <3> QED
      BY <1>1, <1>2, <3>2, <3>3 DEF Lasting, Issued
  <2> QED
    BY <2>1, <2>2
<1> QED
  BY <1>1, <1>3, SlotsSound, CauseKept

LEMMA CauseStep == TypeInv /\ CauseInv /\ [Next]_vars => CauseInv'
<1> SUFFICES ASSUME TypeInv, CauseInv, [Next]_vars PROVE CauseInv'
  OBVIOUS
<1>1. CASE TenantRequest
  BY <1>1, TenantWriteCause, RequestCause DEF TenantRequest
<1>2. CASE BillingRequest
  BY <1>2, RequestCause DEF BillingRequest
<1>3. CASE Webhook
  BY <1>3, DeliverCause DEF Webhook
<1>4. CASE Customer
  BY <1>4, CustomerCause DEF Customer
<1>5. ASSUME NEW r \in Req, Continue(r)
      PROVE  CauseInv'
  BY <1>5, TenantStepCause, SubStepCause, MpSetCause, InvoiceCause, FindCause
     DEF Continue
<1>6. ASSUME NEW r \in Req, Fail(r)
      PROVE  CauseInv'
  <2>1. UNCHANGED <<tenant, mp, sub, granted>> /\ Throw(r)
    BY <1>6 DEF Fail, world
  <2>2. Lasting /\ Issued'
    BY <2>1, WorldLasts
  <2> QED
    BY <2>1, <2>2, ThrowSound, CauseKept
<1>7. CASE UNCHANGED vars
  <2>1. Lasting /\ Issued' /\ UNCHANGED <<tenant, sub, req>>
    BY <1>7, WorldLasts DEF vars
  <2> QED
    BY <2>1, SlotsSound, CauseKept
<1> QED
  BY <1>1, <1>2, <1>3, <1>4, <1>5, <1>6, <1>7 DEF Next

\* Nobody has a paid plan, or a subscription that says authorized, but who paid
\* with its own e-mail or was given it by an administrator, whatever requests,
\* webhooks, errors and deletions interleave.
THEOREM PaidPlansHaveCause == Spec => []PaidPlanHasCause
<1>1. CauseInv => PaidPlanHasCause
  BY DEF CauseInv, SubSound, PaidPlanHasCause
<1> QED
  BY <1>1, TypeInit, TypeStep, CauseInit, CauseStep, PTL DEF Spec

\* A subscription, and a cancel, pause or resume on its way, never has the
\* preapproval of another customer.
THEOREM PreapprovalsAreOwn == Spec => []PreapprovalIsOwn
<1>1. CauseInv => PreapprovalIsOwn
  BY DEF CauseInv, SubSound, Sound, PreapprovalIsOwn
<1> QED
  BY <1>1, TypeInit, TypeStep, CauseInit, CauseStep, PTL DEF Spec

-----------------------------------------------------------------------------
(***************************************************************************)
(* Cancellations: what a subscription shows as cancelled is not charged.   *)
(* The property speaks of the documents only; a cancellation in flight has *)
(* to be about the preapproval that the subscription holds when it writes, *)
(* and to have ended that before.                                          *)
(***************************************************************************)

\* What an await writes as cancelled has ended at MercadoPago, or is part of
\* a cancellation.
Meant(h, step) ==
  /\ step \in {"findByPre", "findByEmail", "assign"} /\ h.status = "cancelled" =>
       mp[h.pre].status = "cancelled"
  /\ step = "subStatus" /\ h.status = "cancelled" => h.plan = "free"
  /\ step = "mpSet" /\ h.plan = "free" => h.status = "cancelled"

\* A cancellation tells MercadoPago first, and the webhook of one stores its
\* preapproval first; from then on it is about what the subscription holds.
Honest(h) ==
  /\ h.todo \in Seq({step \in Step : Meant(h, step)})
  /\ h.plan = "free" /\ h.t \notin crossed =>
       /\ h.pre \in Preapproval
       /\ h.todo = CancelSteps \/ mp[h.pre].status = "cancelled"
       /\ h.todo = Route("cancelled", FALSE) \/ sub[h.t].pre \in {None, h.pre}

\* A subscription in the state s of tenant t shows no more than what ended.
Settled(t, s) ==
  /\ s.status = "none" => s.pre = None
  /\ t \notin crossed /\ s.status = "cancelled" /\ s.pre # None =>
       mp[s.pre].status = "cancelled"

EndInv ==
  /\ \A t \in Tenant : Settled(t, sub[t])
  /\ \A r \in Req : Honest(req[r])

\* A cancelled preapproval stays so.
Final ==
  \A p \in Preapproval : mp[p].status = "cancelled" => mp'[p].status = "cancelled"

\* The step leaves the cancellation h its subscription, unless it crosses it.
Undisturbed(h) ==
  h.plan = "free" /\ h.t \notin crossed' =>
    h.t \notin crossed /\ sub'[h.t].pre \in {None, sub[h.t].pre, h.pre}

LEMMA IdleHonest == Honest(Idle) /\ Honest(Idle)'
<1>1. Idle.plan # "free"
  BY BillingAssumption DEF Plan, Idle
<1>2. Idle.todo = <<>>
  BY DEF Idle
<1>3. Honest(Idle)
  <2>1. Idle.todo \in Seq({step \in Step : Meant(Idle, step)})
    BY <1>2
  <2> QED
    BY <1>1, <2>1 DEF Honest
<1>4. Honest(Idle)'
  <2>1. Idle.todo \in Seq({step \in Step : Meant(Idle, step)'})
    BY <1>2
  <2> QED
    BY <1>1, <2>1 DEF Honest
<1> QED
  BY <1>3, <1>4

LEMMA EndInit == Init => EndInv
<1> SUFFICES ASSUME Init PROVE EndInv
  OBVIOUS
<1>1. \A t \in Tenant : Settled(t, sub[t])
  BY DEF Init, NoSub, Settled
<1>2. \A r \in Req : Honest(req[r])
  BY IdleHonest DEF Init
<1> QED
  BY <1>1, <1>2 DEF EndInv

LEMMA HonestLasts ==
  ASSUME Final, NEW h, Ready(h), Honest(h), Undisturbed(h)
  PROVE  Honest(h)'
<1> DEFINE S == {step \in Step : StepReady(h, step)}
           T == {step \in Step : Meant(h, step)}
<1>1. h.todo \in Seq(S \cap T)
  BY SeqOfBoth DEF Ready, Honest
<1>2. S \cap T \subseteq {step \in Step : Meant(h, step)'}
  BY DEF Final, Meant, StepReady
<1>3. h.todo \in Seq({step \in Step : Meant(h, step)'})
  <2> HIDE DEF S, T
  <2> QED
    BY <1>1, <1>2
<1>4. h.plan = "free" /\ h.t \notin crossed' =>
        /\ h.pre \in Preapproval
        /\ h.todo = CancelSteps \/ mp'[h.pre].status = "cancelled"
        /\ h.todo = Route("cancelled", FALSE) \/ sub'[h.t].pre \in {None, h.pre}
  BY DEF Honest, Undisturbed, Final
<1> QED
  BY <1>3, <1>4 DEF Honest

\* What is left of a handler is honest, once MercadoPago was told and the
\* preapproval stored.
LEMMA TailHonest ==
  ASSUME NEW h, Ready(h), Honest(h)', h.todo # <<>>,
         Head(h.todo) = "mpSet" /\ h.plan = "free" => mp'[h.pre].status = "cancelled",
         Head(h.todo) = "assign" /\ h.plan = "free" /\ h.t \notin crossed' =>
           sub'[h.t].pre \in {None, h.pre}
  PROVE  Honest([h EXCEPT !.todo = Tail(h.todo)])'
<1> DEFINE S == {x \in Step : Meant(h, x)'}
           g == [h EXCEPT !.todo = Tail(h.todo)]
<1>1. h.todo \in Seq(S) /\ h.todo \in Seq(Step) /\ h \in Handler
  BY DEF Honest, Ready, Handler
<1>2. Tail(h.todo) \in Seq(S) /\ Tail(h.todo) \in Seq(Step)
  BY <1>1, HeadTailProperties
<1>3. g.t = h.t /\ g.plan = h.plan /\ g.pre = h.pre /\ g.status = h.status
      /\ g.todo = Tail(h.todo)
  BY <1>1 DEF Handler
<1> HIDE DEF g
<1>4. S \subseteq {x \in Step : Meant(g, x)'}
  BY <1>3 DEF Meant
<1>5. g.todo \in Seq({x \in Step : Meant(g, x)'})
  <2> HIDE DEF S
  <2> QED
    BY <1>2, <1>3, <1>4
<1>6. h.todo = CancelSteps => Head(h.todo) = "mpSet"
  BY DEF CancelSteps
<1>7. h.todo = Route("cancelled", FALSE) => Head(h.todo) = "assign"
  BY DEF Route
<1>8. h.plan = "free" /\ h.t \notin crossed' =>
        /\ h.pre \in Preapproval
        /\ mp'[h.pre].status = "cancelled"
        /\ sub'[h.t].pre \in {None, h.pre}
  BY <1>6, <1>7 DEF Honest
<1>9. Honest(g)'
  BY <1>3, <1>5, <1>8 DEF Honest
<1> QED
  BY <1>9 DEF g

\* A step keeps the invariant if what it writes does.
LEMMA EndKept ==
  ASSUME TypeInv, EndInv, Final,
         \A t \in Tenant :
           \/ sub'[t] = sub[t] /\ (t \in crossed => t \in crossed')
           \/ \E s : sub'[t] = s /\ Settled(t, s)',
         \A r \in Req : \E h : req'[r] = h /\ Honest(h)'
  PROVE  EndInv'
<1>1. \A t \in Tenant : Settled(t, sub[t]) /\ sub[t].pre \in Preapproval \cup {None}
  BY DEF EndInv, TypeInv, TypeOK, SubDoc
<1>2. ASSUME NEW t \in Tenant
      PROVE  Settled(t, sub[t])'
  <2>1. CASE sub'[t] = sub[t] /\ (t \in crossed => t \in crossed')
    BY <1>1, <2>1 DEF Settled, Final
  <2>2. CASE (\E s : sub'[t] = s /\ Settled(t, s)')
    BY <2>2 DEF Settled
  <2> QED
    BY <2>1, <2>2
<1>3. ASSUME NEW r \in Req
      PROVE  Honest(req[r])'
  <2>1. PICK h : req'[r] = h /\ Honest(h)'
    OBVIOUS
  <2> QED
    BY <2>1 DEF Honest, Meant
<1> QED
  BY <1>2, <1>3 DEF EndInv

\* The slots after a handler began, went on, or ended.
LEMMA BeginHonest ==
  ASSUME TypeInv, EndInv, Final, NEW r \in Req, NEW h, Honest(h)', Begin(r, h),
         \A q \in Req \ {r} : Undisturbed(req[q])
  PROVE  \A q \in Req : \E g : req'[q] = g /\ Honest(g)'
<1>1. \A q \in Req \ {r} : req'[q] = req[q] /\ Ready(req[q]) /\ Honest(req[q])
  BY DEF Begin, TypeInv, TypeOK, HandlersReady, EndInv
<1>2. ASSUME NEW q \in Req \ {r}
      PROVE  \E g : req'[q] = g /\ Honest(g)'
  <2>1. PICK g : g = req[q]
    OBVIOUS
  <2>2. Undisturbed(g)
    BY <2>1 DEF Undisturbed
  <2>3. Honest(g)'
    BY <1>1, <2>1, <2>2, HonestLasts
  <2> QED
    BY <1>1, <2>1, <2>3
<1>3. req'[r] = h
  BY DEF Begin, TypeInv, TypeOK
<1> QED
  BY <1>2, <1>3

LEMMA SlotsHonest ==
  ASSUME TypeInv, EndInv, Final, UNCHANGED req, \A q \in Req : Undisturbed(req[q])
  PROVE  \A q \in Req : \E g : req'[q] = g /\ Honest(g)'
<1> TAKE q \in Req
<1>1. PICK g : g = req[q]
  OBVIOUS
<1>2. Ready(g) /\ Honest(g) /\ Undisturbed(g)
  BY <1>1 DEF TypeInv, HandlersReady, EndInv, Undisturbed
<1> QED
  BY <1>1, <1>2, HonestLasts

LEMMA ThrowHonest ==
  ASSUME TypeInv, EndInv, Final, NEW r \in Req, Throw(r),
         \A q \in Req : Undisturbed(req[q])
  PROVE  \A q \in Req : \E g : req'[q] = g /\ Honest(g)'
<1>1. Begin(r, Idle)
  BY DEF Throw, Begin
<1> QED
  BY <1>1, IdleHonest, BeginHonest

LEMMA ProceedHonest ==
  ASSUME TypeInv, EndInv, Final, NEW r \in Req, NEW step, Awaits(r, step), Proceed(r),
         \A q \in Req : Undisturbed(req[q]),
         step = "mpSet" /\ req[r].plan = "free" => mp'[req[r].pre].status = "cancelled",
         step = "assign" /\ req[r].plan = "free" /\ req[r].t \notin crossed' =>
           sub'[req[r].t].pre \in {None, req[r].pre}
  PROVE  \A q \in Req : \E g : req'[q] = g /\ Honest(g)'
<1>1. PICK h : h = req[r]
  OBVIOUS
<1>2. Ready(h) /\ Honest(h) /\ Undisturbed(h)
  BY <1>1 DEF TypeInv, HandlersReady, EndInv, Undisturbed
<1>3. h.todo # <<>> /\ Head(h.todo) = step
  BY <1>1 DEF Awaits
<1>4. Honest([h EXCEPT !.todo = Tail(h.todo)])'
  BY <1>1, <1>2, <1>3, HonestLasts, TailHonest
<1>5. Begin(r, Idle) \/ Begin(r, [h EXCEPT !.todo = Tail(h.todo)])
  BY <1>1 DEF Proceed, Begin
<1> QED
  BY <1>4, <1>5, IdleHonest, BeginHonest

\* The await that a handler has come to: what it writes as cancelled.
LEMMA AwaitsMeant ==
  ASSUME NEW r \in Req, Honest(req[r]), NEW step, Awaits(r, step)
  PROVE  /\ Meant(req[r], step)
         /\ step # "mpSet" /\ req[r].plan = "free" /\ req[r].t \notin crossed =>
              mp[req[r].pre].status = "cancelled"
         /\ step # "assign" /\ req[r].plan = "free" /\ req[r].t \notin crossed =>
              sub[req[r].t].pre \in {None, req[r].pre}
<1> DEFINE S == {x \in Step : Meant(req[r], x)}
<1>1. req[r].todo \in Seq(S) /\ req[r].todo # <<>> /\ Head(req[r].todo) = step
  BY DEF Honest, Awaits
<1>2. Head(req[r].todo) \in S
  BY <1>1, HeadTailProperties
<1>3. req[r].todo = CancelSteps => Head(req[r].todo) = "mpSet"
  BY DEF CancelSteps
<1>4. req[r].todo = Route("cancelled", FALSE) => Head(req[r].todo) = "assign"
  BY DEF Route
<1> QED
  BY <1>1, <1>2, <1>3, <1>4 DEF Honest

\* A step that leaves MercadoPago and the subscriptions alone.
LEMMA SubsSame ==
  ASSUME UNCHANGED <<mp, sub>>, crossed \subseteq crossed'
  PROVE  Final /\ \A q \in Req : Undisturbed(req[q])
  BY DEF Final, Undisturbed

\* The inputs of the requests are honest.
LEMMA RequestsHonest ==
  ASSUME NEW t \in Tenant
  PROVE  /\ Honest(Request("activate", t, None, None, None, <<"activateWrite">>))'
         /\ Honest(Request("hardDelete", t, None, None, None,
                           <<"eraseSub", "eraseTenant">>))'
         /\ \A plan \in Plan : (plan = "free" => t \in crossed') =>
              Honest(Request("updatePlan", t, None, plan, None, <<"syncSub">>))'
         /\ \A plan \in PaidPlan :
              /\ Honest(Request("checkout", t, None, plan, None, <<"openSub">>))'
              /\ Honest(Request("manualActivate", t, None, plan, None,
                   <<"grantSub", "setPlan", "syncSub", "goActive", "invoice">>))'
         /\ \A p \in Preapproval : sub'[t].pre = p =>
              Honest(Request("cancel", t, p, "free", "cancelled", CancelSteps))'
         /\ \A p \in Preapproval :
              /\ Honest(Request("pause", t, p, None, "paused",
                                <<"mpSet", "subStatus">>))'
              /\ Honest(Request("resume", t, p, None, "authorized",
                                <<"mpSet", "subStatus">>))'
<1>n. None # "free" /\ "free" \notin PaidPlan
  BY BillingAssumption DEF Plan, PaidPlan
<1>1. ASSUME NEW op, NEW p, NEW plan, NEW st, NEW todo, NEW T \in SUBSET Step,
             todo \in Seq(T),
             \A x \in T : Meant(Request(op, t, p, plan, st, todo), x)',
             \/ plan # "free" \/ t \in crossed'
             \/ todo = CancelSteps /\ p \in Preapproval /\ sub'[t].pre = p
      PROVE  Honest(Request(op, t, p, plan, st, todo))'
  <2> DEFINE h == Request(op, t, p, plan, st, todo)
  <2>1. h.t = t /\ h.plan = plan /\ h.pre = p /\ h.todo = todo
    BY DEF Request
  <2>2. T \subseteq {x \in Step : Meant(h, x)'}
    BY <1>1
  <2>3. h.todo \in Seq({x \in Step : Meant(h, x)'})
    <3> HIDE DEF h
    <3> QED
      BY <1>1, <2>1, <2>2
  <2>4. Honest(h)'
    <3> HIDE DEF h
    <3> QED
      BY <1>1, <2>1, <2>3 DEF Honest
  <2> QED
    BY <2>4
<1>2. Honest(Request("activate", t, None, None, None, <<"activateWrite">>))'
  <2>1. /\ <<"activateWrite">> \in Seq({"activateWrite"})
        /\ {"activateWrite"} \in SUBSET Step
    BY DEF Step
  <2> QED
    BY <1>n, <1>1, <2>1 DEF Meant, Request
<1>3. Honest(Request("hardDelete", t, None, None, None, <<"eraseSub", "eraseTenant">>))'
  <2>1. /\ <<"eraseSub", "eraseTenant">> \in Seq({"eraseSub", "eraseTenant"})
        /\ {"eraseSub", "eraseTenant"} \in SUBSET Step
    BY DEF Step
  <2> QED
    BY <1>n, <1>1, <2>1 DEF Meant, Request
<1>4. ASSUME NEW plan \in Plan, plan = "free" => t \in crossed'
      PROVE  Honest(Request("updatePlan", t, None, plan, None, <<"syncSub">>))'
  <2>1. <<"syncSub">> \in Seq({"syncSub"}) /\ {"syncSub"} \in SUBSET Step
    BY DEF Step
  <2> QED
    BY <1>1, <1>4, <2>1 DEF Meant, Request
<1>5. ASSUME NEW plan \in PaidPlan
      PROVE  /\ Honest(Request("checkout", t, None, plan, None, <<"openSub">>))'
             /\ Honest(Request("manualActivate", t, None, plan, None,
                  <<"grantSub", "setPlan", "syncSub", "goActive", "invoice">>))'
  <2> DEFINE T == {"grantSub", "setPlan", "syncSub", "goActive", "invoice"}
  <2>1. /\ <<"grantSub", "setPlan", "syncSub", "goActive", "invoice">> \in Seq(T)
        /\ T \in SUBSET Step
        /\ <<"openSub">> \in Seq({"openSub"}) /\ {"openSub"} \in SUBSET Step
    BY DEF Step
  <2>2. plan # "free"
    BY <1>n, <1>5
  <2>3. Honest(Request("checkout", t, None, plan, None, <<"openSub">>))'
    BY <1>1, <2>1, <2>2 DEF Meant, Request
  <2>4. \A x \in T : Meant(Request("manualActivate", t, None, plan, None,
             <<"grantSub", "setPlan", "syncSub", "goActive", "invoice">>), x)'
    BY DEF Meant, Request
  <2> QED
    BY <1>1, <2>1, <2>2, <2>3, <2>4
<1>6. ASSUME NEW p \in Preapproval, sub'[t].pre = p
      PROVE  Honest(Request("cancel", t, p, "free", "cancelled", CancelSteps))'
  <2> DEFINE T == {"mpSet", "subStatus", "setPlan", "syncSub"}
  <2>1. CancelSteps \in Seq(T) /\ T \in SUBSET Step
    BY DEF Step, CancelSteps
  <2>2. \A x \in T :
          Meant(Request("cancel", t, p, "free", "cancelled", CancelSteps), x)'
    BY DEF Meant, Request
  <2> QED
    BY <1>1, <1>6, <2>1, <2>2
<1>7. ASSUME NEW p \in Preapproval
      PROVE  /\ Honest(Request("pause", t, p, None, "paused", <<"mpSet", "subStatus">>))'
             /\ Honest(Request("resume", t, p, None, "authorized",
                               <<"mpSet", "subStatus">>))'
  <2> DEFINE T == {"mpSet", "subStatus"}
  <2>1. <<"mpSet", "subStatus">> \in Seq(T) /\ T \in SUBSET Step
    BY DEF Step
  <2>2. \A x \in T :
          /\ Meant(Request("pause", t, p, None, "paused", <<"mpSet", "subStatus">>), x)'
          /\ Meant(Request("resume", t, p, None, "authorized",
                           <<"mpSet", "subStatus">>), x)'
    BY <1>n DEF Meant, Request
  <2> QED
    BY <1>n, <1>1, <2>1, <2>2
<1> QED
  BY <1>2, <1>3, <1>4, <1>5, <1>6, <1>7

\* Requests that begin.
LEMMA RequestEnd ==
  ASSUME TypeInv, EndInv, NEW r \in Req, NEW t \in Tenant,
         \/ Activate(r, t) \/ HardDelete(r, t)
         \/ \E plan \in PlanInput \cup {"free"} : UpdatePlan(r, t, plan)
         \/ \E plan \in PlanInput : Checkout(r, t, plan) \/ ManualActivate(r, t, plan)
         \/ Cancel(r, t) \/ Pause(r, t) \/ Resume(r, t)
  PROVE  EndInv'
<1>1. UNCHANGED <<mp, sub>> /\ crossed \subseteq crossed'
  BY DEF Activate, HardDelete, UpdatePlan, Checkout, ManualActivate, Cancel,
         Pause, Resume, world
<1>2. Final /\ \A q \in Req : Undisturbed(req[q])
  BY <1>1, SubsSame
<1>3. SUFFICES \A q \in Req : \E g : req'[q] = g /\ Honest(g)'
  BY <1>1, <1>2, EndKept
<1>4. SUFFICES \E h : Honest(h)' /\ Begin(r, h)
  BY <1>2, BeginHonest
<1>5. CASE Activate(r, t) \/ HardDelete(r, t)
  BY <1>5, RequestsHonest DEF Activate, HardDelete
<1>6. ASSUME NEW plan \in PlanInput \cup {"free"}, UpdatePlan(r, t, plan)
      PROVE  \E h : Honest(h)' /\ Begin(r, h)
  <2>1. plan \in Plan /\ (plan = "free" => t \in crossed')
    BY <1>6, InputAssumption DEF UpdatePlan, Plan
  <2> QED
    BY <1>6, <2>1, RequestsHonest DEF UpdatePlan
<1>7. ASSUME NEW plan \in PlanInput, Checkout(r, t, plan) \/ ManualActivate(r, t, plan)
      PROVE  \E h : Honest(h)' /\ Begin(r, h)
  BY <1>7, InputAssumption, RequestsHonest DEF Checkout, ManualActivate
<1>8. CASE Cancel(r, t) \/ Pause(r, t) \/ Resume(r, t)
  <2>1. sub[t].pre # None
    BY <1>8 DEF Cancel, Pause, Resume
  <2>2. PICK p \in Preapproval : p = sub[t].pre /\ sub'[t].pre = p
    BY <1>1, <2>1 DEF TypeInv, TypeOK, SubDoc
  <2>3. /\ Honest(Request("cancel", t, p, "free", "cancelled", CancelSteps))'
        /\ Honest(Request("pause", t, p, None, "paused", <<"mpSet", "subStatus">>))'
        /\ Honest(Request("resume", t, p, None, "authorized",
                          <<"mpSet", "subStatus">>))'
    BY <2>2, RequestsHonest
  <2> QED
    BY <1>8, <2>2, <2>3 DEF Cancel, Pause, Resume
<1> QED
  BY <1>5, <1>6, <1>7, <1>8

\* Steps that write neither subscriptions nor MercadoPago.
LEMMA QuietEnd ==
  ASSUME TypeInv, EndInv, UNCHANGED <<mp, sub>>, crossed \subseteq crossed',
         \/ UNCHANGED req
         \/ \E r \in Req : \/ Throw(r)
                           \/ \E step \in Step \ {"mpSet", "assign"} :
                                Awaits(r, step) /\ Proceed(r)
  PROVE  EndInv'
<1>1. Final /\ \A q \in Req : Undisturbed(req[q])
  BY SubsSame
<1>2. \A q \in Req : \E g : req'[q] = g /\ Honest(g)'
  BY <1>1, SlotsHonest, ThrowHonest, ProceedHonest
<1> QED
  BY <1>1, <1>2, EndKept

\* The awaits that write tenants, and the one that sends the invoice.
LEMMA TenantStepEnd ==
  ASSUME TypeInv, EndInv, NEW r \in Req,
         \/ ActivateWriteStep(r) \/ EraseTenantStep(r)
         \/ SetPlan(r) \/ GoActive(r) \/ Invoice(r)
  PROVE  EndInv'
<1>1. UNCHANGED <<mp, sub>> /\ crossed \subseteq crossed'
  BY DEF ActivateWriteStep, EraseTenantStep, SetPlan, GoActive, Invoice, world
<1>2. \/ Throw(r)
      \/ \E step \in {"activateWrite", "eraseTenant", "setPlan", "goActive", "invoice"} :
           Awaits(r, step) /\ Proceed(r)
  BY DEF ActivateWriteStep, EraseTenantStep, SetPlan, GoActive, Invoice
<1>3. {"activateWrite", "eraseTenant", "setPlan", "goActive", "invoice"}
        \subseteq Step \ {"mpSet", "assign"}
  BY DEF Step
<1> QED
  BY <1>1, <1>2, <1>3, QuietEnd

\* What the writes on a subscription make of it.
LEMMA SettledWrites ==
  ASSUME NEW t \in Tenant, NEW s \in SubDoc, Settled(t, s)
  PROVE  /\ Settled(t, NoSub)
         /\ (s.pre # None /\ t \notin crossed => mp[s.pre].status = "cancelled") =>
              Settled(t, Cancelled(s))
         /\ Settled(t, [s EXCEPT !.dated = TRUE])
         /\ \A plan \in PaidPlan : Settled(t, Authorized(s, plan))
         /\ \A p \in Preapproval, st \in MpStatus :
              (st = "cancelled" => mp[p].status = "cancelled") =>
                Settled(t, Assigned(s, st, p))
         /\ \A st \in MpStatus, d \in BOOLEAN :
              (st = "cancelled" /\ s.pre # None /\ t \notin crossed =>
                 mp[s.pre].status = "cancelled") =>
                Settled(t, [s EXCEPT !.status = st, !.dated = d])
  BY DEF Settled, NoSub, Cancelled, Authorized, Assigned, SubDoc, MpStatus

\* The writes of one subscription that keep its preapproval or clear it.
LEMMA SubWriteEnd ==
  ASSUME TypeInv, EndInv, UNCHANGED <<mp, crossed>>, NEW r \in Req,
         NEW step \in Step \ {"mpSet", "assign"}, Awaits(r, step), Proceed(r),
         NEW t \in Tenant, NEW s, s.pre = None \/ s.pre = sub[t].pre, Settled(t, s),
         sub' = [sub EXCEPT ![t] = s]
  PROVE  EndInv'
<1>1. Final
  BY DEF Final
<1>2. \A u \in Tenant : sub'[u].pre \in {None, sub[u].pre}
  BY DEF TypeInv, TypeOK
<1>3. \A u : u \notin Tenant => sub'[u] = sub[u]
  BY DEF TypeInv, TypeOK
<1>4. \A q \in Req : Undisturbed(req[q])
  BY <1>2, <1>3 DEF Undisturbed
<1>5. \A q \in Req : \E g : req'[q] = g /\ Honest(g)'
  BY <1>1, <1>4, ProceedHonest
<1>6. Settled(t, s)'
  BY DEF Settled
<1>7. \A u \in Tenant : \/ sub'[u] = sub[u]
                        \/ \E x : sub'[u] = x /\ Settled(u, x)'
  BY <1>6 DEF TypeInv, TypeOK
<1> QED
  BY <1>1, <1>5, <1>7, EndKept

\* The awaits that write a subscription, but for the preapproval.
LEMMA SubStepEnd ==
  ASSUME TypeInv, EndInv, NEW r \in Req,
         \/ EraseSub(r) \/ SyncSub(r) \/ SubStatusStep(r) \/ GrantSub(r) \/ Stamp(r)
  PROVE  EndInv'
<1>1. Proceed(r) /\ UNCHANGED <<mp, crossed>>
  BY DEF EraseSub, SyncSub, SubStatusStep, GrantSub, Stamp, world
<1>2. Ready(req[r]) /\ Honest(req[r])
  BY DEF TypeInv, HandlersReady, EndInv
<1>3. PICK step \in Step \ {"mpSet", "assign"} : Awaits(r, step)
  BY DEF EraseSub, SyncSub, SubStatusStep, GrantSub, Stamp, Step
<1>4. /\ \A t \in Tenant : sub[t] \in SubDoc /\ Settled(t, sub[t])
      /\ sub \in [Tenant -> SubDoc]
  BY DEF TypeInv, TypeOK, EndInv
<1>5. CASE UNCHANGED sub
  BY <1>1, <1>3, <1>5, QuietEnd
<1>6. ASSUME NEW t \in Tenant, NEW s, s.pre = None \/ s.pre = sub[t].pre, Settled(t, s),
             sub' = [sub EXCEPT ![t] = s]
      PROVE  EndInv'
  BY <1>1, <1>3, <1>6, SubWriteEnd
<1>7. CASE Stamp(r)
  <2>1. ASSUME NEW t \in Tenant, sub' = [sub EXCEPT ![t].dated = TRUE]
        PROVE  EndInv'
    <3>1. PICK s : s = [sub[t] EXCEPT !.dated = TRUE]
      OBVIOUS
    <3>2. Settled(t, s)
      BY <1>4, <3>1, SettledWrites
    <3>3. s.pre = sub[t].pre /\ sub' = [sub EXCEPT ![t] = s]
      BY <1>4, <2>1, <3>1 DEF SubDoc
    <3> QED
      BY <1>6, <3>2, <3>3
  <2> QED
    BY <1>5, <1>7, <2>1 DEF Stamp
<1>8. CASE ~Stamp(r)
  <2>1. req[r].t \in Tenant
    BY <1>2, <1>8, AwaitsReady DEF EraseSub, SyncSub, SubStatusStep, GrantSub, StepReady
  <2>2. PICK t \in Tenant : t = req[r].t
    BY <2>1
  <2>3. CASE EraseSub(r)
    <3>1. Settled(t, NoSub) /\ NoSub.pre = None
      BY <1>4, SettledWrites DEF NoSub
    <3> QED
      BY <1>5, <1>6, <2>2, <2>3, <3>1 DEF EraseSub
  <2>4. CASE SyncSub(r)
    <3>1. req[r].plan \in Plan
      BY <1>2, <2>4, AwaitsReady DEF SyncSub, StepReady
    <3>2. CASE req[r].plan = "free"
      <4>1. t \notin crossed => /\ mp[req[r].pre].status = "cancelled"
                                /\ sub[t].pre \in {None, req[r].pre}
        BY <1>2, <2>2, <2>4, <3>2, AwaitsMeant DEF SyncSub
      <4>2. Settled(t, Cancelled(sub[t]))
        BY <1>4, <4>1, SettledWrites
      <4>3. /\ Cancelled(sub[t]).pre = sub[t].pre
            /\ sub' = [sub EXCEPT ![t] = Cancelled(sub[t])]
        BY <1>4, <2>2, <2>4, <3>2 DEF SyncSub, Cancelled, SubDoc
      <4> QED
        BY <1>6, <4>2, <4>3
    <3>3. CASE req[r].plan # "free"
      <4>1. Settled(t, Authorized(sub[t], req[r].plan))
        BY <1>4, <3>1, <3>3, SettledWrites DEF Plan
      <4>2. /\ Authorized(sub[t], req[r].plan).pre = sub[t].pre
            /\ sub' = [sub EXCEPT ![t] = Authorized(sub[t], req[r].plan)]
        BY <1>4, <2>2, <2>4, <3>3 DEF SyncSub, Authorized, SubDoc
      <4> QED
        BY <1>6, <4>1, <4>2
    <3> QED
      BY <3>2, <3>3
  <2>5. CASE GrantSub(r)
    <3>1. req[r].plan \in PaidPlan
      BY <1>2, <2>5, AwaitsReady DEF GrantSub, StepReady
    <3>2. Settled(t, Authorized(sub[t], req[r].plan))
      BY <1>4, <3>1, SettledWrites
    <3>3. /\ Authorized(sub[t], req[r].plan).pre = sub[t].pre
          /\ sub' = [sub EXCEPT ![t] = Authorized(sub[t], req[r].plan)]
      BY <1>4, <2>2, <2>5 DEF GrantSub, Authorized, SubDoc
    <3> QED
      BY <1>6, <3>2, <3>3
  <2>6. CASE SubStatusStep(r)
    <3>1. /\ req[r].status \in MpStatus
          /\ req[r].status = "cancelled" /\ t \notin crossed =>
               /\ mp[req[r].pre].status = "cancelled"
               /\ sub[t].pre \in {None, req[r].pre}
      BY <1>2, <2>2, <2>6, AwaitsReady, AwaitsMeant DEF SubStatusStep, StepReady, Meant
    <3>2. PICK d : d = (sub[t].dated \/ req[r].op = "cancel")
      OBVIOUS
    <3>3. d \in BOOLEAN
      BY <3>2
    <3>4. PICK s : s = [sub[t] EXCEPT !.status = req[r].status, !.dated = d]
      OBVIOUS
    <3>5. Settled(t, s)
      BY <1>4, <3>1, <3>3, <3>4, SettledWrites
    <3>6. sub' = sub \/ sub' = [sub EXCEPT ![t] = s]
      BY <1>4, <2>2, <2>6, <3>2, <3>4 DEF SubStatusStep, SubDoc
    <3>7. s.pre = sub[t].pre
      BY <1>4, <3>4 DEF SubDoc
    <3> QED
      BY <1>5, <1>6, <3>5, <3>6, <3>7
  <2> QED
    BY <1>8, <2>3, <2>4, <2>5, <2>6
<1> QED
  BY <1>7, <1>8

\* A checkout forgets the preapproval: with a cancellation on its way it
\* crosses it, and without one nothing is left to write about the old one.
LEMMA OpenSubEnd ==
  ASSUME TypeInv, EndInv, NEW r \in Req, OpenSub(r)
  PROVE  EndInv'
<1>1. /\ Awaits(r, "openSub") /\ Proceed(r) /\ UNCHANGED mp
      /\ sub' = [sub EXCEPT ![req[r].t] = Opened(req[r].t, req[r].plan)]
      /\ crossed' = IF Cancelling(req[r].t) = {} THEN crossed \ {req[r].t}
                                                ELSE crossed \cup {req[r].t}
  BY DEF OpenSub
<1>2. req[r].t \in Tenant
  BY <1>1, AwaitsReady DEF TypeInv, HandlersReady, StepReady
<1>3. PICK t \in Tenant : t = req[r].t
  BY <1>2
<1>4. Final
  BY <1>1 DEF Final
<1>5. \A q \in Req : Undisturbed(req[q])
  <2> TAKE q \in Req
  <2>1. CASE req[q].t = t
    <3>1. req[q].plan = "free" => Cancelling(t) # {}
      BY <2>1 DEF Cancelling
    <3> QED
      BY <1>1, <1>3, <2>1, <3>1 DEF Undisturbed
  <2>2. CASE req[q].t # t
    <3>1. sub'[req[q].t] = sub[req[q].t]
      BY <1>1, <1>3, <2>2 DEF TypeInv, TypeOK
    <3> QED
      BY <1>1, <1>3, <2>2, <3>1 DEF Undisturbed
  <2> QED
    BY <2>1, <2>2
<1>6. \A q \in Req : \E g : req'[q] = g /\ Honest(g)'
  BY <1>1, <1>4, <1>5, ProceedHonest
<1>7. PICK s : s = Opened(t, req[r].plan)
  OBVIOUS
<1>8. Settled(t, s)'
  BY <1>7 DEF Opened, Settled
<1>9. \A u \in Tenant : \/ sub'[u] = sub[u] /\ (u \in crossed => u \in crossed')
                        \/ \E x : sub'[u] = x /\ Settled(u, x)'
  BY <1>1, <1>3, <1>7, <1>8 DEF TypeInv, TypeOK
<1> QED
  BY <1>4, <1>6, <1>9, EndKept

\* A webhook stores its preapproval, and crosses a cancellation of another.
LEMMA AssignEnd ==
  ASSUME TypeInv, EndInv, NEW r \in Req, Assign(r)
  PROVE  EndInv'
<1>1. /\ Awaits(r, "assign") /\ Proceed(r) /\ UNCHANGED mp
      /\ sub' = [sub EXCEPT ![req[r].t] =
                   Assigned(sub[req[r].t], req[r].status, req[r].pre)]
      /\ crossed' = IF \E q \in Cancelling(req[r].t) : req[q].pre # req[r].pre
                      THEN crossed \cup {req[r].t} ELSE crossed
  BY DEF Assign
<1>2. Ready(req[r]) /\ Honest(req[r])
  BY DEF TypeInv, HandlersReady, EndInv
<1>3. /\ req[r].t \in Tenant /\ req[r].pre \in Preapproval /\ req[r].status \in MpStatus
      /\ req[r].status = "cancelled" => mp[req[r].pre].status = "cancelled"
  BY <1>1, <1>2, AwaitsReady, AwaitsMeant DEF StepReady, Meant
<1>4. PICK t \in Tenant, p \in Preapproval : t = req[r].t /\ p = req[r].pre
  BY <1>3
<1>5. Final /\ crossed \subseteq crossed'
  BY <1>1 DEF Final
<1>6. sub[t] \in SubDoc /\ Settled(t, sub[t]) /\ sub \in [Tenant -> SubDoc]
  BY DEF TypeInv, TypeOK, EndInv
<1>7. PICK s : s = Assigned(sub[t], req[r].status, p)
  OBVIOUS
<1>8. Settled(t, s) /\ s.pre \in {None, p}
  <2>1. Settled(t, s)
    BY <1>3, <1>4, <1>6, <1>7, SettledWrites
  <2>2. s.pre \in {None, p}
    BY <1>6, <1>7 DEF Assigned, Settled, SubDoc
  <2> QED
    BY <2>1, <2>2
<1>9. sub' = [sub EXCEPT ![t] = s]
  BY <1>1, <1>4, <1>7
<1>10. \A q \in Req : Undisturbed(req[q])
  <2> TAKE q \in Req
  <2>1. CASE req[q].t = t
    <3>1. req[q].plan = "free" => q \in Cancelling(t)
      BY <2>1 DEF Cancelling
    <3>2. sub'[req[q].t].pre \in {None, p}
      BY <1>6, <1>8, <1>9, <2>1
    <3>3. req[q].plan = "free" /\ t \notin crossed' => req[q].pre = p
      BY <1>1, <1>4, <3>1
    <3> QED
      BY <1>5, <2>1, <3>2, <3>3 DEF Undisturbed
  <2>2. CASE req[q].t # t
    <3>1. sub'[req[q].t] = sub[req[q].t]
      BY <1>6, <1>9, <2>2
    <3> QED
      BY <1>5, <2>2, <3>1 DEF Undisturbed
  <2> QED
    BY <2>1, <2>2
<1>11. \A q \in Req : \E g : req'[q] = g /\ Honest(g)'
  <2>1. sub'[req[r].t].pre \in {None, req[r].pre}
    BY <1>4, <1>6, <1>8, <1>9
  <2> QED
    BY <1>1, <1>5, <1>10, <2>1, ProceedHonest
<1>12. Settled(t, s)'
  BY <1>1, <1>5, <1>8 DEF Settled
<1>13. \A u \in Tenant : \/ sub'[u] = sub[u]
                         \/ \E x : sub'[u] = x /\ Settled(u, x)'
  BY <1>6, <1>9, <1>12
<1> QED
  BY <1>5, <1>11, <1>13, EndKept

\* MercadoPago is told, or refuses.
LEMMA MpSetEnd ==
  ASSUME TypeInv, EndInv, NEW r \in Req, MpSet(r)
  PROVE  EndInv'
<1>1. Awaits(r, "mpSet") /\ UNCHANGED <<sub, crossed>>
  BY DEF MpSet
<1>2. /\ req[r].pre \in Preapproval
      /\ req[r].plan = "free" => req[r].status = "cancelled"
  BY <1>1, AwaitsReady, AwaitsMeant
     DEF TypeInv, HandlersReady, EndInv, StepReady, Meant
<1>3. CASE MpChange(req[r].pre, req[r].status) /\ Proceed(r)
  <2>1. Final
    BY <1>2, <1>3 DEF MpChange, MpAccepts, Final, TypeInv, TypeOK, MpRecord
  <2>2. mp'[req[r].pre].status = req[r].status
    BY <1>2, <1>3 DEF MpChange, TypeInv, TypeOK, MpRecord
  <2>3. \A q \in Req : Undisturbed(req[q])
    BY <1>1 DEF Undisturbed
  <2>4. \A q \in Req : \E g : req'[q] = g /\ Honest(g)'
    BY <1>1, <1>2, <1>3, <2>1, <2>2, <2>3, ProceedHonest
  <2> QED
    BY <1>1, <2>1, <2>4, EndKept
<1>4. CASE Throw(r) /\ UNCHANGED mp
  BY <1>1, <1>4, QuietEnd
<1> QED
  BY <1>3, <1>4 DEF MpSet

LEMMA CustomerEnd ==
  ASSUME TypeInv, EndInv, NEW p \in Preapproval, NEW st \in MpStatus,
         MpSite(p, st) \/ \E t \in Tenant : Pay(t, p, st)
  PROVE  EndInv'
<1>1. UNCHANGED <<sub, req, crossed>>
  BY DEF MpSite, Pay
<1>2. Final
  BY DEF MpSite, Pay, MpChange, MpAccepts, MpSubscribe, Final, TypeInv, TypeOK, MpRecord
<1>3. \A q \in Req : Undisturbed(req[q])
  BY <1>1 DEF Undisturbed
<1> QED
  BY <1>1, <1>2, <1>3, SlotsHonest, EndKept

\* A webhook begins with what MercadoPago says of the preapproval.
LEMMA DeliverEnd ==
  ASSUME TypeInv, EndInv, NEW r \in Req, NEW p \in Preapproval, Deliver(r, p)
  PROVE  EndInv'
<1>1. UNCHANGED <<mp, sub, crossed>>
  BY DEF Deliver, world
<1>2. Final /\ \A q \in Req : Undisturbed(req[q])
  BY <1>1, SubsSame
<1>3. PICK st : st = mp[p].status
  OBVIOUS
<1>4. st = mp'[p].status
  BY <1>1, <1>3
<1> DEFINE h == Request("webhook", None, p, None, st, <<"findByPre">>)
<1>5. h.pre = p /\ h.status = st /\ h.todo = <<"findByPre">> /\ h.plan = None
  BY DEF Request
<1>6. Begin(r, h)
  BY <1>3 DEF Deliver
<1> HIDE DEF h
<1>7. {"findByPre"} \subseteq {x \in Step : Meant(h, x)'}
  BY <1>4, <1>5 DEF Meant, Step
<1>8. h.todo \in Seq({x \in Step : Meant(h, x)'})
  <2>1. <<"findByPre">> \in Seq({"findByPre"})
    OBVIOUS
  <2> QED
    BY <1>5, <1>7, <2>1
<1>9. h.plan # "free"
  BY <1>5, BillingAssumption DEF Plan
<1>10. Honest(h)'
  BY <1>8, <1>9 DEF Honest
<1> QED
  BY <1>1, <1>2, <1>6, <1>10, BeginHonest, EndKept

\* A webhook of a cancellation goes on with the subscription that holds its
\* preapproval, or stores it there first.
LEMMA FoundEnd ==
  ASSUME TypeInv, EndInv, UNCHANGED <<mp, sub, crossed>>, NEW r \in Req,
         NEW t \in Tenant, Found(r, t), req[r].status \in MpStatus,
         req[r].pre \in Preapproval,
         req[r].status = "cancelled" => mp[req[r].pre].status = "cancelled"
  PROVE  \A q \in Req : \E g : req'[q] = g /\ Honest(g)'
<1>1. Final /\ \A q \in Req : Undisturbed(req[q])
  BY SubsSame
<1>2. sub[t].planName \in PaidPlan \cup {None} /\ "enterprise" \in PaidPlan
  BY DEF TypeInv, TypeOK, SubDoc, PaidPlan
<1>3. "free" \notin PaidPlan /\ None # "free"
  BY BillingAssumption DEF Plan, PaidPlan
<1>w. PICK was : was = (sub[t].status = "authorized")
  OBVIOUS
<1>n. PICK plan :
         plan = CASE req[r].status = "authorized" ->
                       IF sub[t].planName = None THEN "enterprise"
                                                 ELSE sub[t].planName
                  [] req[r].status = "cancelled" -> "free"
                  [] OTHER -> None
  OBVIOUS
<1>4. /\ was \in BOOLEAN
      /\ plan = "free" => req[r].status = "cancelled"
      /\ Begin(r, [req[r] EXCEPT !.t = t, !.was = was, !.plan = plan,
                                 !.todo = Route(req[r].status, was)])
  <2>1. was \in BOOLEAN
    BY <1>w
  <2>2. plan = "free" => req[r].status = "cancelled"
    BY <1>2, <1>3, <1>n
  <2>3. Begin(r, [req[r] EXCEPT !.t = t, !.was = was, !.plan = plan,
                                !.todo = Route(req[r].status, was)])
    BY <1>w, <1>n DEF Found
  <2> QED
    BY <2>1, <2>2, <2>3
<1>5. PICK st, p : st = req[r].status /\ p = req[r].pre
  OBVIOUS
<1>6. PICK h : h = [req[r] EXCEPT !.t = t, !.was = was, !.plan = plan,
                                  !.todo = Route(req[r].status, was)]
  OBVIOUS
<1>7. /\ h.t = t /\ h.pre = p /\ h.status = st /\ h.plan = plan
      /\ h.todo = Route(st, was)
  BY <1>5, <1>6 DEF TypeInv, TypeOK, Handler
<1> DEFINE T == IF st \in {"authorized", "cancelled"}
                  THEN {"setPlan", "syncSub", "goActive", "assign", "invoice", "stamp"}
                  ELSE {"assign"}
<1>8. Route(st, was) \in Seq(T)
  BY <1>4, <1>5, RouteSteps
<1>9. st = "cancelled" => mp'[p].status = "cancelled"
  BY <1>5
<1>10. T \subseteq {x \in Step : Meant(h, x)'}
  BY <1>7, <1>9 DEF Meant, Step
<1>11. h.todo \in Seq({x \in Step : Meant(h, x)'})
  <2> HIDE DEF T
  <2> QED
    BY <1>7, <1>8, <1>10
<1>12. plan = "free" => Route(st, was) = Route("cancelled", FALSE)
  BY <1>4, <1>5 DEF Route
<1>13. p \in Preapproval
  BY <1>5
<1>14. Honest(h)'
  BY <1>4, <1>5, <1>7, <1>9, <1>11, <1>12, <1>13 DEF Honest
<1>15. Begin(r, h)
  BY <1>4, <1>6
<1> QED
  BY <1>1, <1>14, <1>15, BeginHonest

LEMMA FindEnd ==
  ASSUME TypeInv, EndInv, NEW r \in Req, FindByPre(r) \/ FindByEmail(r)
  PROVE  EndInv'
<1>1. UNCHANGED <<mp, sub, crossed>>
  BY DEF FindByPre, FindByEmail, world
<1>2. Final /\ \A q \in Req : Undisturbed(req[q])
  BY <1>1, SubsSame
<1>3. SUFFICES \A q \in Req : \E g : req'[q] = g /\ Honest(g)'
  BY <1>1, <1>2, EndKept
<1>4. Ready(req[r]) /\ Honest(req[r])
  BY DEF TypeInv, HandlersReady, EndInv
<1>5. PICK step \in {"findByPre", "findByEmail"} : Awaits(r, step)
  BY DEF FindByPre, FindByEmail
<1>6. /\ req[r].pre \in Preapproval /\ req[r].status \in MpStatus
      /\ req[r].status = "cancelled" => mp[req[r].pre].status = "cancelled"
  BY <1>4, <1>5, AwaitsReady, AwaitsMeant DEF StepReady, Meant
<1>7. ASSUME NEW t \in Tenant, Found(r, t)
      PROVE  \A q \in Req : \E g : req'[q] = g /\ Honest(g)'
  BY <1>1, <1>6, <1>7, FoundEnd
<1>8. CASE Begin(r, [req[r] EXCEPT !.todo = <<"findByEmail">>])
  <2>1. PICK h, p : p = req[r].pre /\ h = [req[r] EXCEPT !.todo = <<"findByEmail">>]
    OBVIOUS
  <2>2. /\ h.todo = <<"findByEmail">> /\ h.pre = p /\ h.status = req[r].status
        /\ h.plan = req[r].plan /\ h.t = req[r].t
    BY <2>1 DEF TypeInv, TypeOK, Handler
  <2>3. h.status = "cancelled" => mp'[p].status = "cancelled"
    BY <1>1, <1>6, <2>1, <2>2
  <2>4. {"findByEmail"} \subseteq {x \in Step : Meant(h, x)'}
    BY <2>2, <2>3 DEF Meant, Step
  <2>5. h.todo \in Seq({x \in Step : Meant(h, x)'})
    <3>1. <<"findByEmail">> \in Seq({"findByEmail"})
      OBVIOUS
    <3> QED
      BY <2>2, <2>4, <3>1
  <2>6. h.plan = "free" /\ h.t \notin crossed =>
          mp[p].status = "cancelled" /\ sub[h.t].pre \in {None, p}
    BY <1>4, <1>5, <2>1, <2>2, AwaitsMeant
  <2>7. Honest(h)'
    BY <1>1, <1>6, <2>1, <2>2, <2>5, <2>6 DEF Honest
  <2>8. Begin(r, h)
    BY <1>8, <2>1
  <2> QED
    BY <1>2, <2>7, <2>8, BeginHonest
<1>9. CASE Begin(r, Idle)
  BY <1>2, <1>9, IdleHonest, BeginHonest
<1> QED
  BY <1>7, <1>8, <1>9 DEF FindByPre, FindByEmail

LEMMA EndStep == TypeInv /\ EndInv /\ [Next]_vars => EndInv'
<1> SUFFICES ASSUME TypeInv, EndInv, [Next]_vars PROVE EndInv'
  OBVIOUS
<1>1. ASSUME NEW t \in Tenant,
             \/ \E plan \in PlanInput \cup {"free"} : Create(t, plan)
             \/ \E s \in StatusInput : UpdateStatus(t, s)
             \/ \E b \in BOOLEAN : UpdateInstance(t, b)
             \/ Deactivate(t) \/ Delete(t) \/ Undelete(t)
      PROVE  EndInv'
  <2>1. UNCHANGED <<mp, sub, req, crossed>>
    BY <1>1 DEF Create, UpdateStatus, UpdateInstance, Deactivate, Delete, Undelete, world
  <2> QED
    BY <2>1, QuietEnd
<1>2. CASE TenantRequest
  BY <1>1, <1>2, RequestEnd DEF TenantRequest
<1>3. CASE BillingRequest
  BY <1>3, RequestEnd DEF BillingRequest
<1>4. CASE Webhook
  BY <1>4, DeliverEnd DEF Webhook
<1>5. CASE Customer
  BY <1>5, CustomerEnd DEF Customer
<1>6. ASSUME NEW r \in Req, Continue(r)
      PROVE  EndInv'
  BY <1>6, TenantStepEnd, SubStepEnd, OpenSubEnd, AssignEnd, MpSetEnd, FindEnd
     DEF Continue
<1>7. ASSUME NEW r \in Req, Fail(r)
      PROVE  EndInv'
  <2>1. UNCHANGED <<mp, sub, crossed>> /\ Throw(r)
    BY <1>7 DEF Fail, world
  <2> QED
    BY <2>1, QuietEnd
<1>8. CASE UNCHANGED vars
  BY <1>8, QuietEnd DEF vars
<1> QED
  BY <1>2, <1>3, <1>4, <1>5, <1>6, <1>7, <1>8 DEF Next

\* A subscription is shown as cancelled only when MercadoPago charges its
\* preapproval no more, whatever checkouts, webhooks, errors and retries
\* interleave, unless a newer checkout crossed the cancellation.
THEOREM CancelledNotCharged == Spec => []CancelledIsNotCharged
<1>1. EndInv => CancelledIsNotCharged
  BY DEF EndInv, Settled, CancelledIsNotCharged
<1> QED
  BY <1>1, TypeInit, TypeStep, EndInit, EndStep, PTL DEF Spec

-----------------------------------------------------------------------------
(***************************************************************************)
(* The lifecycle of a tenant.  Every step of Billing writes at most one    *)
(* tenant, with one of the writes of module Tenants; the rest follows from *)
(* the writes.                                                             *)
(***************************************************************************)
TenantWrite(t) ==
  \/ \E p \in Plan : CreateTenant(t, p) \/ AssignPlan(t, p)
  \/ \E s \in TenantStatus : SetStatus(t, s)
  \/ \E b \in BOOLEAN : SetInstance(t, b)
  \/ ActivateWrite(t) \/ SoftDelete(t) \/ Restore(t) \/ EraseTenant(t)

LEMMA StepWritesTenant ==
  ASSUME TypeInv, [Next]_vars
  PROVE  UNCHANGED tenant \/ \E t \in Tenant : TenantWrite(t)
<1>1. CASE TenantRequest
  <2>1. ASSUME NEW t \in Tenant, NEW plan \in PlanInput \cup {"free"},
               Create(t, plan) \/ \E r \in Req : UpdatePlan(r, t, plan)
        PROVE  TenantWrite(t)
    BY <2>1, InputAssumption DEF Create, UpdatePlan, TenantWrite, Plan
  <2>2. ASSUME NEW t \in Tenant,
               \/ \E s \in StatusInput : UpdateStatus(t, s)
               \/ \E b \in BOOLEAN : UpdateInstance(t, b)
               \/ Deactivate(t) \/ Delete(t) \/ Undelete(t)
        PROVE  TenantWrite(t)
    BY <2>2, InputAssumption
       DEF UpdateStatus, UpdateInstance, Deactivate, Delete, Undelete,
           TenantWrite, TenantStatus
  <2>3. ASSUME NEW r \in Req, NEW t \in Tenant, Activate(r, t) \/ HardDelete(r, t)
        PROVE  UNCHANGED tenant
    BY <2>3 DEF Activate, HardDelete
  <2> QED
    BY <1>1, <2>1, <2>2, <2>3 DEF TenantRequest
<1>2. CASE BillingRequest \/ Webhook \/ Customer
  BY <1>2 DEF BillingRequest, Checkout, ManualActivate, Cancel, Pause, Resume,
              Webhook, Deliver, Customer, MpSite, Pay
<1>3. ASSUME NEW r \in Req, Continue(r)
      PROVE  UNCHANGED tenant \/ \E t \in Tenant : TenantWrite(t)
  <2>1. Ready(req[r])
    BY DEF TypeInv, HandlersReady
  <2>2. CASE ActivateWriteStep(r) \/ EraseTenantStep(r)
    <3>1. req[r].t \in Tenant
      BY <2>1, <2>2, AwaitsReady DEF ActivateWriteStep, EraseTenantStep, StepReady
    <3> QED
      BY <2>2, <3>1 DEF ActivateWriteStep, EraseTenantStep, TenantWrite
  <2>3. CASE SetPlan(r)
    <3>1. req[r].t \in Tenant /\ req[r].plan \in Plan
      BY <2>1, <2>3, AwaitsReady DEF SetPlan, StepReady
    <3> QED
      BY <2>3, <3>1 DEF SetPlan, TenantWrite
  <2>4. CASE GoActive(r)
    <3>1. req[r].t \in Tenant
      BY <2>1, <2>4, AwaitsReady DEF GoActive, StepReady
    <3> QED
      BY <2>4, <3>1 DEF GoActive, TenantWrite, TenantStatus
  <2> QED
    BY <1>3, <2>2, <2>3, <2>4
       DEF Continue, EraseSub, SyncSub, OpenSub, MpSet, SubStatusStep, GrantSub,
           FindByPre, FindByEmail, Assign, Stamp, Invoice
<1>4. ASSUME NEW r \in Req, Fail(r)
      PROVE  UNCHANGED tenant
  BY <1>4 DEF Fail
<1>5. CASE UNCHANGED vars
  BY <1>5 DEF vars
<1> QED
  BY <1>1, <1>2, <1>3, <1>4, <1>5 DEF Next

-----------------------------------------------------------------------------
LEMMA WriteKeepsLifecycle ==
  ASSUME tenant \in [Tenant -> TenantDoc], LifecycleOK,
         NEW t \in Tenant, TenantWrite(t)
  PROVE  LifecycleOK'
<1> USE DEF LifecycleOK, TenantDoc, Live
<1>1. ASSUME NEW p \in Plan, CreateTenant(t, p)
      PROVE  LifecycleOK'
  BY <1>1 DEF CreateTenant, NoTenant
<1>2. ASSUME NEW p \in Plan, AssignPlan(t, p)
      PROVE  LifecycleOK'
  BY <1>2 DEF AssignPlan
<1>3. ASSUME NEW s \in TenantStatus, SetStatus(t, s)
      PROVE  LifecycleOK'
  BY <1>3 DEF SetStatus
<1>4. ASSUME NEW b \in BOOLEAN, SetInstance(t, b)
      PROVE  LifecycleOK'
  BY <1>4 DEF SetInstance
<1>5. CASE ActivateWrite(t)
  BY <1>5 DEF ActivateWrite
<1>6. CASE SoftDelete(t) \/ Restore(t)
  BY <1>6 DEF SoftDelete, Restore
<1>7. CASE EraseTenant(t)
  BY <1>7 DEF EraseTenant, NoTenant
<1> QED
  BY <1>1, <1>2, <1>3, <1>4, <1>5, <1>6, <1>7 DEF TenantWrite

\* The two activity fields agree and deleted tenants are off, whatever
\* requests, webhooks, failures and deletions interleave.
THEOREM LifecycleCorrect == Spec => []LifecycleOK
<1>1. Init => LifecycleOK
  <2>1. Init => tenant = [t \in Tenant |-> NoTenant]
    BY DEF Init, TenantsInit
  <2>2. /\ ~NoTenant.isActive /\ NoTenant.status # "active"
        /\ NoTenant.doc # "deleted"
    BY DEF NoTenant
  <2> QED
    BY <2>1, <2>2 DEF LifecycleOK
<1>2. TypeInv /\ LifecycleOK /\ [Next]_vars => LifecycleOK'
  <2> SUFFICES ASSUME TypeInv, LifecycleOK, [Next]_vars PROVE LifecycleOK'
    OBVIOUS
  <2>1. CASE UNCHANGED tenant
    BY <2>1 DEF LifecycleOK
  <2>2. CASE \E t \in Tenant : TenantWrite(t)
    BY <2>2, WriteKeepsLifecycle DEF TypeInv, TypeOK
  <2> QED
    BY <2>1, <2>2, StepWritesTenant
<1> QED
  BY <1>1, <1>2, TypeInit, TypeStep, PTL DEF Spec

-----------------------------------------------------------------------------
LEMMA WriteKeepsDeletedPlan ==
  ASSUME tenant \in [Tenant -> TenantDoc], NEW t \in Tenant, TenantWrite(t),
         NEW u \in Tenant, tenant[u].doc = "deleted", tenant'[u].doc # "absent"
  PROVE  tenant'[u].plan = tenant[u].plan
<1> USE DEF TenantDoc, Live
<1>1. ASSUME NEW p \in Plan, CreateTenant(t, p) \/ AssignPlan(t, p)
      PROVE  tenant'[u].plan = tenant[u].plan
  BY <1>1 DEF CreateTenant, AssignPlan
<1>2. CASE \/ \E s \in TenantStatus : SetStatus(t, s)
           \/ \E b \in BOOLEAN : SetInstance(t, b)
           \/ ActivateWrite(t)
  BY <1>2 DEF SetStatus, SetInstance, ActivateWrite
<1>3. CASE SoftDelete(t) \/ Restore(t)
  BY <1>3 DEF SoftDelete, Restore
<1>4. CASE EraseTenant(t)
  BY <1>4 DEF EraseTenant, NoTenant
<1> QED
  BY <1>1, <1>2, <1>3, <1>4 DEF TenantWrite

\* No handler that outlives the deletion of its tenant changes its plan.
THEOREM DeletedPlanKept == Spec => DeletedKeepsPlan
<1> DEFINE Kept == \A t \in Tenant :
             tenant[t].doc = "deleted" /\ tenant'[t].doc # "absent" =>
               tenant'[t].plan = tenant[t].plan
<1>1. TypeInv /\ [Next]_vars => [Kept]_vars
  <2> SUFFICES ASSUME TypeInv, [Next]_vars PROVE Kept
    OBVIOUS
  <2>1. CASE UNCHANGED tenant
    BY <2>1
  <2>2. CASE \E t \in Tenant : TenantWrite(t)
    BY <2>2, WriteKeepsDeletedPlan DEF TypeInv, TypeOK
  <2> QED
    BY <2>1, <2>2, StepWritesTenant
<1> QED
  BY <1>1, TypeInit, TypeStep, PTL DEF Spec, DeletedKeepsPlan

-----------------------------------------------------------------------------
(***************************************************************************)
(* Billing implements TenantLifecycle.                                     *)
(***************************************************************************)
phases == [t \in Tenant |-> Phase(t)]

LEMMA WriteMovesPhase ==
  ASSUME tenant \in [Tenant -> TenantDoc], LifecycleOK,
         NEW t \in Tenant, TenantWrite(t)
  PROVE  Lifecycle!Next \/ UNCHANGED phases
<1>1. \A u \in Tenant \ {t} : tenant'[u] = tenant[u]
  BY DEF TenantWrite, CreateTenant, AssignPlan, SetStatus, SetInstance,
         ActivateWrite, SoftDelete, Restore, EraseTenant
<1>2. \/ Phase(t)' = Phase(t)
      \/ Phase(t) = "absent" /\ Phase(t)' = "off"
      \/ Phase(t) = "off" /\ Phase(t)' = "on"
      \/ Phase(t) = "on" /\ Phase(t)' = "off"
      \/ Phase(t) \in {"off", "on"} /\ Phase(t)' = "deleted"
      \/ Phase(t) = "deleted" /\ Phase(t)' = "off"
      \/ Phase(t) \in {"off", "on", "deleted"} /\ Phase(t)' = "absent"
  <2> USE DEF Phase, Live, TenantDoc, LifecycleOK
  <2>1. CASE \E p \in Plan : CreateTenant(t, p) \/ AssignPlan(t, p)
    BY <2>1 DEF CreateTenant, AssignPlan, NoTenant
  <2>2. ASSUME NEW s \in TenantStatus, SetStatus(t, s)
        PROVE  /\ Phase(t) \in {"off", "on"}
               /\ Phase(t)' = IF s = "active" THEN "on" ELSE "off"
    <3>1. /\ tenant[t].doc = "live" /\ tenant'[t].doc = "live"
          /\ tenant'[t].isActive = (s = "active")
      BY <2>2 DEF SetStatus
    <3> QED
      BY <3>1
  <2>3. CASE ActivateWrite(t) \/ SoftDelete(t) \/ Restore(t)
    BY <2>3 DEF ActivateWrite, SoftDelete, Restore
  <2>4. CASE EraseTenant(t)
    BY <2>4 DEF EraseTenant, NoTenant
  <2>5. ASSUME NEW b \in BOOLEAN, SetInstance(t, b)
        PROVE  Phase(t)' = Phase(t)
    BY <2>5 DEF SetInstance
  <2> QED
    BY <2>1, <2>2, <2>3, <2>4, <2>5 DEF TenantWrite
<1>3. phases' = [phases EXCEPT ![t] = Phase(t)'] /\ phases[t] = Phase(t)
  BY <1>1 DEF phases, Phase, Live
<1>4. Phase(t)' = Phase(t) => UNCHANGED phases
  BY <1>3 DEF phases
<1> QED
  BY <1>2, <1>3, <1>4
     DEF phases, Lifecycle!Next, Lifecycle!Move, Lifecycle!Register,
         Lifecycle!SwitchOn, Lifecycle!SwitchOff, Lifecycle!Retire,
         Lifecycle!Recover, Lifecycle!Erase

\* The tenants of Billing follow the abstract lifecycle: a new or restored
\* tenant is off, only a live one is switched on, a deleted one comes back
\* off or is erased.
THEOREM LifecycleImplemented == Spec => ImplementsLifecycle
<1>1. Init => Lifecycle!Init
  BY DEF Init, TenantsInit, NoTenant, Lifecycle!Init, Phase, Live
<1>2. TypeInv /\ LifecycleOK /\ [Next]_vars => [Lifecycle!Next]_phases
  <2> SUFFICES ASSUME TypeInv, LifecycleOK, [Next]_vars
               PROVE  Lifecycle!Next \/ UNCHANGED phases
    OBVIOUS
  <2>1. CASE UNCHANGED tenant
    BY <2>1 DEF phases, Phase, Live
  <2>2. CASE \E t \in Tenant : TenantWrite(t)
    BY <2>2, WriteMovesPhase DEF TypeInv, TypeOK
  <2> QED
    BY <2>1, <2>2, StepWritesTenant
<1> QED
  BY <1>1, <1>2, TypeInit, TypeStep, LifecycleCorrect, PTL
     DEF Spec, ImplementsLifecycle, Lifecycle!Spec, phases

-----------------------------------------------------------------------------
(***************************************************************************)
(* Deliveries: the awaits of a webhook, one after the other.               *)
(***************************************************************************)
\* The awaits of a list from the k-th on.
From(q, k) == SubSeq(q, k, Len(q))

\* The lists of awaits, from their first to what is left.
LEMMA FromFirst ==
  ASSUME NEW q \in Seq(Step)
  PROVE  q = From(q, 1)
<1>1. From(q, 1) \in Seq(Step) /\ Len(From(q, 1)) = Len(q)
  BY DEF From
<1>2. \A i \in 1..Len(q) : From(q, 1)[i] = q[i]
  BY DEF From
<1> QED
  BY <1>1, <1>2

LEMMA FromOn ==
  ASSUME NEW q \in Seq(Step), NEW k \in 1..Len(q)
  PROVE  /\ From(q, k) # <<>> /\ Head(From(q, k)) = q[k]
         /\ Len(From(q, k)) = 1 <=> k = Len(q)
         /\ k < Len(q) => Tail(From(q, k)) = From(q, k + 1)
<1>1. From(q, k) \in Seq(Step) /\ Len(From(q, k)) = Len(q) - k + 1
  BY DEF From
<1>2. \A i \in 1..(Len(q) - k + 1) : From(q, k)[i] = q[k + i - 1]
  BY DEF From
<1>3. ASSUME k < Len(q) PROVE Tail(From(q, k)) = From(q, k + 1)
  <2> DEFINE s == From(q, k)
  <2>1. /\ Tail(s) \in Seq(Step) /\ Len(Tail(s)) = Len(q) - k
        /\ \A i \in 1..(Len(q) - k) : Tail(s)[i] = q[k + i]
    <3> HIDE DEF s
    <3>1. s \in Seq(Step) /\ Len(s) = Len(q) - k + 1
      BY <1>1 DEF s
    <3>2. \A i \in 1..(Len(q) - k + 1) : s[i] = q[k + i - 1]
      BY <1>2 DEF s
    <3>3. ASSUME NEW i \in 1..(Len(q) - k) PROVE Tail(s)[i] = q[k + i]
      <4>1. Tail(s)[i] = s[i + 1] /\ i + 1 \in 1..(Len(q) - k + 1)
        BY <1>3, <3>1
      <4>2. k + (i + 1) - 1 = k + i
        OBVIOUS
      <4> QED
        BY <3>2, <4>1, <4>2
    <3> QED
      BY <1>3, <3>1, <3>3
  <2>2. /\ From(q, k + 1) \in Seq(Step) /\ Len(From(q, k + 1)) = Len(q) - k
        /\ \A i \in 1..(Len(q) - k) : From(q, k + 1)[i] = q[k + i]
    <3>1. From(q, k + 1) \in Seq(Step) /\ Len(From(q, k + 1)) = Len(q) - k
      BY <1>3 DEF From
    <3>2. ASSUME NEW i \in 1..(Len(q) - k) PROVE From(q, k + 1)[i] = q[k + i]
      <4>1. From(q, k + 1)[i] = q[(k + 1) + i - 1]
        BY <1>3 DEF From
      <4>2. (k + 1) + i - 1 = k + i
        OBVIOUS
      <4> QED
        BY <4>1, <4>2
    <3> QED
      BY <3>1, <3>2
  <2> DEFINE a == Tail(s)
             b == From(q, k + 1)
  <2>3. /\ a \in Seq(Step) /\ b \in Seq(Step) /\ Len(a) = Len(b)
        /\ \A i \in 1..Len(a) : a[i] = b[i]
    <3> HIDE DEF s
    <3> QED
      BY <2>1, <2>2
  <2>4. a = b
    <3> HIDE DEF a, b
    <3> QED
      BY <2>3
  <2> QED
    BY <2>4
<1> QED
  BY <1>1, <1>2, <1>3

LEMMA RouteIs ==
  ASSUME NEW st, NEW was \in BOOLEAN, NEW q, q = Route(st, was)
  PROVE  /\ q \in Seq(Step)
         /\ st = "authorized" =>
              /\ was => Len(q) = 4
              /\ ~was => Len(q) = 5 /\ q[5] = "invoice"
              /\ q[1] = "setPlan" /\ q[2] = "syncSub" /\ q[3] = "goActive" /\ q[4] = "assign"
         /\ st = "cancelled" =>
              /\ Len(q) = 4
              /\ q[1] = "assign" /\ q[2] = "setPlan" /\ q[3] = "syncSub" /\ q[4] = "stamp"
         /\ st \notin {"authorized", "cancelled"} => Len(q) = 1 /\ q[1] = "assign"
<1>1. CASE st = "authorized" /\ was
  <2>1. q = <<"setPlan", "syncSub", "goActive", "assign">>
    BY <1>1 DEF Route
  <2>2. q \in Seq(Step)
    BY <2>1 DEF Step
  <2>3. Len(q) = 4
    BY <2>1
  <2>4. q[1] = "setPlan" /\ q[2] = "syncSub" /\ q[3] = "goActive" /\ q[4] = "assign"
    BY <2>1
  <2> QED
    BY <1>1, <2>2, <2>3, <2>4
<1>2. CASE st = "authorized" /\ ~was
  <2>1. q = <<"setPlan", "syncSub", "goActive", "assign", "invoice">>
    BY <1>2 DEF Route
  <2>2. q \in Seq(Step)
    BY <2>1 DEF Step
  <2>3. Len(q) = 5
    BY <2>1
  <2>4. q[1] = "setPlan" /\ q[2] = "syncSub" /\ q[3] = "goActive" /\ q[4] = "assign" /\ q[5] = "invoice"
    BY <2>1
  <2> QED
    BY <1>2, <2>2, <2>3, <2>4
<1>3. CASE st = "cancelled"
  <2>1. q = <<"assign", "setPlan", "syncSub", "stamp">>
    BY <1>3 DEF Route
  <2>2. q \in Seq(Step)
    BY <2>1 DEF Step
  <2>3. Len(q) = 4
    BY <2>1
  <2>4. q[1] = "assign" /\ q[2] = "setPlan" /\ q[3] = "syncSub" /\ q[4] = "stamp"
    BY <2>1
  <2> QED
    BY <1>3, <2>2, <2>3, <2>4
<1>4. CASE st \notin {"authorized", "cancelled"}
  <2>1. q = <<"assign">>
    BY <1>4 DEF Route
  <2>2. q \in Seq(Step)
    BY <2>1 DEF Step
  <2>3. Len(q) = 1
    BY <2>1
  <2>4. q[1] = "assign"
    BY <2>1
  <2> QED
    BY <1>4, <2>2, <2>3, <2>4
<1> QED
  BY <1>1, <1>2, <1>3, <1>4

LEMMA RouteFirst ==
  ASSUME NEW st, NEW was \in BOOLEAN, NEW q, q = Route(st, was)
  PROVE  q \in Seq(Step) /\ Len(q) \in Nat /\ 1 \in 1..Len(q) /\ q = From(q, 1)
<1>1. q \in Seq(Step)
  BY RouteIs
<1>2. Len(q) \in {4, 5} \/ Len(q) = 1
  <2>1. CASE st = "authorized"
    BY <2>1, RouteIs
  <2>2. CASE st = "cancelled"
    BY <2>2, RouteIs
  <2>3. CASE st \notin {"authorized", "cancelled"}
    BY <2>3, RouteIs
  <2> QED
    BY <2>1, <2>2, <2>3
<1>3. \A n \in {1, 4, 5} : n \in Nat /\ 1 \in 1..n
  OBVIOUS
<1>4. Len(q) \in Nat /\ 1 \in 1..Len(q)
  BY <1>2, <1>3
<1> QED
  BY <1>1, <1>4, FromFirst

\* The k-th await of the routes.
Place(status, k, step) ==
  \/ status = "authorized" /\ k = 1 /\ step = "setPlan"
  \/ status = "authorized" /\ k = 2 /\ step = "syncSub"
  \/ status = "authorized" /\ k = 3 /\ step = "goActive"
  \/ status = "authorized" /\ k = 4 /\ step = "assign"
  \/ status = "authorized" /\ k = 5 /\ step = "invoice"
  \/ status = "cancelled" /\ k = 1 /\ step = "assign"
  \/ status = "cancelled" /\ k = 2 /\ step = "setPlan"
  \/ status = "cancelled" /\ k = 3 /\ step = "syncSub"
  \/ status = "cancelled" /\ k = 4 /\ step = "stamp"
  \/ status \notin {"authorized", "cancelled"} /\ k = 1 /\ step = "assign"

\* The await a webhook has come to on its route.
LEMMA RouteAt ==
  ASSUME NEW h \in Handler, NEW q, q = Route(h.status, h.was), NEW k \in 1..Len(q),
         h.todo = From(q, k)
  PROVE  /\ Len(h.todo) = 1 <=> k = Len(q)
         /\ k < Len(q) => Tail(h.todo) = From(q, k + 1)
         /\ Place(h.status, k, Head(h.todo))
<1> USE DEF Place
<1>1. h.was \in BOOLEAN
  BY DEF Handler
<1>2. q \in Seq(Step)
  BY <1>1, RouteIs
<1>3. /\ Head(h.todo) = q[k]
      /\ Len(h.todo) = 1 <=> k = Len(q)
      /\ k < Len(q) => Tail(h.todo) = From(q, k + 1)
  BY <1>2, FromOn
<1>4. CASE h.status = "authorized"
  <2>1. /\ h.was => Len(q) = 4
        /\ ~h.was => Len(q) = 5 /\ q[5] = "invoice"
        /\ q[1] = "setPlan" /\ q[2] = "syncSub" /\ q[3] = "goActive" /\ q[4] = "assign"
    BY <1>1, <1>4, RouteIs
  <2>2. CASE h.was
    <3>1. Len(q) = 4
      BY <2>1, <2>2
    <3>2. k \in {1, 2, 3, 4}
      BY <3>1
    <3> QED
      BY <1>3, <1>4, <2>1, <3>2
  <2>3. CASE ~h.was
    <3>1. Len(q) = 5 /\ q[5] = "invoice"
      BY <2>1, <2>3
    <3>2. k \in {1, 2, 3, 4, 5}
      BY <3>1
    <3> QED
      BY <1>3, <1>4, <2>1, <3>1, <3>2
  <2> QED
    BY <2>2, <2>3
<1>5. CASE h.status = "cancelled"
  <2>1. /\ Len(q) = 4
        /\ q[1] = "assign" /\ q[2] = "setPlan" /\ q[3] = "syncSub" /\ q[4] = "stamp"
    BY <1>1, <1>5, RouteIs
  <2>2. k \in {1, 2, 3, 4}
    BY <2>1
  <2> QED
    BY <1>3, <1>5, <2>1, <2>2
<1>6. CASE h.status \notin {"authorized", "cancelled"}
  <2>1. Len(q) = 1 /\ q[1] = "assign"
    BY <1>1, <1>6, RouteIs
  <2> QED
    BY <1>3, <1>6, <2>1
<1> QED
  BY <1>4, <1>5, <1>6

-----------------------------------------------------------------------------
(***************************************************************************)
(* Deliveries: the kinds of steps.  The proofs below split Next by what a  *)
(* step leaves alone, not by its handler.                                  *)
(***************************************************************************)
\* A handler after its next await.
Left(h) == IF Len(h.todo) = 1 THEN Idle ELSE [h EXCEPT !.todo = Tail(h.todo)]

LEMMA LeftOf ==
  ASSUME NEW h \in Handler, h.todo # <<>>
  PROVE  /\ Left(h) # h /\ Left(h) \in Handler
         /\ Len(h.todo) = 1 => Left(h) = Idle
         /\ Len(h.todo) # 1 =>
              /\ Left(h).op = h.op /\ Left(h).t = h.t /\ Left(h).pre = h.pre
              /\ Left(h).plan = h.plan /\ Left(h).status = h.status
              /\ Left(h).was = h.was /\ Left(h).todo = Tail(h.todo)
<1>1. h.todo \in Seq(Step) /\ Idle.todo = <<>> /\ Idle \in Handler
  BY DEF Handler, Idle
<1>2. Tail(h.todo) \in Seq(Step) /\ Tail(h.todo) # h.todo
  <2>1. PICK s \in Seq(Step) : s = h.todo /\ s # <<>>
    BY <1>1
  <2>2. Tail(s) \in Seq(Step) /\ Len(Tail(s)) = Len(s) - 1 /\ Len(s) \in Nat
    BY <2>1, HeadTailProperties, LenProperties
  <2>3. Len(Tail(s)) # Len(s)
    <3>1. \A n \in Nat : n - 1 # n
      OBVIOUS
    <3> QED
      BY <2>2, <3>1
  <2> QED
    BY <2>1, <2>2, <2>3
<1>3. CASE Len(h.todo) = 1
  BY <1>1, <1>3 DEF Left
<1>4. CASE Len(h.todo) # 1
  <2>1. Left(h) = [h EXCEPT !.todo = Tail(h.todo)]
    BY <1>4 DEF Left
  <2>2. /\ Left(h).op = h.op /\ Left(h).t = h.t /\ Left(h).pre = h.pre
        /\ Left(h).plan = h.plan /\ Left(h).status = h.status
        /\ Left(h).was = h.was /\ Left(h).todo = Tail(h.todo)
        /\ Left(h) \in Handler
    BY <1>2, <2>1 DEF Handler
  <2> QED
    BY <1>2, <1>4, <2>2
<1> QED
  BY <1>3, <1>4

\* What a step leaves as it is: every slot but one, a tenant's plan, and a
\* subscription but for the date of its cancellation.
Only(r) == \A q \in Req \ {r} : req'[q] = req[q]
SamePlan(t) == tenant'[t].plan = tenant[t].plan
Alike(t) ==
  /\ sub'[t].status = sub[t].status /\ sub'[t].pre = sub[t].pre
  /\ sub'[t].email = sub[t].email /\ sub'[t].planName = sub[t].planName
  /\ sub[t].dated => sub'[t].dated

\* A subscription that holds a preapproval exists.
Known(s) == s.pre # None => s.status # "none"

MpStill == mp' = mp /\ notif' = notif

MpMoves ==
  \E p \in Preapproval :
    /\ notif' = notif \cup {p}
    /\ mp'[p].payer = mp[p].payer
    /\ \A q \in Preapproval \ {p} : mp'[q] = mp[q]

\* The kinds of steps.  Handlers of one write:
Aside ==
  /\ req' = req /\ MpStill /\ UNCHANGED <<sub, link>>
  /\ \A t \in Tenant : SamePlan(t) \/ Created(t)

\* MercadoPago or its customer changes a preapproval;
AtMp == req' = req /\ MpMoves /\ UNCHANGED <<tenant, sub, link>>

\* a customer pays;
Pays(t, p) ==
  /\ req' = req /\ UNCHANGED <<tenant, sub>>
  /\ link[t] \in PaidPlan /\ link' = [link EXCEPT ![t] = p]
  /\ mp[p].status = "none"
  /\ notif' = notif \cup {p}
  /\ \A q \in Preapproval \ {p} : mp'[q] = mp[q]

\* a request begins a handler;
Arrives(r) ==
  /\ Only(r) /\ MpStill /\ UNCHANGED <<sub, link>>
  /\ req[r] = Idle /\ req'[r].op \notin {"webhook", "idle"}
  /\ \A t \in Tenant : SamePlan(t) \/ (req'[r].op = "updatePlan" /\ req'[r].t = t)

\* a notification begins one;
Fetches(r, p) ==
  /\ Only(r) /\ UNCHANGED <<tenant, sub, mp, link>>
  /\ req[r] = Idle
  /\ req'[r] = Request("webhook", None, p, None, mp[p].status, <<"findByPre">>)
  /\ p \in notif /\ notif' \in {notif \ {p}, notif}

\* a handler throws;
Dies(r, failed) ==
  /\ Only(r) /\ UNCHANGED <<tenant, sub, mp, link>>
  /\ req[r] # Idle /\ req'[r] = Idle
  /\ notif' = IF req[r].op = "webhook" THEN notif \cup {req[r].pre} ELSE notif
  /\ r \in failed \/ Head(req[r].todo) \in {"mpSet", "setPlan", "goActive"}

\* a webhook looks for its subscription;
Looks(r) ==
  /\ Only(r) /\ MpStill /\ UNCHANGED <<tenant, sub, link>>
  /\ FindByPre(r) \/ FindByEmail(r)

\* an await of a handler that has its tenant returns.
WebhookWrites(h) ==
  LET step == Head(h.todo) IN
  /\ MpStill /\ link' = link
  /\ IF step = "setPlan" THEN tenant'[h.t].plan = h.plan ELSE SamePlan(h.t)
  /\ step \in {"setPlan", "goActive", "invoice", "stamp"} => Alike(h.t)
  /\ step = "syncSub" => sub'[h.t] = IF h.plan = "free"
                                       THEN Cancelled(sub[h.t])
                                       ELSE Authorized(sub[h.t], h.plan)
  /\ step = "assign" => sub'[h.t] = Assigned(sub[h.t], h.status, h.pre)
  /\ step = "stamp" /\ (\A u \in Tenant : sub[u].pre = h.pre <=> u = h.t) =>
       sub'[h.t].dated

WebhookSteps == {"setPlan", "syncSub", "goActive", "assign", "stamp", "invoice"}

Goes(r) ==
  LET h == req[r] IN
  /\ Only(r) /\ h.todo # <<>> /\ req'[r] = Left(h) /\ h.t \in Tenant
  /\ \A u \in Tenant \ {h.t} : SamePlan(u) /\ Alike(u)
  /\ Known(sub[h.t]) => Known(sub'[h.t])
  /\ MpStill \/ MpMoves
  /\ h.op = "webhook" /\ Head(h.todo) \in WebhookSteps => WebhookWrites(h)
  /\ IF Head(h.todo) = "openSub"
       THEN /\ sub'[h.t] = Opened(h.t, h.plan) /\ h.plan \in PaidPlan
            /\ link' = [link EXCEPT ![h.t] = h.plan]
       ELSE link' = link

Kind(failed) ==
  \/ Aside \/ AtMp
  \/ \E t \in Tenant, p \in Preapproval : Pays(t, p)
  \/ \E r \in Req :
       \/ Arrives(r) \/ Dies(r, failed) \/ Looks(r) \/ Goes(r)
       \/ \E p \in Preapproval : Fetches(r, p)

LEMMA BeginOnly ==
  ASSUME TypeInv, NEW r \in Req, NEW h, Begin(r, h)
  PROVE  Only(r) /\ req'[r] = h
  BY DEF Begin, Only, TypeInv, TypeOK

LEMMA ThrowOnly ==
  ASSUME TypeInv, NEW r \in Req, Throw(r)
  PROVE  /\ Only(r) /\ req'[r] = Idle
         /\ notif' = IF req[r].op = "webhook" THEN notif \cup {req[r].pre} ELSE notif
  BY DEF Throw, Only, TypeInv, TypeOK

LEMMA ProceedOnly ==
  ASSUME TypeInv, NEW r \in Req, Proceed(r)
  PROVE  Only(r) /\ req'[r] = Left(req[r])
  BY DEF Proceed, Left, Only, TypeInv, TypeOK

LEMMA RequestKinds ==
  ASSUME TypeInv, TenantRequest \/ BillingRequest, NEW failed
  PROVE  Kind(failed)
<1> USE DEF Kind
<1>1. ASSUME NEW t \in Tenant,
             \/ \E plan \in PlanInput \cup {"free"} : Create(t, plan)
             \/ \E s \in StatusInput : UpdateStatus(t, s)
             \/ \E b \in BOOLEAN : UpdateInstance(t, b)
             \/ Deactivate(t) \/ Delete(t) \/ Undelete(t)
      PROVE  Aside
  <2> USE DEF Aside, MpStill, SamePlan, Created, TypeInv, TypeOK, TenantDoc, world
  <2>1. CASE \E plan \in PlanInput \cup {"free"} : Create(t, plan)
    BY <2>1 DEF Create, CreateTenant, NoTenant
  <2>2. CASE \E s \in StatusInput : UpdateStatus(t, s)
    BY <2>2 DEF UpdateStatus, SetStatus
  <2>3. CASE \E b \in BOOLEAN : UpdateInstance(t, b)
    BY <2>3 DEF UpdateInstance, SetInstance
  <2>4. CASE Deactivate(t)
    BY <2>4 DEF Deactivate, SetStatus
  <2>5. CASE Delete(t) \/ Undelete(t)
    BY <2>5 DEF Delete, Undelete, SoftDelete, Restore
  <2> QED
    BY <1>1, <2>1, <2>2, <2>3, <2>4, <2>5
<1>2. ASSUME NEW r \in Req, NEW t \in Tenant,
             \/ Activate(r, t) \/ HardDelete(r, t)
             \/ \E plan \in PlanInput : Checkout(r, t, plan) \/ ManualActivate(r, t, plan)
             \/ Cancel(r, t) \/ Pause(r, t) \/ Resume(r, t)
      PROVE  Arrives(r)
  <2>1. ASSUME NEW op, NEW pre, NEW plan, NEW st, NEW todo, NEW h,
               h = Request(op, t, pre, plan, st, todo)
        PROVE  h.op = op
    BY <2>1 DEF Request
  <2>2. \E h : Begin(r, h) /\ h.op \notin {"webhook", "idle"}
    BY <1>2, <2>1 DEF Activate, HardDelete, Checkout, ManualActivate, Cancel, Pause, Resume
  <2>3. req[r] = Idle /\ UNCHANGED <<tenant, mp, notif, sub, link>>
    BY <1>2 DEF Activate, HardDelete, Checkout, ManualActivate, Cancel, Pause, Resume,
                Free, world
  <2> QED
    BY <2>2, <2>3, BeginOnly DEF Arrives, MpStill, SamePlan
<1>3. ASSUME NEW r \in Req, NEW t \in Tenant, NEW plan \in PlanInput \cup {"free"},
             UpdatePlan(r, t, plan)
      PROVE  Arrives(r)
  <2>1. PICK h : Begin(r, h) /\ h.op = "updatePlan" /\ h.t = t
    BY <1>3 DEF UpdatePlan, Request
  <2>2. req[r] = Idle /\ UNCHANGED <<mp, notif, sub, link>>
    BY <1>3 DEF UpdatePlan, Free
  <2>3. \A u \in Tenant \ {t} : SamePlan(u)
    BY <1>3 DEF UpdatePlan, AssignPlan, SamePlan, TypeInv, TypeOK
  <2> QED
    BY <2>1, <2>2, <2>3, BeginOnly DEF Arrives, MpStill
<1>4. TenantRequest => Aside \/ \E r \in Req : Arrives(r)
  BY <1>1, <1>2, <1>3 DEF TenantRequest
<1>5. BillingRequest => \E r \in Req : Arrives(r)
  BY <1>2 DEF BillingRequest
<1> QED
  BY <1>4, <1>5

LEMMA CustomerKinds ==
  ASSUME TypeInv, Customer \/ Webhook, NEW failed
  PROVE  Kind(failed)
<1> USE DEF Kind
<1>1. ASSUME NEW p \in Preapproval, NEW s \in MpStatus, MpSite(p, s)
      PROVE  AtMp
  BY <1>1 DEF MpSite, MpChange, AtMp, MpMoves, TypeInv, TypeOK, MpRecord
<1>2. ASSUME NEW p \in Preapproval, NEW s \in MpStatus, NEW t \in Tenant, Pay(t, p, s)
      PROVE  Pays(t, p)
  BY <1>2 DEF Pay, MpSubscribe, Pays, TypeInv, TypeOK
<1>3. ASSUME NEW r \in Req, NEW p \in Preapproval, Deliver(r, p)
      PROVE  Fetches(r, p)
  <2>1. Begin(r, Request("webhook", None, p, None, mp[p].status, <<"findByPre">>))
    BY <1>3 DEF Deliver
  <2> QED
    BY <1>3, <2>1, BeginOnly DEF Deliver, Fetches, Free, world
<1> QED
  BY <1>1, <1>2, <1>3 DEF Customer, Webhook

LEMMA FailKind ==
  ASSUME TypeInv, NEW r \in Req, Fail(r)
  PROVE  Kind({r})
<1>1. Dies(r, {r})
  BY ThrowOnly DEF Fail, Dies, world
<1> QED
  BY <1>1 DEF Kind

\* An await that returns, at its tenant.
LEMMA AtTenant ==
  ASSUME TypeInv, NEW r \in Req, NEW step, step \notin {"findByPre", "findByEmail"},
         Awaits(r, step), Proceed(r)
  PROVE  /\ req[r].t \in Tenant /\ req[r].todo # <<>> /\ Head(req[r].todo) = step
         /\ Only(r) /\ req'[r] = Left(req[r])
         /\ step \in Step /\ StepReady(req[r], step)
<1>1. step \in Step /\ StepReady(req[r], step)
  BY AwaitsReady DEF TypeInv, HandlersReady
<1> QED
  BY <1>1, ProceedOnly DEF Awaits, StepReady

LEMMA ThrowKind ==
  ASSUME TypeInv, NEW r \in Req, NEW failed, NEW step \in {"mpSet", "setPlan", "goActive"},
         Awaits(r, step), Throw(r), UNCHANGED <<tenant, sub, mp, link>>
  PROVE  Kind(failed)
<1>1. req[r] # Idle /\ Head(req[r].todo) = step
  BY DEF Awaits, Idle
<1>2. Dies(r, failed)
  BY <1>1, ThrowOnly DEF Dies
<1> QED
  BY <1>2 DEF Kind

\* The awaits that write a tenant.
LEMMA TenantKinds ==
  ASSUME TypeInv, NEW r \in Req, NEW failed,
         ActivateWriteStep(r) \/ EraseTenantStep(r) \/ SetPlan(r) \/ GoActive(r)
  PROVE  Kind(failed)
<1> USE DEF MpStill, SamePlan, Alike, WebhookSteps
<1>1. CASE ActivateWriteStep(r)
  <2>1. Awaits(r, "activateWrite") /\ Proceed(r) /\ ActivateWrite(req[r].t)
        /\ UNCHANGED <<notif, sub, mp, link>>
    BY <1>1 DEF ActivateWriteStep, world
  <2>2. \A u \in Tenant : SamePlan(u)
    BY <2>1 DEF ActivateWrite, TypeInv, TypeOK
  <2>3. Goes(r)
    BY <2>1, <2>2, AtTenant DEF Goes
  <2> QED
    BY <2>3 DEF Kind
<1>2. CASE EraseTenantStep(r)
  <2>1. Awaits(r, "eraseTenant") /\ Proceed(r) /\ EraseTenant(req[r].t)
        /\ UNCHANGED <<notif, sub, mp, link>>
    BY <1>2 DEF EraseTenantStep, world
  <2>2. \A u \in Tenant \ {req[r].t} : SamePlan(u)
    BY <2>1 DEF EraseTenant, TypeInv, TypeOK
  <2>3. Goes(r)
    BY <2>1, <2>2, AtTenant DEF Goes
  <2> QED
    BY <2>3 DEF Kind
<1>3. CASE SetPlan(r)
  <2>1. Awaits(r, "setPlan") /\ AssignPlan(req[r].t, req[r].plan)
        /\ UNCHANGED <<sub, mp, link>>
        /\ IF Live(req[r].t) THEN Proceed(r) /\ UNCHANGED notif ELSE Throw(r)
    BY <1>3 DEF SetPlan, world
  <2>2. CASE Live(req[r].t)
    <3>1. req[r].t \in Tenant
      BY <2>1, <2>2, AtTenant
    <3>2. tenant'[req[r].t].plan = req[r].plan
          /\ \A u \in Tenant \ {req[r].t} : SamePlan(u)
      BY <2>1, <2>2, <3>1 DEF AssignPlan, TypeInv, TypeOK, TenantDoc
    <3>3. Goes(r)
      BY <2>1, <2>2, <3>1, <3>2, AtTenant DEF Goes, WebhookWrites
    <3> QED
      BY <3>3 DEF Kind
  <2>3. CASE ~Live(req[r].t)
    BY <2>1, <2>3, ThrowKind DEF AssignPlan
  <2> QED
    BY <2>2, <2>3
<1>4. CASE GoActive(r)
  <2>1. Awaits(r, "goActive") /\ UNCHANGED <<sub, mp, link>>
    BY <1>4 DEF GoActive, world
  <2>2. CASE SetStatus(req[r].t, "active") /\ Proceed(r) /\ UNCHANGED notif
    <3>1. \A u \in Tenant : SamePlan(u)
      BY <2>2 DEF SetStatus, TypeInv, TypeOK, TenantDoc
    <3>2. req[r].t \in Tenant
      BY <2>1, <2>2, AtTenant
    <3>3. Goes(r)
      BY <2>1, <2>2, <3>1, <3>2, AtTenant DEF Goes, WebhookWrites
    <3> QED
      BY <3>3 DEF Kind
  <2>3. CASE Throw(r) /\ UNCHANGED tenant
    BY <2>1, <2>3, ThrowKind
  <2> QED
    BY <1>4, <2>2, <2>3 DEF GoActive
<1> QED
  BY <1>1, <1>2, <1>3, <1>4

\* The awaits of the panel's requests.
LEMMA PanelKinds ==
  ASSUME TypeInv, NEW r \in Req, NEW failed,
         EraseSub(r) \/ OpenSub(r) \/ MpSet(r) \/ SubStatusStep(r) \/ GrantSub(r)
  PROVE  Kind(failed)
<1> USE DEF MpStill, SamePlan, Alike, WebhookSteps
<1>1. CASE EraseSub(r) \/ GrantSub(r) \/ SubStatusStep(r)
  <2>1. PICK step \in {"eraseSub", "grantSub", "subStatus"} : Awaits(r, step)
    BY <1>1 DEF EraseSub, GrantSub, SubStatusStep
  <2>2. Proceed(r) /\ UNCHANGED <<tenant, notif, mp, link>>
    BY <1>1 DEF EraseSub, GrantSub, SubStatusStep, world
  <2>3. \A u \in Tenant \ {req[r].t} : sub'[u] = sub[u]
    <3>1. CASE EraseSub(r)
      BY <3>1 DEF EraseSub, TypeInv, TypeOK
    <3>2. CASE GrantSub(r)
      BY <3>2 DEF GrantSub, TypeInv, TypeOK
    <3>3. CASE SubStatusStep(r)
      BY <3>3 DEF SubStatusStep, TypeInv, TypeOK
    <3> QED
      BY <1>1, <3>1, <3>2, <3>3
  <2>4. Known(sub[req[r].t]) => Known(sub'[req[r].t])
    <3>1. req[r].t \in Tenant /\ sub[req[r].t] \in SubDoc
      BY <2>1, <2>2, AtTenant DEF TypeInv, TypeOK
    <3>2. CASE EraseSub(r)
      BY <3>1, <3>2 DEF EraseSub, NoSub, Known, TypeInv, TypeOK
    <3>3. CASE GrantSub(r)
      BY <3>1, <3>3 DEF GrantSub, Authorized, Known, SubDoc, TypeInv, TypeOK
    <3>4. CASE SubStatusStep(r)
      <4>1. req[r].status \in MpStatus /\ "none" \notin MpStatus
        BY <2>2, <3>4, AtTenant DEF SubStatusStep, StepReady, MpStatus
      <4> QED
        BY <3>1, <3>4, <4>1 DEF SubStatusStep, Known, SubDoc, TypeInv, TypeOK
    <3> QED
      BY <1>1, <3>2, <3>3, <3>4
  <2>5. Goes(r)
    BY <2>1, <2>2, <2>3, <2>4, AtTenant DEF Goes
  <2> QED
    BY <2>5 DEF Kind
<1>2. CASE OpenSub(r)
  <2>1. /\ Awaits(r, "openSub") /\ Proceed(r) /\ UNCHANGED <<tenant, mp, notif>>
        /\ sub' = [sub EXCEPT ![req[r].t] = Opened(req[r].t, req[r].plan)]
        /\ link' = [link EXCEPT ![req[r].t] = req[r].plan]
    BY <1>2 DEF OpenSub
  <2>2. req[r].t \in Tenant /\ req[r].plan \in PaidPlan
    BY <2>1, AtTenant DEF StepReady
  <2>3. /\ sub'[req[r].t] = Opened(req[r].t, req[r].plan)
        /\ \A u \in Tenant \ {req[r].t} : sub'[u] = sub[u]
    BY <2>1, <2>2 DEF TypeInv, TypeOK
  <2>4. Known(sub'[req[r].t])
    BY <2>3 DEF Opened, Known
  <2>5. Goes(r)
    BY <2>1, <2>2, <2>3, <2>4, AtTenant DEF Goes
  <2> QED
    BY <2>5 DEF Kind
<1>3. CASE MpSet(r)
  <2>1. Awaits(r, "mpSet") /\ UNCHANGED <<tenant, sub, link>>
    BY <1>3 DEF MpSet
  <2>2. CASE MpChange(req[r].pre, req[r].status) /\ Proceed(r)
    <3>1. req[r].pre \in Preapproval
      BY <2>1, <2>2, AtTenant DEF StepReady
    <3>2. MpMoves
      BY <2>2, <3>1 DEF MpChange, MpMoves, TypeInv, TypeOK, MpRecord
    <3>3. Goes(r)
      BY <2>1, <2>2, <3>2, AtTenant DEF Goes
    <3> QED
      BY <3>3 DEF Kind
  <2>3. CASE Throw(r) /\ UNCHANGED mp
    BY <2>1, <2>3, ThrowKind
  <2> QED
    BY <1>3, <2>2, <2>3 DEF MpSet
<1> QED
  BY <1>1, <1>2, <1>3

\* The awaits of a webhook that found its subscription.
LEMMA WebhookKinds ==
  ASSUME TypeInv, NEW r \in Req, NEW failed,
         SyncSub(r) \/ Assign(r) \/ Stamp(r) \/ Invoice(r)
  PROVE  Kind(failed)
<1> USE DEF MpStill, SamePlan, Alike, WebhookSteps
<1>1. CASE SyncSub(r)
  <2>1. /\ Awaits(r, "syncSub") /\ Proceed(r) /\ UNCHANGED <<tenant, notif, mp, link>>
        /\ sub' = [sub EXCEPT ![req[r].t] = IF req[r].plan = "free"
                                              THEN Cancelled(@)
                                              ELSE Authorized(@, req[r].plan)]
    BY <1>1 DEF SyncSub, world
  <2>2. req[r].t \in Tenant
    BY <2>1, AtTenant
  <2>3. /\ sub'[req[r].t] = IF req[r].plan = "free"
                              THEN Cancelled(sub[req[r].t])
                              ELSE Authorized(sub[req[r].t], req[r].plan)
        /\ \A u \in Tenant \ {req[r].t} : sub'[u] = sub[u]
    BY <2>1, <2>2 DEF TypeInv, TypeOK
  <2>4. Known(sub[req[r].t]) => Known(sub'[req[r].t])
    BY <2>2, <2>3 DEF Cancelled, Authorized, Known, SubDoc, TypeInv, TypeOK
  <2>5. Goes(r)
    BY <2>1, <2>2, <2>3, <2>4, AtTenant DEF Goes, WebhookWrites
  <2> QED
    BY <2>5 DEF Kind
<1>2. CASE Assign(r)
  <2>1. /\ Awaits(r, "assign") /\ Proceed(r) /\ UNCHANGED <<tenant, notif, mp, link>>
        /\ sub' = [sub EXCEPT ![req[r].t] = Assigned(@, req[r].status, req[r].pre)]
    BY <1>2 DEF Assign
  <2>2. req[r].t \in Tenant
    BY <2>1, AtTenant
  <2>3. /\ sub'[req[r].t] = Assigned(sub[req[r].t], req[r].status, req[r].pre)
        /\ \A u \in Tenant \ {req[r].t} : sub'[u] = sub[u]
    BY <2>1, <2>2 DEF TypeInv, TypeOK
  <2>4. Known(sub[req[r].t]) => Known(sub'[req[r].t])
    <3>1. req[r].status \in MpStatus /\ "none" \notin MpStatus
      BY <2>1, AtTenant DEF StepReady, MpStatus
    <3> QED
      BY <2>2, <2>3, <3>1 DEF Assigned, Known, SubDoc, TypeInv, TypeOK
  <2>5. Goes(r)
    BY <2>1, <2>2, <2>3, <2>4, AtTenant DEF Goes, WebhookWrites
  <2> QED
    BY <2>5 DEF Kind
<1>3. CASE Stamp(r)
  <2>1. /\ Awaits(r, "stamp") /\ Proceed(r) /\ UNCHANGED <<tenant, notif, mp, link>>
    BY <1>3 DEF Stamp, world
  <2>2. req[r].t \in Tenant
    BY <2>1, AtTenant
  <2>3. \A u \in Tenant : Alike(u)
    BY <1>3 DEF Stamp, TypeInv, TypeOK, SubDoc
  <2>4. (\A u \in Tenant : sub[u].pre = req[r].pre <=> u = req[r].t) =>
          sub'[req[r].t].dated
    BY <1>3, <2>2 DEF Stamp, TypeInv, TypeOK, SubDoc
  <2>5. Known(sub[req[r].t]) => Known(sub'[req[r].t])
    BY <2>2, <2>3 DEF Known
  <2>6. Goes(r)
    <3> HIDE DEF Alike
    <3> QED
      BY <2>1, <2>2, <2>3, <2>4, <2>5, AtTenant DEF Goes, WebhookWrites
  <2> QED
    BY <2>6 DEF Kind
<1>4. CASE Invoice(r)
  <2>1. /\ Awaits(r, "invoice") /\ Proceed(r)
        /\ UNCHANGED <<tenant, notif, mp, sub, link>>
    BY <1>4 DEF Invoice
  <2>2. Goes(r)
    BY <2>1, AtTenant DEF Goes, WebhookWrites
  <2> QED
    BY <2>2 DEF Kind
<1> QED
  BY <1>1, <1>2, <1>3, <1>4

LEMMA FindKinds ==
  ASSUME TypeInv, NEW r \in Req, NEW failed, FindByPre(r) \/ FindByEmail(r)
  PROVE  Kind(failed)
<1>1. PICK g : Begin(r, g)
  BY DEF FindByPre, FindByEmail, Found
<1>2. Looks(r)
  BY <1>1, BeginOnly DEF FindByPre, FindByEmail, Looks, MpStill, world
<1> QED
  BY <1>2 DEF Kind

\* Every step of Billing is of one of these kinds.
LEMMA StepKinds ==
  ASSUME TypeInv, DeliveriesNext
  PROVE  \E failed : Record(failed) /\ Kind(failed)
<1>1. ASSUME NEW r \in Req, Continue(r)
      PROVE  Kind({})
  BY <1>1, TenantKinds, PanelKinds, WebhookKinds, FindKinds DEF Continue
<1>2. CASE /\ \/ TenantRequest \/ BillingRequest \/ Webhook \/ Customer
              \/ \E r \in Req : Continue(r)
           /\ Record({})
  <2>1. Kind({})
    BY <1>1, <1>2, RequestKinds, CustomerKinds
  <2> QED
    BY <1>2, <2>1
<1>3. CASE \E r \in Req : Fail(r) /\ Record({r})
  BY <1>3, FailKind
<1> QED
  BY <1>2, <1>3 DEF DeliveriesNext

-----------------------------------------------------------------------------
(***************************************************************************)
(* Deliveries: what a webhook has done when it comes to an await.          *)
(***************************************************************************)
\* The handler has come to the k-th await of its route.
At(h, k) ==
  /\ k \in 1..Len(Route(h.status, h.was))
  /\ h.todo = From(Route(h.status, h.was), k)

\* What the awaits before the k-th wrote.
Done(h, k) ==
  /\ sub[h.t].status # "none"
  /\ h.status = "authorized" =>
       /\ k > 1 => tenant[h.t].plan = h.plan
       /\ k > 2 => sub[h.t].planName = h.plan
  /\ h.status = "cancelled" =>
       /\ k > 2 => tenant[h.t].plan = "free"
       /\ k > 4 => sub[h.t].dated
  /\ k > (IF h.status = "authorized" THEN 4 ELSE 1) =>
       sub[h.t].pre = h.pre /\ sub[h.t].status = h.status

Seeking(h) == h.t = None /\ h.todo \in {<<"findByPre">>, <<"findByEmail">>}

\* A webhook that found the subscription of its customer.
Bound(h) ==
  /\ h.t \in Tenant /\ mp[h.pre].payer = EmailOf[h.t]
  /\ h.status = "authorized" => h.plan \in PaidPlan
  /\ h.status = "cancelled" => h.plan = "free"
  /\ \E k : At(h, k)

Scripted(h) == h.op = "webhook" => h.status \in MpStatus /\ (Seeking(h) \/ Bound(h))

\* The assignment is still to come.
Unassigned(h) ==
  \E k \in 1..4 : At(h, k) /\ (h.status # "authorized" => k = 1)

ScriptInv ==
  /\ \A t \in Tenant : Known(sub[t])
  /\ \A r \in Req : Scripted(req[r])

\* The await that a webhook bound to a tenant has come to, and what is left of
\* its route after it.
LEMMA RouteOn ==
  ASSUME NEW h \in Handler, NEW k, At(h, k)
  PROVE  LET step == Head(h.todo) IN
         /\ k \in 1..5 /\ h.todo # <<>> /\ step \in WebhookSteps
         /\ Len(h.todo) = 1 =>
              k + 1 > (IF h.status = "authorized" THEN 4 ELSE 1)
              /\ (h.status = "cancelled" => k = 4)
         /\ Len(h.todo) # 1 => At(Left(h), k + 1)
         /\ Place(h.status, k, step)
<1>1. PICK q : q = Route(h.status, h.was) /\ k \in 1..Len(q) /\ h.todo = From(q, k)
  BY DEF At
<1>2. h.was \in BOOLEAN
  BY DEF Handler
<1>3. q \in Seq(Step)
  BY <1>1, <1>2, RouteIs
<1>4. h.todo # <<>>
  BY <1>1, <1>3, FromOn
<1>5. /\ Len(h.todo) = 1 <=> k = Len(q)
      /\ k < Len(q) => Tail(h.todo) = From(q, k + 1)
  BY <1>1, RouteAt
<1>6. Len(q) \in Nat
  BY <1>3
<1>7. ASSUME Len(h.todo) # 1 PROVE At(Left(h), k + 1)
  <2>1. k + 1 \in 1..Len(q) /\ Tail(h.todo) = From(q, k + 1)
    BY <1>1, <1>5, <1>6, <1>7
  <2> QED
    BY <1>1, <1>4, <1>7, <2>1, LeftOf DEF At
<1>8. CASE h.status = "authorized"
  <2>1. k \in 1..5 /\ (Len(h.todo) = 1 => k \in {4, 5})
    <3>1. Len(q) = 4 \/ Len(q) = 5
      BY <1>1, <1>2, <1>8, RouteIs
    <3>2. \A n \in {4, 5} : \A i \in 1..n : i \in 1..5
      OBVIOUS
    <3> QED
      BY <1>1, <1>5, <3>1, <3>2
  <2>2. Place(h.status, k, Head(h.todo))
    BY <1>1, RouteAt
  <2> QED
    BY <1>4, <1>7, <1>8, <2>1, <2>2 DEF WebhookSteps, Place
<1>9. CASE h.status = "cancelled"
  <2>1. k \in 1..4 /\ (Len(h.todo) = 1 => k = 4)
    <3>1. Len(q) = 4
      BY <1>1, <1>2, <1>9, RouteIs
    <3> QED
      BY <1>1, <1>5, <3>1
  <2>2. Place(h.status, k, Head(h.todo))
    BY <1>1, RouteAt
  <2> QED
    BY <1>4, <1>7, <1>9, <2>1, <2>2 DEF WebhookSteps, Place
<1>10. CASE h.status \notin {"authorized", "cancelled"}
  <2>1. k = 1 /\ Place(h.status, k, Head(h.todo))
    BY <1>1, <1>10, RouteAt DEF Place
  <2> QED
    BY <1>4, <1>7, <1>10, <2>1 DEF WebhookSteps, Place
<1> QED
  BY <1>8, <1>9, <1>10

\* A webhook that goes on is at one place of its route, and writes.
LEMMA WebhookGoes ==
  ASSUME TypeInv, ScriptInv, NEW r \in Req, NEW h, h = req[r], h.op = "webhook", Goes(r)
  PROVE  /\ h \in Handler /\ h.status \in MpStatus /\ h.pre \in Preapproval
         /\ Bound(h) /\ WebhookWrites(h) /\ Head(h.todo) # "openSub"
         /\ Len(h.todo) # 1 => req'[r].op = "webhook"
<1>1. Ready(h) /\ h \in Handler /\ h.pre \in Preapproval
  BY DEF TypeInv, TypeOK, HandlersReady, Ready
<1>2. h.t \in Tenant /\ h.t # None /\ Bound(h) /\ h.status \in MpStatus
  BY BillingAssumption DEF Goes, ScriptInv, Scripted, Seeking
<1>3. PICK k : At(h, k)
  BY <1>2 DEF Bound
<1>4. Head(h.todo) \in WebhookSteps /\ (Len(h.todo) # 1 => At(Left(h), k + 1))
  BY <1>1, <1>3, RouteOn
<1>5. Head(h.todo) # "openSub" /\ h.todo # <<>>
  BY <1>4 DEF WebhookSteps, Goes
<1>6. WebhookWrites(h)
  BY <1>4 DEF Goes
<1> QED
  BY <1>1, <1>2, <1>5, <1>6, LeftOf DEF Goes

\* What a webhook has done after its await, when it works on t and no step but
\* its own touches t.
LEMMA DoneOn ==
  ASSUME TypeInv, ScriptInv, NEW r \in Req, NEW h, h = req[r], h.op = "webhook", Goes(r),
         NEW k, At(h, k), Done(h, k),
         Head(h.todo) = "stamp" => \A u \in Tenant : sub[u].pre = h.pre <=> u = h.t
  PROVE  Done(h, k + 1)'
<1>1. /\ h \in Handler /\ h.status \in MpStatus /\ h.pre \in Preapproval
      /\ Bound(h) /\ WebhookWrites(h)
  BY WebhookGoes
<1>2. Place(h.status, k, Head(h.todo)) /\ k \in 1..5
  BY <1>1, RouteOn
<1>3. h.t \in Tenant /\ sub[h.t] \in SubDoc /\ "none" \notin MpStatus /\ "free" \notin PaidPlan
  BY <1>1 DEF Bound, TypeInv, TypeOK, MpStatus, PaidPlan
<1> USE DEF Done, WebhookWrites, SamePlan, Alike
<1>4. CASE h.status = "authorized"
  <2>1. h.plan \in PaidPlan /\ h.plan # "free"
    BY <1>1, <1>3, <1>4 DEF Bound
  <2>2. CASE k = 1
    BY <1>1, <1>2, <1>4, <2>2 DEF Place
  <2>3. CASE k = 2
    <3>1. SamePlan(h.t) /\ sub'[h.t] = Authorized(sub[h.t], h.plan)
      BY <1>1, <1>2, <1>4, <2>1, <2>3 DEF Place
    <3>2. sub'[h.t].planName = h.plan /\ sub'[h.t].status = "authorized"
      BY <1>3, <3>1 DEF Authorized, SubDoc
    <3> QED
      BY <1>4, <2>3, <3>1, <3>2
  <2>4. CASE k = 3
    BY <1>1, <1>2, <1>4, <2>4 DEF Place
  <2>5. CASE k = 4
    <3>1. SamePlan(h.t) /\ sub'[h.t] = Assigned(sub[h.t], h.status, h.pre)
      BY <1>1, <1>2, <1>4, <2>5 DEF Place
    <3>2. /\ sub'[h.t].planName = sub[h.t].planName
          /\ sub'[h.t].status = h.status /\ sub'[h.t].pre = h.pre
      BY <1>3, <3>1 DEF Assigned, SubDoc
    <3> QED
      BY <1>1, <1>3, <1>4, <2>5, <3>1, <3>2
  <2>6. CASE k = 5
    BY <1>1, <1>2, <1>4, <2>6 DEF Place
  <2> QED
    BY <1>2, <2>2, <2>3, <2>4, <2>5, <2>6
<1>5. CASE h.status = "cancelled"
  <2>1. h.plan = "free"
    BY <1>1, <1>5 DEF Bound
  <2>2. CASE k = 1
    <3>1. SamePlan(h.t) /\ sub'[h.t] = Assigned(sub[h.t], h.status, h.pre)
      BY <1>1, <1>2, <1>5, <2>2 DEF Place
    <3>2. sub'[h.t].status = h.status /\ sub'[h.t].pre = h.pre
      BY <1>3, <3>1 DEF Assigned, SubDoc
    <3> QED
      BY <1>1, <1>3, <1>5, <2>2, <3>1, <3>2
  <2>3. CASE k = 2
    BY <1>1, <1>2, <1>5, <2>1, <2>3 DEF Place
  <2>4. CASE k = 3
    <3>1. SamePlan(h.t) /\ sub'[h.t] = Cancelled(sub[h.t])
      BY <1>1, <1>2, <1>5, <2>1, <2>4 DEF Place
    <3>2. sub[h.t].status = "cancelled" /\ sub[h.t].pre = h.pre
      BY <1>5, <2>4
    <3> QED
      BY <1>5, <2>4, <3>1, <3>2 DEF Cancelled
  <2>5. CASE k = 4
    BY <1>1, <1>2, <1>5, <2>5 DEF Place
  <2> QED
    BY <1>2, <1>5, <2>2, <2>3, <2>4, <2>5 DEF Place
<1>6. CASE h.status \notin {"authorized", "cancelled"}
  <2>1. k = 1 /\ sub'[h.t] = Assigned(sub[h.t], h.status, h.pre)
    BY <1>1, <1>2, <1>6 DEF Place
  <2>2. sub'[h.t].status = h.status /\ sub'[h.t].pre = h.pre
    BY <1>3, <2>1 DEF Assigned, SubDoc
  <2> QED
    BY <1>1, <1>3, <1>6, <2>1, <2>2
<1> QED
  BY <1>4, <1>5, <1>6

\* A preapproval about which something is known keeps its payer.
LEMMA PayersKept ==
  ASSUME TypeInv, CauseInv, NEW failed, Kind(failed),
         NEW p \in Preapproval, mp[p].status # "none"
  PROVE  mp'[p].payer = mp[p].payer
  BY DEF Kind, Aside, AtMp, Pays, Arrives, Dies, Looks, Goes, Fetches, MpStill, MpMoves

\* A handler that found the subscription of t.
LEMMA FoundOn ==
  ASSUME TypeInv, NEW r \in Req, NEW h, h = req[r], NEW t \in Tenant, Found(r, t)
  PROVE  LET g == req'[r] IN
         /\ g.op = h.op /\ g.t = t /\ g.pre = h.pre /\ g.status = h.status
         /\ At(g, 1)
         /\ h.status = "authorized" => g.plan \in PaidPlan
         /\ h.status = "cancelled" => g.plan = "free"
<1>w. PICK was \in BOOLEAN : was = (sub[t].status = "authorized")
  OBVIOUS
<1>n. PICK plan :
         plan = CASE h.status = "authorized" ->
                       IF sub[t].planName = None THEN "enterprise"
                                                 ELSE sub[t].planName
                  [] h.status = "cancelled" -> "free"
                  [] OTHER -> None
  OBVIOUS
<1>1. Begin(r, [h EXCEPT !.t = t, !.was = was, !.plan = plan,
                         !.todo = Route(h.status, was)])
  BY <1>w, <1>n DEF Found
<1>2. /\ h.status = "authorized" => plan \in PaidPlan
      /\ h.status = "cancelled" => plan = "free"
  <2>1. sub[t].planName \in PaidPlan \cup {None} /\ "enterprise" \in PaidPlan
    BY DEF TypeInv, TypeOK, SubDoc, PaidPlan
  <2> QED
    BY <1>n, <2>1
<1>3. PICK g : /\ g = [h EXCEPT !.t = t, !.was = was, !.plan = plan,
                                !.todo = Route(h.status, was)]
               /\ req'[r] = g
  BY <1>1, BeginOnly
<1>4. /\ g.op = h.op /\ g.t = t /\ g.pre = h.pre /\ g.status = h.status
      /\ g.plan = plan /\ g.was = was /\ g.todo = Route(h.status, was)
  BY <1>3 DEF TypeInv, TypeOK, Handler
<1>5. At(g, 1)
  <2>1. PICK q : q = Route(h.status, was)
    OBVIOUS
  <2>2. 1 \in 1..Len(q) /\ q = From(q, 1)
    BY <2>1, RouteFirst
  <2> QED
    BY <1>4, <2>1, <2>2 DEF At
<1> QED
  BY <1>2, <1>3, <1>4, <1>5

\* A handler that looks for a subscription, and finds one or not.
LEMMA LooksOn ==
  ASSUME TypeInv, NEW r \in Req, NEW h, h = req[r], Looks(r)
  PROVE  LET g == req'[r] IN
         /\ h.todo # <<>> /\ Head(h.todo) \in {"findByPre", "findByEmail"}
         /\ \/ /\ Head(h.todo) = "findByEmail" /\ g = Idle
               /\ \A t \in Tenant : ~(sub[t].email = mp[h.pre].payer /\ sub[t].status = "pending")
            \/ /\ Head(h.todo) = "findByPre" /\ g = [h EXCEPT !.todo = <<"findByEmail">>]
               /\ \A t \in Tenant : sub[t].pre # h.pre
            \/ \E t \in Tenant :
                 /\ Found(r, t)
                 /\ \/ Head(h.todo) = "findByPre" /\ sub[t].pre = h.pre
                    \/ /\ Head(h.todo) = "findByEmail" /\ sub[t].email = mp[h.pre].payer
                       /\ sub[t].status = "pending"
<1>1. CASE FindByPre(r)
  <2>1. CASE \E t \in {t \in Tenant : sub[t].pre = h.pre} : Found(r, t)
    BY <1>1, <2>1 DEF FindByPre, Awaits
  <2>2. CASE /\ {t \in Tenant : sub[t].pre = h.pre} = {}
             /\ Begin(r, [h EXCEPT !.todo = <<"findByEmail">>])
    BY <1>1, <2>2, BeginOnly DEF FindByPre, Awaits
  <2> QED
    BY <1>1, <2>1, <2>2 DEF FindByPre
<1>2. CASE FindByEmail(r)
  <2> DEFINE S == {t \in Tenant : sub[t].email = mp[h.pre].payer /\ sub[t].status = "pending"}
  <2>1. CASE \E t \in S : Found(r, t)
    BY <1>2, <2>1 DEF FindByEmail, Awaits
  <2>2. CASE S = {} /\ Begin(r, Idle)
    BY <1>2, <2>2, BeginOnly DEF FindByEmail, Awaits
  <2> QED
    BY <1>2, <2>1, <2>2 DEF FindByEmail
<1> QED
  BY <1>1, <1>2 DEF Looks

\* A webhook that looks for its subscription, and finds it or not.
LEMMA WebhookLooks ==
  ASSUME TypeInv, CauseInv, ScriptInv, NEW r \in Req, NEW h, h = req[r], Looks(r),
         h.op = "webhook"
  PROVE  LET g == req'[r] IN
         /\ h.t = None /\ h.todo \in {<<"findByPre">>, <<"findByEmail">>}
         /\ \/ g = Idle /\ h.todo = <<"findByEmail">>
               /\ \A t \in Tenant : ~(sub[t].email = mp[h.pre].payer /\ sub[t].status = "pending")
            \/ /\ h.todo = <<"findByPre">> /\ g = [h EXCEPT !.todo = <<"findByEmail">>]
               /\ \A t \in Tenant : sub[t].pre # h.pre
            \/ /\ g.op = h.op /\ g.pre = h.pre /\ g.status = h.status
               /\ Bound(g) /\ At(g, 1) /\ sub[g.t].status # "none"
               /\ \/ h.todo = <<"findByPre">> /\ sub[g.t].pre = h.pre
                  \/ h.todo = <<"findByEmail">> /\ sub[g.t].status = "pending"
<1>1. h \in Handler /\ h.status \in MpStatus /\ h.pre \in Preapproval
      /\ mp[h.pre].status # "none" /\ mp[h.pre].payer # None
  BY DEF TypeInv, TypeOK, HandlersReady, Ready, CauseInv, Issued, ScriptInv, Scripted
<1>2. h.todo # <<>> /\ Head(h.todo) \in {"findByPre", "findByEmail"}
  BY LooksOn
<1>3. Seeking(h)
  <2>1. ASSUME Bound(h) PROVE FALSE
    <3>1. PICK k : At(h, k)
      BY <2>1 DEF Bound
    <3>2. Head(h.todo) \in WebhookSteps
      BY <1>1, <3>1, RouteOn
    <3> QED
      BY <1>2, <3>2 DEF WebhookSteps
  <2> QED
    BY <2>1 DEF ScriptInv, Scripted
<1>4. /\ h.t = None /\ h.todo \in {<<"findByPre">>, <<"findByEmail">>}
      /\ Head(h.todo) = "findByPre" => h.todo = <<"findByPre">>
      /\ Head(h.todo) = "findByEmail" => h.todo = <<"findByEmail">>
  BY <1>3 DEF Seeking
<1>5. ASSUME NEW t \in Tenant, Found(r, t),
             sub[t].pre = h.pre \/ (sub[t].email = mp[h.pre].payer /\ sub[t].status = "pending")
      PROVE  LET g == req'[r] IN
             /\ g.op = h.op /\ g.pre = h.pre /\ g.status = h.status /\ g.t = t
             /\ Bound(g) /\ At(g, 1) /\ sub[t].status # "none"
  <2>1. mp[h.pre].payer = EmailOf[t] /\ sub[t].status # "none"
    BY <1>1, <1>5, EmailsNotNone DEF CauseInv, SubSound, ScriptInv, Known
  <2> QED
    BY <1>5, <2>1, FoundOn DEF Bound
<1> QED
  BY <1>4, <1>5, LooksOn

\* Looking for a subscription makes no webhook of another handler.
LEMMA OthersLook ==
  ASSUME TypeInv, NEW r \in Req, Looks(r), req[r].op # "webhook"
  PROVE  req'[r].op # "webhook"
<1>1. req[r] \in Handler
  BY DEF TypeInv, TypeOK
<1>2. CASE req'[r] = Idle
  BY <1>2 DEF Idle
<1>3. CASE req'[r] = [req[r] EXCEPT !.todo = <<"findByEmail">>]
  BY <1>1, <1>3 DEF Handler
<1>4. CASE \E t \in Tenant : Found(r, t)
  BY <1>4, FoundOn
<1> QED
  BY <1>2, <1>3, <1>4, LooksOn

\* A webhook in a slot is there, or was fetched, or goes on.
LEMMA WebhookMoves ==
  ASSUME TypeInv, CauseInv, ScriptInv, NEW failed, Kind(failed),
         NEW r \in Req, req'[r] # req[r], req'[r].op = "webhook"
  PROVE  \/ \E p \in Preapproval : Fetches(r, p)
         \/ req[r].op = "webhook" /\ Looks(r)
         \/ /\ req[r].op = "webhook" /\ Goes(r) /\ Len(req[r].todo) # 1
            /\ req'[r] = Left(req[r])
<1>1. req[r] \in Handler /\ Idle.op # "webhook"
  BY DEF TypeInv, TypeOK, Idle
<1>2. PICK q \in Req :
        \/ Arrives(q) \/ Dies(q, failed) \/ Looks(q) \/ Goes(q)
        \/ \E p \in Preapproval : Fetches(q, p)
  BY DEF Kind, Aside, AtMp, Pays
<1>3. q = r
  BY <1>2 DEF Arrives, Dies, Looks, Goes, Fetches, Only
<1>4. ~Arrives(r) /\ ~Dies(r, failed)
  BY <1>1 DEF Arrives, Dies
<1>5. ASSUME Looks(r) PROVE req[r].op = "webhook"
  BY <1>5, OthersLook
<1>6. ASSUME Goes(r)
      PROVE  /\ req[r].op = "webhook" /\ Len(req[r].todo) # 1
             /\ req'[r] = Left(req[r])
  BY <1>1, <1>6, LeftOf DEF Goes
<1> QED
  BY <1>2, <1>3, <1>4, <1>5, <1>6

\* A handler that stays as it is does, since payers do.
LEMMA ScriptKept ==
  ASSUME TypeInv, CauseInv, NEW failed, Kind(failed), NEW g,
         g.op = "webhook" => g.pre \in Preapproval /\ mp[g.pre].status # "none",
         Scripted(g)
  PROVE  Scripted(g)'
<1>1. ASSUME g.op = "webhook" PROVE mp'[g.pre].payer = mp[g.pre].payer
  BY <1>1, PayersKept
<1> QED
  BY <1>1 DEF Scripted, Bound, Seeking, At

\* The webhooks in flight stay on their routes.
LEMMA ScriptStep ==
  ASSUME TypeInv, CauseInv, ScriptInv, NEW failed, Kind(failed)
  PROVE  ScriptInv'
<1>1. ASSUME NEW t \in Tenant PROVE Known(sub'[t])
  <2>1. CASE sub' = sub
    BY <2>1 DEF ScriptInv
  <2>2. CASE \E r \in Req : Goes(r)
    BY <2>2 DEF Goes, Alike, Known, ScriptInv
  <2> QED
    BY <2>1, <2>2 DEF Kind, Aside, AtMp, Pays, Arrives, Dies, Looks, Fetches
<1>2. ASSUME NEW r \in Req, NEW h, h = req[r], NEW g, g = req'[r], g.op = "webhook"
      PROVE  Scripted(g)'
  <2>1. h.op = "webhook" => /\ h.pre \in Preapproval /\ mp[h.pre].status # "none"
                            /\ h.status \in MpStatus /\ h \in Handler
    BY <1>2 DEF TypeInv, TypeOK, HandlersReady, Ready, ScriptInv, Scripted
  <2>2. CASE g = h
    BY <1>2, <2>1, <2>2, ScriptKept DEF ScriptInv
  <2>3. ASSUME NEW p \in Preapproval, Fetches(r, p)
        PROVE  Scripted(g)'
    <3>1. g = Request("webhook", None, p, None, mp[p].status, <<"findByPre">>)
      BY <1>2, <2>3 DEF Fetches
    <3>2. mp[p].status \in MpStatus
      BY <2>3 DEF Fetches, TypeInv, TypeOK, HandlersReady, MpRecord
    <3> QED
      BY <3>1, <3>2 DEF Scripted, Seeking, Request
  <2>4. CASE h.op = "webhook" /\ Looks(r)
    <3>1. Scripted(g)
      <4>1. CASE g = [h EXCEPT !.todo = <<"findByEmail">>] /\ h.t = None
        <5>1. g.t = None /\ g.todo = <<"findByEmail">> /\ g.status = h.status
          BY <2>1, <2>4, <4>1 DEF Handler
        <5> QED
          BY <2>1, <2>4, <5>1 DEF Scripted, Seeking
      <4>2. CASE Bound(g) /\ g.status = h.status
        BY <2>1, <2>4, <4>2 DEF Scripted
      <4> QED
        BY <1>2, <2>4, <4>1, <4>2, WebhookLooks DEF Idle
    <3>2. g.pre = h.pre
      <4>1. CASE g = [h EXCEPT !.todo = <<"findByEmail">>]
        BY <2>1, <2>4, <4>1 DEF Handler
      <4> QED
        BY <1>2, <2>4, <4>1, WebhookLooks DEF Idle
    <3> QED
      BY <2>1, <2>4, <3>1, <3>2, ScriptKept
  <2>5. CASE h.op = "webhook" /\ Goes(r) /\ Len(h.todo) # 1 /\ g = Left(h)
    <3>1. Bound(h) /\ h.todo # <<>>
      BY <1>2, <2>5, WebhookGoes DEF Goes
    <3>2. PICK k : At(h, k)
      BY <3>1 DEF Bound
    <3>3. At(g, k + 1)
      BY <2>1, <2>5, <3>2, RouteOn
    <3>4. g.t = h.t /\ g.pre = h.pre /\ g.status = h.status /\ g.plan = h.plan
      BY <2>1, <2>5, <3>1, LeftOf
    <3>5. Scripted(g)
      BY <2>1, <2>5, <3>1, <3>3, <3>4 DEF Bound, Scripted
    <3> QED
      BY <2>1, <2>5, <3>4, <3>5, ScriptKept
  <2> QED
    BY <1>2, <2>2, <2>3, <2>4, <2>5, WebhookMoves
<1>3. ASSUME NEW r \in Req PROVE Scripted(req[r])'
  <2>1. PICK g : g = req'[r]
    OBVIOUS
  <2>2. CASE g.op = "webhook"
    <3>1. Scripted(g)'
      BY <2>1, <2>2, <1>2
    <3> QED
      BY <2>1, <3>1
  <2>3. CASE g.op # "webhook"
    BY <2>1, <2>3 DEF Scripted
  <2> QED
    BY <2>2, <2>3
<1> QED
  BY <1>1, <1>3 DEF ScriptInv

-----------------------------------------------------------------------------
(***************************************************************************)
(* Deliveries: what a step does to a tenant, and to notifications.         *)
(***************************************************************************)
\* What no handler works on, but for the date of a cancellation.
LEMMA Untouched ==
  ASSUME TypeInv, NEW failed, Kind(failed), NEW t \in Tenant,
         \A q \in Req : ~Works(q, t)
  PROVE  Alike(t) /\ (SamePlan(t) \/ Created(t))
<1> USE DEF Alike, SamePlan
<1>1. ASSUME NEW r \in Req, Arrives(r) PROVE SamePlan(t) /\ sub' = sub
  <2>1. CASE req'[r].op = "updatePlan" /\ req'[r].t = t
    <3>1. req'[r] # req[r]
      BY <2>1, <1>1 DEF Arrives, Idle
    <3> QED
      BY <2>1, <3>1 DEF Works
  <2> QED
    BY <1>1, <2>1 DEF Arrives
<1>2. ASSUME NEW r \in Req, Goes(r) PROVE Alike(t) /\ SamePlan(t)
  <2>1. req[r] \in Handler /\ req[r].todo # <<>>
    BY <1>2 DEF Goes, TypeInv, TypeOK
  <2>2. req'[r] # req[r]
    BY <1>2, <2>1, LeftOf DEF Goes
  <2>3. req[r].t # t
    BY <2>2 DEF Works
  <2> QED
    BY <1>2, <2>3 DEF Goes
<1> QED
  BY <1>1, <1>2 DEF Kind, Aside, AtMp, Pays, Dies, Looks, Fetches

\* The one handler that works on t.
LEMMA WorksOnly ==
  ASSUME TypeInv, NEW failed, Kind(failed), NEW r \in Req, NEW t, Works(r, t)
  PROVE  Arrives(r) \/ Dies(r, failed) \/ Looks(r) \/ Goes(r)
         \/ \E p \in Preapproval : Fetches(r, p)
  BY DEF Kind, Aside, AtMp, Pays, Arrives, Dies, Looks, Goes, Fetches, Only, Works

\* What becomes of notifications.
LEMMA Notices ==
  ASSUME TypeInv, NEW failed, Kind(failed), NEW p \in Preapproval
  PROVE  /\ p \in notif => p \in notif' \/ \E q \in Req : Fetches(q, p)
         /\ mp'[p].status # mp[p].status => p \in notif'
  BY DEF Kind, Aside, AtMp, Pays, Arrives, Dies, Looks, Goes, Fetches, MpStill, MpMoves

\* What may move a webhook: it throws, or goes on.
LEMMA WebhookLeaves ==
  ASSUME NEW failed, Kind(failed), NEW r \in Req,
         req[r].op = "webhook", req'[r] # req[r]
  PROVE  Dies(r, failed) \/ Looks(r) \/ Goes(r)
<1>1. Idle.op # "webhook"
  BY DEF Idle
<1> QED
  BY <1>1 DEF Kind, Aside, AtMp, Pays, Arrives, Dies, Looks, Goes, Fetches, Only

\* A webhook that works on t, and does not break off, writes.
LEMMA WebhookWorks ==
  ASSUME TypeInv, CauseInv, ScriptInv, NEW failed, Kind(failed), NEW r \in Req,
         NEW h, h = req[r], h.op = "webhook", NEW t \in Tenant, Works(r, t),
         ~Broken(r, failed)
  PROVE  Goes(r) /\ h.t = t
<1>1. h \in Handler /\ Idle.op = "idle" /\ t # None
  BY EmailsNotNone DEF TypeInv, TypeOK, Idle
<1>2. ~Dies(r, failed)
  <2> SUFFICES ASSUME Dies(r, failed) PROVE FALSE
    OBVIOUS
  <2>1. /\ req'[r] = Idle /\ r \notin failed /\ ~(Len(h.todo) > 1)
        /\ Head(h.todo) \in {"mpSet", "setPlan", "goActive"}
    BY DEF Dies, Broken
  <2>2. ~Seeking(h)
    BY <2>1 DEF Seeking
  <2>3. PICK k : At(h, k)
    BY <2>2 DEF ScriptInv, Scripted, Bound
  <2>4. h.todo # <<>> /\ h.todo \in Seq(Step)
    BY <1>1, <2>3, RouteOn DEF Handler
  <2>5. Len(h.todo) = 1
    <3>1. Len(h.todo) \in Nat /\ Len(h.todo) # 0
      BY <2>4
    <3>2. \A n \in Nat : n # 0 /\ ~(n > 1) => n = 1
      OBVIOUS
    <3> QED
      BY <2>1, <3>1, <3>2
  <2>6. /\ k + 1 > (IF h.status = "authorized" THEN 4 ELSE 1)
        /\ h.status = "cancelled" => k = 4
        /\ Place(h.status, k, Head(h.todo))
    BY <1>1, <2>3, <2>5, RouteOn
  <2> QED
    BY <2>1, <2>6 DEF Place
<1>3. ASSUME Looks(r) PROVE FALSE
  <2>1. h.t = None /\ req'[r].op \in {"webhook", "idle"}
    <3>1. CASE req'[r] = [h EXCEPT !.todo = <<"findByEmail">>]
      BY <1>1, <1>3, <3>1, WebhookLooks DEF Handler
    <3> QED
      BY <1>1, <1>3, <3>1, WebhookLooks
  <2> QED
    BY <1>1, <2>1 DEF Works
<1>4. Goes(r)
  BY <1>2, <1>3, WebhookLeaves DEF Works
<1>5. req'[r].op \in {"webhook", "idle"}
  BY <1>1, <1>4, LeftOf DEF Goes
<1> QED
  BY <1>4, <1>5 DEF Works

-----------------------------------------------------------------------------
(***************************************************************************)
(* Deliveries that are alone with a tenant.                                *)
(***************************************************************************)
\* What the webhook fetched is still true, or told again later.
Fresh(h) == h.pre \in notif \/ mp[h.pre].status = h.status

\* A webhook that is alone with a tenant has left there what it wrote.
AloneInv ==
  /\ \A r \in Req : alone[r] \subseteq Tenant
  /\ \A r \in Req : \A t \in alone[r] :
       /\ req[r].op = "webhook" /\ Fresh(req[r])
       /\ req[r].t = t /\ OwnEmail(t) => \E k : At(req[r], k) /\ Done(req[r], k)

\* Only the subscription of t holds the preapproval of its customer.
LEMMA HeldOnce ==
  ASSUME CauseInv, NEW p \in Preapproval, NEW t \in Tenant, OwnEmail(t),
         mp[p].payer = EmailOf[t], NEW u \in Tenant, sub[u].pre = p
  PROVE  u = t
  BY EmailsNotNone DEF CauseInv, SubSound, OwnEmail

\* It dates the cancellation of its own subscription only.
LEMMA DoneAlone ==
  ASSUME TypeInv, CauseInv, ScriptInv, NEW r \in Req, NEW h, h = req[r],
         h.op = "webhook", Goes(r), NEW k, At(h, k), Done(h, k), OwnEmail(h.t)
  PROVE  Done(h, k + 1)'
<1>1. /\ h \in Handler /\ h.status \in MpStatus /\ h.pre \in Preapproval
      /\ h.t \in Tenant /\ mp[h.pre].payer = EmailOf[h.t]
  BY WebhookGoes DEF Bound
<1>2. ASSUME Head(h.todo) = "stamp"
      PROVE  \A u \in Tenant : sub[u].pre = h.pre <=> u = h.t
  <2>1. h.status = "cancelled" /\ k = 4
    BY <1>1, <1>2, RouteOn DEF Place
  <2>2. sub[h.t].pre = h.pre
    BY <2>1 DEF Done
  <2> QED
    BY <1>1, <2>2, HeldOnce
<1> QED
  BY <1>2, DoneOn

\* Whatever runs elsewhere.
LEMMA AloneStep ==
  ASSUME TypeInv, CauseInv, ScriptInv, AloneInv, NEW failed, Kind(failed), Record(failed)
  PROVE  AloneInv'
<1>a. ASSUME NEW r \in Req
      PROVE  /\ alone'[r] \subseteq Tenant
             /\ \A t \in alone'[r] :
                  /\ req'[r].op = "webhook" /\ t \in Tenant
                  /\ Delivered(r) \/ (t \in alone[r] /\ ~Joined(r, t))
  <2>1. alone'[r] = IF Delivered(r) THEN Tenant
                    ELSE IF req'[r].op # "webhook" THEN {}
                    ELSE {x \in alone[r] : ~Joined(r, x)}
    BY DEF Record
  <2>2. alone[r] \subseteq Tenant
    BY DEF AloneInv
  <2> QED
    BY <2>1, <2>2 DEF Delivered
<1>b. ASSUME NEW r \in Req, NEW t \in alone'[r],
             NEW h, h = req[r], NEW g, g = req'[r]
      PROVE  /\ g.op = "webhook" /\ Fresh(g)'
             /\ g.t = t /\ OwnEmail(t) => \E k : At(g, k) /\ Done(g, k)'
  <2>1. g.op = "webhook" /\ t \in Tenant /\ t # None
    BY <1>a, <1>b, EmailsNotNone
  <2>2. CASE Delivered(r)
    <3>1. h.op = "idle" /\ g # h
      BY <1>b, <2>1, <2>2 DEF Delivered, Idle
    <3>2. PICK p \in Preapproval : Fetches(r, p)
      BY <1>b, <2>1, <3>1, WebhookMoves
    <3>3. g.pre = p /\ g.status = mp[p].status /\ g.t = None /\ mp' = mp
      BY <1>b, <3>2 DEF Fetches, Request
    <3> QED
      BY <2>1, <3>3 DEF Fresh
  <2>3. CASE ~Delivered(r)
    <3>1. t \in alone[r] /\ ~Joined(r, t)
      BY <1>a, <2>3
    <3>2. /\ h.op = "webhook" /\ Fresh(h)
          /\ h.t = t /\ OwnEmail(t) => \E k : At(h, k) /\ Done(h, k)
      BY <1>b, <3>1 DEF AloneInv
    <3>3. /\ h \in Handler /\ h.pre \in Preapproval /\ h.status \in MpStatus
      BY <1>b, <3>2 DEF TypeInv, TypeOK, HandlersReady, Ready, ScriptInv, Scripted
    <3>4. \/ g = h
          \/ Looks(r)
          \/ Goes(r) /\ Len(h.todo) # 1 /\ g = Left(h)
      BY <1>b, <2>1, <2>3, <3>2, WebhookMoves DEF Fetches, Idle
    <3>5. g.pre = h.pre /\ g.status = h.status
      <4>1. CASE g = [h EXCEPT !.todo = <<"findByEmail">>]
        BY <3>3, <4>1 DEF Handler
      <4>2. CASE Looks(r)
        BY <1>b, <2>1, <3>2, <4>1, <4>2, WebhookLooks DEF Idle
      <4>3. CASE Goes(r) /\ Len(h.todo) # 1 /\ g = Left(h)
        BY <1>b, <3>3, <4>3, LeftOf DEF Goes
      <4> QED
        BY <3>4, <4>2, <4>3
    <3>6. Fresh(g)'
      <4>1. ~(\E q \in Req : Fetches(q, h.pre))
        <5>1. ASSUME NEW q \in Req, Fetches(q, h.pre) PROVE FALSE
          <6>1. /\ req[q] = Idle
                /\ req'[q].op = "webhook" /\ req'[q].pre = h.pre
            BY <5>1 DEF Fetches, Request
          <6>2. Delivered(q) /\ q # r
            BY <1>b, <3>2, <6>1 DEF Delivered, Idle
          <6> QED
            BY <1>b, <3>1, <6>1, <6>2 DEF Joined
        <5> QED
          BY <5>1
      <4>2. /\ h.pre \in notif => h.pre \in notif'
            /\ mp'[h.pre].status # mp[h.pre].status => h.pre \in notif'
        BY <3>3, <4>1, Notices
      <4> QED
        BY <3>2, <3>5, <4>2 DEF Fresh
    <3>7. ASSUME g.t = t, OwnEmail(t) PROVE \E k : At(g, k) /\ Done(g, k)'
      <4>1. CASE g = h
        <5>1. PICK k : At(h, k) /\ Done(h, k)
          BY <3>2, <3>7, <4>1
        <5>2. \A q \in Req : ~Works(q, t)
          BY <1>b, <3>1, <4>1 DEF Joined, Works
        <5>3. Alike(t) /\ SamePlan(t)
          BY <2>1, <3>1, <5>2, Untouched DEF Joined
        <5>4. Done(h, k)'
          BY <3>7, <4>1, <5>1, <5>3 DEF Done, Alike, SamePlan
        <5> QED
          BY <4>1, <5>1, <5>4
      <4>2. CASE Looks(r)
        <5>1. /\ At(g, 1) /\ sub[g.t].status # "none"
              /\ g.op = h.op /\ g.pre = h.pre /\ g.status = h.status
          <6>1. CASE g = [h EXCEPT !.todo = <<"findByEmail">>] /\ h.t = None
            BY <2>1, <3>3, <3>7, <6>1 DEF Handler
          <6> QED
            BY <1>b, <2>1, <3>2, <4>2, <6>1, WebhookLooks DEF Idle
        <5>2. sub' = sub /\ tenant' = tenant
          BY <4>2 DEF Looks
        <5>3. Done(g, 1)'
          BY <5>1, <5>2 DEF Done
        <5> QED
          BY <5>1, <5>3
      <4>3. CASE Goes(r) /\ Len(h.todo) # 1 /\ g = Left(h)
        <5>1. /\ g.t = h.t /\ g.plan = h.plan /\ g.status = h.status /\ g.pre = h.pre
          BY <1>b, <3>3, <4>3, LeftOf DEF Goes
        <5>2. PICK k : At(h, k) /\ Done(h, k)
          BY <3>2, <3>7, <5>1
        <5>3. At(g, k + 1)
          BY <3>3, <4>3, <5>2, RouteOn
        <5>4. Done(h, k + 1)'
          BY <1>b, <3>2, <3>7, <4>3, <5>1, <5>2, DoneAlone
        <5>5. Done(g, k + 1)'
          BY <5>1, <5>4 DEF Done
        <5> QED
          BY <5>3, <5>5
      <4> QED
        BY <3>4, <4>1, <4>2, <4>3
    <3> QED
      BY <2>1, <3>6, <3>7
  <2> QED
    BY <2>2, <2>3
<1>c. ASSUME NEW r \in Req, NEW t \in alone'[r]
      PROVE  /\ req'[r].op = "webhook" /\ Fresh(req[r])'
             /\ req'[r].t = t /\ OwnEmail(t) =>
                  \E k : At(req[r], k)' /\ Done(req[r], k)'
  <2>1. PICK h : h = req[r]
    OBVIOUS
  <2>2. PICK g : g = req'[r]
    OBVIOUS
  <2>3. /\ g.op = "webhook" /\ Fresh(g)'
        /\ g.t = t /\ OwnEmail(t) => \E k : At(g, k) /\ Done(g, k)'
    BY <1>b, <2>1, <2>2
  <2>4. Fresh(req[r])' /\ req'[r].op = "webhook"
    BY <2>2, <2>3 DEF Fresh
  <2>5. ASSUME req'[r].t = t, OwnEmail(t) PROVE \E k : At(req[r], k)' /\ Done(req[r], k)'
    <3>1. PICK k : At(g, k) /\ Done(g, k)'
      BY <2>2, <2>3, <2>5
    <3>2. At(req[r], k)' /\ Done(req[r], k)'
      BY <2>2, <3>1 DEF At, Done
    <3> QED
      BY <3>2
  <2> QED
    BY <2>4, <2>5
<1>d. \A t \in Tenant : OwnEmail(t)' <=> OwnEmail(t)
  BY DEF OwnEmail
<1> QED
  BY <1>a, <1>c, <1>d DEF AloneInv

-----------------------------------------------------------------------------
(***************************************************************************)
(* Deliveries: what a webhook that was alone leaves behind it.  It may     *)
(* still be outdated, but then a notification, or a webhook that will find *)
(* the subscription, is on its way.                                        *)
(***************************************************************************)
\* The subscription of t says what MercadoPago says of its preapproval.
Agrees(t) ==
  LET p == sub[t].pre IN
  /\ sub[t].status = mp[p].status
  /\ sub[t].status = "authorized" => tenant[t].plan = sub[t].planName
  /\ sub[t].status = "cancelled" => tenant[t].plan = "free" /\ sub[t].dated

\* A webhook of p that will find the subscription of t, or has.
Coming(p, t) ==
  \E r \in Req : /\ req[r].op = "webhook" /\ req[r].pre = p
                 /\ req[r].t = t \/ req[r].todo = <<"findByPre">>

\* What is true of the tenants that such a webhook was the last to work on.
SettledInv ==
  /\ settled \subseteq Tenant
  /\ \A t \in settled :
       OwnEmail(t) /\ sub[t].pre # None =>
         Agrees(t) \/ sub[t].pre \in notif \/ Coming(sub[t].pre, t)

\* The last await of a webhook that was alone with t.
LEMMA SettledEnters ==
  ASSUME TypeInv, CauseInv, ScriptInv, AloneInv, NEW failed, Kind(failed),
         NEW r \in Req, NEW t \in Tenant, Works(r, t), t \in alone[r],
         Finishes(r, failed), OwnEmail(t)
  PROVE  Agrees(t)' \/ sub'[t].pre \in notif'
<1>1. PICK h : h = req[r]
  OBVIOUS
<1>2. h.op = "webhook" /\ Len(h.todo) = 1 /\ ~Broken(r, failed)
  BY <1>1 DEF Finishes
<1>3. Goes(r) /\ h.t = t
  BY <1>1, <1>2, WebhookWorks
<1>4. PICK k : At(h, k) /\ Done(h, k)
  BY <1>1, <1>3 DEF AloneInv
<1>5. Done(h, k + 1)'
  BY <1>1, <1>2, <1>3, <1>4, DoneAlone
<1>6. /\ h \in Handler /\ WebhookWrites(h)
  BY <1>1, <1>2, <1>3, WebhookGoes
<1>7. /\ k \in 1..5 /\ k + 1 > (IF h.status = "authorized" THEN 4 ELSE 1)
      /\ h.status = "cancelled" => k = 4
  BY <1>2, <1>4, <1>6, RouteOn
<1>8. /\ sub'[t].pre = h.pre /\ sub'[t].status = h.status
      /\ h.status = "authorized" => tenant'[t].plan = sub'[t].planName
      /\ h.status = "cancelled" => tenant'[t].plan = "free" /\ sub'[t].dated
  BY <1>3, <1>5, <1>7 DEF Done
<1>9. (h.pre \in notif \/ mp[h.pre].status = h.status) /\ mp' = mp /\ notif' = notif
  BY <1>1, <1>3, <1>6 DEF AloneInv, Fresh, WebhookWrites, MpStill
<1> QED
  BY <1>8, <1>9 DEF Agrees

\* A webhook of the preapproval that t holds does not lose it.
LEMMA ComingStays ==
  ASSUME TypeInv, CauseInv, ScriptInv, NEW failed, Kind(failed), NEW t \in Tenant,
         \A q \in Req : ~Works(q, t), OwnEmail(t),
         NEW p \in Preapproval, sub[t].pre = p, Coming(p, t)
  PROVE  p \in notif' \/ Coming(p, t)'
<1>1. PICK r \in Req : /\ req[r].op = "webhook" /\ req[r].pre = p
                       /\ req[r].t = t \/ req[r].todo = <<"findByPre">>
  BY DEF Coming
<1>2. PICK h : h = req[r]
  OBVIOUS
<1>3. CASE req'[r] = h
  BY <1>1, <1>2, <1>3 DEF Coming
<1>4. CASE req'[r] # h
  <2>1. h.todo = <<"findByPre">>
    BY <1>1, <1>2, <1>4 DEF Works
  <2>2. CASE Dies(r, failed)
    BY <1>1, <1>2, <2>2 DEF Dies
  <2>3. CASE Looks(r)
    <3>1. /\ req'[r].op = h.op /\ req'[r].pre = h.pre
          /\ Bound(req'[r]) /\ sub[req'[r].t].pre = h.pre
      <4>1. <<"findByPre">> # <<"findByEmail">>
        <5>1. Head(<<"findByPre">>) # Head(<<"findByEmail">>)
          OBVIOUS
        <5> QED
          BY <5>1
      <4>2. \A u \in Tenant : u = t => sub[u].pre = h.pre
        BY <1>1, <1>2
      <4> QED
        BY <1>1, <1>2, <2>1, <2>3, <4>1, <4>2, WebhookLooks
    <3>2. req'[r].t = t
      <4>1. mp[p].payer = EmailOf[t]
        BY EmailsNotNone DEF CauseInv, SubSound
      <4>2. req'[r].t \in Tenant
        BY <3>1 DEF Bound
      <4> QED
        BY <1>1, <1>2, <3>1, <4>1, <4>2, HeldOnce
    <3> QED
      BY <1>1, <1>2, <3>1, <3>2 DEF Coming
  <2>4. CASE Goes(r)
    <3>1. h \in Handler /\ Bound(h)
      BY <1>1, <1>2, <2>4, WebhookGoes
    <3>2. Head(h.todo) \in WebhookSteps
      BY <3>1, RouteOn DEF Bound
    <3> QED
      BY <2>1, <3>2 DEF WebhookSteps
  <2> QED
    BY <1>1, <1>2, <1>4, <2>2, <2>3, <2>4, WebhookLeaves
<1> QED
  BY <1>3, <1>4

\* A tenant that was settled stays so until a handler works on it.
LEMMA SettledStep ==
  ASSUME TypeInv, CauseInv, ScriptInv, AloneInv, SettledInv,
         NEW failed, Kind(failed), Record(failed)
  PROVE  SettledInv'
<1>1. settled' \subseteq Tenant
  BY DEF Record
<1>2. ASSUME NEW t \in Tenant, t \in settled', OwnEmail(t), sub'[t].pre # None
      PROVE  Agrees(t)' \/ sub'[t].pre \in notif' \/ Coming(sub[t].pre, t)'
  <2>1. IF \E r \in Req : Works(r, t)
          THEN \E r \in Req : Works(r, t) /\ t \in alone[r] /\ Finishes(r, failed)
          ELSE t \in settled /\ ~Created(t)
    BY <1>2 DEF Record
  <2>2. CASE \E r \in Req : Works(r, t)
    BY <1>2, <2>1, <2>2, SettledEnters
  <2>3. CASE \A r \in Req : ~Works(r, t)
    <3>1. t \in settled /\ Alike(t) /\ SamePlan(t)
      BY <2>1, <2>3, Untouched
    <3>2. PICK p \in Preapproval : p = sub[t].pre /\ p = sub'[t].pre
      BY <1>2, <3>1 DEF Alike, TypeInv, TypeOK, SubDoc
    <3>3. /\ p \in notif => p \in notif' \/ \E q \in Req : Fetches(q, p)
          /\ mp'[p].status # mp[p].status => p \in notif'
      BY Notices
    <3>4. ASSUME NEW q \in Req, Fetches(q, p) PROVE Coming(p, t)'
      BY <3>4 DEF Fetches, Coming, Request
    <3>5. CASE Agrees(t)
      BY <3>1, <3>2, <3>3, <3>5 DEF Agrees, Alike, SamePlan
    <3>6. CASE p \in notif
      BY <3>2, <3>3, <3>4, <3>6
    <3>7. CASE Coming(p, t)
      BY <1>2, <2>3, <3>2, <3>7, ComingStays
    <3> QED
      BY <1>2, <3>1, <3>2, <3>5, <3>6, <3>7 DEF SettledInv
  <2> QED
    BY <2>2, <2>3
<1>3. \A t \in Tenant : OwnEmail(t)' <=> OwnEmail(t)
  BY DEF OwnEmail
<1> QED
  BY <1>1, <1>2, <1>3 DEF SettledInv

-----------------------------------------------------------------------------
(***************************************************************************)
(* Deliveries: the payment that followed a checkout.  Until it is recorded *)
(* it leaves a trace: a notification, a webhook that will find the         *)
(* subscription by the id or the pending one by the e-mail, or a webhook   *)
(* that found it and will assign it.                                       *)
(***************************************************************************)
\* The checkout of t is open: a payment of its customer finds it.
OpenFor(t) == sub[t].status = "pending" /\ sub[t].email = EmailOf[t]

\* The webhook in slot r is about to write p into the subscription of t.
Records(r, t, p) ==
  LET h == req[r] IN
  h.op = "webhook" /\ h.t = t /\ h.pre = p /\ Unassigned(h)

\* The payment p is in the subscription of t.
Recorded(t, p) == sub[t].pre = p /\ sub[t].status = "authorized"

\* A webhook of p is about to look for its subscription.
Looking(p, step) ==
  \E r \in Req : req[r].op = "webhook" /\ req[r].pre = p /\ req[r].todo = <<step>>

\* What is certain of the payment p that followed the last checkout of t.
Matched(t, p) ==
  \/ sub[t].pre = p \/ OpenFor(t)
  \/ \E r \in Req : Records(r, t, p)

\* The trace of an authorized payment.
Underway(t, p) ==
  \/ Recorded(t, p)
  \/ \E r \in Req : Records(r, t, p)
  \/ /\ sub[t].pre = p \/ OpenFor(t)
     /\ p \in notif \/ Looking(p, "findByPre")
  \/ OpenFor(t) /\ Looking(p, "findByEmail")

\* All of it, with what the webhooks of the payment know.
Paid(t, p) ==
  /\ \A r \in Req :
       req[r].op = "webhook" /\ req[r].pre = p =>
         /\ req[r].status = mp[p].status
         /\ req[r].t = t => Unassigned(req[r]) \/ sub[t].pre = p
  /\ Matched(t, p)
  /\ mp[p].status = "authorized" => Underway(t, p)

\* What is true of the tenants that only webhooks of that payment worked on.
BoughtInv ==
  /\ bought \subseteq Tenant
  /\ \A t \in Tenant, p \in Preapproval : link[t] = p => mp[p].status # "none"
  /\ \A t \in bought :
       OwnEmail(t) =>
         /\ sub[t].status # "none"
         /\ link[t] \in PaidPlan => OpenFor(t)
         /\ \A p \in Preapproval :
              link[t] = p /\ mp[p].payer = EmailOf[t] => Paid(t, p)

\* The last checkout of t.
LEMMA BoughtOpens ==
  ASSUME TypeInv, NEW failed, Kind(failed), NEW r \in Req, NEW t \in Tenant,
         Opens(r, t, failed)
  PROVE  link'[t] \in PaidPlan /\ OpenFor(t)'
<1>1. PICK h : h = req[r]
  OBVIOUS
<1>2. /\ h.t = t /\ h.todo # <<>> /\ Head(h.todo) = "openSub"
      /\ req'[r] # h /\ h # Idle /\ r \notin failed
  BY <1>1 DEF Opens, Awaits, Idle
<1>3. Goes(r)
  <2>1. Dies(r, failed) \/ Looks(r) \/ Goes(r)
    BY <1>1, <1>2 DEF Kind, Aside, AtMp, Pays, Arrives, Dies, Looks, Goes, Fetches, Only
  <2>2. ~Dies(r, failed)
    BY <1>1, <1>2 DEF Dies
  <2>3. ~Looks(r)
    BY <1>1, <1>2, LooksOn
  <2> QED
    BY <2>1, <2>2, <2>3
<1>4. sub'[t] = Opened(t, h.plan) /\ h.plan \in PaidPlan /\ link'[t] = h.plan
  BY <1>1, <1>2, <1>3 DEF Goes, TypeInv, TypeOK
<1> QED
  BY <1>4 DEF Opened, OpenFor

\* A tenant that stays among them: nobody works on it, or a webhook of the
\* payment writes.
LEMMA BoughtWorks ==
  ASSUME TypeInv, CauseInv, ScriptInv, NEW failed, Kind(failed), Record(failed),
         NEW t \in Tenant, t \in bought', \A r \in Req : ~Opens(r, t, failed)
  PROVE  /\ t \in bought /\ ~Outdated(t)
         /\ \/ /\ \A r \in Req : ~Works(r, t)
               /\ Alike(t)
            \/ \E r \in Req : /\ req[r].op = "webhook" /\ req[r].pre = link[t]
                              /\ req[r].t = t /\ Goes(r)
<1>1. t \in bought /\ ~Outdated(t) /\ \A r \in Req : ~WorksElse(r, t, failed)
  BY DEF Record
<1>2. ASSUME \A r \in Req : ~Works(r, t) PROVE Alike(t)
  BY <1>2, Untouched
<1>3. ASSUME NEW r \in Req, Works(r, t)
      PROVE  /\ req[r].op = "webhook" /\ req[r].pre = link[t]
             /\ req[r].t = t /\ Goes(r)
  <2>1. PICK h : h = req[r]
    OBVIOUS
  <2>2. h.op = "webhook" /\ h.pre = link[t] /\ ~Broken(r, failed)
    BY <1>1, <1>3, <2>1 DEF WorksElse
  <2> QED
    BY <1>3, <2>1, <2>2, WebhookWorks
<1> QED
  BY <1>1, <1>2, <1>3

\* The link of a tenant that nothing but webhooks works on.
LEMMA BoughtLink ==
  ASSUME TypeInv, ScriptInv, NEW failed, Kind(failed), NEW t \in Tenant,
         \/ \A r \in Req : ~Works(r, t)
         \/ \E r \in Req : req[r].op = "webhook" /\ req[r].t = t /\ Goes(r)
  PROVE  \/ link'[t] = link[t]
         \/ \E p \in Preapproval : Pays(t, p) /\ link'[t] = p
<1>1. ASSUME NEW r \in Req, Goes(r) PROVE link'[t] = link[t]
  <2>1. PICK h : h = req[r]
    OBVIOUS
  <2>2. CASE h.t # t
    BY <1>1, <2>1, <2>2 DEF Goes, TypeInv, TypeOK
  <2>3. CASE h.t = t
    <3>1. req'[r] # h
      BY <1>1, <2>1, LeftOf DEF Goes, TypeInv, TypeOK
    <3>2. Works(r, t)
      BY <2>1, <2>3, <3>1 DEF Works
    <3>3. h.op = "webhook"
      BY <1>1, <2>1, <3>2 DEF Goes, Works, Only
    <3>4. Head(h.todo) # "openSub"
      BY <1>1, <2>1, <3>3, WebhookGoes
    <3> QED
      BY <1>1, <2>1, <3>4 DEF Goes
  <2> QED
    BY <2>2, <2>3
<1>2. ASSUME NEW u \in Tenant, NEW p \in Preapproval, Pays(u, p)
      PROVE  link'[t] = link[t] \/ (u = t /\ link'[t] = p)
  BY <1>2 DEF Pays, TypeInv, TypeOK
<1> QED
  BY <1>1, <1>2 DEF Kind, Aside, AtMp, Arrives, Dies, Looks, Fetches

\* A webhook of the payment that writes.
LEMMA WriteOn ==
  ASSUME TypeInv, ScriptInv, NEW r \in Req, NEW h, h = req[r], h.op = "webhook", Goes(r),
         NEW t, h.t = t, sub[t].status # "none"
  PROVE  LET g == req'[r] IN
         /\ sub'[t].status # "none" /\ mp' = mp /\ notif' = notif /\ Only(r)
         /\ sub[t].pre = h.pre => sub'[t].pre = h.pre
         /\ g.op = "webhook" =>
              /\ g = Left(h) /\ Len(h.todo) # 1
              /\ g.t = t /\ g.pre = h.pre /\ g.status = h.status
         /\ Unassigned(h) => \/ sub'[t].pre = h.pre /\ sub'[t].status = h.status
                             \/ g.op = "webhook" /\ Unassigned(g)
         /\ ~Unassigned(h) /\ h.status = "authorized" => Alike(t)
<1>1. /\ h \in Handler /\ h.status \in MpStatus /\ h.pre \in Preapproval
      /\ Bound(h) /\ WebhookWrites(h) /\ t \in Tenant
      /\ Len(h.todo) # 1 => req'[r].op = "webhook"
  BY WebhookGoes DEF Bound
<1>2. PICK k : At(h, k)
  BY <1>1 DEF Bound
<1>3. /\ k \in 1..5 /\ h.todo # <<>> /\ Place(h.status, k, Head(h.todo))
      /\ Len(h.todo) = 1 => k + 1 > (IF h.status = "authorized" THEN 4 ELSE 1)
      /\ Len(h.todo) # 1 => At(Left(h), k + 1)
  BY <1>1, <1>2, RouteOn
<1>4. sub[t] \in SubDoc /\ "none" \notin MpStatus
  BY <1>1 DEF TypeInv, TypeOK, MpStatus
<1>5. Head(h.todo) = "assign" =>
        /\ sub'[t].pre = h.pre /\ sub'[t].status = h.status
  BY <1>1, <1>4 DEF WebhookWrites, Assigned, SubDoc
<1>6. Head(h.todo) = "syncSub" =>
        /\ sub'[t].pre = sub[t].pre /\ sub'[t].status # "none"
  BY <1>1, <1>4 DEF WebhookWrites, Authorized, Cancelled, SubDoc
<1>7. Head(h.todo) \in {"setPlan", "goActive", "stamp", "invoice"} => Alike(t)
  BY <1>1 DEF WebhookWrites
<1>8. Head(h.todo) \in {"setPlan", "syncSub", "goActive", "assign", "stamp", "invoice"}
  BY <1>3 DEF Place
<1>9. /\ sub'[t].status # "none"
      /\ sub[t].pre = h.pre => sub'[t].pre = h.pre
  BY <1>1, <1>4, <1>5, <1>6, <1>7, <1>8 DEF Alike
<1>10. mp' = mp /\ notif' = notif /\ Only(r) /\ req'[r] = Left(h)
  BY <1>1 DEF WebhookWrites, MpStill, Goes
<1>11. req'[r].op = "webhook" =>
         /\ req'[r] = Left(h) /\ Len(h.todo) # 1
         /\ req'[r].t = t /\ req'[r].pre = h.pre /\ req'[r].status = h.status
  BY <1>1, <1>3, <1>10, LeftOf DEF Idle
<1>12. ASSUME Unassigned(h)
       PROVE  \/ sub'[t].pre = h.pre /\ sub'[t].status = h.status
              \/ req'[r].op = "webhook" /\ Unassigned(req'[r])
  <2>1. PICK j \in 1..4 : At(h, j) /\ (h.status # "authorized" => j = 1)
    BY <1>12 DEF Unassigned
  <2>2. /\ h.todo # <<>> /\ Place(h.status, j, Head(h.todo))
        /\ Len(h.todo) = 1 => j + 1 > (IF h.status = "authorized" THEN 4 ELSE 1)
        /\ Len(h.todo) # 1 => At(Left(h), j + 1)
    BY <1>1, <2>1, RouteOn
  <2>3. CASE h.status = "authorized" /\ j # 4
    <3>1. j + 1 \in 1..4 /\ Len(h.todo) # 1
      BY <2>1, <2>2, <2>3
    <3>2. At(Left(h), j + 1) /\ Left(h).status = "authorized"
      BY <1>1, <2>2, <2>3, <3>1, LeftOf
    <3> QED
      BY <1>1, <1>10, <3>1, <3>2 DEF Unassigned
  <2>4. CASE h.status # "authorized" \/ j = 4
    <3>1. Head(h.todo) = "assign"
      BY <2>1, <2>2, <2>4 DEF Place
    <3> QED
      BY <1>5, <3>1
  <2> QED
    BY <2>3, <2>4
<1>13. ASSUME ~Unassigned(h), h.status = "authorized" PROVE Alike(t)
  <2>1. k \notin 1..4
    BY <1>2, <1>13 DEF Unassigned
  <2>2. k = 5
    BY <1>3, <2>1
  <2> QED
    BY <1>3, <1>7, <1>13, <2>2 DEF Place
<1> QED
  BY <1>9, <1>10, <1>11, <1>12, <1>13

\* A webhook of the payment that looks for the subscription.
LEMMA LookingMoves ==
  ASSUME TypeInv, CauseInv, ScriptInv, NEW failed, Kind(failed),
         NEW t \in Tenant, OwnEmail(t), NEW p \in Preapproval, mp[p].payer = EmailOf[t],
         NEW step \in {"findByPre", "findByEmail"},
         NEW r \in Req, req[r].op = "webhook", req[r].pre = p, req[r].todo = <<step>>,
         req'[r] # req[r]
  PROVE  \/ p \in notif'
         \/ Records(r, t, p)'
         \/ step = "findByPre" /\ sub[t].pre # p /\ Looking(p, "findByEmail")'
         \/ step = "findByEmail" /\ ~OpenFor(t)
<1>1. PICK h : h = req[r]
  OBVIOUS
<1>2. Head(h.todo) = step /\ h \in Handler
  BY <1>1 DEF TypeInv, TypeOK
<1>3. CASE Dies(r, failed)
  BY <1>3 DEF Dies
<1>4. CASE Goes(r)
  <2>1. Bound(h)
    BY <1>1, <1>4, WebhookGoes
  <2>2. Head(h.todo) \in WebhookSteps
    BY <1>2, <2>1, RouteOn DEF Bound
  <2> QED
    BY <1>2, <2>2 DEF WebhookSteps
<1>5. CASE Looks(r)
  <2>1. PICK g : g = req'[r]
    OBVIOUS
  <2>2. /\ h.todo = <<"findByPre">> => step = "findByPre"
        /\ h.todo = <<"findByEmail">> => step = "findByEmail"
    BY <1>2
  <2>3. CASE /\ g = Idle /\ h.todo = <<"findByEmail">>
             /\ \A u \in Tenant : ~(sub[u].email = mp[h.pre].payer /\ sub[u].status = "pending")
    BY <1>1, <2>2, <2>3 DEF OpenFor
  <2>4. CASE /\ h.todo = <<"findByPre">> /\ g = [h EXCEPT !.todo = <<"findByEmail">>]
             /\ \A u \in Tenant : sub[u].pre # h.pre
    <3>1. g.op = "webhook" /\ g.pre = p /\ g.todo = <<"findByEmail">>
      BY <1>1, <1>2, <2>4 DEF Handler
    <3> QED
      BY <1>1, <2>1, <2>2, <2>4, <3>1 DEF Looking
  <2>5. CASE /\ g.op = h.op /\ g.pre = h.pre /\ g.status = h.status
             /\ Bound(g) /\ At(g, 1)
    <3>1. g.t = t
      BY <1>1, <2>5 DEF Bound, OwnEmail
    <3>2. Unassigned(g)
      BY <2>5 DEF Unassigned
    <3>3. Unassigned(req[r])'
      BY <2>1, <3>2 DEF Unassigned, At
    <3> QED
      BY <1>1, <2>1, <2>5, <3>1, <3>3 DEF Records
  <2> QED
    BY <1>1, <1>5, <2>1, <2>3, <2>4, <2>5, WebhookLooks
<1> QED
  BY <1>1, <1>3, <1>4, <1>5, WebhookLeaves

\* The customer pays, with the checkout of t open.
LEMMA PaidBegins ==
  ASSUME TypeInv, NEW t \in Tenant, NEW p \in Preapproval, Pays(t, p), OpenFor(t)
  PROVE  Paid(t, p)'
<1>1. \A r \in Req : req'[r].op = "webhook" => req'[r].pre # p
  BY DEF Pays, TypeInv, HandlersReady
<1>2. OpenFor(t)' /\ p \in notif'
  BY DEF Pays, OpenFor
<1> QED
  BY <1>1, <1>2 DEF Paid, Matched, Underway

\* A tenant that nobody works on, or on which a webhook of its payment writes.
Paying(t, p) ==
  \/ (\A r \in Req : ~Works(r, t)) /\ Alike(t)
  \/ \E r \in Req : req[r].op = "webhook" /\ req[r].pre = p /\ req[r].t = t /\ Goes(r)

\* What the webhooks of the payment know stays true.
LEMMA PaidSlots ==
  ASSUME TypeInv, CauseInv, ScriptInv, NEW failed, Kind(failed), NEW t \in Tenant,
         NEW p \in Preapproval, link[t] = p, ~Outdated(t), sub[t].status # "none",
         Paid(t, p), Paying(t, p), NEW r \in Req, NEW g, g = req'[r],
         g.op = "webhook", g.pre = p
  PROVE  /\ g.status = mp'[p].status
         /\ g.t = t => Unassigned(g) \/ sub'[t].pre = p
<1>1. PICK h : h = req[r]
  OBVIOUS
<1>2. sub[t].pre = p => sub'[t].pre = p
  BY WriteOn DEF Paying, Alike
<1>3. CASE g = h
  BY <1>1, <1>2, <1>3 DEF Paid, Outdated
<1>4. ASSUME NEW q \in Preapproval, Fetches(r, q)
      PROVE  g.status = mp'[p].status /\ g.t # t
  BY <1>4, EmailsNotNone DEF Fetches, Request
<1>5. CASE h.op = "webhook" /\ Looks(r)
  <2>1. h \in Handler /\ t # None
    BY <1>1, EmailsNotNone DEF TypeInv, TypeOK
  <2>2. g.pre = h.pre /\ g.status = h.status /\ (g.t = t => At(g, 1))
    <3>1. CASE g = [h EXCEPT !.todo = <<"findByEmail">>] /\ h.t = None
      BY <2>1, <3>1 DEF Handler
    <3> QED
      BY <1>1, <1>5, <3>1, WebhookLooks DEF Idle
  <2>3. g.t = t => Unassigned(g)
    BY <2>2 DEF Unassigned
  <2> QED
    BY <1>1, <1>5, <2>2, <2>3 DEF Looks, MpStill, Paid
<1>6. CASE h.op = "webhook" /\ Goes(r) /\ Len(h.todo) # 1 /\ g = Left(h)
  <2>1. /\ h \in Handler /\ WebhookWrites(h) /\ h.todo # <<>>
    BY <1>1, <1>6, WebhookGoes DEF Goes
  <2>2. g.t = h.t /\ g.pre = h.pre /\ g.status = h.status
    BY <1>6, <2>1, LeftOf
  <2>3. g.status = mp'[p].status
    BY <1>1, <1>6, <2>1, <2>2 DEF WebhookWrites, MpStill, Paid
  <2>4. ASSUME g.t = t PROVE Unassigned(g) \/ sub'[t].pre = p
    <3>1. Unassigned(h) \/ sub[t].pre = p
      BY <1>1, <1>6, <2>2, <2>4 DEF Paid
    <3>2. CASE Unassigned(h)
      BY <1>1, <1>6, <2>2, <2>4, <3>2, WriteOn
    <3> QED
      BY <1>2, <3>1, <3>2
  <2> QED
    BY <2>3, <2>4
<1> QED
  BY <1>1, <1>3, <1>4, <1>5, <1>6, WebhookMoves

\* The payment keeps its subscription, or its checkout.
LEMMA PaidMatched ==
  ASSUME TypeInv, CauseInv, ScriptInv, NEW failed, Kind(failed), NEW t \in Tenant,
         NEW p \in Preapproval, sub[t].status # "none", Paid(t, p), Paying(t, p)
  PROVE  Matched(t, p)'
<1>1. CASE (\A r \in Req : ~Works(r, t)) /\ Alike(t)
  <2>1. ASSUME NEW r \in Req, Records(r, t, p) PROVE Records(r, t, p)'
    <3>1. req'[r] = req[r]
      BY <1>1, <2>1 DEF Works, Records
    <3> QED
      BY <2>1, <3>1 DEF Records, Unassigned, At
  <2> QED
    BY <1>1, <2>1 DEF Paid, Matched, Alike, OpenFor
<1>2. ASSUME NEW r \in Req, req[r].op = "webhook", req[r].pre = p, req[r].t = t, Goes(r)
      PROVE  Matched(t, p)'
  <2>1. PICK h, g : h = req[r] /\ g = req'[r]
    OBVIOUS
  <2>2. CASE Unassigned(h)
    <3>1. ASSUME g.op = "webhook", Unassigned(g) PROVE Records(r, t, p)'
      <4>1. g.t = t /\ g.pre = p
        BY <1>2, <2>1, <3>1, WriteOn
      <4> QED
        BY <2>1, <3>1, <4>1 DEF Records, Unassigned, At
    <3> QED
      BY <1>2, <2>1, <2>2, <3>1, WriteOn DEF Matched
  <2>3. CASE ~Unassigned(h)
    <3>1. sub[t].pre = p
      BY <1>2, <2>1, <2>3 DEF Paid
    <3> QED
      BY <1>2, <2>1, <3>1, WriteOn DEF Matched
  <2> QED
    BY <2>2, <2>3
<1> QED
  BY <1>1, <1>2 DEF Paying

\* An authorized payment keeps its trace.
LEMMA PaidUnderway ==
  ASSUME TypeInv, CauseInv, ScriptInv, NEW failed, Kind(failed), NEW t \in Tenant,
         OwnEmail(t), NEW p \in Preapproval, mp[p].payer = EmailOf[t],
         sub[t].status # "none", Paid(t, p), Paying(t, p), mp'[p].status = "authorized"
  PROVE  Underway(t, p)'
<1>1. Matched(t, p)'
  BY PaidMatched
<1>2. CASE p \in notif'
  BY <1>1, <1>2 DEF Matched, Underway
<1>3. CASE p \notin notif'
  <2>1. mp[p].status = "authorized" /\ (p \in notif => \E q \in Req : Fetches(q, p))
    BY <1>3, Notices
  <2>2. Underway(t, p)
    BY <2>1 DEF Paid
  <2>3. CASE (\A r \in Req : ~Works(r, t)) /\ Alike(t)
    <3>1. (sub[t].pre = p <=> sub'[t].pre = p) /\ (OpenFor(t) <=> OpenFor(t)')
          /\ (Recorded(t, p) <=> Recorded(t, p)')
      BY <2>3 DEF Alike, OpenFor, Recorded
    <3>2. ASSUME NEW r \in Req, Records(r, t, p) PROVE Records(r, t, p)'
      <4>1. req'[r] = req[r]
        BY <2>3, <3>2 DEF Works, Records
      <4> QED
        BY <3>2, <4>1 DEF Records, Unassigned, At
    <3>3. ASSUME NEW q \in Req, Fetches(q, p) PROVE Looking(p, "findByPre")'
      BY <3>3 DEF Fetches, Request, Looking
    <3>4. ASSUME NEW step \in {"findByPre", "findByEmail"}, Looking(p, step)
          PROVE  \/ Looking(p, step)'
                 \/ \E r \in Req : Records(r, t, p)'
                 \/ step = "findByPre" /\ sub[t].pre # p /\ Looking(p, "findByEmail")'
                 \/ step = "findByEmail" /\ ~OpenFor(t)
      <4>1. PICK r \in Req : req[r].op = "webhook" /\ req[r].pre = p /\ req[r].todo = <<step>>
        BY <3>4 DEF Looking
      <4>2. CASE req'[r] = req[r]
        BY <4>1, <4>2 DEF Looking
      <4> QED
        BY <1>3, <4>1, <4>2, LookingMoves
    <3> QED
      BY <2>1, <2>2, <3>1, <3>2, <3>3, <3>4 DEF Underway
  <2>4. ASSUME NEW r \in Req, req[r].op = "webhook", req[r].pre = p, req[r].t = t, Goes(r)
        PROVE  Underway(t, p)'
    <3>1. PICK h, g : h = req[r] /\ g = req'[r]
      OBVIOUS
    <3>2. h.status = "authorized"
      BY <2>1, <2>4, <3>1 DEF Paid
    <3>3. CASE Unassigned(h)
      <4>1. ASSUME g.op = "webhook", Unassigned(g) PROVE Records(r, t, p)'
        <5>1. g.t = t /\ g.pre = p
          BY <2>4, <3>1, <4>1, WriteOn
        <5> QED
          BY <3>1, <4>1, <5>1 DEF Records, Unassigned, At
      <4> QED
        BY <2>4, <3>1, <3>2, <3>3, <4>1, WriteOn DEF Underway, Recorded
    <3>4. CASE ~Unassigned(h)
      <4>1. Alike(t) /\ notif' = notif /\ \A q \in Req \ {r} : req'[q] = req[q]
        BY <2>4, <3>1, <3>2, <3>4, WriteOn DEF Only
      <4>2. (sub[t].pre = p <=> sub'[t].pre = p) /\ (OpenFor(t) <=> OpenFor(t)')
            /\ (Recorded(t, p) <=> Recorded(t, p)')
        BY <4>1 DEF Alike, OpenFor, Recorded
      <4>3. ASSUME NEW q \in Req, Records(q, t, p) PROVE Records(q, t, p)'
        <5>1. req'[q] = req[q]
          BY <3>1, <3>4, <4>1, <4>3 DEF Records
        <5> QED
          BY <4>3, <5>1 DEF Records, Unassigned, At
      <4>4. h.todo # <<"findByPre">> /\ h.todo # <<"findByEmail">>
        <5>1. h \in Handler /\ Bound(h)
          BY <2>4, <3>1, WebhookGoes
        <5>2. Head(h.todo) \in WebhookSteps
          BY <5>1, RouteOn DEF Bound
        <5> QED
          BY <5>2 DEF WebhookSteps
      <4>5. ASSUME NEW step \in {"findByPre", "findByEmail"}, Looking(p, step)
            PROVE  Looking(p, step)'
        <5>1. PICK q \in Req : req[q].op = "webhook" /\ req[q].pre = p /\ req[q].todo = <<step>>
          BY <4>5 DEF Looking
        <5>2. q # r
          BY <3>1, <4>4, <5>1
        <5> QED
          BY <4>1, <5>1, <5>2 DEF Looking
      <4> QED
        BY <1>3, <2>2, <4>1, <4>2, <4>3, <4>5 DEF Underway
    <3> QED
      BY <3>3, <3>4
  <2> QED
    BY <2>3, <2>4 DEF Paying
<1> QED
  BY <1>2, <1>3

\* A checkout is linked to payments that exist.
LEMMA LinkStep ==
  ASSUME TypeInv, TypeInv', NEW failed, Kind(failed), NEW t \in Tenant,
         NEW p \in Preapproval, link[t] = p => mp[p].status # "none", link'[t] = p
  PROVE  mp'[p].status # "none"
<1>1. Preapproval \cap PaidPlan = {}
  BY BillingAssumption DEF Plan
<1>2. p \in notif' => mp'[p].status # "none"
  BY DEF TypeInv, HandlersReady
<1>3. ASSUME NEW u \in Tenant, NEW q \in Preapproval, Pays(u, q)
      PROVE  link[t] = p \/ p \in notif'
  BY <1>3 DEF Pays, TypeInv, TypeOK
<1>4. ASSUME NEW r \in Req, Goes(r)
      PROVE  link[t] = p
  BY <1>1, <1>4 DEF Goes, TypeInv, TypeOK
<1>5. link[t] = p \/ p \in notif'
  BY <1>3, <1>4 DEF Kind, Aside, AtMp, Arrives, Dies, Looks, Fetches
<1> QED
  BY <1>2, <1>5, Notices

\* Together, for every step.
LEMMA BoughtStep ==
  ASSUME TypeInv, TypeInv', CauseInv, ScriptInv, BoughtInv, NEW failed, Kind(failed), Record(failed)
  PROVE  BoughtInv'
<1>1. bought' \subseteq Tenant
  BY DEF Record
<1>2. ASSUME NEW t \in Tenant, t \in bought', OwnEmail(t)
      PROVE  /\ sub'[t].status # "none"
             /\ link'[t] \in PaidPlan => OpenFor(t)'
             /\ \A p \in Preapproval :
                  link'[t] = p /\ mp'[p].payer = EmailOf[t] => Paid(t, p)'
  <2>1. Preapproval \cap PaidPlan = {}
    BY BillingAssumption DEF Plan
  <2>2. CASE \E r \in Req : Opens(r, t, failed)
    <3>1. link'[t] \in PaidPlan /\ OpenFor(t)'
      BY <2>2, BoughtOpens
    <3> QED
      BY <2>1, <3>1 DEF OpenFor
  <2>3. CASE \A r \in Req : ~Opens(r, t, failed)
    <3>1. /\ t \in bought /\ ~Outdated(t)
          /\ \/ (\A r \in Req : ~Works(r, t)) /\ Alike(t)
             \/ \E r \in Req : /\ req[r].op = "webhook" /\ req[r].pre = link[t]
                               /\ req[r].t = t /\ Goes(r)
      BY <1>2, <2>3, BoughtWorks
    <3>2. /\ sub[t].status # "none"
          /\ link[t] \in PaidPlan => OpenFor(t)
          /\ \A p \in Preapproval :
               link[t] = p /\ mp[p].payer = EmailOf[t] => Paid(t, p)
      BY <1>2, <3>1 DEF BoughtInv
    <3>3. sub'[t].status # "none"
      BY <3>1, <3>2, WriteOn DEF Alike
    <3>4. \/ link'[t] = link[t]
          \/ \E p \in Preapproval : Pays(t, p) /\ link'[t] = p
      BY <3>1, BoughtLink
    <3>5. ASSUME link'[t] \in PaidPlan PROVE OpenFor(t)'
      <4>1. link[t] = link'[t]
        BY <2>1, <3>4, <3>5
      <4>2. Alike(t)
        <5>1. ASSUME NEW r \in Req, req[r].op = "webhook", req[r].pre = link[t] PROVE FALSE
          BY <2>1, <3>5, <4>1, <5>1 DEF TypeInv, HandlersReady, Ready
        <5> QED
          BY <3>1, <5>1
      <4> QED
        BY <3>2, <3>5, <4>1, <4>2 DEF Alike, OpenFor
    <3>6. ASSUME NEW p \in Preapproval, link'[t] = p, mp'[p].payer = EmailOf[t]
          PROVE  Paid(t, p)'
      <4>1. CASE Pays(t, p)
        <5>1. OpenFor(t)
          BY <3>2, <4>1 DEF Pays
        <5> QED
          BY <4>1, <5>1, PaidBegins
      <4>2. CASE ~Pays(t, p) /\ link[t] = p
        <5>1. mp[p].status # "none" /\ mp'[p].payer = mp[p].payer
          BY <4>2, PayersKept DEF BoughtInv
        <5>2. Paid(t, p)
          BY <3>2, <3>6, <4>2, <5>1
        <5>3. Paying(t, p)
          BY <3>1, <4>2 DEF Paying
        <5>4. Matched(t, p)'
          BY <3>2, <5>2, <5>3, PaidMatched
        <5>5. mp'[p].status = "authorized" => Underway(t, p)'
          BY <1>2, <3>2, <3>6, <5>1, <5>2, <5>3, PaidUnderway
        <5>6. ASSUME NEW r \in Req, NEW g, g = req'[r], g.op = "webhook", g.pre = p
              PROVE  /\ g.status = mp'[p].status
                     /\ g.t = t => Unassigned(g) \/ sub'[t].pre = p
          BY <3>1, <3>2, <4>2, <5>2, <5>3, <5>6, PaidSlots
        <5>7. \A g : Unassigned(g)' <=> Unassigned(g)
          BY DEF Unassigned, At
        <5> QED
          BY <5>4, <5>5, <5>6, <5>7 DEF Paid
      <4> QED
        BY <3>4, <3>6, <4>1, <4>2
    <3> QED
      BY <3>3, <3>5, <3>6
  <2> QED
    BY <2>2, <2>3
<1>3. \A t \in Tenant : OwnEmail(t)' <=> OwnEmail(t)
  BY DEF OwnEmail
<1>4. \A t \in Tenant, p \in Preapproval : link'[t] = p => mp'[p].status # "none"
  BY LinkStep DEF BoughtInv
<1> QED
  BY <1>1, <1>2, <1>3, <1>4 DEF BoughtInv

-----------------------------------------------------------------------------
\* The invariant of Deliveries.
DeliveriesInv ==
  /\ TypeInv /\ CauseInv
  /\ ScriptInv /\ AloneInv /\ SettledInv /\ BoughtInv

LEMMA DeliveriesBegin == DeliveriesInit => DeliveriesInv
<1> SUFFICES ASSUME DeliveriesInit PROVE DeliveriesInv
  OBVIOUS
<1>1. TypeInv /\ CauseInv
  BY TypeInit, CauseInit DEF DeliveriesInit
<1>2. ScriptInv
  BY DEF DeliveriesInit, Init, ScriptInv, Known, NoSub, Scripted, Idle
<1>3. AloneInv /\ SettledInv
  BY DEF DeliveriesInit, AloneInv, SettledInv
<1>4. BoughtInv
  BY BillingAssumption DEF DeliveriesInit, Init, BoughtInv
<1> QED
  BY <1>1, <1>2, <1>3, <1>4 DEF DeliveriesInv

LEMMA DeliveriesStep == DeliveriesInv /\ [DeliveriesNext]_deliveryVars => DeliveriesInv'
<1> SUFFICES ASSUME DeliveriesInv, [DeliveriesNext]_deliveryVars
             PROVE  DeliveriesInv'
  OBVIOUS
<1>1. [Next]_vars
  BY DEF DeliveriesNext, Next, deliveryVars
<1>2. TypeInv' /\ CauseInv'
  BY <1>1, TypeStep, CauseStep DEF DeliveriesInv
<1>3. CASE DeliveriesNext
  <2>1. PICK failed : Record(failed) /\ Kind(failed)
    BY <1>3, StepKinds DEF DeliveriesInv
  <2> QED
    BY <1>2, <2>1, ScriptStep, AloneStep, SettledStep, BoughtStep DEF DeliveriesInv
<1>4. CASE UNCHANGED deliveryVars
  <2>1. UNCHANGED <<tenant, mp, notif, sub, req, link, alone, settled, bought>>
    BY <1>4 DEF deliveryVars, vars, historyVars
  <2>2. ScriptInv'
    BY <2>1 DEF DeliveriesInv, ScriptInv, Scripted, Seeking, Bound, At, Known
  <2>3. AloneInv'
    BY <2>1 DEF DeliveriesInv, AloneInv, Fresh, OwnEmail, At, Done
  <2>4. SettledInv'
    BY <2>1 DEF DeliveriesInv, SettledInv, Agrees, Coming, OwnEmail
  <2>5. BoughtInv'
    <3>1. \A h : Unassigned(h)' <=> Unassigned(h)
      BY DEF Unassigned, At
    <3>2. ASSUME NEW t \in Tenant, NEW p \in Preapproval
          PROVE  Paid(t, p) => Paid(t, p)'
      <4>1. \A r \in Req : Records(r, t, p) <=> Records(r, t, p)'
        BY <2>1, <3>1 DEF Records
      <4>2. \A step : Looking(p, step) <=> Looking(p, step)'
        BY <2>1 DEF Looking
      <4>3. /\ OpenFor(t) <=> OpenFor(t)'
            /\ Recorded(t, p) <=> Recorded(t, p)'
        BY <2>1 DEF OpenFor, Recorded
      <4>4. Matched(t, p) => Matched(t, p)'
        BY <2>1, <4>1, <4>3 DEF Matched
      <4>5. Underway(t, p) => Underway(t, p)'
        BY <2>1, <4>1, <4>2, <4>3 DEF Underway
      <4> QED
        BY <2>1, <3>1, <4>4, <4>5 DEF Paid
    <3>3. \A t \in Tenant : (OwnEmail(t)' <=> OwnEmail(t)) /\ (OpenFor(t)' <=> OpenFor(t))
      BY <2>1 DEF OwnEmail, OpenFor
    <3> QED
      BY <2>1, <3>2, <3>3 DEF DeliveriesInv, BoughtInv
  <2> QED
    BY <1>2, <2>2, <2>3, <2>4, <2>5 DEF DeliveriesInv
<1> QED
  BY <1>3, <1>4

\* One delivery that is alone with its tenant repairs what errors, overlapping
\* deliveries, checkouts and administrators left there (LoneDeliveryRepairs of
\* Deliveries), for any number of tenants, preapprovals and handlers.
THEOREM LoneDeliveriesRepair == DeliveriesSpec => []LoneDeliveryRepairs
<1>1. DeliveriesInv => LoneDeliveryRepairs
  BY DEF DeliveriesInv, SettledInv, LoneDeliveryRepairs, Acknowledged, Agrees, Coming
<1> QED
  BY <1>1, DeliveriesBegin, DeliveriesStep, PTL DEF DeliveriesSpec

\* The payment that followed a checkout is recorded once its notifications are
\* acknowledged, however many of its deliveries overlap
\* (CheckoutPaymentRecorded of Deliveries).
THEOREM CheckoutPaymentsRecorded == DeliveriesSpec => []CheckoutPaymentRecorded
<1>1. DeliveriesInv => CheckoutPaymentRecorded
  BY DEF DeliveriesInv, BoughtInv, CheckoutPaymentRecorded, Acknowledged, Paid,
         Underway, Records, Recorded, Looking
<1> QED
  BY <1>1, DeliveriesBegin, DeliveriesStep, PTL DEF DeliveriesSpec
=============================================================================
