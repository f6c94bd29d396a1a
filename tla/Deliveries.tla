----------------------------- MODULE Deliveries -----------------------------
(***************************************************************************)
(* What a notification of MercadoPago repairs, and what it records, when   *)
(* any other handlers, errors and changes by administrators are about.     *)
(*                                                                         *)
(* Billing with three histories, which decide nothing: they remember which *)
(* handlers of billing.service.ts and tenants.service.ts ran without       *)
(* another between their awaits.                                           *)
(***************************************************************************)
EXTENDS Billing

VARIABLES
  alone,     \* history: the tenants that no other handler worked on since the
             \* webhook in a slot fetched its preapproval, which was not
             \* fetched again either
  settled,   \* history: the tenants that a webhook which was alone with them
             \* was the last to work on
  bought     \* history: the tenants that, since their last checkout, only
             \* webhooks of the payment that followed it worked on, none of
             \* which failed, nor met a change of that payment

historyVars == <<alone, settled, bought>>
deliveryVars == <<vars, historyVars>>

DeliveriesInit ==
  /\ Init
  /\ alone = [r \in Req |-> {}]
  /\ settled = {}
  /\ bought = {}

-----------------------------------------------------------------------------
(***************************************************************************)
(* What a step does, for the histories.  "failed" has the slot of a        *)
(* handler that the environment makes fail.                                *)
(***************************************************************************)
Delivered(r) == req[r] = Idle /\ req'[r].op = "webhook"

\* An await of a handler of t; updatePlan writes t as it begins.
Works(r, t) ==
  /\ req'[r] # req[r]
  /\ req[r].t = t \/ (req'[r].op = "updatePlan" /\ req'[r].t = t)

Broken(r, failed) ==
  r \in failed \/ (Len(req[r].todo) > 1 /\ req'[r] = Idle)

Finishes(r, failed) ==
  req[r].op = "webhook" /\ Len(req[r].todo) = 1 /\ ~Broken(r, failed)

\* create gives a tenant its plan.
Created(t) == tenant[t].doc = "absent" /\ tenant'[t].doc = "live"

\* What ends it that the webhook in slot r is alone with t.
Joined(r, t) ==
  \/ Created(t)
  \/ \E q \in Req \ {r} :
       Works(q, t) \/ (Delivered(q) /\ req'[q].pre = req[r].pre)

\* The webhook of another payment than the last checkout's, any handler that is
\* no webhook, and one that fails.
WorksElse(r, t, failed) ==
  /\ Works(r, t)
  /\ req[r].op # "webhook" \/ req[r].pre # link[t] \/ Broken(r, failed)

\* MercadoPago changes the payment of t while a webhook is on its way with
\* what it was.
Outdated(t) ==
  \E p \in Preapproval :
    /\ link[t] = p /\ mp'[p].status # mp[p].status
    /\ \E r \in Req : req[r].op = "webhook" /\ req[r].pre = p

Opens(r, t, failed) ==
  req[r].t = t /\ Awaits(r, "openSub") /\ req'[r] # req[r] /\ r \notin failed

Record(failed) ==
  /\ alone' = [r \in Req |->
                 IF Delivered(r) THEN Tenant
                 ELSE IF req'[r].op # "webhook" THEN {}
                 ELSE {t \in alone[r] : ~Joined(r, t)}]
  /\ settled' = {t \in Tenant :
                   IF \E r \in Req : Works(r, t)
                     THEN \E r \in Req : /\ Works(r, t) /\ t \in alone[r]
                                         /\ Finishes(r, failed)
                     ELSE t \in settled /\ ~Created(t)}
  /\ bought' = {t \in Tenant :
                  \/ \E r \in Req : Opens(r, t, failed)
                  \/ /\ t \in bought /\ ~Outdated(t)
                     /\ \A r \in Req : ~WorksElse(r, t, failed)}

DeliveriesNext ==
  \/ /\ \/ TenantRequest \/ BillingRequest \/ Webhook \/ Customer
        \/ \E r \in Req : Continue(r)
     /\ Record({})
  \/ \E r \in Req : Fail(r) /\ Record({r})

DeliveriesSpec == DeliveriesInit /\ [][DeliveriesNext]_deliveryVars

-----------------------------------------------------------------------------
(***************************************************************************)
(* Properties.                                                             *)
(***************************************************************************)

\* Tenants may share an e-mail, and MercadoPago knows the e-mail only.
OwnEmail(t) == \A u \in Tenant : EmailOf[u] = EmailOf[t] => u = t

\* Nothing about preapproval p is on its way.
Acknowledged(p) ==
  p \notin notif /\ \A r \in Req : req[r].op = "webhook" => req[r].pre # p

\* One delivery that is alone with its tenant, from the GET of its preapproval
\* to its last write, repairs whatever errors, late and overlapping webhooks,
\* checkouts and changes by administrators left there before: when nothing
\* about the preapproval that the subscription holds is on its way any more,
\* the subscription says what MercadoPago says of it, the plan is the one
\* subscribed to while it is authorized, free once it is cancelled, and then
\* the cancellation is dated.  Other tenants' handlers may run meanwhile.
LoneDeliveryRepairs ==
  \A t \in settled :
    LET p == sub[t].pre IN
    p # None /\ OwnEmail(t) /\ Acknowledged(p) =>
      /\ sub[t].status = mp[p].status
      /\ sub[t].status = "authorized" => tenant[t].plan = sub[t].planName
      /\ sub[t].status = "cancelled" => tenant[t].plan = "free" /\ sub[t].dated

\* However many deliveries of a payment overlap, and though one that finds no
\* pending subscription any more acknowledges without a write, the payment
\* that followed a checkout is recorded once all of them are acknowledged: the
\* customer paid with the tenant's e-mail, and since the checkout nothing else
\* worked on the tenant.  An older payment of the customer, notified late, is
\* something else: it takes the pending subscription for itself.
CheckoutPaymentRecorded ==
  \A t \in bought, p \in Preapproval :
    /\ link[t] = p /\ mp[p].status = "authorized" /\ mp[p].payer = EmailOf[t]
    /\ OwnEmail(t) /\ Acknowledged(p)
    => sub[t].pre = p /\ sub[t].status = "authorized"
=============================================================================
