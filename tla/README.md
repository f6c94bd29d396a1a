# SharkByte, in TLA+

SharkByte is a multi-tenant WhatsApp assistant. A NestJS backend
(`src/Backend`) keeps tenants, their plans and their data in MongoDB; n8n runs
the bot and calls the backend's internal API; Evolution API connects WhatsApp
instances; MercadoPago charges subscriptions. This directory holds models of
the backend's logic, the TLC runs that check them and the proofs TLAPS checks.

Run inside this directory:

    tlc -workers 2 -config <run>.cfg <module>     (the table below names both)
    tlapm <module>.tla                            (the *Proofs modules)

## 1. The system

Paths are below `src/Backend/src/modules`.

| component | state it keeps | operations | talks to |
|---|---|---|---|
| tenants | `tenants`: status, isActive, deletedAt, plan, WhatsApp instance | create, activate, updateStatus, updatePlan, deactivate, softDelete, restore, hardDelete, updateEvolutionInstance | writes `subscriptions` in updatePlan and hardDelete; called by billing, auth, whatsapp |
| billing | `subscriptions`, one per tenant | checkout, cancel, pause, resume, manual activation, webhook of a preapproval | MercadoPago (HTTP and webhooks), tenants, mail |
| plans | `plans` | seed at start, queries | cached MercadoPago plan ids, used by billing |
| usage | counters in `tenants` | record, limit guard, monthly reset | cron, n8n |
| analytics | `usage_snapshots` | capture, aggregations | cron, reads tenants |
| internal API, appointments | `appointments` | book, list reminders, mark as reminded, move, cancel | n8n, the panel |
| pipeline, sales, contacts, conversations, tags | `pipelines`, `deals`, `sales`, `contacts`, `conversations` | CRM, fed by n8n and by the panel | each other |
| automation | rules and their log | CRUD of rules; an engine that nothing calls | |
| auth, users | `users`, reset tokens | register, login, refresh, reset | tenants, mail |
| whatsapp, channels | instance in `tenants`, `channels` | connect, QR, poll, disconnect, delete; forward messages | Evolution API, n8n |
| tenant-config | configuration, the file of its QR | partial updates, upload of the QR | object storage; n8n reads it |
| google-integration | tokens, spreadsheet | connect, disconnect, renew, events, rows | Google |
| products, catalog-pdf, references | documents and files | CRUD | object storage |

**How they interact.** One Node process serves all requests. A handler runs
without interruption between two `await`s; at an `await` any other handler may
run. MongoDB makes the write of one document atomic. There are no transactions
and no locks, so a handler of several writes may be interleaved at every
`await`, and an exception or a restart leaves it half done. MercadoPago repeats
a notification until it is answered with 2xx, may post it twice, and notifies
in no order.

**What is hard.** Handlers that check and write in two awaits (activation,
usage limits, the one active appointment, default pipeline, open deal,
spreadsheet, reset tokens); handlers that write several documents (webhook,
cancel, updatePlan, registration, hardDelete), or a document and a file; late
answers of external services (webhooks, renewed tokens, polls of a connection,
n8n's answers); jobs that send first and mark afterwards
(reminders, repurchase); cron jobs that are missed or fail. PROJECT.json lists
these hazards with their lines.

**What makes each component correct.**

* tenants: isActive and status agree; a deleted tenant is off and keeps its
  plan; tenants move only along the lifecycle of `TenantLifecycle`.
* billing: nobody is upgraded without a cause; a subscription holds only its
  own customer's preapproval; at rest subscription, plan and MercadoPago agree,
  and one delivery that nothing disturbs makes them agree again; a payment is
  recorded and activates the tenant; a cancelled subscription is not charged.
* usage: a limit is passed by no more than what is in flight; the quota of a
  month counts only that month; snapshots show only usage of their time.
* appointments: one active appointment per customer, one per slot, reminders
  once and for the date the appointment has.
* CRM: no more default pipelines, open deals and sales of a deal than work
  overlaps; the links of a sale and its deal agree; a client is reminded once; no
  field that the agent learnt of a sale is lost.
* auth, users: a tenant has an owner, and its founder owns it; as many reset
  tokens work as requests overlap.
* google: the stored tokens are those of the account shown; one spreadsheet; a
  row is overwritten only for its own event, and a cancelled one stays so until
  somebody says otherwise.
* products, catalog-pdf, tenant-config: a document names the one file that the
  store has; the QR is not lost to an update of something else.
* whatsapp, channels: the document has the name of the instance that exists;
  what is shown as connected is; a channel switched off goes quiet; its counter
  is its own.

## 2. Modules

| module | models | EXTENDS / INSTANCE |
|---|---|---|
| `Tenants` | the tenant document and the writes of `tenants.service.ts` | |
| `TenantLifecycle` | abstract: the four phases of a tenant | |
| `MercadoPago` | the external service: preapprovals and notifications | |
| `Billing` | the handlers of tenants and billing, cut at their awaits | EXTENDS Tenants, MercadoPago; implements TenantLifecycle |
| `MCBilling` | instances for TLC | EXTENDS Billing |
| `Deliveries` | Billing with three histories: which handlers ran without another between their awaits | EXTENDS Billing |
| `MCDeliveries` | instances for TLC | EXTENDS Deliveries |
| `BillingProofs` | types and readiness of every handler, causes of plans, cancellations, the lifecycle and its refinement; then what a delivery repairs and records | EXTENDS Deliveries |
| `Usage` | counters, guard, monthly job, snapshots | INSTANCE TenantLifecycle |
| `MCUsage` | instances for TLC | EXTENDS Usage |
| `UsageProofs` | types, overshoot, quota and snapshot invariants | EXTENDS Usage |
| `Appointments` | bookings, reminders, cancels, moves; n8n's and the panel's | |
| `MCAppointments` | instance for TLC | EXTENDS Appointments |
| `AppointmentsProofs` | types, active appointments, marks of reminders | EXTENDS Appointments |
| `Crm` | conversations, pipelines, deals, sales and their reminders | |
| `MCCrm` | instance for TLC | EXTENDS Crm |
| `CrmProofs` | types and all invariants and the action property of Crm | EXTENDS Crm |
| `Requests` | what the next five share: slots of requests, operations in use | |
| `GoogleIntegration` | tokens, calendar events, the spreadsheet and its rows | EXTENDS Requests |
| `StoredFiles` | products, catalogue and QR, with the files they name | EXTENDS Requests |
| `Accounts` | registration, users, password resets, erasure of a tenant | EXTENDS Requests |
| `WhatsApp` | the instance of a tenant, and what its document says of it | EXTENDS Requests |
| `Channels` | channel documents and the webhooks that forward to n8n | EXTENDS Requests |
| `MCServices` | the five services side by side, for TLC | EXTENDS the five |
| `RequestsProofs` | counting lemmas for requests in flight | EXTENDS Requests |
| `GoogleProofs`, `AccountsProofs` | types, all invariants and the action property of each | EXTENDS the module, RequestsProofs |
| `ServicesProofs` | the same of WhatsApp, StoredFiles and Channels, then of the five services together | EXTENDS MCServices, GoogleProofs, AccountsProofs |

**Correspondence.** In `Tenants` an operator is one database write and its
filter. In `Billing` a handler occupies a slot `req[r]`: `op` names it, the
other fields are its local variables, and `todo` is the list of awaits it has
still to do. The first access to the database is the action that starts the
handler (`Checkout`, `Deliver`, ...), each later await is an action of its own
(`SetPlan`, `SyncSub`, `MpSet`, ...), and the list given to `Begin` is the
order of the awaits in the code; that is where the order of the writes of
`cancelSubscription`, `updatePlan` or `handlePreapprovalEvent` is to be
compared. `Throw` is an exception: the handler ends and nothing is undone; a
webhook then answers 5xx. `Fail` is an exception at any await, or a restart.
`link[t]` is the checkout page of the last checkout, and then the preapproval
paid there. `granted`, `invoiced` and `crossed` are history. A tenant is in
`crossed` when an administrator moved it to free, which tells MercadoPago
nothing, or when its subscription got another preapproval while a cancellation
of the old one was on its way (`Cancelling`), until a checkout that no
cancellation meets: cancellations are written by tenant, so one that is late
marks the new subscription as cancelled while it is charged.

`Deliveries` adds three histories to `Billing`, and no other state: `alone[r]` is
the set of tenants that nobody else worked on since the webhook in `r` fetched
its preapproval; `settled` are the tenants whose last work was done by such a
webhook, to its end; `bought` those that since their last checkout only webhooks
of the payment that followed it worked on, without an error. They are what lets
a property speak of one delivery among any others.

`Usage` keeps the counters apart from `Tenants`: the tenants in it move as
`TenantLifecycle` allows, which `BillingProofs` proves of `Billing`. The
record handler is two steps, guard and increment; a capture is a read and a
bulk write; the job is capture, then reset. `base`, `spent` and `cleared` are
history: what a tenant had used when it came to the plan free, what it used in
each month, the months whose reset ran.

`Appointments` is the collection of one tenant. A booking is two steps, the
findOne and the replacement or creation; `req[r]` holds what it found and the
date it saw there. A reminder is two steps, the list (after which n8n sends)
and the mark; `job[j]` is the reminder in between. All other handlers are one
write. `manual` and `told` are history: what the panel confirmed, and the
reminders that were sent for the date an appointment has. An id is used once,
as MongoDB's are. Any reminder may be due at any time and n8n may cancel or move
any appointment, so `appointmentDateTime` and `calEventId` are not needed.

`Crm` has two contacts or more and the work of one tenant. A message upserts
its conversation and starts a job (`lead`: find or create the pipeline, look for
an open deal, create one) that its handler does not wait for
(`conversations.service.ts:207`); a confirmed sale starts another (`win`: find the
deal, close it, write its id into the sale, `sales.service.ts:56-66`). `job[j]`
is the job with the await it has come to (`at`) and what it has found (`pipe`,
`d`, `seen`). n8n's reading of a sale's state and its answer, and its list of
reminders and its mark, are jobs of two steps as well. A job may die at any await
(`Lose`). `manual`, `reopened`, `advanced`, `cut` and `again` are history: deals
that the panel made or reopened, deals whose sale n8n named last, sales whose job
died between its two writes, and reminders sent whose mark was not lost.

In the five services an operation is a request in a slot: `call` in
`GoogleIntegration`, `work` in `StoredFiles`, `job` in `Accounts`, `visit` in
`WhatsApp`, `forward` in `Channels`. Each record has the await that the request
has come to and what it has read; an action takes it to the next one, and
another ends it anywhere. Google, the object store, the Evolution API and n8n
are what their calls do.

`GoogleIntegration` keeps of a document whose account is shown and whose tokens
are stored, which differ when userinfo fails
(`google-integration.service.ts:111`), and of a row what is in its columns G
and H and whether it is cancelled: an update finds its event in either column,
writes the employee to G and another `eventoCalendarId` to H, in rows of the old
schema too (`:439-457`). A behaviour begins with a new tenant, or with one whose
sheet has such an old row. `WhatsApp` has several instance names: the default
one, which connect makes, and those that the owner writes by hand
(`tenants.service.ts:166`), whose instances may exist before.

Where the code is only right while requests do not overlap or fail, a history
variable says which did, and the property says what holds apart from those. In
Google's part these are `overtaken` (renewals since whose reading the account
changed) and `strayed` (one of them wrote last), `shaken` and `crossed` (updates
whose row was cleared or given other events, or that overlapped), `cancelled`
(rows last said to be cancelled) and `unstored` (sheets that a dead call left);
`torn` and `blind` in the files, `stranded` and `unsettled` in the accounts,
`astray` (instance names whose document and instance may have parted) and `late`
in WhatsApp, `stray` in the channels.

## 3. Runs

| run | module | shows |
|---|---|---|
| `lifecycle` | MCBilling | one tenant, one payment, two handlers at a time, faults: types, the lifecycle invariant and refinement, deleted tenants keep their plan, no paid plan without a payment or an administrator |
| `second_checkout` | MCBilling | two payments of a customer who may pay with another e-mail, two handlers, faults: a subscription holds only its own preapproval, and what it shows as cancelled is not charged, unless the second checkout crossed the cancellation |
| `settled_faults` | MCBilling | one handler at a time, any await may fail: at rest subscription, plan and MercadoPago agree |
| `payment` | MCBilling | two deliveries of one notification, fair: a payment is recorded and activates |
| `deliveries` | MCDeliveries | two checkouts and payments, cancellations, two handlers, faults: a delivery that is alone repairs what the others left, and the payment of the last checkout is recorded however its deliveries overlap |
| `invoice_repeated` | MCBilling | **violation**: two deliveries both send the invoice |
| `payment_lost_on_retry` | MCBilling | **violation**: a webhook that fails after updatePlan is acknowledged on its retry without having stored the preapproval |
| `usage` | MCUsage | two records in flight, a month's end with faults, manual snapshots, plan changes, deletion |
| `usage_label` | MCUsage | **violation**: the job of the first of a month stores the usage of the month before as that of the new one |
| `appointments` | MCAppointments | two bookings in flight, cancels, moves, the panel, one reminder in flight: no more active appointments than bookings at a time, and marks mean reminders of the right date |
| `crm` | MCCrm | two contacts, two jobs in flight, any of which may be lost, and the panel: pipelines, open deals and sales of a deal stay bounded by the jobs, sale and deal agree, reminders are not repeated, no field is lost |
| `services` | MCServices | each of the five services with two requests in flight that may die at any await: tokens, sheets, rows, files, QR, owners, reset tokens, instance, channels as in section 1 |

**Bounds.** Two slots of `req` are two handlers in flight: each hazard listed
is between two handlers, or between one and the retry of the same. `Tenant`,
`Preapproval`, `Email` and `PlanInput` bound the data: a second preapproval
matters for a second checkout only, a second tenant for payers' e-mails.
`Offered` says which operations the users of a run may call. Payers' e-mails
are stored in lower case and compared as typed; `PayerOf` gives the e-mails of
a customer, and `second_checkout` lets it be somebody else's; as the other
customer would differ in the e-mail only, one tenant is enough. `invoiced` counts
up to 2. `lifecycle` has 4.2 million states, `second_checkout` 4.5 million,
`deliveries` 6.7 million, with slots and ids that are interchangeable; changes at
MercadoPago and by administrators over two payments are out of reach there, and
covered by the proofs. In `usage`, `LastMonth = 1` and `Cap = 4`
bound time and the usage counted; months that are missed and recovered later
need more months and are covered by the proof. Amounts and limits are small:
records report one message and two tokens, limits are two of each, so that one
kind ends exactly at its limit and the other passes it. In `appointments`
three ids are one more than the bookings in flight, so that the bound could be
passed; customers and kinds of reminders are independent of each other, so one
of each is enough; `ByPanel` bounds what the panel confirms at a time.

In `crm` three pipelines, deals and sales are one more than the jobs in flight,
so that each bound could be passed; two contacts let a deal change hands, and two
fields let one answer lose what another wrote. `Offers` and, in `services`,
`Uses` list sets of operations: a behaviour uses those of one set, chosen at the
start; `services` has 1.4 million states. Operations that do not touch the same
documents are in different sets, which keeps the instance small; each element of
`Uses` belongs to one service, so ids of two services may share their model values. The ids of pipelines, deals,
sales, sheets, events, users and tokens are used once, as MongoDB's are, and
`Traffic`, `Lives` and `LastRow` bound the messages, the lives of a channel and
the rows of a sheet: so a history may come to an end. Two sheet rows are two
events, one of which can be overwritten by the other; two messages of an entry
leave one after the channel is off. With three tokens or sheets, one more than
the requests, the bounds on them could be passed.

**Run `settled_faults` has one handler at a time**, and one payment. With two
handlers a late webhook or a cancel writes the status it read before another
handler wrote a newer one, and section 5 says what errors do over two payments:
the agreement of every state at rest is a property of sequential handling with
failures, not of concurrent handling. Run `deliveries` has two of both, and says
which deliveries put things right again.

**Fairness** (`FairSpec`, run `payment`). An await of a handler returns or
throws (Node's event loop and the drivers' timeouts), so `Continue(r)` is
weakly fair. MercadoPago posts a notification until it is answered, so the
delivery of each preapproval is strongly fair: slots may be busy for a while.
Users, administrators and the customer owe nothing. Liveness is checked with
`Faults = FALSE`; `payment_lost_on_retry` shows what one fault does to it.

**Deadlock** is checked in every run but `services`, where the bounded histories
end: when all ids are used, or all traffic has come, nothing has to go on.

**Mutants.** Definitions under "Faulty variants" in the modules are plausible
slips of one definition (a dropped filter, a swapped order, an off-by-one).
PROJECT.json pairs each checked property with the one that breaks it.

## 4. Proofs

For every value of the constants that satisfies the modules' assumptions:

| theorem | says | argument |
|---|---|---|
| `TypeCorrect` | `TypeOK` | `TypeInv`, its conjunction with `HandlersReady`: types alone are not inductive, since a step uses locals its handler must have set. `RequestsReady`, `WebhookReady` and `FoundReady` show that every list of awaits starts ready; `TailReady` that it stays so |
| `LifecycleCorrect` | `LifecycleOK` | inductive with the types. `StepWritesTenant` reduces all actions to the writes of `Tenants`; each write keeps it |
| `DeletedPlanKept` | `DeletedKeepsPlan` | the same reduction, one write at a time |
| `LifecycleImplemented` | `ImplementsLifecycle` | every write is one move of one tenant's phase or a stutter |
| `PaidPlansHaveCause`, `PreapprovalsAreOwn` | `PaidPlanHasCause`, `PreapprovalIsOwn` | `CauseInv`. A handler writes what it read of MercadoPago some awaits before; this stays true, as a preapproval keeps its payer and the memory of its payment (`Lasting`). So every await still to do is held to what backs it (`Backed`, `Sound`), next to the subscriptions (`SubSound`) and the payers of what was issued (`Issued`) |
| `CancelledNotCharged` | `CancelledIsNotCharged` | `EndInv`. A cancellation in flight is either still to tell MercadoPago or its preapproval is cancelled, which is final; and it is either still to store its preapproval or the subscription holds none other, unless the tenant is in `crossed` (`Honest`). Then whatever an await writes as cancelled has ended (`Meant`, `Settled`) |
| `LoneDeliveriesRepair` | `LoneDeliveryRepairs` | `DeliveriesInv`. `StepKinds` reduces every step to one of eight kinds, by what it leaves alone; `ScriptInv` holds a webhook to its route. `AloneInv`: what a webhook has written when it comes to an await (`Done`, `DoneOn`) is still so for each tenant it is alone with (`DoneAlone`). `SettledInv`: the tenant agrees with MercadoPago, or a notification or a webhook is there that will find the subscription (`Coming`) |
| `CheckoutPaymentsRecorded` | `CheckoutPaymentRecorded` | `BoughtInv`: the subscription is as its checkout left it or belongs to the payment (`Matched`), and a payment leaves a trace until it is recorded (`Paid`): a notification, a webhook that still looks for the subscription, or one that has it and will store the id (`Underway`). Of overlapping deliveries the one that finds nothing any more is therefore beside one that has the subscription; `WriteOn` and `LookingMoves` carry the trace over one await |
| `UsageTypes` | `TypeOK` of `Usage` | inductive |
| `OvershootIsBounded` | `OvershootBounded` | `OvershootInv`: for a tenant on the plan free, what it used plus a largest record for each of its records in flight stays below the bound. The property alone is not inductive, as nothing in it counts the slots already past the guard |
| `QuotaIsMonthlyAlways` | `QuotaIsMonthly` | `MonthsInv`, below |
| `SnapshotsBounded` | `SnapshotBounded` | `MonthsInv`: the bound holds of the counters (`CounterInv`), then of what a capture has read (`CaptureInv`), then of what it has written (`SnapshotInv`), and is kept while usage only grows (`SpentGrows`) and the months past are not cleared again (`DueKept`) |
| `AppointmentTypes` | `TypeOK` of `Appointments` | inductive |
| `ActiveIsBounded` | `ActiveBounded` | `SlotsInv`: the active appointments and those a booking found, which it may confirm again (`Held`), plus the bookings that found none (`Creating`), are at most the slots. When a booking finds nothing active, what is held is the image of the other bookings' slots, which leaves one slot for it (`FindSlots`). `SoughtInv` adds that what a booking found is its customer's |
| `MarksAreReminders` | `MarkedIsReminded` | `AwaitedInv`: a reminder in flight counts as sent for the date the appointment has, or the move was blind |
| `CrmTypes` | `TypeOK` of `Crm` | `CrmInv`: types, what a job has found when it comes to an await (`TaskSound`), and the reminders in flight (`RemindersCounted`) |
| `RemindersBounded` | `RemindedOnce` | `CrmInv`: until the first is marked, the reminders counted are those in flight |
| `FewPipelines`, `FewOpenDeals` | `PipelinesBounded`, `OpenDealsBounded` | `Within`: what was made, plus the jobs that will make one more (`PipeMakers`, `LeadMakers`), is at most the jobs. A job becomes a maker only when it finds none, and then what was made is empty |
| `LinksAgree`, `FewSalesOfDeal` | `SaleAndDealAgree`, `SalesOfDealBounded` | `LinksInv`: a sale has one job, which has not written the sale yet (`SalesInv`); a deal that a sale names, or is about to, has a sale (`LinkedInv`); the sale of a deal names it back (`NamedBack`); a deal that nobody reopened is open only before its first sale (`UnsoldInv`), which leaves the same budget for its winners (`SalesWithin`) |
| `FieldsNeverLost` | `FieldsKept` | one action at a time, from the types |
| `GoogleTypes`, `AccountsTypes`, `WhatsAppTypes` | types of these modules | with what each request has read when it comes to an await (`CallsSound`, `JobsSound`) |
| `TokensOwn` | `TokenIsOwn` | `TokenInv` adds that a renewal on its way is of the account whose refresh token is stored, unless it was overtaken (`RenewalsOwn`) |
| `FewSheets` | `SheetsBounded` | `SheetsInv`: until a sheet is stored each one that was made is about to be |
| `OrphansStranded` | `OrphanHasCause` | with the types: a registration links what it created, or strands it |
| `FoundersOwn` | `FounderIsOwner` | `FounderInv`, of each phone that is settled: one registration at most is past its tenant and none during an erasure (`OneRegistrar`), and no founder is left where a tenant goes, comes or gets another owner (`FewFounders`) |
| `FewTokens` | `TokensBounded` | the tokens that work plus the requests about to create one are at most the requests |
| `ConnectedReally` | `ConnectedIsReal` | `ConnectedInv` adds that no poll is on its way without a name (`NoPollWithoutName`), unless it is late |
| `InstanceMatches` | `InstanceAgrees` | `AgreeInv`: of the requests that change something one at most is alone (`Solo`), the others have put their names astray (`Strays`), and the document has none, one of theirs, or one astray (`Named`). A name that is not astray agrees while no request is about it (`Far`); while a lone one is, document and instance are as its place in connect, link or delete has left them (`Near`) |
| `RowsKept`, `CancelledStays` | `OtherRowsKept`, `CancelKept` | `RowsKnown`: what an update has read names its event (`SeenSound`), and the row at its position still has the events it read unless it is in `shaken` (`PlacesSound`); a cancelled row has been read as cancelled by every update on its way, but for crossed ones (`CancelsSound`) |
| `FilesTypes`, `FilesAgreeAlways` | types, `FilesAgree` | `ItemsSound`: while nothing has torn an item, one request at most works on it, the document is as that request found it, and the store has what the request has left there so far: the old file before the delete, nothing before the upload, the new one before the save |
| `QrKeptAlways` | `QrKept` | `BlindKnown`: while a QR is stored, every request about to write a payment part without one is known to have read none |
| `ChannelsTypes`, `CountsOwn` | types, `CountIsOwn` | `ChannelsInv`: the counter of the present document plus the requests about to count for it is at most what n8n answered for it (`OwnCounts`); what was served and what is left in the batches is at most the traffic (`TrafficCounts`), without which the types are not inductive |
| `OffGoesQuiet` | `OffIsQuiet` | `StrayCounts`: the old messages n8n got plus those still in the batches read before are at most a full batch for each request. Both are counted as sets of pairs of a request and a place in its batch |
| `ServicesApart`, `ServicesTypes`, `ServicesKept` | each service in the composition behaves as alone; `ServicesTypeOK` and all the above hold there | `StepOfService`: a step of the composition is a step of one service and a stutter of the others. This ties the theorems to the specification that run `services` checks |

**Agreement with MercadoPago, in every instance.** `SettledAgreesWithMp` and
`LatestPaymentRecorded` are checked in the runs that restrict what happens; they
do not hold of every instance, as Node interleaves handlers, awaits fail,
customers pay with other e-mails and administrators tell MercadoPago nothing.
So the theorems are about what does hold then, stated over the histories of
`Deliveries` and proved of `DeliveriesSpec` from `BillingAssumption` alone. They
speak of one tenant at a time, whatever the handlers of all others do, and rest
on no claim about the instance: only the tenant that a conclusion is about must
have an e-mail of its own (`OwnEmail`), as MercadoPago names payers by e-mail,
and for `CheckoutPaymentRecorded` this payment must be made with it.

The assumptions are those named in the modules: `InputAssumption`,
`BillingAssumption` (among them that no id of MercadoPago is the name of a
plan, since `link` holds either), `UsageAssumption` (limits and amounts are
naturals, request slots are finite), `AppointmentsAssumption`, `CrmAssumption`,
`RequestsAssumption`, `GoogleAssumption`, `AccountsAssumption` (ids and slots are
finite, `None` is no value of theirs), `WhatsAppAssumption`,
`FilesAssumption`, `ChannelsAssumption` (bounds are naturals, and an entry has
a message at least).

Only model-checked: `SettledAgreesWithMp` and `LatestPaymentRecorded`, which hold
in their runs' regimes, and `PaymentActivates`, as liveness under fairness is out
of the provers' reach. Every other property of a passing run is stated by a
theorem.

## 5. What the code does not do

Kept as violation runs: the three above. Also met while modelling, each with a
counterexample in an earlier run, and not kept:

* a plan change writes tenant and subscription in two awaits
  (`tenants.service.ts:232-262`), so two of them leave one's plan in the tenant
  and the other's in the subscription;
* `activate` checks the WhatsApp credentials one await before it writes
  (`tenants.service.ts:189-213`), so a tenant is activated without them;
* handlers in flight write a subscription for a tenant that hardDelete has
  just emptied (`tenants.service.ts:310-331`);
* a payment with an e-mail typed differently is never matched
  (`billing.service.ts:314-320`), and one paid at the page of an earlier
  checkout is matched with the last (`billing.service.ts:133`);
* two bookings at a time leave a customer with two active appointments
  (`internal.controller.ts:735`), against "un cliente = una cita activa"
  (`:734`); `ActiveBounded` says how far that goes;
* a move from the panel, or one that meets a reminder on its way, leaves the
  reminder of the new date marked as sent (`appointments.controller.ts:138`,
  `internal.controller.ts:824`): these are the exceptions of `MarkedIsReminded`;
* a move with only a date or only a time leaves `appointmentDateTime` as it was
  (`internal.controller.ts:868`), so reminders go by the old one;
* a cancellation on its way when a newer checkout is paid marks the new
  subscription as cancelled, as it is written by tenant
  (`billing.service.ts:203`), while MercadoPago goes on charging it: the
  exception of `CancelledIsNotCharged`. A change of the plan to free by an
  administrator (`tenants.service.ts:254`) never tells MercadoPago at all;
* with errors over two payments `SettledAgreesWithMp` fails: a webhook of one
  payment that dies half way leaves its status beside the id of the other, and
  its retries find no subscription;
* an older payment of a customer, notified after a new checkout, takes the
  pending subscription (`billing.service.ts:314`), and the new payment finds none;
* an update of a row of the old schema that gives an employee writes it over
  the event's id (`google-integration.service.ts:456`), and no later update
  finds the row;
* of two updates of an event, one of which gives it another id, the later
  writes the old id back (`google-integration.service.ts:449-461`): with the
  clear in between, the exceptions of `OtherRowsKept`;
* a failed userinfo is no error: tokens are stored beside an empty e-mail
  (`google-integration.service.ts:111-120`), and the panel shows a connection
  of nobody's account;
* an instance that the owner links another name over lives on, and n8n goes on
  getting its messages (`tenants.service.ts:166`); a status written without a
  name shows "connected" where there is no instance.

Read in the code, and outside the models:

* the webhook of a payment whose tenant was deleted throws at every retry
  (`billing.service.ts:342`), so MercadoPago posts it until it gives up;
* the seed at every start forgets the MercadoPago plan ids
  (`plans.service.ts:47`), and checkouts after it create the plans again;
* a password reset checks its token and marks it used one await later
  (`auth.service.ts:271`): two requests may both use it;
* tenants' e-mails are not unique (`tenants.schema.ts:100`), though payments are
  matched by them;
* registration tries to activate a tenant that has no instance yet, which
  `activate` always refuses (`tenants.service.ts:200`), against the comment at
  `auth.service.ts:153`.

## 6. Not modelled

Left out of the modelled components: the check of a webhook's signature and of
missing configuration (a request refused changes nothing), payment events (they
only log), mail contents, the period dates, the MercadoPago ids cached in
plans, deletes of other collections in hardDelete, the guard's credentials
check in `Usage` (it refuses more), `appointmentDateTime` and check-slot (which
only reads) of the appointments; messages, titles, stages and amounts in the
CRM, which are written blindly and decide nothing; encryption, the other columns
of a row and updates that name no event in Google's part; the URL and key of an
Evolution server of the tenant's own, and what is done in the Evolution API's
panel once the tenant is there; fields that name no file; passwords, sessions
and roles;
the shapes of the platforms' messages. MercadoPago is external: `MercadoPago`
assumes that a cancelled preapproval is final and that one payment follows one
checkout page. Each service is modelled apart from the others: they share the
processes and the tenant's id, and no document.

Not modelled at all, and why:

* contacts, tags, references: plain documents, each operation one write, and
  nothing decides by them;
* automation: its rules are such documents too, and nothing calls the engine
  that would run them;
* common (but for the store): interceptors and filters that shape answers;
  application: wiring; infrastructure: deployment files;
* the n8n workflows: generated JSON that runs outside the backend. Their calls
  are actions of the models, in any order.

## 7. Plan

The order was that of what the system can least afford to get wrong, and every
module of it is done: `Tenants`, `MercadoPago`, `Billing`, `TenantLifecycle`;
`Usage`; `Appointments`; `Crm`; the services; then `Deliveries`. What is left:

1. what an administrator's free plan, which MercadoPago never hears of, leaves
   behind: a bound on how long a tenant goes on being charged;
2. the windows of the reminders (`appointmentDateTime`) in `Appointments`;
3. liveness beyond the payment: that a lost reminder is sent again, and that a
   connect repairs a document, both of which hang on what n8n and the panel do
   again, and so on fairness that the code alone does not give.
