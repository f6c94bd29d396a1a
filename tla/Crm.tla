-------------------------------- MODULE Crm ---------------------------------
(***************************************************************************)
(* The sales side of one tenant: conversations, the pipeline with its      *)
(* deals, and sales (conversations/, pipeline/, sales/ and the endpoints   *)
(* of internal.controller.ts that n8n calls).                              *)
(*                                                                         *)
(* A message of a contact and a confirmed sale each start work that their  *)
(* handler does not wait for: the first looks for an open deal and creates *)
(* one, the second looks for an open deal, wins it, and writes its id into *)
(* the sale.  Each of these is a job here, with one action per await.  n8n *)
(* reads the state of a sale, has the agent answer, and writes it back;    *)
(* and it lists the repurchase reminders due, sends them, and marks them.  *)
(*                                                                         *)
(* Left out: message bodies and their stream to the panel, names, amounts  *)
(* and e-mails, the stage of a deal and of a conversation and the          *)
(* conversation's status (written blindly, and read only to be shown), a   *)
(* dealId that the panel types into a sale, and the contact that a sale    *)
(* upserts by its phone, which nothing here reads.  A contact is a phone   *)
(* on one channel.                                                         *)
(***************************************************************************)
EXTENDS Naturals, FiniteSets

CONSTANTS
  Contact,    \* phones
  Pipeline,   \* ids of pipelines, each used once   (bounds the history)
  Deal,       \* ids of deals, each used once       (bounds the history)
  Sale,       \* ids of sales, each used once       (bounds the history)
  Field,      \* fields of a conversation's salesData
  Job,        \* work in flight                     (bounds concurrency)
  ByPanel,    \* deals the panel creates or reopens (bounds inputs)
  Offers,     \* sets of operations that clients may be using (bounds inputs)
  None

VARIABLES
  conv,       \* None or a Conversation, by contact
  pipes,      \* the default pipelines of the tenant
  deal,       \* None or a DealDoc, by id
  fresh,      \* ids of deals not used yet
  sale,       \* None or a SaleDoc, by id
  job,        \* None or a Task
  offered,    \* the operations that clients use: one of Offers
  manual,     \* history: deals the panel created
  reopened,   \* history: deals the panel reopened or gave to another contact
  advanced,   \* history: deals whose sale n8n named last
  cut,        \* history: sales whose job died while it wrote its deal
  again       \* history: reminders of a sale whose mark was not lost

vars == <<conv, pipes, deal, fresh, sale, job, offered, manual, reopened,
          advanced, cut, again>>

Status == {"open", "won", "lost"}
SaleStatus == {"confirmed", "pending", "cancelled"}

\* data: the fields of salesData that are set.
Conversation == [data : SUBSET Field]

DealDoc == [pipe : Pipeline, contact : Contact, status : Status,
            sale : Sale \cup {None}]

SaleDoc == [contact : Contact, status : SaleStatus, deal : Deal \cup {None},
            sent : BOOLEAN]

Op == {"lead", "win", "advance", "kanban", "reply", "remind"}
At == {"pipeline", "makePipeline", "deal", "create", "mark", "link", "answer"}

\* pipe, d: what the job has found; seen: the fields that n8n read;
\* s, to: the sale and the status to give to the deal.
Task == [op : Op, at : At, c : Contact \cup {None}, pipe : Pipeline \cup {None},
         d : Deal \cup {None}, s : Sale \cup {None}, to : Status \cup {None},
         seen : SUBSET Field]

ASSUME CrmAssumption ==
  /\ IsFiniteSet(Pipeline) /\ IsFiniteSet(Deal) /\ IsFiniteSet(Sale)
  /\ IsFiniteSet(Job)
  /\ None \notin Contact \cup Pipeline \cup Deal \cup Sale \cup Status
  /\ None \notin Conversation \cup DealDoc \cup SaleDoc \cup Task

Init ==
  /\ conv = [c \in Contact |-> None]
  /\ pipes = {}
  /\ deal = [d \in Deal |-> None]
  /\ fresh = Deal
  /\ sale = [s \in Sale |-> None]
  /\ job = [j \in Job |-> None]
  /\ offered \in Offers
  /\ manual = {} /\ reopened = {} /\ advanced = {} /\ cut = {}
  /\ again = [s \in Sale |-> 0]

documents == <<conv, pipes, deal, fresh, sale>>
history == <<manual, reopened, advanced, cut, again>>

-----------------------------------------------------------------------------
(***************************************************************************)
(* Faulty variants, to show that the properties notice a slip.             *)
(***************************************************************************)
DefaultsUnfound == {}

LeadMissed(c, p) == FALSE

WonStaysOpen(doc, s) == [doc EXCEPT !.sale = s]

WonByStage(doc, s) == [doc EXCEPT !.status = "ganado", !.sale = s]

BackfillForgotten(doc, d) == doc

DueAgain(s) == sale[s] # None /\ sale[s].status = "confirmed"

OverwrittenWhole(now, seen, f) == seen \cup {f}

-----------------------------------------------------------------------------
(***************************************************************************)
(* Jobs.                                                                   *)
(***************************************************************************)

Start(j, op, at, c, s, to, seen) ==
  /\ job[j] = None
  /\ job' = [job EXCEPT ![j] =
               [op |-> op, at |-> at, c |-> c, pipe |-> None, d |-> None,
                s |-> s, to |-> to, seen |-> seen]]

Is(j, op, at) == job[j] # None /\ job[j].op = op /\ job[j].at = at

Go(j, at) == job' = [job EXCEPT ![j].at = at]

Done(j) == job' = [job EXCEPT ![j] = None]

\* The process restarts, or the database fails: what the job had still to do
\* is not done.  A reminder that n8n sent and does not mark is one of these.
Lose(j) ==
  /\ job[j] # None
  /\ Done(j)
  /\ cut' = IF Is(j, "win", "link") THEN cut \cup {job[j].s} ELSE cut
  /\ again' = IF job[j].op = "remind"
                THEN [again EXCEPT ![job[j].s] = @ - 1] ELSE again
  /\ UNCHANGED <<documents, manual, reopened, advanced>>

-----------------------------------------------------------------------------
(***************************************************************************)
(* pipeline.service.ts.                                                    *)
(***************************************************************************)

\* What findOne may return as the default pipeline.
Defaults == pipes

\* The job has its pipeline.  The board only reads after that.
Reach(j, p) ==
  job' = [job EXCEPT ![j] = IF job[j].op = "kanban" THEN None
                            ELSE [@ EXCEPT !.pipe = p, !.at = "deal"]]

\* getOrCreateDefault, up to its findOne.
FindDefault(j) ==
  /\ job[j] # None
  /\ job[j].at = "pipeline"
  /\ IF Defaults = {} THEN Go(j, "makePipeline")
     ELSE \E p \in Defaults : Reach(j, p)
  /\ UNCHANGED <<documents, history>>

NextId == CHOOSE p \in Pipeline : p \notin pipes

CreateDefault(j) ==
  /\ job[j] # None
  /\ job[j].at = "makePipeline"
  /\ Pipeline # pipes
  /\ pipes' = pipes \cup {NextId} /\ Reach(j, NextId)
  /\ UNCHANGED <<conv, deal, fresh, sale, history>>

GetKanban(j) ==
  /\ Start(j, "kanban", "pipeline", None, None, None, {})
  /\ UNCHANGED <<documents, history>>

\* The open deals of a contact in a pipeline.
OpenDeals(c, p) ==
  {d \in Deal : /\ deal[d] # None
                /\ deal[d].contact = c
                /\ deal[d].pipe = p
                /\ deal[d].status = "open"}

Insert(d, c, p) ==
  /\ d \in fresh
  /\ fresh' = fresh \ {d}
  /\ deal' = [deal EXCEPT ![d] = [pipe |-> p, contact |-> c, status |-> "open",
                                  sale |-> None]]

HasLead(c, p) == OpenDeals(c, p) # {}

\* createDealForContact, after its pipeline: an open deal is enough.
FindLead(j) ==
  /\ Is(j, "lead", "deal")
  /\ IF HasLead(job[j].c, job[j].pipe) THEN Done(j) ELSE Go(j, "create")
  /\ UNCHANGED <<documents, history>>

CreateLead(j) ==
  /\ Is(j, "lead", "create")
  /\ \E d \in Deal : Insert(d, job[j].c, job[j].pipe)
  /\ Done(j)
  /\ UNCHANGED <<conv, pipes, sale, history>>

\* findOpenDealByContact for a sale.  (It takes the latest; any here.)
FindOpenDeal(j) ==
  /\ Is(j, "win", "deal")
  /\ LET found == OpenDeals(job[j].c, job[j].pipe)
     IN IF found = {} THEN Done(j)
        ELSE \E d \in found : job' = [job EXCEPT ![j].d = d, ![j].at = "mark"]
  /\ UNCHANGED <<documents, history>>

\* The deal as the sale leaves it, whatever its status became meanwhile.
Won(doc, s) == [doc EXCEPT !.status = "won", !.sale = s]

\* markDealWon: nothing happens to a deal that was deleted.
MarkDealWon(j) ==
  /\ Is(j, "win", "mark")
  /\ LET d == job[j].d
     IN IF deal[d] = None THEN UNCHANGED <<deal, advanced>>
        ELSE /\ deal' = [deal EXCEPT ![d] = Won(@, job[j].s)]
             /\ advanced' = advanced \ {d}
  /\ Go(j, "link")
  /\ UNCHANGED <<conv, pipes, fresh, sale, manual, reopened, cut, again>>

\* advanceDealByContact, after its pipeline: one update of an open deal.
AdvanceOpenDeal(j) ==
  /\ Is(j, "advance", "deal")
  /\ LET t == job[j]
         found == OpenDeals(t.c, t.pipe)
     IN IF found = {} THEN UNCHANGED <<deal, advanced>>
        ELSE \E d \in found :
               /\ deal' = [deal EXCEPT
                             ![d].status = IF t.to = None THEN @ ELSE t.to,
                             ![d].sale = IF t.s = None THEN @ ELSE t.s]
               /\ advanced' = IF t.s = None THEN advanced ELSE advanced \cup {d}
  /\ Done(j)
  /\ UNCHANGED <<conv, pipes, fresh, sale, manual, reopened, cut, again>>

-----------------------------------------------------------------------------
(***************************************************************************)
(* pipeline.controller.ts: the panel.                                      *)
(***************************************************************************)
Allowed == Cardinality(manual \cup reopened) < ByPanel

CreateDeal(c, p) ==
  /\ p \in pipes
  /\ Allowed
  /\ \E d \in Deal : Insert(d, c, p) /\ manual' = manual \cup {d}
  /\ UNCHANGED <<conv, pipes, sale, job, reopened, advanced, cut, again>>

\* An open deal of contact c that was not one before.
Reopens(d, c, st) ==
  st = "open" /\ (deal[d].status # "open" \/ deal[d].contact # c)

UpdateDeal(d, c, st) ==
  /\ deal[d] # None
  /\ deal' = [deal EXCEPT ![d].contact = c, ![d].status = st]
  /\ IF Reopens(d, c, st)
       THEN /\ d \in reopened \/ Allowed
            /\ reopened' = reopened \cup {d}
       ELSE UNCHANGED reopened
  /\ UNCHANGED <<conv, pipes, fresh, sale, job, manual, advanced, cut, again>>

DeleteDeal(d) ==
  /\ deal[d] # None
  /\ deal' = [deal EXCEPT ![d] = None]
  /\ UNCHANGED <<conv, pipes, fresh, sale, job, history>>

-----------------------------------------------------------------------------
(***************************************************************************)
(* sales.service.ts and sales.controller.ts.                               *)
(***************************************************************************)

\* create: the sale is saved, and a confirmed one goes looking for its deal.
CreateSale(j, c, st) ==
  /\ \E s \in Sale :
       /\ sale[s] = None
       /\ sale' = [sale EXCEPT ![s] = [contact |-> c, status |-> st,
                                       deal |-> None, sent |-> FALSE]]
       /\ IF st = "confirmed"
            THEN Start(j, "win", "pipeline", c, s, None, {})
            ELSE UNCHANGED job
  /\ UNCHANGED <<conv, pipes, deal, fresh, history>>

PanelSale(j, c, st) == CreateSale(j, c, st)

\* The sale with the deal it won.
Linked(doc, d) == [doc EXCEPT !.deal = d]

\* Back-fill of the sale, even if the deal was deleted.
LinkSale(j) ==
  /\ Is(j, "win", "link")
  /\ sale' = [sale EXCEPT ![job[j].s] = Linked(@, job[j].d)]
  /\ Done(j)
  /\ UNCHANGED <<conv, pipes, deal, fresh, history>>

\* getPendingRecompra, three days after the sale: any time here.
Due(s) ==
  /\ sale[s] # None
  /\ sale[s].status = "confirmed"
  /\ ~sale[s].sent

-----------------------------------------------------------------------------
(***************************************************************************)
(* internal.controller.ts: n8n.                                            *)
(***************************************************************************)

\* A message of a client, or an answer to one: conversations.service upsert.
UpsertConversation(j, c) ==
  /\ conv' = [conv EXCEPT ![c] = IF @ = None THEN [data |-> {}] ELSE @]
  /\ Start(j, "lead", "pipeline", c, None, None, {})
  /\ UNCHANGED <<pipes, deal, fresh, sale, history>>

\* n8n reads the state of the sale, and the agent thinks.
GetConversationState(j, c) ==
  /\ conv[c] # None
  /\ Start(j, "reply", "answer", c, None, None, conv[c].data)
  /\ UNCHANGED <<documents, history>>

\* salesData after the fields of the request are set one by one.
Merged(now, seen, f) == now \cup {f}

UpdateConversationState(j, f) ==
  /\ Is(j, "reply", "answer")
  /\ conv' = [conv EXCEPT ![job[j].c].data = Merged(@, job[j].seen, f)]
  /\ Done(j)
  /\ UNCHANGED <<pipes, deal, fresh, sale, history>>

AdvanceDealByContact(j, c, to, s) ==
  /\ s = None \/ (s \in Sale /\ sale[s] # None)
  /\ Start(j, "advance", "pipeline", c, s, to, {})
  /\ UNCHANGED <<documents, history>>

\* The e-mail to the business follows, and changes nothing.
NotifySaleConfirmed(j, c) == CreateSale(j, c, "confirmed")

\* getRecompraPending, and n8n sends the reminder.
Remind(j, s) ==
  /\ Due(s)
  /\ Start(j, "remind", "mark", None, s, None, {})
  /\ again' = [again EXCEPT ![s] = @ + 1]
  /\ UNCHANGED <<documents, manual, reopened, advanced, cut>>

MarkRecompraSent(j) ==
  /\ Is(j, "remind", "mark")
  /\ sale' = [sale EXCEPT ![job[j].s].sent = TRUE]
  /\ Done(j)
  /\ UNCHANGED <<conv, pipes, deal, fresh, history>>

-----------------------------------------------------------------------------
\* What the handlers do once they have begun.
Continue(j) ==
  \/ FindDefault(j) \/ CreateDefault(j)
  \/ FindLead(j) \/ CreateLead(j)
  \/ FindOpenDeal(j) \/ MarkDealWon(j) \/ LinkSale(j)
  \/ AdvanceOpenDeal(j) \/ MarkRecompraSent(j) \/ Lose(j)
  \/ \E f \in Field : UpdateConversationState(j, f)

\* What clients begin.
Begin(j) ==
  \/ "kanban" \in offered /\ GetKanban(j)
  \/ "remind" \in offered /\ \E s \in Sale : Remind(j, s)
  \/ \E c \in Contact :
       \/ "message" \in offered /\ UpsertConversation(j, c)
       \/ "reply" \in offered /\ GetConversationState(j, c)
       \/ "notify" \in offered /\ NotifySaleConfirmed(j, c)
       \/ "sale" \in offered /\ \E st \in SaleStatus : PanelSale(j, c, st)
       \/ "advance" \in offered /\
            \E to \in Status \cup {None}, s \in Sale \cup {None} :
              AdvanceDealByContact(j, c, to, s)

Panel ==
  /\ "panel" \in offered
  /\ \/ \E c \in Contact, p \in Pipeline : CreateDeal(c, p)
     \/ \E d \in Deal :
          \/ DeleteDeal(d)
          \/ \E c \in Contact, st \in Status : UpdateDeal(d, c, st)

Next == (Panel \/ \E j \in Job : Begin(j) \/ Continue(j)) /\ UNCHANGED offered

Spec == Init /\ [][Next]_vars

-----------------------------------------------------------------------------
(***************************************************************************)
(* Properties.                                                             *)
(***************************************************************************)

\* Every variable has its type, and a deal's id is not used twice.
TypeOK ==
  /\ conv \in [Contact -> Conversation \cup {None}]
  /\ pipes \subseteq Pipeline
  /\ deal \in [Deal -> DealDoc \cup {None}]
  /\ fresh \subseteq {d \in Deal : deal[d] = None}
  /\ sale \in [Sale -> SaleDoc \cup {None}]
  /\ job \in [Job -> Task \cup {None}]
  /\ offered \in Offers
  /\ manual \subseteq Deal /\ reopened \subseteq Deal /\ advanced \subseteq Deal
  /\ cut \subseteq Sale
  /\ again \in [Sale -> Nat]

\* getOrCreateDefault finds no pipeline and creates one in two steps, so that
\* first requests at one time each create one; but never more than there are
\* such requests in flight.  If one comes first, the tenant has one pipeline
\* and the board shows every deal.
PipelinesBounded == Cardinality(pipes) <= Cardinality(Job)

\* The open deals of a contact in a pipeline that the panel did not make so.
Leads(c, p) == OpenDeals(c, p) \ (manual \cup reopened)

\* createDealForContact promises no second open deal of a contact
\* (pipeline.service.ts:76).  It looks and creates in two steps: the messages
\* in flight may miss each other's deals, and nothing else adds to them.
OpenDealsBounded ==
  \A c \in Contact, p \in Pipeline : Cardinality(Leads(c, p)) <= Cardinality(Job)

\* The sales that say they won a deal.
SalesOf(d) == {s \in Sale : sale[s] # None /\ sale[s].deal = d}

\* Confirmed sales at one time may all win one deal, as it is found and closed
\* in two steps.  Sales that come one after the other never do, unless the
\* panel reopens the deal.
SalesOfDealBounded ==
  \A d \in Deal \ reopened : Cardinality(SalesOf(d)) <= Cardinality(Job)

Linking(s, d) == \E j \in Job : Is(j, "win", "link") /\ job[j].s = s /\ job[j].d = d

\* The two links that a won sale writes agree when its job is over.  A deal
\* that a sale names was given a sale.  The sale a deal names, unless n8n named
\* it, names the deal back, or is about to, or its job died in between.
SaleAndDealAgree ==
  /\ \A s \in Sale : (sale[s] # None /\ sale[s].deal # None) =>
       (deal[sale[s].deal] # None => deal[sale[s].deal].sale # None)
  /\ \A d \in Deal \ advanced : (deal[d] # None /\ deal[d].sale # None) =>
       LET s == deal[d].sale
       IN sale[s] # None /\ (sale[s].deal = d \/ Linking(s, d) \/ s \in cut)

\* A repurchase reminder is listed, sent and marked in three calls.  Apart
\* from reminders whose mark was lost, a client gets no more of them for a
\* sale than n8n has on their way at a time: one, if it sends one by one.
RemindedOnce == \A s \in Sale : again[s] <= Cardinality(Job)

\* Two answers of the agent may be on their way on the same reading of the
\* sale.  Neither loses a field that the other wrote.
FieldsKept ==
  [][\A c \in Contact :
       conv[c] # None => /\ conv'[c] # None
                         /\ conv[c].data \subseteq conv'[c].data]_vars
=============================================================================
