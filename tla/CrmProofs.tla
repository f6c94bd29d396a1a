----------------------------- MODULE CrmProofs ------------------------------
(***************************************************************************)
(* The types of Crm, how many pipelines, open deals, reminders and sales   *)
(* of a deal the work in flight may make, for any number of contacts and   *)
(* of jobs, and how the links of sales and deals agree.                    *)
(***************************************************************************)
EXTENDS Crm, TLAPS, FiniteSetTheorems

-----------------------------------------------------------------------------
(***************************************************************************)
(* What a job has found when it gets somewhere.                            *)
(***************************************************************************)
Talked == {c \in Contact : conv[c] # None}

Sold == {s \in Sale : sale[s] # None}

TaskSound(t, talked, sold, unused) ==
  /\ t.op \in {"lead", "win", "advance", "reply"} => t.c \in Contact
  /\ t.op = "reply" => t.c \in talked
  /\ t.op \in {"win", "remind"} => t.s \in sold
  /\ t.at \in {"deal", "create"} => t.pipe \in Pipeline
  /\ (t.op = "win" /\ t.at \in {"mark", "link"}) => t.d \in Deal \ unused

JobsSound == \A j \in Job : job[j] # None => TaskSound(job[j], Talked, Sold, fresh)

\* The jobs that remind a client of a sale.
Reminders(s) == {j \in Job : job[j] # None /\ job[j].op = "remind" /\ job[j].s = s}

\* The reminders in flight are among those counted, and are all of them until
\* the first is marked.
RemindersCounted ==
  \A s \in Sale :
    /\ Cardinality(Reminders(s)) <= again[s]
    /\ (sale[s] = None \/ ~sale[s].sent) => again[s] = Cardinality(Reminders(s))
    /\ again[s] <= Cardinality(Job)

CrmInv == TypeOK /\ JobsSound /\ RemindersCounted

-----------------------------------------------------------------------------
(***************************************************************************)
(* Types.                                                                  *)
(***************************************************************************)
LEMMA JobType ==
  ASSUME TypeOK, NEW j \in Job
  PROVE  /\ job[j] # None => job[j] \in Task
         /\ \A t \in Task \cup {None} :
              job' = [job EXCEPT ![j] = t] => job' \in [Job -> Task \cup {None}]
  BY DEF TypeOK

LEMMA DealType ==
  ASSUME TypeOK, NEW d \in Deal
  PROVE  /\ deal[d] # None => deal[d] \in DealDoc
         /\ \A x \in DealDoc \cup {None} :
              deal' = [deal EXCEPT ![d] = x] => deal' \in [Deal -> DealDoc \cup {None}]
  BY DEF TypeOK

LEMMA SaleType ==
  ASSUME TypeOK, NEW s \in Sale
  PROVE  /\ sale[s] # None => sale[s] \in SaleDoc
         /\ \A x \in SaleDoc :
              sale' = [sale EXCEPT ![s] = x] => sale' \in [Sale -> SaleDoc \cup {None}]
  BY DEF TypeOK

LEMMA DoneType ==
  ASSUME TypeOK, NEW j \in Job, Done(j)
  PROVE  job' \in [Job -> Task \cup {None}]
  BY JobType DEF Done

LEMMA GoType ==
  ASSUME TypeOK, NEW j \in Job, job[j] # None, NEW at \in At, Go(j, at)
  PROVE  job' \in [Job -> Task \cup {None}]
<1>1. job[j] \in Task
  BY JobType
<1>2. [job[j] EXCEPT !.at = at] \in Task
  BY <1>1 DEF Task
<1> QED
  BY <1>2, JobType DEF Go

LEMMA ReachType ==
  ASSUME TypeOK, NEW j \in Job, job[j] # None, NEW p \in Pipeline, Reach(j, p)
  PROVE  job' \in [Job -> Task \cup {None}]
<1>1. job[j] \in Task
  BY JobType
<1>2. [job[j] EXCEPT !.pipe = p, !.at = "deal"] \in Task
  BY <1>1 DEF Task, At
<1> QED
  BY <1>2, JobType DEF Reach

LEMMA StartType ==
  ASSUME TypeOK, NEW j \in Job, NEW op \in Op, NEW at \in At,
         NEW c \in Contact \cup {None}, NEW s \in Sale \cup {None},
         NEW to \in Status \cup {None}, NEW seen \in SUBSET Field,
         Start(j, op, at, c, s, to, seen)
  PROVE  job' \in [Job -> Task \cup {None}]
<1>1. [op |-> op, at |-> at, c |-> c, pipe |-> None, d |-> None,
       s |-> s, to |-> to, seen |-> seen] \in Task
  BY DEF Task
<1> QED
  BY <1>1, JobType DEF Start

LEMMA InsertType ==
  ASSUME TypeOK, NEW d \in Deal, NEW c \in Contact, NEW p \in Pipeline, Insert(d, c, p)
  PROVE  /\ deal' \in [Deal -> DealDoc \cup {None}]
         /\ fresh' \subseteq {x \in Deal : deal'[x] = None}
<1>1. [pipe |-> p, contact |-> c, status |-> "open", sale |-> None] \in DealDoc
  BY DEF DealDoc, Status
<1>2. deal' \in [Deal -> DealDoc \cup {None}]
  BY <1>1, DealType DEF Insert
<1> QED
  BY <1>2 DEF Insert, TypeOK

\* A deal that exists may change, or go.
LEMMA ChangedDealType ==
  ASSUME TypeOK, NEW d \in Deal, deal[d] # None, NEW x \in DealDoc \cup {None},
         deal' = [deal EXCEPT ![d] = x], fresh' = fresh
  PROVE  /\ deal' \in [Deal -> DealDoc \cup {None}]
         /\ fresh' \subseteq {y \in Deal : deal'[y] = None}
<1>1. deal' \in [Deal -> DealDoc \cup {None}]
  BY DealType
<1> QED
  BY <1>1 DEF TypeOK

LEMMA NextIdType ==
  ASSUME pipes \subseteq Pipeline, Pipeline # pipes
  PROVE  NextId \in Pipeline \ pipes
  BY DEF NextId

LEMMA OpenDealsAre ==
  ASSUME NEW c, NEW p, NEW d \in OpenDeals(c, p)
  PROVE  d \in Deal /\ deal[d] # None /\ deal[d].status = "open"
  BY DEF OpenDeals

LEMMA CreateSaleType ==
  ASSUME TypeOK, NEW j \in Job, NEW c \in Contact, NEW st \in SaleStatus,
         CreateSale(j, c, st), offered' = offered
  PROVE  TypeOK'
<1>1. PICK s \in Sale :
        /\ sale[s] = None
        /\ sale' = [sale EXCEPT ![s] = [contact |-> c, status |-> st,
                                        deal |-> None, sent |-> FALSE]]
        /\ IF st = "confirmed" THEN Start(j, "win", "pipeline", c, s, None, {})
           ELSE UNCHANGED job
  BY DEF CreateSale
<1>2. [contact |-> c, status |-> st, deal |-> None, sent |-> FALSE] \in SaleDoc
  BY DEF SaleDoc
<1>3. sale' \in [Sale -> SaleDoc \cup {None}]
  BY <1>1, <1>2, SaleType
<1>4. job' \in [Job -> Task \cup {None}]
  <2>1. CASE st = "confirmed"
    <3>1. Start(j, "win", "pipeline", c, s, None, {})
      BY <1>1, <2>1
    <3> QED
      BY <3>1, StartType DEF Op, At
  <2>2. CASE st # "confirmed"
    BY <1>1, <2>2 DEF TypeOK
  <2> QED
    BY <2>1, <2>2
<1> QED
  BY <1>3, <1>4 DEF CreateSale, history, TypeOK

LEMMA CrmInitInv == Init => CrmInv
<1> SUFFICES ASSUME Init PROVE CrmInv
  OBVIOUS
<1>1. TypeOK /\ JobsSound
  BY CrmAssumption DEF Init, TypeOK, JobsSound
<1>2. \A s \in Sale : Reminders(s) = {} /\ again[s] = 0
  BY DEF Init, Reminders
<1>3. Cardinality(Job) \in Nat /\ Cardinality({}) = 0
  BY CrmAssumption, FS_CardinalityType, FS_EmptySet
<1> QED
  BY <1>1, <1>2, <1>3 DEF CrmInv, RemindersCounted

LEMMA RemindersFinite ==
  ASSUME NEW s \in Sale
  PROVE  /\ IsFiniteSet(Reminders(s)) /\ Cardinality(Reminders(s)) \in Nat
         /\ Cardinality(Reminders(s)) <= Cardinality(Job)
         /\ Cardinality(Job) \in Nat
         /\ \A j \in Reminders(s) :
              Cardinality(Reminders(s) \ {j}) = Cardinality(Reminders(s)) - 1
         /\ Reminders(s) # {} => Cardinality(Reminders(s)) > 0
<1>1. Reminders(s) \subseteq Job
  BY DEF Reminders
<1>2. /\ IsFiniteSet(Reminders(s))
      /\ Cardinality(Reminders(s)) <= Cardinality(Job)
  BY <1>1, CrmAssumption, FS_Subset
<1>3. Cardinality(Reminders(s)) \in Nat /\ Cardinality(Job) \in Nat
  BY <1>2, CrmAssumption, FS_CardinalityType
<1>4. \A j \in Reminders(s) :
        Cardinality(Reminders(s) \ {j}) = Cardinality(Reminders(s)) - 1
  BY <1>2, FS_RemoveElement
<1>5. Reminders(s) # {} => Cardinality(Reminders(s)) # 0
  BY <1>2, FS_EmptySet
<1> QED
  BY <1>2, <1>3, <1>4, <1>5

LEMMA LoseType ==
  ASSUME CrmInv, NEW j \in Job, Lose(j), offered' = offered
  PROVE  TypeOK'
<1>1. job' \in [Job -> Task \cup {None}]
  BY DoneType DEF Lose, CrmInv
<1>2. again' \in [Sale -> Nat]
  <2>1. CASE job[j].op = "remind"
    <3> DEFINE s == job[j].s
    <3>1. s \in Sale /\ j \in Reminders(s)
      BY <2>1 DEF Lose, CrmInv, JobsSound, TaskSound, Talked, Sold, Reminders
    <3>2. again[s] > 0 /\ again[s] \in Nat
      BY <3>1, RemindersFinite DEF CrmInv, RemindersCounted, TypeOK
    <3>3. again' = [again EXCEPT ![s] = again[s] - 1]
      BY <2>1 DEF Lose
    <3>4. again[s] - 1 \in Nat /\ again \in [Sale -> Nat]
      BY <3>2 DEF CrmInv, TypeOK
    <3> HIDE DEF s
    <3> QED
      BY <3>3, <3>4
  <2>2. CASE job[j].op # "remind"
    BY <2>2 DEF Lose, CrmInv, TypeOK
  <2> QED
    BY <2>1, <2>2
<1>3. cut' \subseteq Sale
  BY DEF Lose, Is, CrmInv, JobsSound, TaskSound, Talked, Sold, TypeOK
<1> QED
  BY <1>1, <1>2, <1>3 DEF Lose, documents, CrmInv, TypeOK

LEMMA ContinueType ==
  ASSUME CrmInv, NEW j \in Job, Continue(j), offered' = offered
  PROVE  TypeOK'
<1> TypeOK
  BY DEF CrmInv
<1>1. CASE FindDefault(j)
  <2>1. job' \in [Job -> Task \cup {None}]
    <3>1. CASE Defaults = {}
      BY <1>1, <3>1, GoType DEF FindDefault, At
    <3>2. CASE Defaults # {}
      BY <1>1, <3>2, ReachType DEF FindDefault, Defaults, TypeOK
    <3> QED
      BY <3>1, <3>2
  <2> QED
    BY <1>1, <2>1 DEF FindDefault, documents, history, TypeOK
<1>2. CASE CreateDefault(j)
  <2>1. NextId \in Pipeline
    BY <1>2, NextIdType DEF CreateDefault, TypeOK
  <2>2. job' \in [Job -> Task \cup {None}]
    BY <1>2, <2>1, ReachType DEF CreateDefault
  <2> QED
    BY <1>2, <2>1, <2>2 DEF CreateDefault, history, TypeOK
<1>3. CASE FindLead(j)
  BY <1>3, GoType, DoneType DEF FindLead, Is, At, documents, history, TypeOK
<1>4. CASE CreateLead(j)
  <2>1. PICK d \in Deal : Insert(d, job[j].c, job[j].pipe)
    BY <1>4 DEF CreateLead
  <2>2. job[j].c \in Contact /\ job[j].pipe \in Pipeline
    BY <1>4 DEF CreateLead, Is, CrmInv, JobsSound, TaskSound, Talked, Sold
  <2> QED
    BY <1>4, <2>1, <2>2, InsertType, DoneType DEF CreateLead, history, TypeOK
<1>5. CASE FindOpenDeal(j)
  <2>1. ASSUME NEW d \in Deal, job' = [job EXCEPT ![j].d = d, ![j].at = "mark"]
        PROVE  job' \in [Job -> Task \cup {None}]
    <3>1. job[j] \in Task
      BY <1>5, JobType DEF FindOpenDeal, Is
    <3>2. [job[j] EXCEPT !.d = d, !.at = "mark"] \in Task
      BY <3>1 DEF Task, At
    <3>3. job' = [job EXCEPT ![j] = [job[j] EXCEPT !.d = d, !.at = "mark"]]
      BY <2>1
    <3> QED
      BY <3>2, <3>3, JobType
  <2>2. job' \in [Job -> Task \cup {None}]
    BY <1>5, <2>1, DoneType, OpenDealsAre DEF FindOpenDeal
  <2> QED
    BY <1>5, <2>2 DEF FindOpenDeal, documents, history, TypeOK
<1>6. CASE MarkDealWon(j)
  <2> DEFINE d == job[j].d
             s == job[j].s
  <2>1. job' \in [Job -> Task \cup {None}]
    BY <1>6, GoType DEF MarkDealWon, Is, At
  <2>2. d \in Deal /\ s \in Sale
    BY <1>6 DEF MarkDealWon, Is, CrmInv, JobsSound, TaskSound, Talked, Sold
  <2>3. CASE deal[d] = None
    BY <1>6, <2>1, <2>3 DEF MarkDealWon, TypeOK
  <2>4. CASE deal[d] # None
    <3>1. Won(deal[d], s) \in DealDoc
      BY <2>2, <2>4, DealType DEF Won, DealDoc, Status
    <3>2. deal' = [deal EXCEPT ![d] = Won(deal[d], s)] /\ advanced' = advanced \ {d}
      BY <1>6, <2>4 DEF MarkDealWon
    <3>3. /\ deal' \in [Deal -> DealDoc \cup {None}]
          /\ fresh' \subseteq {x \in Deal : deal'[x] = None}
      BY <1>6, <2>2, <2>4, <3>1, <3>2, ChangedDealType DEF MarkDealWon
    <3> QED
      BY <1>6, <2>1, <3>2, <3>3 DEF MarkDealWon, TypeOK
  <2> QED
    BY <2>3, <2>4
<1>7. CASE LinkSale(j)
  <2> DEFINE s == job[j].s
  <2>1. s \in Sale /\ sale[s] # None /\ job[j].d \in Deal
    BY <1>7 DEF LinkSale, Is, CrmInv, JobsSound, TaskSound, Talked, Sold
  <2>2. Linked(sale[s], job[j].d) \in SaleDoc
    BY <2>1, SaleType DEF Linked, SaleDoc
  <2>3. sale' = [sale EXCEPT ![s] = Linked(sale[s], job[j].d)]
    BY <1>7 DEF LinkSale
  <2>4. sale' \in [Sale -> SaleDoc \cup {None}]
    BY <2>1, <2>2, <2>3, SaleType
  <2> QED
    BY <1>7, <2>4, DoneType DEF LinkSale, history, TypeOK
<1>8. CASE AdvanceOpenDeal(j)
  <2>1. job' \in [Job -> Task \cup {None}]
    BY <1>8, DoneType DEF AdvanceOpenDeal
  <2>2. CASE OpenDeals(job[j].c, job[j].pipe) = {}
    BY <1>8, <2>1, <2>2 DEF AdvanceOpenDeal, TypeOK
  <2>3. CASE OpenDeals(job[j].c, job[j].pipe) # {}
    <3> DEFINE t == job[j]
    <3>1. PICK d \in OpenDeals(t.c, t.pipe) :
            /\ deal' = [deal EXCEPT ![d].status = IF t.to = None THEN @ ELSE t.to,
                                    ![d].sale = IF t.s = None THEN @ ELSE t.s]
            /\ advanced' = IF t.s = None THEN advanced ELSE advanced \cup {d}
      BY <1>8, <2>3 DEF AdvanceOpenDeal
    <3>2. d \in Deal /\ deal[d] # None /\ deal[d] \in DealDoc
      BY <3>1, OpenDealsAre, DealType
    <3>3. t \in Task
      BY <1>8, JobType DEF AdvanceOpenDeal, Is
    <3> DEFINE x == [deal[d] EXCEPT !.status = IF t.to = None THEN @ ELSE t.to,
                                    !.sale = IF t.s = None THEN @ ELSE t.s]
    <3>4. x \in DealDoc
      BY <3>2, <3>3 DEF DealDoc, Task
    <3>5. deal' = [deal EXCEPT ![d] = x]
      BY <3>1, <3>2
    <3>6. advanced' \subseteq Deal
      BY <3>1, <3>2 DEF TypeOK
    <3>7. /\ deal' \in [Deal -> DealDoc \cup {None}]
          /\ fresh' \subseteq {y \in Deal : deal'[y] = None}
      BY <1>8, <3>2, <3>4, <3>5, ChangedDealType DEF AdvanceOpenDeal
    <3> QED
      BY <1>8, <2>1, <3>6, <3>7 DEF AdvanceOpenDeal, TypeOK
  <2> QED
    BY <2>2, <2>3
<1>9. CASE MarkRecompraSent(j)
  <2> DEFINE s == job[j].s
  <2>1. s \in Sale /\ sale[s] # None
    BY <1>9 DEF MarkRecompraSent, Is, CrmInv, JobsSound, TaskSound, Talked, Sold
  <2>2. [sale[s] EXCEPT !.sent = TRUE] \in SaleDoc
    BY <2>1, SaleType DEF SaleDoc
  <2>3. sale' = [sale EXCEPT ![s] = [sale[s] EXCEPT !.sent = TRUE]]
    BY <1>9 DEF MarkRecompraSent
  <2>4. sale' \in [Sale -> SaleDoc \cup {None}]
    BY <2>1, <2>2, <2>3, SaleType
  <2> QED
    BY <1>9, <2>4, DoneType DEF MarkRecompraSent, history, TypeOK
<1>10. CASE Lose(j)
  BY <1>10, LoseType
<1>11. ASSUME NEW f \in Field, UpdateConversationState(j, f) PROVE TypeOK'
  <2> DEFINE c == job[j].c
  <2>1. c \in Contact /\ conv[c] # None
    BY <1>11 DEF UpdateConversationState, Is, CrmInv, JobsSound, TaskSound, Talked, Sold
  <2>2. conv[c] \in Conversation
    BY <2>1 DEF TypeOK
  <2>3. [conv[c] EXCEPT !.data = Merged(@, job[j].seen, f)] \in Conversation
    BY <2>2 DEF Conversation, Merged
  <2>4. conv' = [conv EXCEPT ![c] = [conv[c] EXCEPT !.data = Merged(@, job[j].seen, f)]]
    BY <1>11 DEF UpdateConversationState
  <2>5. conv' \in [Contact -> Conversation \cup {None}]
    BY <2>1, <2>3, <2>4 DEF TypeOK
  <2> QED
    BY <1>11, <2>5, DoneType DEF UpdateConversationState, history, TypeOK
<1> QED
  BY <1>1, <1>2, <1>3, <1>4, <1>5, <1>6, <1>7, <1>8, <1>9, <1>10, <1>11 DEF Continue

LEMMA BeginType ==
  ASSUME CrmInv, NEW j \in Job, Begin(j), offered' = offered
  PROVE  TypeOK'
<1> TypeOK
  BY DEF CrmInv
<1>1. CASE GetKanban(j)
  <2>1. job' \in [Job -> Task \cup {None}]
    BY <1>1, StartType DEF GetKanban, Op, At
  <2> QED
    BY <1>1, <2>1 DEF GetKanban, documents, history, TypeOK
<1>2. ASSUME NEW s \in Sale, Remind(j, s) PROVE TypeOK'
  <2>1. job' \in [Job -> Task \cup {None}]
    BY <1>2, StartType DEF Remind, Op, At
  <2>2. again' \in [Sale -> Nat]
    BY <1>2 DEF Remind, TypeOK
  <2> QED
    BY <1>2, <2>1, <2>2 DEF Remind, documents, TypeOK
<1>3. ASSUME NEW c \in Contact, UpsertConversation(j, c) PROVE TypeOK'
  <2>1. job' \in [Job -> Task \cup {None}]
    BY <1>3, StartType DEF UpsertConversation, Op, At
  <2>2. conv' \in [Contact -> Conversation \cup {None}]
    BY <1>3 DEF UpsertConversation, Conversation, TypeOK
  <2> QED
    BY <1>3, <2>1, <2>2 DEF UpsertConversation, history, TypeOK
<1>4. ASSUME NEW c \in Contact, GetConversationState(j, c) PROVE TypeOK'
  <2>1. conv[c].data \subseteq Field
    BY <1>4 DEF GetConversationState, Conversation, TypeOK
  <2>2. job' \in [Job -> Task \cup {None}]
    BY <1>4, <2>1, StartType DEF GetConversationState, Op, At
  <2> QED
    BY <1>4, <2>2 DEF GetConversationState, documents, history, TypeOK
<1>5. ASSUME NEW c \in Contact, NotifySaleConfirmed(j, c) PROVE TypeOK'
  BY <1>5, CreateSaleType DEF NotifySaleConfirmed, SaleStatus
<1>6. ASSUME NEW c \in Contact, NEW st \in SaleStatus, PanelSale(j, c, st) PROVE TypeOK'
  BY <1>6, CreateSaleType DEF PanelSale
<1>7. ASSUME NEW c \in Contact, NEW to \in Status \cup {None}, NEW s \in Sale \cup {None},
             AdvanceDealByContact(j, c, to, s)
      PROVE  TypeOK'
  <2>1. job' \in [Job -> Task \cup {None}]
    <3>1. Start(j, "advance", "pipeline", c, s, to, {})
      BY <1>7 DEF AdvanceDealByContact
    <3>2. "advance" \in Op /\ "pipeline" \in At /\ {} \in SUBSET Field
      BY DEF Op, At
    <3> QED
      BY <3>1, <3>2, StartType
  <2>2. UNCHANGED <<documents, history>>
    BY <1>7 DEF AdvanceDealByContact
  <2> QED
    BY <2>1, <2>2 DEF documents, history, TypeOK
<1> QED
  BY <1>1, <1>2, <1>3, <1>4, <1>5, <1>6, <1>7 DEF Begin

LEMMA PanelType ==
  ASSUME CrmInv, Panel, offered' = offered
  PROVE  TypeOK'
<1> TypeOK
  BY DEF CrmInv
<1>1. ASSUME NEW c \in Contact, NEW p \in Pipeline, CreateDeal(c, p) PROVE TypeOK'
  BY <1>1, InsertType DEF CreateDeal, TypeOK
<1>2. ASSUME NEW d \in Deal, DeleteDeal(d) PROVE TypeOK'
  BY <1>2, ChangedDealType DEF DeleteDeal, history, TypeOK
<1>3. ASSUME NEW d \in Deal, NEW c \in Contact, NEW st \in Status, UpdateDeal(d, c, st)
      PROVE  TypeOK'
  <2>1. [deal[d] EXCEPT !.contact = c, !.status = st] \in DealDoc
    BY <1>3, DealType DEF UpdateDeal, DealDoc
  <2>2. deal' = [deal EXCEPT ![d] = [deal[d] EXCEPT !.contact = c, !.status = st]]
    BY <1>3 DEF UpdateDeal
  <2>3. /\ deal' \in [Deal -> DealDoc \cup {None}]
        /\ fresh' \subseteq {y \in Deal : deal'[y] = None}
    BY <1>3, <2>1, <2>2, ChangedDealType DEF UpdateDeal
  <2>4. reopened' \subseteq Deal
    BY <1>3 DEF UpdateDeal, TypeOK
  <2> QED
    BY <1>3, <2>3, <2>4 DEF UpdateDeal, TypeOK
<1> QED
  BY <1>1, <1>2, <1>3 DEF Panel

LEMMA TypeStep == CrmInv /\ [Next]_vars => TypeOK'
<1>1. ASSUME CrmInv, UNCHANGED vars PROVE TypeOK'
  BY <1>1 DEF vars, CrmInv, TypeOK
<1> QED
  BY <1>1, ContinueType, BeginType, PanelType DEF Next

-----------------------------------------------------------------------------
(***************************************************************************)
(* Jobs.                                                                   *)
(***************************************************************************)

\* A conversation and a sale stay once they are there, and an id once used is
\* not fresh again: what a job has found stays sound while others run.
LEMMA Monotone ==
  ASSUME CrmInv, Next
  PROVE  /\ \A c \in Contact : conv[c] # None => conv'[c] # None
         /\ \A s \in Sale : sale[s] # None => sale'[s] # None
         /\ fresh' \subseteq fresh
<1> DEFINE Stays == /\ \A c \in Contact : conv[c] # None => conv'[c] # None
                    /\ \A s \in Sale : sale[s] # None => sale'[s] # None
                    /\ fresh' \subseteq fresh
<1>t. TypeOK /\ TypeOK'
  BY TypeStep DEF CrmInv
<1>1. ASSUME UNCHANGED <<conv, sale>>, fresh' \subseteq fresh PROVE Stays
  BY <1>1
<1>2. ASSUME NEW s \in Sale, NEW x \in SaleDoc, sale' = [sale EXCEPT ![s] = x],
             UNCHANGED <<conv, fresh>>
      PROVE  Stays
  BY <1>t, <1>2, CrmAssumption DEF TypeOK
<1>3. ASSUME NEW c \in Contact, NEW x \in Conversation, conv' = [conv EXCEPT ![c] = x],
             UNCHANGED <<sale, fresh>>
      PROVE  Stays
  BY <1>t, <1>3, CrmAssumption DEF TypeOK
<1>4. ASSUME NEW j \in Job, NEW c \in Contact, NEW st \in SaleStatus, CreateSale(j, c, st)
      PROVE  Stays
  <2>1. [contact |-> c, status |-> st, deal |-> None, sent |-> FALSE] \in SaleDoc
    BY DEF SaleDoc
  <2> QED
    BY <1>2, <1>4, <2>1 DEF CreateSale
<1>5. ASSUME NEW j \in Job, Continue(j) PROVE Stays
  <2>1. CASE LinkSale(j)
    <3>1. job[j].s \in Sold /\ job[j].d \in Deal
      BY <2>1 DEF LinkSale, Is, CrmInv, JobsSound, TaskSound
    <3>2. sale[job[j].s] \in SaleDoc
      BY <1>t, <3>1, SaleType DEF Sold
    <3>3. Linked(sale[job[j].s], job[j].d) \in SaleDoc
      BY <3>1, <3>2 DEF Linked, SaleDoc
    <3> QED
      BY <1>2, <2>1, <3>1, <3>3 DEF LinkSale, Sold
  <2>2. CASE MarkRecompraSent(j)
    <3>1. job[j].s \in Sold
      BY <2>2 DEF MarkRecompraSent, Is, CrmInv, JobsSound, TaskSound
    <3>2. sale[job[j].s] \in SaleDoc
      BY <1>t, <3>1, SaleType DEF Sold
    <3>3. [sale[job[j].s] EXCEPT !.sent = TRUE] \in SaleDoc
      BY <3>2 DEF SaleDoc
    <3>4. sale' = [sale EXCEPT ![job[j].s] = [sale[job[j].s] EXCEPT !.sent = TRUE]]
      BY <2>2 DEF MarkRecompraSent
    <3> QED
      BY <1>2, <2>2, <3>1, <3>3, <3>4 DEF MarkRecompraSent, Sold
  <2>3. ASSUME NEW f \in Field, UpdateConversationState(j, f) PROVE Stays
    <3> DEFINE c == job[j].c
    <3>1. c \in Contact /\ conv[c] # None
      BY <2>3 DEF UpdateConversationState, Is, CrmInv, JobsSound, TaskSound, Talked, Sold
    <3>2. conv[c] \in Conversation
      BY <1>t, <3>1 DEF TypeOK
    <3>3. [conv[c] EXCEPT !.data = Merged(@, job[j].seen, f)] \in Conversation
      BY <3>2 DEF Conversation, Merged
    <3>4. conv' = [conv EXCEPT ![c] = [conv[c] EXCEPT !.data = Merged(@, job[j].seen, f)]]
      BY <2>3 DEF UpdateConversationState
    <3> QED
      BY <1>3, <2>3, <3>1, <3>3, <3>4 DEF UpdateConversationState
  <2> HIDE DEF Stays
  <2> QED
    BY <1>1, <1>5, <2>1, <2>2, <2>3
       DEF Continue, FindDefault, CreateDefault, FindLead, CreateLead, Insert,
           FindOpenDeal, MarkDealWon, AdvanceOpenDeal, Lose, documents
<1>6. ASSUME NEW j \in Job, Begin(j) PROVE Stays
  <2>1. ASSUME NEW c \in Contact, UpsertConversation(j, c) PROVE Stays
    BY <1>t, <2>1 DEF UpsertConversation, TypeOK
  <2> HIDE DEF Stays
  <2> QED
    BY <1>1, <1>4, <1>6, <2>1
       DEF Begin, GetKanban, Remind, GetConversationState, NotifySaleConfirmed,
           PanelSale, AdvanceDealByContact, documents, SaleStatus
<1>7. ASSUME Panel PROVE Stays
  <2> HIDE DEF Stays
  <2> QED
    BY <1>1, <1>7 DEF Panel, CreateDeal, Insert, UpdateDeal, DeleteDeal
<1> HIDE DEF Stays
<1>8. Stays
  BY <1>5, <1>6, <1>7 DEF Next
<1> QED
  BY <1>8 DEF Stays

LEMMA SoundStays ==
  ASSUME CrmInv, Next, NEW j \in Job, job[j] # None, job'[j] = job[j]
  PROVE  TaskSound(job'[j], Talked', Sold', fresh')
<1>1. Talked \subseteq Talked' /\ Sold \subseteq Sold' /\ fresh' \subseteq fresh
  BY Monotone DEF Talked, Sold
<1>2. TaskSound(job[j], Talked, Sold, fresh)
  BY DEF CrmInv, JobsSound
<1> QED
  BY <1>1, <1>2 DEF TaskSound

LEMMA SoundWith ==
  ASSUME CrmInv, Next, NEW j \in Job, \A x \in Job \ {j} : job'[x] = job[x],
         job'[j] = None \/ TaskSound(job'[j], Talked', Sold', fresh')
  PROVE  JobsSound'
<1> SUFFICES ASSUME NEW x \in Job, job'[x] # None
             PROVE  TaskSound(job'[x], Talked', Sold', fresh')
  BY DEF JobsSound
<1> QED
  BY SoundStays

LEMMA JobsStep == CrmInv /\ Next => JobsSound'
<1> SUFFICES ASSUME CrmInv, Next PROVE JobsSound'
  OBVIOUS
<1>t. TypeOK /\ TypeOK'
  BY TypeStep DEF CrmInv
<1>1. Talked \subseteq Talked' /\ Sold \subseteq Sold' /\ fresh' \subseteq fresh
  BY Monotone DEF Talked, Sold
<1>2. ASSUME UNCHANGED job PROVE JobsSound'
  BY <1>2, SoundStays DEF JobsSound
<1>3. ASSUME NEW j \in Job, Done(j) PROVE JobsSound'
  BY <1>t, <1>3, SoundWith DEF Done, TypeOK
<1>4. ASSUME NEW j \in Job, job[j] # None, NEW at \in {"makePipeline", "link"}, Go(j, at),
             at = "link" => job[j].at = "mark"
      PROVE  JobsSound'
  <2>1. job[j] \in Task /\ TaskSound(job[j], Talked, Sold, fresh)
    BY <1>4, JobType DEF CrmInv, JobsSound
  <2>2. job'[j] = [job[j] EXCEPT !.at = at]
    BY <1>t, <1>4 DEF Go, TypeOK
  <2>3. TaskSound(job'[j], Talked', Sold', fresh')
    BY <1>1, <1>4, <2>1, <2>2 DEF TaskSound, Task
  <2> QED
    BY <1>t, <1>4, <2>3, SoundWith DEF Go, TypeOK
<1>5. ASSUME NEW j \in Job, job[j] # None, NEW p \in Pipeline, Reach(j, p)
      PROVE  JobsSound'
  <2>1. job[j] \in Task /\ TaskSound(job[j], Talked, Sold, fresh)
    BY <1>5, JobType DEF CrmInv, JobsSound
  <2>2. job'[j] \in {None, [job[j] EXCEPT !.pipe = p, !.at = "deal"]}
    BY <1>t, <1>5 DEF Reach, TypeOK
  <2>3. job'[j] = None \/ TaskSound(job'[j], Talked', Sold', fresh')
    BY <1>1, <2>1, <2>2 DEF TaskSound, Task
  <2> QED
    BY <1>t, <1>5, <2>3, SoundWith DEF Reach, TypeOK
<1>6. ASSUME NEW j \in Job, NEW op \in Op, NEW at \in {"pipeline", "answer", "mark"},
             NEW c \in Contact \cup {None}, NEW s \in Sale \cup {None},
             NEW to \in Status \cup {None}, NEW seen \in SUBSET Field,
             Start(j, op, at, c, s, to, seen),
             op \in {"lead", "win", "advance", "reply"} => c \in Contact,
             op = "reply" => c \in Talked,
             op \in {"win", "remind"} => s \in Sold',
             op = "win" => at = "pipeline"
      PROVE  JobsSound'
  <2>1. job'[j] = [op |-> op, at |-> at, c |-> c, pipe |-> None, d |-> None,
                   s |-> s, to |-> to, seen |-> seen]
    BY <1>t, <1>6 DEF Start, TypeOK
  <2>2. TaskSound(job'[j], Talked', Sold', fresh')
    BY <1>1, <1>6, <2>1 DEF TaskSound
  <2> QED
    BY <1>t, <1>6, <2>2, SoundWith DEF Start, TypeOK
<1>7. ASSUME NEW j \in Job, NEW c \in Contact, NEW st \in SaleStatus, CreateSale(j, c, st)
      PROVE  JobsSound'
  <2>1. PICK s \in Sale :
          /\ sale' = [sale EXCEPT ![s] = [contact |-> c, status |-> st,
                                          deal |-> None, sent |-> FALSE]]
          /\ IF st = "confirmed" THEN Start(j, "win", "pipeline", c, s, None, {})
             ELSE UNCHANGED job
    BY <1>7 DEF CreateSale
  <2>2. [contact |-> c, status |-> st, deal |-> None, sent |-> FALSE] \in SaleDoc
    BY DEF SaleDoc
  <2>3. s \in Sold'
    BY <1>t, <2>1, <2>2, CrmAssumption DEF Sold, TypeOK
  <2>4. CASE st = "confirmed"
    <3>1. Start(j, "win", "pipeline", c, s, None, {})
      BY <2>1, <2>4
    <3> QED
      BY <1>6, <2>3, <3>1 DEF Op
  <2>5. CASE st # "confirmed"
    BY <1>2, <2>1, <2>5
  <2> QED
    BY <2>4, <2>5
<1>8. ASSUME NEW j \in Job, Continue(j) PROVE JobsSound'
  <2>1. CASE FindDefault(j)
    BY <1>4, <1>5, <1>t, <2>1 DEF FindDefault, Defaults, TypeOK
  <2>2. CASE CreateDefault(j)
    BY <1>5, <1>t, <2>2, NextIdType DEF CreateDefault, TypeOK
  <2>3. CASE FindLead(j)
    <3>1. job[j] \in Task /\ TaskSound(job[j], Talked, Sold, fresh)
      BY <2>3, JobType DEF FindLead, Is, CrmInv, JobsSound
    <3>2. CASE Go(j, "create")
      <4>1. job'[j] = [job[j] EXCEPT !.at = "create"]
        BY <1>t, <3>2 DEF Go, TypeOK
      <4>2. TaskSound(job'[j], Talked', Sold', fresh')
        BY <1>1, <2>3, <3>1, <4>1 DEF FindLead, Is, TaskSound, Task
      <4> QED
        BY <1>t, <3>2, <4>2, SoundWith DEF Go, TypeOK
    <3> QED
      BY <1>3, <2>3, <3>2 DEF FindLead
  <2>4. CASE FindOpenDeal(j)
    <3>1. job[j] \in Task /\ TaskSound(job[j], Talked, Sold, fresh)
      BY <2>4, JobType DEF FindOpenDeal, Is, CrmInv, JobsSound
    <3>2. ASSUME NEW d \in OpenDeals(job[j].c, job[j].pipe),
                 job' = [job EXCEPT ![j].d = d, ![j].at = "mark"]
          PROVE  JobsSound'
      <4>1. job'[j] = [job[j] EXCEPT !.d = d, !.at = "mark"]
        BY <1>t, <3>2 DEF TypeOK
      <4>2. d \in Deal \ fresh
        BY <1>t, OpenDealsAre DEF TypeOK
      <4>3. TaskSound(job'[j], Talked', Sold', fresh')
        BY <1>1, <2>4, <3>1, <4>1, <4>2 DEF TaskSound, Task
      <4> QED
        BY <1>t, <3>2, <4>3, SoundWith DEF TypeOK
    <3> QED
      BY <1>3, <2>4, <3>2 DEF FindOpenDeal
  <2>5. CASE MarkDealWon(j)
    BY <1>4, <2>5 DEF MarkDealWon, Is
  <2> QED
    BY <1>3, <1>8, <2>1, <2>2, <2>3, <2>4, <2>5
       DEF Continue, CreateLead, AdvanceOpenDeal, LinkSale, MarkRecompraSent, Lose,
           UpdateConversationState
<1>9. ASSUME NEW j \in Job, Begin(j) PROVE JobsSound'
  <2>1. ASSUME GetKanban(j) PROVE JobsSound'
    BY <1>6, <2>1 DEF GetKanban, Op
  <2>2. ASSUME NEW s \in Sale, Remind(j, s) PROVE JobsSound'
    BY <1>1, <1>6, <2>2 DEF Remind, Due, Sold, Op
  <2>3. ASSUME NEW c \in Contact, UpsertConversation(j, c) PROVE JobsSound'
    BY <1>6, <2>3 DEF UpsertConversation, Op
  <2>4. ASSUME NEW c \in Contact, GetConversationState(j, c) PROVE JobsSound'
    <3>1. conv[c].data \in SUBSET Field /\ c \in Talked
      BY <1>t, <2>4 DEF GetConversationState, Conversation, Talked, TypeOK
    <3> QED
      BY <1>6, <2>4, <3>1 DEF GetConversationState, Op
  <2>5. ASSUME NEW c \in Contact, NEW to \in Status \cup {None},
               NEW s \in Sale \cup {None}, AdvanceDealByContact(j, c, to, s)
        PROVE  JobsSound'
    <3>1. Start(j, "advance", "pipeline", c, s, to, {})
      BY <2>5 DEF AdvanceDealByContact
    <3>2. "advance" \in Op /\ {} \in SUBSET Field
      BY DEF Op
    <3> QED
      BY <1>6, <3>1, <3>2
  <2> QED
    BY <1>7, <1>9, <2>1, <2>2, <2>3, <2>4, <2>5
       DEF Begin, NotifySaleConfirmed, PanelSale, SaleStatus
<1>10. ASSUME Panel PROVE JobsSound'
  BY <1>2, <1>10 DEF Panel, CreateDeal, UpdateDeal, DeleteDeal
<1> QED
  BY <1>8, <1>9, <1>10 DEF Next

-----------------------------------------------------------------------------
(***************************************************************************)
(* Reminders.                                                              *)
(***************************************************************************)
Unmarked(s) == sale[s] = None \/ ~sale[s].sent

\* A step that neither begins nor ends a reminder, and marks no sale.
LEMMA RemindersKept ==
  ASSUME CrmInv, NEW j \in Job, \A x \in Job \ {j} : job'[x] = job[x],
         \/ /\ job[j] # None /\ job'[j] # None
            /\ job'[j].op = job[j].op /\ job'[j].s = job[j].s
         \/ /\ job[j] = None \/ job[j].op # "remind"
            /\ job'[j] = None \/ job'[j].op # "remind",
         again' = again, \A s \in Sale : Unmarked(s)' => Unmarked(s)
  PROVE  RemindersCounted'
<1>1. \A s \in Sale : Reminders(s)' = Reminders(s)
  BY DEF Reminders
<1> QED
  BY <1>1 DEF CrmInv, RemindersCounted, Unmarked

LEMMA CreateSaleReminders ==
  ASSUME CrmInv, TypeOK', NEW j \in Job, NEW c \in Contact, NEW st \in SaleStatus,
         CreateSale(j, c, st)
  PROVE  RemindersCounted'
<1>1. again' = again
  BY DEF CreateSale, history
<1>2. \A s \in Sale : Unmarked(s)' => Unmarked(s)
  BY DEF CreateSale, Unmarked, CrmInv, TypeOK
<1>3. \A x \in Job \ {j} : job'[x] = job[x]
  BY DEF CreateSale, Start, CrmInv, TypeOK
<1>4. \/ job'[j] = job[j]
      \/ job[j] = None /\ job'[j].op = "win"
  BY DEF CreateSale, Start, CrmInv, TypeOK
<1> QED
  BY <1>1, <1>2, <1>3, <1>4, RemindersKept

LEMMA RemindersStep == CrmInv /\ Next => RemindersCounted'
<1> SUFFICES ASSUME CrmInv, Next PROVE RemindersCounted'
  OBVIOUS
<1>t. TypeOK /\ TypeOK'
  BY TypeStep DEF CrmInv
<1>1. ASSUME UNCHANGED <<job, again, sale>> PROVE RemindersCounted'
  BY <1>1 DEF CrmInv, RemindersCounted, Reminders
<1>2. ASSUME NEW j \in Job, Done(j), job[j].op # "remind", again' = again,
             \A s \in Sale : Unmarked(s)' => Unmarked(s)
      PROVE  RemindersCounted'
  BY <1>t, <1>2, RemindersKept DEF Done, TypeOK
<1>3. ASSUME NEW j \in Job, job[j] # None,
             \/ \E at \in At : Go(j, at)
             \/ \E p \in Pipeline : Reach(j, p) /\ job[j].op # "kanban",
             UNCHANGED <<again, sale>>
      PROVE  RemindersCounted'
  <2>1. job[j] \in Task
    BY <1>t, <1>3, JobType
  <2>2. job'[j] \in Task /\ job'[j].op = job[j].op /\ job'[j].s = job[j].s
    <3>1. ASSUME NEW at \in At, Go(j, at)
          PROVE  job'[j] \in Task /\ job'[j].op = job[j].op /\ job'[j].s = job[j].s
      <4>1. job'[j] = [job[j] EXCEPT !.at = at]
        BY <1>t, <3>1 DEF Go, TypeOK
      <4> QED
        BY <2>1, <4>1 DEF Task
    <3>2. ASSUME NEW p \in Pipeline, Reach(j, p), job[j].op # "kanban"
          PROVE  job'[j] \in Task /\ job'[j].op = job[j].op /\ job'[j].s = job[j].s
      <4>1. job'[j] = [job[j] EXCEPT !.pipe = p, !.at = "deal"]
        BY <1>t, <3>2 DEF Reach, TypeOK
      <4> QED
        BY <2>1, <4>1 DEF Task, At
    <3> QED
      BY <1>3, <3>1, <3>2
  <2>3. \A x \in Job \ {j} : job'[x] = job[x]
    BY <1>t, <1>3 DEF Go, Reach, TypeOK
  <2>4. \A s \in Sale : Unmarked(s)' => Unmarked(s)
    BY <1>3 DEF Unmarked
  <2> QED
    BY <1>3, <2>2, <2>3, <2>4, CrmAssumption, RemindersKept
<1>4. ASSUME NEW j \in Job, job[j] # None, NEW p \in Pipeline, Reach(j, p),
             UNCHANGED <<again, sale>>
      PROVE  RemindersCounted'
  <2>1. CASE job[j].op = "kanban"
    <3>1. Done(j)
      BY <1>4, <2>1 DEF Reach, Done
    <3>2. \A s \in Sale : Unmarked(s)' => Unmarked(s)
      BY <1>4 DEF Unmarked
    <3> QED
      BY <1>2, <1>4, <2>1, <3>1, <3>2
  <2> QED
    BY <1>3, <1>4, <2>1
<1>5. ASSUME NEW j \in Job, NEW op \in Op \ {"remind"}, NEW at, NEW c, NEW s, NEW to,
             NEW seen, Start(j, op, at, c, s, to, seen), UNCHANGED <<again, sale>>
      PROVE  RemindersCounted'
  <2>1. \A x \in Job \ {j} : job'[x] = job[x]
    BY <1>t, <1>5 DEF Start, TypeOK
  <2>2. job[j] = None /\ job'[j].op # "remind"
    BY <1>t, <1>5 DEF Start, TypeOK
  <2>3. \A x \in Sale : Unmarked(x)' => Unmarked(x)
    BY <1>5 DEF Unmarked
  <2> QED
    BY <1>5, <2>1, <2>2, <2>3, RemindersKept
<1>6. ASSUME NEW j \in Job, MarkRecompraSent(j) PROVE RemindersCounted'
  <2>1. PICK m \in Sale : m = job[j].s /\ sale[m] # None /\ j \in Reminders(m)
    BY <1>6
       DEF MarkRecompraSent, Is, CrmInv, JobsSound, TaskSound, Sold, Reminders
  <2>2. \A s \in Sale : Reminders(s)' = Reminders(s) \ {j}
    BY <1>t, <1>6 DEF MarkRecompraSent, Done, Reminders, TypeOK
  <2>3. sale' = [sale EXCEPT ![m] = [sale[m] EXCEPT !.sent = TRUE]]
    BY <1>6, <2>1 DEF MarkRecompraSent
  <2>4. sale'[m] # None /\ sale'[m].sent
    <3>1. sale[m] \in SaleDoc
      BY <1>t, <2>1, SaleType
    <3>2. sale'[m] = [sale[m] EXCEPT !.sent = TRUE]
      BY <1>t, <2>3 DEF TypeOK
    <3>3. sale'[m] \in SaleDoc /\ sale'[m].sent
      BY <3>1, <3>2 DEF SaleDoc
    <3> QED
      BY <3>3, CrmAssumption
  <2>5. again' = again
    BY <1>6 DEF MarkRecompraSent, history
  <2>6. /\ Cardinality(Reminders(m)') <= again'[m]
        /\ (sale'[m] = None \/ ~sale'[m].sent) => again'[m] = Cardinality(Reminders(m)')
        /\ again'[m] <= Cardinality(Job)
    <3>1. /\ again[m] \in Nat /\ Cardinality(Reminders(m)) <= again[m]
          /\ again[m] <= Cardinality(Job)
      BY <1>t DEF CrmInv, RemindersCounted, TypeOK
    <3>2. Cardinality(Reminders(m)') = Cardinality(Reminders(m)) - 1
      BY <2>1, <2>2, RemindersFinite
    <3>3. Cardinality(Reminders(m)) \in Nat
      BY RemindersFinite
    <3> QED
      BY <2>4, <2>5, <3>1, <3>2, <3>3
  <2>7. ASSUME NEW s \in Sale \ {m}
        PROVE  /\ Cardinality(Reminders(s)') <= again'[s]
               /\ (sale'[s] = None \/ ~sale'[s].sent) => again'[s] = Cardinality(Reminders(s)')
               /\ again'[s] <= Cardinality(Job)
    <3>1. sale'[s] = sale[s]
      BY <1>t, <2>3 DEF TypeOK
    <3>2. Reminders(s)' = Reminders(s)
      BY <2>1, <2>2 DEF Reminders
    <3> QED
      BY <2>5, <3>1, <3>2 DEF CrmInv, RemindersCounted
  <2> QED
    BY <2>6, <2>7 DEF RemindersCounted
<1>7. ASSUME NEW j \in Job, Lose(j) PROVE RemindersCounted'
  <2>1. CASE job[j].op # "remind"
    <3>1. \A s \in Sale : Unmarked(s)' => Unmarked(s)
      BY <1>7 DEF Lose, documents, Unmarked
    <3> QED
      BY <1>2, <1>7, <2>1, <3>1 DEF Lose
  <2>2. CASE job[j].op = "remind"
    <3>1. PICK m \in Sale : m = job[j].s /\ j \in Reminders(m)
      BY <1>7, <2>2 DEF Lose, CrmInv, JobsSound, TaskSound, Sold, Reminders
    <3>2. \A s \in Sale : Reminders(s)' = Reminders(s) \ {j}
      BY <1>t, <1>7 DEF Lose, Done, Reminders, TypeOK
    <3>3. again' = [again EXCEPT ![m] = again[m] - 1] /\ sale' = sale
      BY <1>7, <2>2, <3>1 DEF Lose, documents
    <3>4. again \in [Sale -> Nat]
      BY <1>t DEF TypeOK
    <3>5. /\ Cardinality(Reminders(m)') <= again'[m]
          /\ (sale'[m] = None \/ ~sale'[m].sent) => again'[m] = Cardinality(Reminders(m)')
          /\ again'[m] <= Cardinality(Job)
      <4>1. /\ Cardinality(Reminders(m)) <= again[m]
            /\ (sale[m] = None \/ ~sale[m].sent) => again[m] = Cardinality(Reminders(m))
            /\ again[m] <= Cardinality(Job)
        BY DEF CrmInv, RemindersCounted
      <4>2. again'[m] = again[m] - 1 /\ again[m] \in Nat
        BY <3>3, <3>4
      <4>3. /\ Cardinality(Reminders(m)') = Cardinality(Reminders(m)) - 1
            /\ Cardinality(Reminders(m)) \in Nat /\ Cardinality(Job) \in Nat
        BY <3>1, <3>2, RemindersFinite
      <4> QED
        BY <3>3, <4>1, <4>2, <4>3
    <3>6. ASSUME NEW s \in Sale \ {m}
          PROVE  /\ Cardinality(Reminders(s)') <= again'[s]
                 /\ (sale'[s] = None \/ ~sale'[s].sent) => again'[s] = Cardinality(Reminders(s)')
                 /\ again'[s] <= Cardinality(Job)
      <4>1. Reminders(s)' = Reminders(s) /\ again'[s] = again[s]
        BY <3>1, <3>2, <3>3, <3>4 DEF Reminders
      <4> QED
        BY <3>3, <4>1 DEF CrmInv, RemindersCounted
    <3> QED
      BY <3>5, <3>6 DEF RemindersCounted
  <2> QED
    BY <2>1, <2>2
<1>8. ASSUME NEW j \in Job, NEW m \in Sale, Remind(j, m) PROVE RemindersCounted'
  <2>1. j \notin Reminders(m) /\ Unmarked(m) /\ sale' = sale
    BY <1>8 DEF Remind, Start, Due, Unmarked, Reminders, documents
  <2>2. /\ Reminders(m)' = Reminders(m) \cup {j}
        /\ \A s \in Sale \ {m} : Reminders(s)' = Reminders(s)
    <3>1. \A x \in Job \ {j} : job'[x] = job[x]
      BY <1>t, <1>8 DEF Remind, Start, TypeOK
    <3>2. job[j] = None /\ job'[j].op = "remind" /\ job'[j].s = m
      BY <1>t, <1>8 DEF Remind, Start, TypeOK
    <3>3. job'[j] # None
      <4>1. [op |-> "remind", at |-> "mark", c |-> None, pipe |-> None, d |-> None,
             s |-> m, to |-> None, seen |-> {}] \in Task
        BY DEF Task, Op, At
      <4> QED
        BY <1>t, <1>8, <4>1, CrmAssumption DEF Remind, Start, TypeOK
    <3> QED
      BY <3>1, <3>2, <3>3 DEF Reminders
  <2>3. /\ Cardinality(Reminders(m)') = Cardinality(Reminders(m)) + 1
        /\ Cardinality(Reminders(m)') <= Cardinality(Job)
    <3>1. IsFiniteSet(Reminders(m)) /\ Reminders(m)' \subseteq Job
      BY RemindersFinite DEF Reminders
    <3>2. Cardinality(Reminders(m) \cup {j}) = Cardinality(Reminders(m)) + 1
      BY <2>1, <3>1, FS_AddElement
    <3> QED
      BY <2>2, <3>1, <3>2, CrmAssumption, FS_Subset
  <2>4. /\ again'[m] = again[m] + 1 /\ again[m] = Cardinality(Reminders(m))
        /\ \A s \in Sale \ {m} : again'[s] = again[s]
    BY <1>t, <1>8, <2>1 DEF Remind, Unmarked, CrmInv, RemindersCounted, TypeOK
  <2>5. Cardinality(Reminders(m)) \in Nat /\ Cardinality(Job) \in Nat
    BY RemindersFinite
  <2>6. \A s \in Sale :
          /\ Cardinality(Reminders(s)') <= again'[s]
          /\ (sale'[s] = None \/ ~sale'[s].sent) => again'[s] = Cardinality(Reminders(s)')
          /\ again'[s] <= Cardinality(Job)
    BY <2>1, <2>2, <2>3, <2>4, <2>5 DEF CrmInv, RemindersCounted
  <2> QED
    BY <2>6 DEF RemindersCounted
<1>9. ASSUME NEW j \in Job, Continue(j) PROVE RemindersCounted'
  <2>1. CASE FindDefault(j)
    BY <1>3, <1>4, <1>t, <2>1 DEF FindDefault, Defaults, documents, history, At, TypeOK
  <2>2. CASE CreateDefault(j)
    BY <1>4, <1>t, <2>2, NextIdType DEF CreateDefault, history, TypeOK
  <2>3. CASE FindLead(j)
    BY <1>2, <1>3, <2>3 DEF FindLead, Is, At, documents, history, Unmarked
  <2>4. CASE FindOpenDeal(j)
    <3>1. CASE Done(j)
      BY <1>2, <2>4, <3>1 DEF FindOpenDeal, Is, documents, history, Unmarked
    <3>2. ASSUME NEW d \in OpenDeals(job[j].c, job[j].pipe),
                 job' = [job EXCEPT ![j].d = d, ![j].at = "mark"]
          PROVE  RemindersCounted'
      <4>1. job[j].op = "win" /\ job[j] \in Task
        BY <2>4, <1>t, JobType DEF FindOpenDeal, Is
      <4>2. job'[j] = [job[j] EXCEPT !.d = d, !.at = "mark"]
        BY <1>t, <3>2 DEF TypeOK
      <4>3. job'[j].op # "remind"
        BY <4>1, <4>2 DEF Task
      <4>4. \A x \in Job \ {j} : job'[x] = job[x]
        BY <1>t, <3>2 DEF TypeOK
      <4>5. again' = again /\ \A s \in Sale : Unmarked(s)' => Unmarked(s)
        BY <2>4 DEF FindOpenDeal, documents, history, Unmarked
      <4> QED
        BY <4>1, <4>3, <4>4, <4>5, RemindersKept
    <3> QED
      BY <2>4, <3>1, <3>2 DEF FindOpenDeal
  <2>5. CASE MarkDealWon(j)
    BY <1>3, <2>5 DEF MarkDealWon, Is, At
  <2>6. CASE LinkSale(j)
    <3>1. job[j].op = "win" /\ job[j].s \in Sold
      BY <2>6 DEF LinkSale, Is, CrmInv, JobsSound, TaskSound
    <3>2. sale[job[j].s] \in SaleDoc
      BY <1>t, <3>1, SaleType DEF Sold
    <3>3. sale'[job[j].s] = [sale[job[j].s] EXCEPT !.deal = job[j].d]
      BY <1>t, <2>6, <3>1 DEF LinkSale, Linked, Sold, TypeOK
    <3>4. sale'[job[j].s] # None
      BY <3>1, Monotone DEF Sold
    <3>5. sale'[job[j].s].sent = sale[job[j].s].sent
      BY <3>2, <3>3 DEF SaleDoc
    <3>6. \A s \in Sale \ {job[j].s} : sale'[s] = sale[s]
      BY <1>t, <2>6 DEF LinkSale, TypeOK
    <3>7. \A s \in Sale : Unmarked(s)' => Unmarked(s)
      BY <3>4, <3>5, <3>6 DEF Unmarked
    <3> QED
      BY <1>2, <2>6, <3>1, <3>7 DEF LinkSale, history
  <2>7. CASE CreateLead(j) \/ AdvanceOpenDeal(j)
    BY <1>2, <2>7 DEF CreateLead, AdvanceOpenDeal, Is, history, Unmarked
  <2>8. ASSUME NEW f \in Field, UpdateConversationState(j, f) PROVE RemindersCounted'
    BY <1>2, <2>8 DEF UpdateConversationState, Is, history, Unmarked
  <2> QED
    BY <1>6, <1>7, <1>9, <2>1, <2>2, <2>3, <2>4, <2>5, <2>6, <2>7, <2>8 DEF Continue
<1>10. ASSUME NEW j \in Job, Begin(j) PROVE RemindersCounted'
  <2>1. CASE GetKanban(j)
    BY <1>5, <2>1 DEF GetKanban, Op, documents, history
  <2>2. ASSUME NEW c \in Contact, UpsertConversation(j, c) PROVE RemindersCounted'
    BY <1>5, <2>2 DEF UpsertConversation, Op, history
  <2>3. ASSUME NEW c \in Contact, GetConversationState(j, c) PROVE RemindersCounted'
    <3>1. PICK seen : Start(j, "reply", "answer", c, None, None, seen)
      BY <2>3 DEF GetConversationState
    <3>2. \A x \in Job \ {j} : job'[x] = job[x]
      BY <1>t, <3>1 DEF Start, TypeOK
    <3>3. job[j] = None /\ job'[j].op # "remind"
      BY <1>t, <3>1 DEF Start, TypeOK
    <3>4. again' = again /\ \A x \in Sale : Unmarked(x)' => Unmarked(x)
      BY <2>3 DEF GetConversationState, documents, history, Unmarked
    <3> QED
      BY <3>2, <3>3, <3>4, RemindersKept
  <2>4. ASSUME NEW c \in Contact, NEW to \in Status \cup {None},
               NEW s \in Sale \cup {None}, AdvanceDealByContact(j, c, to, s)
        PROVE  RemindersCounted'
    BY <1>5, <2>4 DEF AdvanceDealByContact, Op, documents, history
  <2> QED
    BY <1>t, <1>8, <1>10, <2>1, <2>2, <2>3, <2>4, CreateSaleReminders
       DEF Begin, NotifySaleConfirmed, PanelSale, SaleStatus
<1>11. ASSUME Panel PROVE RemindersCounted'
  BY <1>1, <1>11 DEF Panel, CreateDeal, UpdateDeal, DeleteDeal, history
<1> QED
  BY <1>9, <1>10, <1>11 DEF Next

\* What every later proof starts from.
LEMMA CrmInvariant == Spec => []CrmInv
<1>1. CrmInv /\ UNCHANGED vars => CrmInv'
  BY DEF CrmInv, TypeOK, JobsSound, TaskSound, Talked, Sold, RemindersCounted,
         Reminders, vars
<1>2. CrmInv /\ [Next]_vars => CrmInv'
  BY <1>1, TypeStep, JobsStep, RemindersStep DEF CrmInv
<1> QED
  BY <1>2, CrmInitInv, PTL DEF Spec

\* Every variable keeps its type: a job never meets a document that is not there.
THEOREM CrmTypes == Spec => []TypeOK
  BY CrmInvariant, PTL DEF CrmInv

\* Of the repurchase reminders of a sale that were not lost on their way, a
\* client gets no more than n8n sends at a time (internal.controller.ts
\* getRecompraPending and markRecompraSent).
THEOREM RemindersBounded == Spec => []RemindedOnce
<1>1. CrmInv => RemindedOnce
  BY DEF CrmInv, RemindersCounted, RemindedOnce
<1> QED
  BY <1>1, CrmInvariant, PTL

-----------------------------------------------------------------------------
(***************************************************************************)
(* What a look before a creation bounds.  The jobs about to create and     *)
(* what they have created stay within the number of jobs: a job turns into *)
(* what it creates, and joins them only when nothing has been created.     *)
(***************************************************************************)
Within(made, makers) ==
  /\ IsFiniteSet(made)
  /\ Cardinality(made) + Cardinality(makers) <= Cardinality(Job)

LEMMA WithinBound ==
  ASSUME NEW made, NEW makers \in SUBSET Job, Within(made, makers)
  PROVE  Cardinality(made) <= Cardinality(Job)
<1>1. /\ Cardinality(made) \in Nat /\ Cardinality(makers) \in Nat
      /\ Cardinality(Job) \in Nat
  BY CrmAssumption, FS_Subset, FS_CardinalityType DEF Within
<1> QED
  BY <1>1 DEF Within

LEMMA WithinFewer ==
  ASSUME NEW made, NEW makers \in SUBSET Job, Within(made, makers),
         NEW fewer \in SUBSET made, NEW rest \in SUBSET makers
  PROVE  Within(fewer, rest)
<1>1. IsFiniteSet(made) /\ IsFiniteSet(makers) /\ IsFiniteSet(Job)
  BY CrmAssumption, FS_Subset DEF Within
<1>2. /\ IsFiniteSet(fewer) /\ Cardinality(fewer) <= Cardinality(made)
      /\ IsFiniteSet(rest) /\ Cardinality(rest) <= Cardinality(makers)
  BY <1>1, FS_Subset
<1>3. /\ Cardinality(made) \in Nat /\ Cardinality(makers) \in Nat
      /\ Cardinality(fewer) \in Nat /\ Cardinality(rest) \in Nat
      /\ Cardinality(Job) \in Nat
  BY <1>1, <1>2, FS_CardinalityType
<1> QED
  BY <1>2, <1>3 DEF Within

LEMMA WithinNone ==
  ASSUME NEW makers \in SUBSET Job
  PROVE  Within({}, makers)
<1>1. /\ IsFiniteSet({}) /\ Cardinality({}) = 0
      /\ IsFiniteSet(makers) /\ Cardinality(makers) <= Cardinality(Job)
  BY CrmAssumption, FS_EmptySet, FS_Subset
<1>2. Cardinality(makers) \in Nat
  BY <1>1, FS_CardinalityType
<1> QED
  BY <1>1, <1>2 DEF Within

LEMMA WithinCreated ==
  ASSUME NEW made, NEW makers \in SUBSET Job, Within(made, makers), NEW x,
         NEW j \in makers
  PROVE  Within(made \cup {x}, makers \ {j})
<1>1. IsFiniteSet(made) /\ IsFiniteSet(makers)
  BY CrmAssumption, FS_Subset DEF Within
<1>2. Cardinality(makers \ {j}) = Cardinality(makers) - 1
  BY <1>1, FS_RemoveElement
<1>3. /\ IsFiniteSet(made \cup {x})
      /\ Cardinality(made \cup {x}) \in {Cardinality(made), Cardinality(made) + 1}
  BY <1>1, FS_AddElement
<1>4. /\ Cardinality(made) \in Nat /\ Cardinality(makers) \in Nat
      /\ Cardinality(Job) \in Nat
  BY <1>1, CrmAssumption, FS_CardinalityType
<1> QED
  BY <1>2, <1>3, <1>4 DEF Within

-----------------------------------------------------------------------------
(***************************************************************************)
(* The default pipelines.                                                  *)
(***************************************************************************)
PipeMakers == {j \in Job : job[j] # None /\ job[j].at = "makePipeline"}

PipesWithin == Within(pipes, PipeMakers)

LEMMA PipesStep == CrmInv /\ PipesWithin /\ [Next]_vars => PipesWithin'
<1> SUFFICES ASSUME CrmInv, PipesWithin, [Next]_vars PROVE PipesWithin'
  OBVIOUS
<1>t. TypeOK /\ PipeMakers \in SUBSET Job /\ PipeMakers' \in SUBSET Job
  BY DEF CrmInv, PipeMakers
<1>1. ASSUME UNCHANGED pipes, PipeMakers' \subseteq PipeMakers PROVE PipesWithin'
  BY <1>t, <1>1, WithinFewer DEF PipesWithin
<1>2. ASSUME UNCHANGED pipes, NEW j \in Job, \A x \in Job \ {j} : job'[x] = job[x],
             job'[j] = None \/ job'[j].at # "makePipeline"
      PROVE  PipesWithin'
  BY <1>1, <1>2 DEF PipeMakers
<1>3. ASSUME NEW j \in Job, NEW op, NEW at \in {"pipeline", "answer", "mark"}, NEW c,
             NEW s, NEW to, NEW seen, Start(j, op, at, c, s, to, seen), UNCHANGED pipes
      PROVE  PipesWithin'
  BY <1>2, <1>3, <1>t DEF Start, TypeOK
<1>4. ASSUME NEW j \in Job, Done(j), UNCHANGED pipes PROVE PipesWithin'
  BY <1>2, <1>4, <1>t DEF Done, TypeOK
<1>5. ASSUME NEW j \in Job, job[j] # None, NEW at \in {"create", "link"}, Go(j, at),
             UNCHANGED pipes
      PROVE  PipesWithin'
  <2>1. job'[j] = [job[j] EXCEPT !.at = at] /\ job[j] \in Task
    BY <1>t, <1>5, JobType DEF Go, TypeOK
  <2>2. job'[j].at # "makePipeline"
    BY <1>5, <2>1 DEF Task
  <2> QED
    BY <1>2, <1>5, <1>t, <2>2 DEF Go, TypeOK
<1>6. ASSUME NEW j \in Job, job[j] # None, NEW p \in Pipeline, Reach(j, p)
      PROVE  /\ \A x \in Job \ {j} : job'[x] = job[x]
             /\ job'[j] = None \/ job'[j].at # "makePipeline"
  <2>1. job[j] \in Task
    BY <1>6, <1>t, JobType
  <2>2. job'[j] \in {None, [job[j] EXCEPT !.pipe = p, !.at = "deal"]}
    BY <1>t, <1>6 DEF Reach, TypeOK
  <2>3. job'[j] = None \/ job'[j].at # "makePipeline"
    BY <2>1, <2>2 DEF Task
  <2> QED
    BY <1>6, <1>t, <2>3 DEF Reach, TypeOK
<1>7. ASSUME NEW j \in Job, FindDefault(j) PROVE PipesWithin'
  <2>1. CASE Defaults = {}
    BY <1>t, <1>7, <2>1, WithinNone DEF FindDefault, Defaults, documents, PipesWithin
  <2>2. CASE Defaults # {}
    BY <1>2, <1>6, <1>7, <1>t, <2>2 DEF FindDefault, Defaults, documents, TypeOK
  <2> QED
    BY <2>1, <2>2
<1>8. ASSUME NEW j \in Job, CreateDefault(j) PROVE PipesWithin'
  <2>1. NextId \in Pipeline
    BY <1>8, <1>t, NextIdType DEF CreateDefault, TypeOK
  <2>2. PipeMakers' \subseteq PipeMakers \ {j} /\ j \in PipeMakers
    BY <1>6, <1>8, <2>1 DEF CreateDefault, PipeMakers
  <2>3. Within(pipes \cup {NextId}, PipeMakers \ {j})
    BY <1>t, <2>2, WithinCreated DEF PipesWithin
  <2>4. Within(pipes \cup {NextId}, PipeMakers')
    BY <1>t, <2>2, <2>3, WithinFewer
  <2> QED
    BY <1>8, <2>4 DEF CreateDefault, PipesWithin
<1>9. ASSUME NEW j \in Job, FindOpenDeal(j) PROVE PipesWithin'
  <2>1. ASSUME NEW d, job' = [job EXCEPT ![j].d = d, ![j].at = "mark"]
        PROVE  PipesWithin'
    <3>1. job[j] \in Task /\ job'[j] = [job[j] EXCEPT !.d = d, !.at = "mark"]
      BY <1>9, <1>t, <2>1, JobType DEF FindOpenDeal, Is, TypeOK
    <3>2. job'[j].at # "makePipeline"
      BY <3>1 DEF Task
    <3> QED
      BY <1>2, <1>9, <1>t, <2>1, <3>2 DEF FindOpenDeal, documents, TypeOK
  <2> QED
    BY <1>4, <1>9, <2>1 DEF FindOpenDeal, documents
<1>10. ASSUME NEW j \in Job, NEW c, NEW st, CreateSale(j, c, st) PROVE PipesWithin'
  <2>1. CASE UNCHANGED job
    BY <1>1, <1>10, <2>1 DEF CreateSale, PipeMakers
  <2>2. CASE \E s \in Sale : Start(j, "win", "pipeline", c, s, None, {})
    BY <1>3, <1>10, <2>2 DEF CreateSale
  <2> QED
    BY <1>10, <2>1, <2>2 DEF CreateSale
<1>11. ASSUME NEW j \in Job, Continue(j) PROVE PipesWithin'
  BY <1>4, <1>5, <1>7, <1>8, <1>9, <1>11
     DEF Continue, FindLead, CreateLead, MarkDealWon, LinkSale, AdvanceOpenDeal,
         MarkRecompraSent, Lose, UpdateConversationState, Is, documents
<1>12. ASSUME NEW j \in Job, Begin(j) PROVE PipesWithin'
  BY <1>3, <1>10, <1>12
     DEF Begin, GetKanban, Remind, UpsertConversation, GetConversationState,
         NotifySaleConfirmed, PanelSale, AdvanceDealByContact, documents
<1>13. ASSUME Panel \/ UNCHANGED vars PROVE PipesWithin'
  BY <1>1, <1>13
     DEF Panel, CreateDeal, UpdateDeal, DeleteDeal, vars, history, PipeMakers
<1> QED
  BY <1>11, <1>12, <1>13 DEF Next

\* First requests at one time may each create a default pipeline; there are
\* never more than requests in flight (pipeline.service.ts getOrCreateDefault).
THEOREM FewPipelines == Spec => []PipelinesBounded
<1>1. Init => PipesWithin
  BY WithinNone DEF Init, PipesWithin, PipeMakers
<1>2. PipesWithin => PipelinesBounded
  BY WithinBound DEF PipesWithin, PipelinesBounded, PipeMakers
<1> QED
  BY <1>1, <1>2, CrmInvariant, PipesStep, PTL DEF Spec

-----------------------------------------------------------------------------
(***************************************************************************)
(* The open deals of a contact.                                            *)
(***************************************************************************)
LeadMakers(c, p) ==
  {j \in Job : Is(j, "lead", "create") /\ job[j].c = c /\ job[j].pipe = p}

LeadsWithin == \A c \in Contact, p \in Pipeline : Within(Leads(c, p), LeadMakers(c, p))

\* What a step that looks for no deal does to those about to be created.
LEMMA NoMoreMakers ==
  ASSUME CrmInv, Next, NEW j \in Job,
         Done(j) \/ (Continue(j) /\ ~FindLead(j)) \/ Begin(j)
  PROVE  \A c \in Contact, p \in Pipeline :
           LeadMakers(c, p)' \subseteq IF UNCHANGED job THEN LeadMakers(c, p)
                                      ELSE LeadMakers(c, p) \ {j}
<1>t. TypeOK
  BY DEF CrmInv
<1>1. ASSUME \A x \in Job \ {j} : job'[x] = job[x],
             job'[j] = None \/ job'[j].at # "create"
      PROVE  \A c \in Contact, p \in Pipeline :
               LeadMakers(c, p)' \subseteq LeadMakers(c, p) \ {j}
  BY <1>1 DEF LeadMakers, Is
<1>8. ASSUME UNCHANGED job
      PROVE  \A c \in Contact, p \in Pipeline : LeadMakers(c, p)' \subseteq LeadMakers(c, p)
  BY <1>8 DEF LeadMakers, Is
<1>2. ASSUME Done(j)
      PROVE  (\A x \in Job \ {j} : job'[x] = job[x]) /\ job'[j] = None
  BY <1>2, <1>t DEF Done, TypeOK
<1>3. ASSUME NEW op, NEW at \in {"pipeline", "answer", "mark"}, NEW c, NEW s, NEW to,
             NEW seen, Start(j, op, at, c, s, to, seen)
      PROVE  (\A x \in Job \ {j} : job'[x] = job[x]) /\ job'[j].at # "create"
  BY <1>3, <1>t DEF Start, TypeOK
<1>4. ASSUME job[j] # None, NEW at \in {"makePipeline", "link"}, Go(j, at)
      PROVE  (\A x \in Job \ {j} : job'[x] = job[x]) /\ job'[j].at # "create"
  <2>1. job'[j] = [job[j] EXCEPT !.at = at] /\ job[j] \in Task
    BY <1>t, <1>4, JobType DEF Go, TypeOK
  <2>2. job'[j].at # "create"
    BY <1>4, <2>1 DEF Task
  <2> QED
    BY <1>4, <1>t, <2>2 DEF Go, TypeOK
<1>5. ASSUME job[j] # None, NEW p \in Pipeline, Reach(j, p)
      PROVE  /\ \A x \in Job \ {j} : job'[x] = job[x]
             /\ job'[j] = None \/ job'[j].at # "create"
  <2>1. job[j] \in Task
    BY <1>5, <1>t, JobType
  <2>2. job'[j] \in {None, [job[j] EXCEPT !.pipe = p, !.at = "deal"]}
    BY <1>t, <1>5 DEF Reach, TypeOK
  <2>3. job'[j] = None \/ job'[j].at # "create"
    BY <2>1, <2>2 DEF Task
  <2> QED
    BY <1>5, <1>t, <2>3 DEF Reach, TypeOK
<1>6. ASSUME Continue(j), ~FindLead(j)
      PROVE  /\ \A x \in Job \ {j} : job'[x] = job[x]
             /\ job'[j] = None \/ job'[j].at # "create"
  <2>1. CASE FindDefault(j)
    BY <1>4, <1>5, <1>t, <2>1 DEF FindDefault, Defaults, TypeOK
  <2>2. CASE CreateDefault(j)
    BY <1>5, <1>t, <2>2, NextIdType DEF CreateDefault, TypeOK
  <2>3. CASE FindOpenDeal(j)
    <3>1. ASSUME NEW d, job' = [job EXCEPT ![j].d = d, ![j].at = "mark"]
          PROVE  (\A x \in Job \ {j} : job'[x] = job[x]) /\ job'[j].at # "create"
      <4>1. job[j] \in Task /\ job'[j] = [job[j] EXCEPT !.d = d, !.at = "mark"]
        BY <1>t, <2>3, <3>1, JobType DEF FindOpenDeal, Is, TypeOK
      <4>2. job'[j].at # "create"
        BY <4>1 DEF Task
      <4> QED
        BY <1>t, <3>1, <4>2 DEF TypeOK
    <3> QED
      BY <1>2, <2>3, <3>1 DEF FindOpenDeal
  <2> QED
    BY <1>2, <1>4, <1>6, <2>1, <2>2, <2>3
       DEF Continue, CreateLead, MarkDealWon, LinkSale, AdvanceOpenDeal,
           MarkRecompraSent, Lose, UpdateConversationState, Is
<1>7. ASSUME Begin(j)
      PROVE  \/ (\A x \in Job \ {j} : job'[x] = job[x]) /\ job'[j].at # "create"
             \/ UNCHANGED job
  <2>1. ASSUME NEW c, NEW st, CreateSale(j, c, st)
        PROVE  \/ (\A x \in Job \ {j} : job'[x] = job[x]) /\ job'[j].at # "create"
               \/ UNCHANGED job
    <3>1. UNCHANGED job \/ \E s \in Sale : Start(j, "win", "pipeline", c, s, None, {})
      BY <2>1 DEF CreateSale
    <3> QED
      BY <1>3, <3>1
  <2> QED
    BY <1>3, <1>7, <2>1
       DEF Begin, GetKanban, Remind, UpsertConversation, GetConversationState,
           NotifySaleConfirmed, PanelSale, AdvanceDealByContact
<1> QED
  BY <1>1, <1>2, <1>6, <1>7, <1>8

\* A deal that becomes an open one of its contact is the panel's.
LEMMA NoMoreLeads ==
  ASSUME CrmInv, Next, NEW d0 \in Deal, \A d \in Deal \ {d0} : deal'[d] = deal[d],
         \/ d0 \in manual' \cup reopened'
         \/ deal'[d0] = None
         \/ deal'[d0].status # "open"
         \/ /\ deal[d0] # None /\ deal[d0].status = "open"
            /\ deal'[d0].contact = deal[d0].contact /\ deal'[d0].pipe = deal[d0].pipe,
         manual \subseteq manual', reopened \subseteq reopened'
  PROVE  \A c \in Contact, p \in Pipeline : Leads(c, p)' \subseteq Leads(c, p)
  BY DEF Leads, OpenDeals

LEMMA LeadsStep == CrmInv /\ LeadsWithin /\ [Next]_vars => LeadsWithin'
<1> SUFFICES ASSUME CrmInv, LeadsWithin, [Next]_vars PROVE LeadsWithin'
  OBVIOUS
<1>t. TypeOK /\ TypeOK'
  BY TypeStep DEF CrmInv
<1>s. \A c \in Contact, p \in Pipeline :
        LeadMakers(c, p) \in SUBSET Job /\ LeadMakers(c, p)' \in SUBSET Job
  BY DEF LeadMakers
<1>1. ASSUME \A c \in Contact, p \in Pipeline :
               /\ Leads(c, p)' \subseteq Leads(c, p)
               /\ LeadMakers(c, p)' \subseteq LeadMakers(c, p)
      PROVE  LeadsWithin'
  BY <1>s, <1>1, WithinFewer DEF LeadsWithin
<1>2. ASSUME UNCHANGED <<deal, manual, reopened>>
      PROVE  \A c \in Contact, p \in Pipeline : Leads(c, p)' = Leads(c, p)
  BY <1>2 DEF Leads, OpenDeals
<1>3. ASSUME NEW j \in Job, FindLead(j), Next PROVE LeadsWithin'
  <2>1. \A c \in Contact, p \in Pipeline : Leads(c, p)' = Leads(c, p)
    BY <1>2, <1>3 DEF FindLead, documents, history
  <2>2. CASE Done(j)
    <3>1. \A c \in Contact, p \in Pipeline : LeadMakers(c, p)' \subseteq LeadMakers(c, p)
      BY <1>3, <2>2, NoMoreMakers
    <3> QED
      BY <1>1, <2>1, <3>1
  <2>3. CASE ~HasLead(job[j].c, job[j].pipe) /\ Go(j, "create")
    <3>1. job'[j] = [job[j] EXCEPT !.at = "create"] /\ job[j] \in Task
      BY <1>t, <1>3, <2>3, JobType DEF Go, FindLead, Is, TypeOK
    <3>2. job'[j].c = job[j].c /\ job'[j].pipe = job[j].pipe
      BY <3>1 DEF Task
    <3>3. \A x \in Job \ {j} : job'[x] = job[x]
      BY <1>t, <2>3 DEF Go, TypeOK
    <3>4. \A c \in Contact, p \in Pipeline :
            (c # job[j].c \/ p # job[j].pipe) => LeadMakers(c, p)' \subseteq LeadMakers(c, p)
      BY <3>2, <3>3 DEF LeadMakers, Is
    <3>5. Leads(job[j].c, job[j].pipe) = {}
      BY <2>3 DEF HasLead, Leads
    <3>6. ASSUME NEW c \in Contact, NEW p \in Pipeline
          PROVE  Within(Leads(c, p)', LeadMakers(c, p)')
      <4>1. CASE c = job[j].c /\ p = job[j].pipe
        BY <1>s, <2>1, <3>5, <4>1, WithinNone
      <4>2. CASE c # job[j].c \/ p # job[j].pipe
        BY <1>s, <2>1, <3>4, <4>2, WithinFewer DEF LeadsWithin
      <4> QED
        BY <4>1, <4>2
    <3> QED
      BY <3>6 DEF LeadsWithin
  <2> QED
    BY <1>3, <2>2, <2>3 DEF FindLead
<1>4. ASSUME NEW j \in Job, CreateLead(j), Next PROVE LeadsWithin'
  <2> DEFINE c0 == job[j].c
             p0 == job[j].pipe
  <2>1. PICK d \in Deal : Insert(d, c0, p0)
    BY <1>4 DEF CreateLead
  <2>2. c0 \in Contact /\ p0 \in Pipeline /\ j \in LeadMakers(c0, p0)
    BY <1>4 DEF CreateLead, Is, LeadMakers, CrmInv, JobsSound, TaskSound
  <2>3. \A c \in Contact, p \in Pipeline : LeadMakers(c, p)' \subseteq LeadMakers(c, p) \ {j}
    <3>1. Done(j) /\ job[j] # None
      BY <1>4 DEF CreateLead, Is
    <3>2. job'[j] = None
      BY <1>t, <3>1 DEF Done, TypeOK
    <3> QED
      BY <1>4, <3>1, <3>2, NoMoreMakers
  <2>4. /\ \A x \in Deal \ {d} : deal'[x] = deal[x]
        /\ deal'[d].contact = c0 /\ deal'[d].pipe = p0
        /\ manual' = manual /\ reopened' = reopened
    BY <1>4, <1>t, <2>1 DEF CreateLead, Insert, history, TypeOK
  <2>5. \A c \in Contact, p \in Pipeline :
          Leads(c, p)' \subseteq IF c = c0 /\ p = p0 THEN Leads(c, p) \cup {d} ELSE Leads(c, p)
    BY <2>4 DEF Leads, OpenDeals
  <2> HIDE DEF c0, p0
  <2>6. ASSUME NEW c \in Contact, NEW p \in Pipeline
        PROVE  Within(Leads(c, p)', LeadMakers(c, p)')
    <3>1. CASE c = c0 /\ p = p0
      <4>1. Within(Leads(c, p) \cup {d}, LeadMakers(c, p) \ {j})
        BY <1>s, <2>2, <3>1, WithinCreated DEF LeadsWithin
      <4>2. LeadMakers(c, p) \ {j} \in SUBSET Job
        BY <1>s
      <4>3. /\ Leads(c, p)' \in SUBSET (Leads(c, p) \cup {d})
            /\ LeadMakers(c, p)' \in SUBSET (LeadMakers(c, p) \ {j})
        BY <2>3, <2>5, <3>1
      <4> QED
        BY <4>1, <4>2, <4>3, WithinFewer
    <3>2. CASE c # c0 \/ p # p0
      <4>1. /\ Leads(c, p)' \in SUBSET Leads(c, p)
            /\ LeadMakers(c, p)' \in SUBSET LeadMakers(c, p)
        BY <2>3, <2>5, <3>2
      <4> QED
        BY <1>s, <4>1, WithinFewer DEF LeadsWithin
    <3> QED
      BY <3>1, <3>2
  <2> QED
    BY <2>6 DEF LeadsWithin
<1>5. ASSUME NEW j \in Job, Continue(j), Next PROVE LeadsWithin'
  <2>1. CASE MarkDealWon(j)
    <3>1. job[j].d \in Deal
      BY <2>1 DEF MarkDealWon, Is, CrmInv, JobsSound, TaskSound
    <3>2. \A x \in Deal \ {job[j].d} : deal'[x] = deal[x]
      BY <1>t, <2>1 DEF MarkDealWon, TypeOK
    <3>3. deal[job[j].d] # None => deal'[job[j].d].status # "open"
      <4>1. ASSUME deal[job[j].d] # None
            PROVE  deal'[job[j].d].status # "open"
        <5>1. deal[job[j].d] \in DealDoc
          BY <1>t, <3>1, <4>1, DealType
        <5>2. deal'[job[j].d] = [deal[job[j].d] EXCEPT !.status = "won", !.sale = job[j].s]
          BY <1>t, <2>1, <3>1, <4>1 DEF MarkDealWon, Won, TypeOK
        <5> QED
          BY <5>1, <5>2 DEF DealDoc
      <4> QED
        BY <4>1
    <3>4. deal[job[j].d] = None => deal'[job[j].d] = None
      BY <2>1 DEF MarkDealWon
    <3>5. \A c \in Contact, p \in Pipeline : Leads(c, p)' \subseteq Leads(c, p)
      BY <1>5, <2>1, <3>1, <3>2, <3>3, <3>4, NoMoreLeads DEF MarkDealWon
    <3> QED
      BY <1>1, <1>5, <2>1, <3>5, NoMoreMakers DEF MarkDealWon, FindLead, Is
  <2>2. CASE AdvanceOpenDeal(j)
    <3>1. CASE UNCHANGED deal
      <4>1. \A c \in Contact, p \in Pipeline : Leads(c, p)' \subseteq Leads(c, p)
        BY <1>2, <2>2, <3>1 DEF AdvanceOpenDeal
      <4> QED
        BY <1>1, <1>5, <2>2, <4>1, NoMoreMakers DEF AdvanceOpenDeal, FindLead, Is
    <3>2. ASSUME NEW d \in OpenDeals(job[j].c, job[j].pipe), NEW st, NEW s,
                 deal' = [deal EXCEPT ![d].status = st, ![d].sale = s]
          PROVE  LeadsWithin'
      <4>1. d \in Deal /\ deal[d] # None /\ deal[d].status = "open" /\ deal[d] \in DealDoc
        BY <1>t, OpenDealsAre, DealType
      <4>2. deal'[d] = [deal[d] EXCEPT !.status = st, !.sale = s]
        BY <1>t, <3>2, <4>1 DEF TypeOK
      <4>3. deal'[d].contact = deal[d].contact /\ deal'[d].pipe = deal[d].pipe
        BY <4>1, <4>2 DEF DealDoc
      <4>4. \A x \in Deal \ {d} : deal'[x] = deal[x]
        BY <1>t, <3>2 DEF TypeOK
      <4>5. \A c \in Contact, p \in Pipeline : Leads(c, p)' \subseteq Leads(c, p)
        BY <1>5, <2>2, <4>1, <4>3, <4>4, NoMoreLeads DEF AdvanceOpenDeal
      <4> QED
        BY <1>1, <1>5, <2>2, <4>5, NoMoreMakers DEF AdvanceOpenDeal, FindLead, Is
    <3> QED
      BY <2>2, <3>1, <3>2 DEF AdvanceOpenDeal
  <2>3. ASSUME UNCHANGED <<deal, manual, reopened>>, ~FindLead(j) PROVE LeadsWithin'
    <3>1. \A c \in Contact, p \in Pipeline : LeadMakers(c, p)' \subseteq LeadMakers(c, p)
      BY <1>5, <2>3, NoMoreMakers
    <3> QED
      BY <1>1, <1>2, <2>3, <3>1
  <2> QED
    BY <1>3, <1>4, <1>5, <2>1, <2>2, <2>3
       DEF Continue, FindDefault, CreateDefault, FindOpenDeal, LinkSale,
           MarkRecompraSent, Lose, UpdateConversationState, documents, history
<1>6. ASSUME NEW j \in Job, Begin(j), Next PROVE LeadsWithin'
  <2>1. UNCHANGED <<deal, manual, reopened>>
    BY <1>6
       DEF Begin, GetKanban, Remind, UpsertConversation, GetConversationState,
           NotifySaleConfirmed, PanelSale, CreateSale, AdvanceDealByContact,
           documents, history
  <2>2. \A c \in Contact, p \in Pipeline : LeadMakers(c, p)' \subseteq LeadMakers(c, p)
    BY <1>6, NoMoreMakers
  <2> QED
    BY <1>1, <1>2, <2>1, <2>2
<1>7. ASSUME Panel, Next PROVE LeadsWithin'
  <2>1. \A c \in Contact, p \in Pipeline : LeadMakers(c, p)' = LeadMakers(c, p)
    BY <1>7 DEF Panel, CreateDeal, UpdateDeal, DeleteDeal, LeadMakers, Is
  <2>2. ASSUME NEW c0 \in Contact, NEW p0 \in Pipeline, CreateDeal(c0, p0)
        PROVE  \A c \in Contact, p \in Pipeline : Leads(c, p)' \subseteq Leads(c, p)
    <3>1. PICK d \in Deal : Insert(d, c0, p0) /\ manual' = manual \cup {d}
      BY <2>2 DEF CreateDeal
    <3>2. \A x \in Deal \ {d} : deal'[x] = deal[x]
      BY <1>t, <3>1 DEF Insert, TypeOK
    <3> QED
      BY <1>7, <2>2, <3>1, <3>2, NoMoreLeads DEF CreateDeal
  <2>3. ASSUME NEW d \in Deal, DeleteDeal(d)
        PROVE  \A c \in Contact, p \in Pipeline : Leads(c, p)' \subseteq Leads(c, p)
    <3>1. deal'[d] = None /\ \A x \in Deal \ {d} : deal'[x] = deal[x]
      BY <1>t, <2>3 DEF DeleteDeal, TypeOK
    <3> QED
      BY <1>7, <2>3, <3>1, NoMoreLeads DEF DeleteDeal, history
  <2>4. ASSUME NEW d \in Deal, NEW c0 \in Contact, NEW st \in Status, UpdateDeal(d, c0, st)
        PROVE  \A c \in Contact, p \in Pipeline : Leads(c, p)' \subseteq Leads(c, p)
    <3>1. deal[d] # None /\ deal[d] \in DealDoc
      BY <1>t, <2>4, DealType DEF UpdateDeal
    <3>2. deal'[d] = [deal[d] EXCEPT !.contact = c0, !.status = st]
      BY <1>t, <2>4 DEF UpdateDeal, TypeOK
    <3>3. /\ deal'[d].contact = c0 /\ deal'[d].status = st
          /\ deal'[d].pipe = deal[d].pipe
      BY <3>1, <3>2 DEF DealDoc
    <3>4. \A x \in Deal \ {d} : deal'[x] = deal[x]
      BY <1>t, <2>4 DEF UpdateDeal, TypeOK
    <3>5. /\ manual' = manual /\ reopened \subseteq reopened'
          /\ Reopens(d, c0, st) => d \in reopened'
      BY <2>4 DEF UpdateDeal
    <3>6. \/ d \in reopened'
          \/ deal'[d].status # "open"
          \/ deal[d].status = "open" /\ deal'[d].contact = deal[d].contact
      BY <3>3, <3>5 DEF Reopens
    <3> QED
      BY <1>7, <3>1, <3>3, <3>4, <3>5, <3>6, NoMoreLeads
  <2> QED
    BY <1>1, <1>7, <2>1, <2>2, <2>3, <2>4 DEF Panel
<1>8. CASE UNCHANGED vars
  BY <1>1, <1>2, <1>8 DEF vars, LeadMakers, Is
<1> QED
  BY <1>5, <1>6, <1>7, <1>8 DEF Next

\* The messages of a contact in flight may each create an open deal for it;
\* no other message adds one (pipeline.service.ts createDealForContact).
THEOREM FewOpenDeals == Spec => []OpenDealsBounded
<1>1. Init => LeadsWithin
  <2> SUFFICES ASSUME Init, NEW c \in Contact, NEW p \in Pipeline
               PROVE  Within(Leads(c, p), LeadMakers(c, p))
    BY DEF LeadsWithin
  <2>1. Leads(c, p) = {} /\ LeadMakers(c, p) \in SUBSET Job
    BY DEF Init, Leads, OpenDeals, LeadMakers
  <2> QED
    BY <2>1, WithinNone
<1>2. LeadsWithin => OpenDealsBounded
  <2> SUFFICES ASSUME LeadsWithin, NEW c \in Contact, NEW p \in Pipeline
               PROVE  Cardinality(Leads(c, p)) <= Cardinality(Job)
    BY DEF OpenDealsBounded
  <2>1. Within(Leads(c, p), LeadMakers(c, p)) /\ LeadMakers(c, p) \in SUBSET Job
    BY DEF LeadsWithin, LeadMakers
  <2> QED
    BY <2>1, WithinBound
<1> QED
  BY <1>1, <1>2, CrmInvariant, LeadsStep, PTL DEF Spec

-----------------------------------------------------------------------------
(***************************************************************************)
(* The links of sales and deals.  The properties speak of sales and deals  *)
(* at rest; the jobs between them carry what makes them true.              *)
(***************************************************************************)
Selling(j) == job[j] # None /\ job[j].op = "win"

Sealed(d) == deal[d] # None => deal[d].sale # None

OpenDeal(d) == deal[d] # None /\ deal[d].status = "open"

\* A sale has one job, which has not written its deal yet.
SalesInv ==
  \A j \in Job : Selling(j) =>
    /\ sale[job[j].s].deal = None
    /\ \A k \in Job : Selling(k) /\ job[k].s = job[j].s => k = j

\* A deal that a sale names, or is about to, was there once and has a sale.
LinkedInv ==
  /\ \A s \in Sold : sale[s].deal # None =>
       sale[s].deal \in Deal \ fresh /\ Sealed(sale[s].deal)
  /\ \A j \in Job : Is(j, "win", "link") => Sealed(job[j].d)

\* The sale that a deal names names it back, or its job is on its way or lost.
NamedBack ==
  \A d \in Deal \ advanced : (deal[d] # None /\ deal[d].sale # None) =>
    LET s == deal[d].sale
    IN sale[s] # None /\ (sale[s].deal = d \/ Linking(s, d) \/ s \in cut)

\* A deal that nobody reopened is open only before its first sale.
UnsoldInv ==
  \A d \in Deal \ reopened : OpenDeal(d) =>
    /\ SalesOf(d) = {}
    /\ \A j \in Job : Is(j, "win", "link") => job[j].d # d

\* The jobs that have found a deal and will give it their sale.
Winners(d) ==
  {j \in Job : (Is(j, "win", "mark") \/ Is(j, "win", "link")) /\ job[j].d = d}

SalesWithin == \A d \in Deal \ reopened : Within(SalesOf(d), Winners(d))

LinksInv == SalesInv /\ LinkedInv /\ NamedBack /\ UnsoldInv /\ SalesWithin

LEMMA LinksInit == Init => LinksInv
<1> SUFFICES ASSUME Init PROVE LinksInv
  OBVIOUS
<1>1. SalesInv /\ LinkedInv /\ NamedBack /\ UnsoldInv
  BY DEF Init, SalesInv, LinkedInv, NamedBack, UnsoldInv, Selling, Is, Sold, OpenDeal
<1>2. \A d \in Deal : SalesOf(d) = {} /\ Winners(d) \in SUBSET Job
  BY DEF Init, SalesOf, Winners
<1>3. SalesWithin
  BY <1>2, WithinNone DEF SalesWithin
<1> QED
  BY <1>1, <1>3 DEF LinksInv

\* Steps that begin no sale
CalmSelling == \A j \in Job : Selling(j)' => Selling(j) /\ job'[j].s = job[j].s

\* and bring none on its way: in the jobs,
CalmJobs ==
  /\ \A j \in Job, at \in {"mark", "link"} :
       Is(j, "win", at)' => Is(j, "win", at) /\ job'[j].d = job[j].d
  /\ \A j \in Job : Is(j, "win", "link") =>
       \/ Is(j, "win", "link")' /\ job'[j].s = job[j].s
       \/ job[j].s \in cut'
  /\ cut \subseteq cut'

\* in the deals,
CalmDeals ==
  /\ fresh' \subseteq fresh /\ reopened \subseteq reopened'
  /\ \A d \in Deal \ fresh : Sealed(d) => Sealed(d)'
  /\ \A d \in Deal \ advanced' : (deal'[d] # None /\ deal'[d].sale # None) =>
       d \notin advanced /\ deal[d] # None /\ deal'[d].sale = deal[d].sale
  /\ \A d \in Deal \ reopened' : OpenDeal(d)' => OpenDeal(d) \/ d \in fresh

\* and in the sales.
CalmSales ==
  \A s \in Sale : /\ sale[s] # None => sale'[s] # None /\ sale'[s].deal = sale[s].deal
                  /\ (sale[s] = None /\ sale'[s] # None) => sale'[s].deal = None

LEMMA SalesCalm ==
  ASSUME CrmInv, LinksInv, CalmSelling, CalmSales
  PROVE  SalesInv'
<1>1. \A j \in Job : Selling(j) => job[j].s \in Sale /\ sale[job[j].s] # None
  BY DEF CrmInv, JobsSound, TaskSound, Sold, Selling
<1> QED
  BY <1>1 DEF LinksInv, SalesInv, CalmSelling, CalmSales

LEMMA CalmStep ==
  ASSUME CrmInv, LinksInv, SalesInv', CalmJobs, CalmDeals, CalmSales
  PROVE  LinksInv'
<1>j. /\ \A j \in Job : Selling(j) => job[j].s \in Sale /\ sale[job[j].s] # None
      /\ \A j \in Job : Is(j, "win", "mark") \/ Is(j, "win", "link") =>
           job[j].d \in Deal \ fresh /\ Selling(j)
  BY DEF CrmInv, JobsSound, TaskSound, Sold, Selling, Is
<1>s. \A d \in Deal : SalesOf(d)' = SalesOf(d)
  BY CrmAssumption DEF CalmSales, SalesOf
<1>2. LinkedInv'
  <2>1. ASSUME NEW s \in Sold', sale'[s].deal # None
        PROVE  sale'[s].deal \in Deal \ fresh' /\ (Sealed(sale[s].deal))'
    <3>1. s \in Sold /\ sale'[s].deal = sale[s].deal
      BY <2>1 DEF CalmSales, Sold
    <3>2. PICK d \in Deal : d = sale[s].deal /\ d \notin fresh /\ Sealed(d)
      BY <2>1, <3>1 DEF LinksInv, LinkedInv
    <3>3. Sealed(d)' /\ d \notin fresh'
      BY <3>2 DEF CalmDeals
    <3> QED
      BY <3>1, <3>2, <3>3 DEF Sealed
  <2>2. ASSUME NEW j \in Job, Is(j, "win", "link")'
        PROVE  (Sealed(job[j].d))'
    <3>1. Is(j, "win", "link") /\ job'[j].d = job[j].d
      BY <2>2 DEF CalmJobs
    <3>2. PICK d \in Deal : d = job[j].d /\ d \notin fresh /\ Sealed(d)
      BY <1>j, <3>1 DEF LinksInv, LinkedInv
    <3>3. Sealed(d)'
      BY <3>2 DEF CalmDeals
    <3> QED
      BY <3>1, <3>2, <3>3 DEF Sealed
  <2> QED
    BY <2>1, <2>2 DEF LinkedInv
<1>3. NamedBack'
  <2> SUFFICES ASSUME NEW d \in Deal \ advanced', deal'[d] # None, deal'[d].sale # None,
                      NEW s, s = deal'[d].sale
               PROVE  sale'[s] # None /\ (sale'[s].deal = d \/ Linking(s, d)' \/ s \in cut')
    BY DEF NamedBack
  <2>1. /\ d \notin advanced /\ deal[d] # None /\ deal[d].sale = s
        /\ deal[d].sale \in Sale
    BY DealType DEF CalmDeals, CrmInv, DealDoc
  <2>2. sale[s] # None /\ (sale[s].deal = d \/ Linking(s, d) \/ s \in cut)
    BY <2>1 DEF LinksInv, NamedBack
  <2>3. Linking(s, d) => Linking(s, d)' \/ s \in cut'
    BY DEF CalmJobs, Linking, Selling, Is
  <2> QED
    BY <2>1, <2>2, <2>3 DEF CalmSales, CalmJobs
<1>4. UnsoldInv'
  <2> SUFFICES ASSUME NEW d \in Deal \ reopened', OpenDeal(d)'
               PROVE  /\ SalesOf(d)' = {}
                      /\ \A j \in Job : Is(j, "win", "link")' => job'[j].d # d
    BY DEF UnsoldInv
  <2>1. CASE OpenDeal(d)
    BY <1>s, <2>1 DEF LinksInv, UnsoldInv, CalmDeals, CalmJobs
  <2>2. CASE d \in fresh
    BY <1>j, <1>s, <2>2, CrmAssumption
       DEF LinksInv, LinkedInv, CalmJobs, SalesOf, Sold
  <2> QED
    BY <2>1, <2>2 DEF CalmDeals
<1>5. SalesWithin'
  <2> SUFFICES ASSUME NEW d \in Deal \ reopened'
               PROVE  Within(SalesOf(d)', Winners(d)')
    BY DEF SalesWithin
  <2>1. Within(SalesOf(d), Winners(d)) /\ Winners(d) \in SUBSET Job
    BY DEF LinksInv, SalesWithin, CalmDeals, Winners
  <2>2. Winners(d)' \in SUBSET Winners(d)
    BY DEF CalmJobs, Winners
  <2> QED
    BY <1>s, <2>1, <2>2, WithinFewer
<1> QED
  BY <1>2, <1>3, <1>4, <1>5 DEF LinksInv

\* A step of one job, which finds no deal and writes none.
LEMMA OneJobCalm ==
  ASSUME NEW j \in Job, cut \subseteq cut',
         \A x \in Job \ {j} : job'[x] = job[x],
         \/ job'[j] = None
         \/ job'[j].op # "win"
         \/ Selling(j) /\ job'[j].s = job[j].s /\ job'[j].at \notin {"mark", "link"},
         Is(j, "win", "link") => job[j].s \in cut'
  PROVE  CalmSelling /\ CalmJobs
<1>1. CalmSelling
  BY DEF CalmSelling, Selling
<1>2. CalmJobs
  BY DEF CalmJobs, Selling, Is
<1> QED
  BY <1>1, <1>2

LEMMA ContinueCalm ==
  ASSUME CrmInv, NEW j \in Job, Continue(j),
         ~FindOpenDeal(j), ~MarkDealWon(j), ~LinkSale(j)
  PROVE  CalmSelling /\ CalmJobs
<1>t. job \in [Job -> Task \cup {None}]
  BY DEF CrmInv, TypeOK
<1>1. ASSUME Done(j), cut \subseteq cut', Is(j, "win", "link") => job[j].s \in cut'
      PROVE  CalmSelling /\ CalmJobs
  <2>1. job'[j] = None /\ \A x \in Job \ {j} : job'[x] = job[x]
    BY <1>t, <1>1 DEF Done
  <2> QED
    BY <1>1, <2>1, OneJobCalm
<1>2. ASSUME NEW at \in {"makePipeline", "create"}, Go(j, at), UNCHANGED cut,
             job[j] # None, job[j].at # "link"
      PROVE  CalmSelling /\ CalmJobs
  <2>1. job[j] \in Task
    BY <1>t, <1>2
  <2>2. job'[j] = [job[j] EXCEPT !.at = at] /\ \A x \in Job \ {j} : job'[x] = job[x]
    BY <1>t, <1>2 DEF Go
  <2>3. /\ job'[j].op = job[j].op /\ job'[j].s = job[j].s
        /\ job'[j].at \notin {"mark", "link"}
    BY <2>1, <2>2 DEF Task
  <2> QED
    BY <1>2, <2>2, <2>3, OneJobCalm DEF Selling, Is
<1>3. ASSUME NEW p \in Pipeline, Reach(j, p), UNCHANGED cut,
             job[j] # None, job[j].at # "link"
      PROVE  CalmSelling /\ CalmJobs
  <2>1. job[j] \in Task
    BY <1>t, <1>3
  <2>2. /\ job'[j] \in {None, [job[j] EXCEPT !.pipe = p, !.at = "deal"]}
        /\ \A x \in Job \ {j} : job'[x] = job[x]
    BY <1>t, <1>3 DEF Reach
  <2>3. \/ job'[j] = None
        \/ /\ job'[j].op = job[j].op /\ job'[j].s = job[j].s
           /\ job'[j].at \notin {"mark", "link"}
    BY <2>1, <2>2 DEF Task
  <2> QED
    BY <1>3, <2>2, <2>3, OneJobCalm DEF Selling, Is
<1>4. CASE FindDefault(j)
  BY <1>2, <1>3, <1>4 DEF FindDefault, Defaults, history, CrmInv, TypeOK
<1>5. CASE CreateDefault(j)
  BY <1>3, <1>5, NextIdType DEF CreateDefault, history, CrmInv, TypeOK
<1>6. CASE FindLead(j)
  BY <1>1, <1>2, <1>6 DEF FindLead, history, Is
<1>7. CASE Lose(j)
  BY <1>1, <1>7 DEF Lose
<1> QED
  BY <1>1, <1>4, <1>5, <1>6, <1>7
     DEF Continue, CreateLead, AdvanceOpenDeal, MarkRecompraSent,
         UpdateConversationState, history, Is

\* Steps that change no deal, or create one,
LEMMA SameDeals ==
  ASSUME UNCHANGED <<deal, fresh, reopened, advanced>> PROVE CalmDeals
  BY DEF CalmDeals, Sealed, OpenDeal

LEMMA InsertCalm ==
  ASSUME TypeOK, NEW d \in Deal, NEW c, NEW p, Insert(d, c, p),
         UNCHANGED <<reopened, advanced>>
  PROVE  CalmDeals
<1>1. /\ \A x \in Deal \ {d} : deal'[x] = deal[x]
      /\ deal'[d] = [pipe |-> p, contact |-> c, status |-> "open", sale |-> None]
      /\ d \in fresh /\ fresh' = fresh \ {d}
  BY DEF Insert, TypeOK
<1>2. deal'[d].sale = None
  BY <1>1
<1> QED
  BY <1>1, <1>2 DEF CalmDeals, Sealed, OpenDeal

\* or change one deal and what it says.
LEMMA ChangedCalm ==
  ASSUME TypeOK, NEW d \in Deal, deal[d] # None,
         \A x \in Deal \ {d} : deal'[x] = deal[x],
         fresh' = fresh, reopened \subseteq reopened', advanced \subseteq advanced',
         deal'[d] # None =>
           /\ deal'[d].sale = deal[d].sale \/ deal'[d].sale # None
           /\ deal'[d].sale = deal[d].sale \/ d \in advanced'
           /\ deal'[d].status = "open" => deal[d].status = "open" \/ d \in reopened'
  PROVE  CalmDeals
  BY DEF CalmDeals, Sealed, OpenDeal

LEMMA AdvanceCalm ==
  ASSUME CrmInv, NEW j \in Job, AdvanceOpenDeal(j) PROVE CalmDeals
<1>1. CASE UNCHANGED <<deal, advanced>>
  BY <1>1, SameDeals DEF AdvanceOpenDeal
<1>2. ASSUME NEW d \in OpenDeals(job[j].c, job[j].pipe), NEW st, NEW s,
             deal' = [deal EXCEPT ![d].status = st, ![d].sale = s],
             s = deal[d].sale \/ (s # None /\ d \in advanced'),
             advanced \subseteq advanced'
      PROVE  CalmDeals
  <2>1. d \in Deal /\ deal[d] # None /\ deal[d].status = "open" /\ deal[d] \in DealDoc
    BY OpenDealsAre, DealType DEF CrmInv
  <2>2. /\ deal'[d] = [deal[d] EXCEPT !.status = st, !.sale = s]
        /\ \A x \in Deal \ {d} : deal'[x] = deal[x]
    BY <1>2, <2>1 DEF CrmInv, TypeOK
  <2>3. deal'[d].sale = s
    BY <2>1, <2>2 DEF DealDoc
  <2> QED
    BY <1>2, <2>1, <2>2, <2>3, ChangedCalm DEF AdvanceOpenDeal, CrmInv
<1>3. ASSUME NEW d \in OpenDeals(job[j].c, job[j].pipe),
             deal' = [deal EXCEPT
                        ![d].status = IF job[j].to = None THEN @ ELSE job[j].to,
                        ![d].sale = IF job[j].s = None THEN @ ELSE job[j].s],
             advanced' = IF job[j].s = None THEN advanced ELSE advanced \cup {d}
      PROVE  CalmDeals
  <2>1. PICK st : st = IF job[j].to = None THEN deal[d].status ELSE job[j].to
    OBVIOUS
  <2>2. PICK s : s = IF job[j].s = None THEN deal[d].sale ELSE job[j].s
    OBVIOUS
  <2>3. d \in Deal /\ deal[d] \in DealDoc
    BY OpenDealsAre, DealType DEF CrmInv
  <2>4. deal' = [deal EXCEPT ![d].status = st, ![d].sale = s]
    BY <1>3, <2>1, <2>2, <2>3 DEF CrmInv, TypeOK, DealDoc
  <2>5. s = deal[d].sale \/ (s # None /\ d \in advanced')
    BY <1>3, <2>2
  <2>6. advanced \subseteq advanced'
    BY <1>3
  <2> QED
    BY <1>2, <2>4, <2>5, <2>6
<1> QED
  BY <1>1, <1>3 DEF AdvanceOpenDeal

LEMMA PanelCalm ==
  ASSUME CrmInv, Panel PROVE CalmSelling /\ CalmJobs /\ CalmDeals /\ CalmSales
<1>t. TypeOK
  BY DEF CrmInv
<1>1. UNCHANGED <<job, cut, sale>>
  BY DEF Panel, CreateDeal, UpdateDeal, DeleteDeal, history
<1>2. CalmSelling /\ CalmJobs /\ CalmSales
  BY <1>1 DEF CalmSelling, CalmJobs, CalmSales, Selling, Is
<1>3. ASSUME NEW c \in Contact, NEW p \in Pipeline, CreateDeal(c, p) PROVE CalmDeals
  BY <1>t, <1>3, InsertCalm DEF CreateDeal
<1>4. ASSUME NEW d \in Deal, DeleteDeal(d) PROVE CalmDeals
  <2>1. deal[d] # None /\ deal'[d] = None /\ \A x \in Deal \ {d} : deal'[x] = deal[x]
    BY <1>t, <1>4 DEF DeleteDeal, TypeOK
  <2> QED
    BY <1>t, <1>4, <2>1, ChangedCalm DEF DeleteDeal, history
<1>5. ASSUME NEW d \in Deal, NEW c \in Contact, NEW st \in Status, UpdateDeal(d, c, st)
      PROVE  CalmDeals
  <2>1. deal[d] # None /\ deal[d] \in DealDoc
    BY <1>t, <1>5, DealType DEF UpdateDeal
  <2>2. /\ deal'[d] = [deal[d] EXCEPT !.contact = c, !.status = st]
        /\ \A x \in Deal \ {d} : deal'[x] = deal[x]
    BY <1>t, <1>5 DEF UpdateDeal, TypeOK
  <2>3. deal'[d].sale = deal[d].sale /\ deal'[d].status = st
    BY <2>1, <2>2 DEF DealDoc
  <2>4. /\ fresh' = fresh /\ advanced' = advanced /\ reopened \subseteq reopened'
        /\ Reopens(d, c, st) => d \in reopened'
    BY <1>5 DEF UpdateDeal
  <2> QED
    BY <1>t, <2>1, <2>2, <2>3, <2>4, ChangedCalm DEF Reopens
<1> QED
  BY <1>2, <1>3, <1>4, <1>5 DEF Panel

-----------------------------------------------------------------------------
(***************************************************************************)
(* The steps of a sale.                                                    *)
(***************************************************************************)

\* A sale that is found open has not been linked by anyone, so that one more
\* job to link it stays within the number of jobs.
LEMMA FindOpenDealLinks ==
  ASSUME CrmInv, LinksInv, NEW j \in Job, FindOpenDeal(j)
  PROVE  LinksInv'
<1>t. TypeOK
  BY DEF CrmInv
<1>u. UNCHANGED <<deal, fresh, sale, reopened, advanced, cut>>
  BY DEF FindOpenDeal, documents, history
<1>1. CASE Done(j)
  <2>1. job'[j] = None /\ \A x \in Job \ {j} : job'[x] = job[x]
    BY <1>t, <1>1 DEF Done, TypeOK
  <2>2. CalmSelling /\ CalmJobs
    BY <1>u, <2>1, OneJobCalm DEF FindOpenDeal, Is
  <2>3. CalmDeals /\ CalmSales
    BY <1>u, SameDeals DEF CalmSales
  <2> QED
    BY <2>2, <2>3, SalesCalm, CalmStep
<1>2. ASSUME NEW d \in OpenDeals(job[j].c, job[j].pipe),
             job' = [job EXCEPT ![j].d = d, ![j].at = "mark"]
      PROVE  LinksInv'
  <2>d. d \in Deal /\ OpenDeal(d)
    BY OpenDealsAre DEF OpenDeal
  <2>1. /\ job[j] \in Task /\ job'[j] = [job[j] EXCEPT !.d = d, !.at = "mark"]
        /\ \A x \in Job \ {j} : job'[x] = job[x]
    BY <1>t, <1>2, JobType DEF FindOpenDeal, Is, TypeOK
  <2>n. job'[j] # None
    <3>1. [job[j] EXCEPT !.d = d, !.at = "mark"] \in Task
      BY <2>1, <2>d DEF Task, At
    <3> QED
      BY <2>1, <3>1, CrmAssumption
  <2>2. /\ job[j].op = "win" /\ job[j].at = "deal" /\ job[j] # None /\ job'[j] # None
        /\ job'[j].op = "win" /\ job'[j].at = "mark" /\ job'[j].d = d
        /\ job'[j].s = job[j].s
    BY <2>1, <2>n DEF FindOpenDeal, Is, Task
  <2>3. /\ \A k \in Job : Selling(k)' <=> Selling(k)
        /\ \A k \in Job : job'[k].s = job[k].s
        /\ \A k \in Job : Is(k, "win", "link")' <=> Is(k, "win", "link")
        /\ \A k \in Job : Is(k, "win", "link") => k # j
    BY <2>1, <2>2 DEF Selling, Is
  <2>4. SalesInv'
    BY <1>u, <2>3 DEF LinksInv, SalesInv
  <2>5. LinkedInv'
    BY <1>u, <2>1, <2>3 DEF LinksInv, LinkedInv, Sold, Sealed
  <2>6. NamedBack'
    BY <1>u, <2>1, <2>3 DEF LinksInv, NamedBack, Linking
  <2>7. UnsoldInv'
    BY <1>u, <2>1, <2>3 DEF LinksInv, UnsoldInv, OpenDeal, SalesOf
  <2>8. SalesWithin'
    <3> SUFFICES ASSUME NEW e \in Deal \ reopened
                 PROVE  Within(SalesOf(e)', Winners(e)')
      BY <1>u DEF SalesWithin
    <3>1. SalesOf(e)' = SalesOf(e) /\ Winners(e) \in SUBSET Job /\ Winners(e)' \in SUBSET Job
      BY <1>u DEF SalesOf, Winners
    <3>2. CASE e = d
      BY <2>d, <3>1, <3>2, WithinNone DEF LinksInv, UnsoldInv
    <3>3. CASE e # d
      <4>1. Winners(e)' \in SUBSET Winners(e)
        BY <2>1, <2>2, <3>3 DEF Winners, Is
      <4> QED
        BY <3>1, <4>1, WithinFewer DEF LinksInv, SalesWithin
    <3> QED
      BY <3>2, <3>3
  <2> QED
    BY <2>4, <2>5, <2>6, <2>7, <2>8 DEF LinksInv
<1> QED
  BY <1>1, <1>2 DEF FindOpenDeal

\* A deal that is won names its sale, which is about to name it.
LEMMA MarkDealWonLinks ==
  ASSUME CrmInv, LinksInv, NEW j \in Job, MarkDealWon(j)
  PROVE  LinksInv'
<1>t. TypeOK
  BY DEF CrmInv
<1>j. PICK d \in Deal, s \in Sale :
        /\ d = job[j].d /\ s = job[j].s
        /\ d \notin fresh /\ sale[s] # None /\ s # None
        /\ job[j] \in Task
  BY JobType, CrmAssumption
     DEF MarkDealWon, Is, CrmInv, JobsSound, TaskSound, Sold
<1>1. /\ job'[j] = [job[j] EXCEPT !.at = "link"] /\ job[j] # None
      /\ \A x \in Job \ {j} : job'[x] = job[x]
  BY <1>t DEF MarkDealWon, Go, Is, TypeOK
<1>n. job'[j] # None
  <2>1. [job[j] EXCEPT !.at = "link"] \in Task
    BY <1>j DEF Task, At
  <2> QED
    BY <1>1, <2>1, CrmAssumption
<1>2. /\ job[j].op = "win" /\ job[j].at = "mark" /\ job'[j] # None
      /\ job'[j].op = "win" /\ job'[j].at = "link" /\ job'[j].d = d /\ job'[j].s = s
  BY <1>j, <1>1, <1>n DEF MarkDealWon, Is, Task
<1>3. /\ UNCHANGED <<fresh, sale, reopened, cut>>
      /\ \A e \in Deal \ {d} : deal'[e] = deal[e] /\ (e \in advanced' <=> e \in advanced)
  BY <1>j, <1>t DEF MarkDealWon, TypeOK
<1>4. deal'[d] # None => deal'[d].sale = s /\ deal'[d].status = "won"
  <2>1. CASE deal[d] = None
    BY <1>j, <2>1 DEF MarkDealWon
  <2>2. CASE deal[d] # None
    <3>1. deal[d] \in DealDoc /\ deal'[d] = [deal[d] EXCEPT !.status = "won", !.sale = s]
      BY <1>j, <1>t, <2>2, DealType DEF MarkDealWon, Won, TypeOK
    <3> QED
      BY <3>1 DEF DealDoc
  <2> QED
    BY <2>1, <2>2
<1>5. /\ \A k \in Job : Selling(k)' <=> Selling(k)
      /\ \A k \in Job : job'[k].s = job[k].s /\ job'[k].d = job[k].d
      /\ \A k \in Job \ {j} : Is(k, "win", "link")' <=> Is(k, "win", "link")
      /\ Is(j, "win", "link")' /\ ~Is(j, "win", "link")
  BY <1>j, <1>1, <1>2 DEF Selling, Is
<1>6. SalesInv'
  BY <1>3, <1>5 DEF LinksInv, SalesInv
<1>7. \A e \in Deal \ fresh : Sealed(e) => Sealed(e)'
  BY <1>j, <1>3, <1>4 DEF Sealed
<1>8. LinkedInv'
  <2>1. ASSUME NEW t \in Sold', sale'[t].deal # None
        PROVE  sale'[t].deal \in Deal \ fresh' /\ (Sealed(sale[t].deal))'
    <3>1. PICK e : e = sale[t].deal /\ e = sale'[t].deal /\ t \in Sold
      BY <1>3, <2>1 DEF Sold
    <3>2. e \in Deal \ fresh /\ Sealed(e)
      BY <1>3, <2>1, <3>1 DEF LinksInv, LinkedInv
    <3>3. Sealed(e)'
      BY <1>7, <3>2
    <3> QED
      BY <1>3, <3>1, <3>2, <3>3 DEF Sealed
  <2>2. ASSUME NEW k \in Job, Is(k, "win", "link")'
        PROVE  (Sealed(job[k].d))'
    <3>1. PICK e : e = job[k].d /\ e = job'[k].d
      BY <1>5
    <3>2. Sealed(e)'
      <4>1. CASE k = j
        BY <1>j, <1>4, <3>1, <4>1 DEF Sealed
      <4>2. CASE k # j
        <5>1. e \in Deal \ fresh /\ Sealed(e)
          BY <1>5, <2>2, <3>1, <4>2
             DEF LinksInv, LinkedInv, CrmInv, JobsSound, TaskSound, Is
        <5> QED
          BY <1>7, <5>1
      <4> QED
        BY <4>1, <4>2
    <3> QED
      BY <3>1, <3>2 DEF Sealed
  <2> QED
    BY <2>1, <2>2 DEF LinkedInv
<1>9. NamedBack'
  <2> SUFFICES ASSUME NEW e \in Deal \ advanced', deal'[e] # None, deal'[e].sale # None,
                      NEW t, t = deal'[e].sale
               PROVE  sale'[t] # None /\ (sale'[t].deal = e \/ Linking(t, e)' \/ t \in cut')
    BY DEF NamedBack
  <2>1. CASE e = d
    <3>1. t = s /\ Linking(s, d)'
      BY <1>2, <1>4, <1>5, <2>1 DEF Linking
    <3> QED
      BY <1>j, <1>3, <2>1, <3>1
  <2>2. CASE e # d
    <3>1. sale[t] # None /\ (sale[t].deal = e \/ Linking(t, e) \/ t \in cut)
      BY <1>3, <2>2 DEF LinksInv, NamedBack
    <3>2. Linking(t, e) => Linking(t, e)'
      BY <1>5 DEF Linking
    <3> QED
      BY <1>3, <3>1, <3>2
  <2> QED
    BY <2>1, <2>2
<1>10. UnsoldInv'
  BY <1>j, <1>3, <1>4, <1>5 DEF LinksInv, UnsoldInv, OpenDeal, SalesOf
<1>11. SalesWithin'
  <2>1. \A e \in Deal : SalesOf(e)' = SalesOf(e) /\ Winners(e) \in SUBSET Job
    BY <1>3 DEF SalesOf, Winners
  <2>2. \A e \in Deal : Winners(e)' \in SUBSET Winners(e)
    <3> SUFFICES ASSUME NEW e \in Deal, NEW k \in Winners(e)' PROVE k \in Winners(e)
      OBVIOUS
    <3>1. k \in Job /\ (Is(k, "win", "mark")' \/ Is(k, "win", "link")') /\ job'[k].d = e
      BY DEF Winners
    <3>2. CASE k = j
      BY <1>j, <1>1, <1>2, <3>1, <3>2 DEF Winners, Is
    <3>3. CASE k # j
      BY <1>1, <3>1, <3>3 DEF Winners, Is
    <3> QED
      BY <3>2, <3>3
  <2> QED
    BY <1>3, <2>1, <2>2, WithinFewer DEF LinksInv, SalesWithin
<1> QED
  BY <1>6, <1>8, <1>9, <1>10, <1>11 DEF LinksInv

\* The job that names the deal in the sale is the only one of the sale.
LEMMA LinkSaleLinks ==
  ASSUME CrmInv, LinksInv, NEW j \in Job, LinkSale(j)
  PROVE  LinksInv'
<1>t. TypeOK
  BY DEF CrmInv
<1>j. PICK d \in Deal, s \in Sale :
        /\ d = job[j].d /\ s = job[j].s
        /\ d \notin fresh /\ Sealed(d)
        /\ sale[s] # None /\ sale[s] \in SaleDoc /\ sale[s].deal = None
        /\ d # None /\ job[j] # None
  BY <1>t, SaleType, CrmAssumption
     DEF LinkSale, Is, CrmInv, JobsSound, TaskSound, Sold, LinksInv, LinkedInv,
         SalesInv, Selling
<1>1. job'[j] = None /\ \A x \in Job \ {j} : job'[x] = job[x]
  BY <1>t DEF LinkSale, Done, TypeOK
<1>2. /\ sale'[s] = [sale[s] EXCEPT !.deal = d]
      /\ \A t \in Sale \ {s} : sale'[t] = sale[t]
  BY <1>j, <1>t DEF LinkSale, Linked, TypeOK
<1>3. sale'[s] # None /\ sale'[s].deal = d
  <2>1. [sale[s] EXCEPT !.deal = d] \in SaleDoc
    BY <1>j DEF SaleDoc
  <2> QED
    BY <1>j, <1>2, <2>1, CrmAssumption DEF SaleDoc
<1>4. UNCHANGED <<deal, fresh, reopened, advanced, cut>>
  BY DEF LinkSale, history
<1>5. Selling(j) /\ Is(j, "win", "link")
  BY DEF LinkSale, Selling, Is
<1>6. \A k \in Job \ {j} : Selling(k) => job[k].s # s
  BY <1>j, <1>5 DEF LinksInv, SalesInv
<1>7. SalesInv'
  <2> SUFFICES ASSUME NEW k \in Job, Selling(k)'
               PROVE  /\ sale'[job'[k].s].deal = None
                      /\ \A l \in Job : Selling(l)' /\ job'[l].s = job'[k].s => l = k
    BY DEF SalesInv
  <2>1. k # j /\ Selling(k) /\ job'[k] = job[k]
    BY <1>1 DEF Selling
  <2>2. sale'[job'[k].s].deal = None
    <3>1. job[k].s \in Sale \ {s}
      BY <1>6, <2>1 DEF Selling, CrmInv, JobsSound, TaskSound, Sold
    <3> QED
      BY <1>2, <2>1, <3>1 DEF LinksInv, SalesInv
  <2>3. \A l \in Job : Selling(l)' /\ job'[l].s = job'[k].s => l = k
    BY <1>1, <2>1 DEF LinksInv, SalesInv, Selling
  <2> QED
    BY <2>2, <2>3
<1>8. LinkedInv'
  <2>1. ASSUME NEW t \in Sold', sale'[t].deal # None
        PROVE  sale'[t].deal \in Deal \ fresh' /\ (Sealed(sale[t].deal))'
    <3>1. PICK e : e = sale'[t].deal
      OBVIOUS
    <3>2. e \in Deal \ fresh /\ Sealed(e)
      <4>1. CASE t = s
        BY <1>j, <1>3, <3>1, <4>1
      <4>2. CASE t # s
        BY <1>2, <2>1, <3>1, <4>2 DEF LinksInv, LinkedInv, Sold
      <4> QED
        BY <4>1, <4>2
    <3> QED
      BY <1>4, <3>1, <3>2 DEF Sealed
  <2>2. ASSUME NEW k \in Job, Is(k, "win", "link")'
        PROVE  (Sealed(job[k].d))'
    <3>1. Is(k, "win", "link") /\ job'[k] = job[k]
      BY <1>1, <2>2 DEF Is
    <3> QED
      BY <1>4, <3>1 DEF LinksInv, LinkedInv, Sealed
  <2> QED
    BY <2>1, <2>2 DEF LinkedInv
<1>9. NamedBack'
  <2> SUFFICES ASSUME NEW e \in Deal \ advanced, deal[e] # None, deal[e].sale # None,
                      NEW t, t = deal[e].sale
               PROVE  sale'[t] # None /\ (sale'[t].deal = e \/ Linking(t, e)' \/ t \in cut)
    BY <1>4 DEF NamedBack
  <2>1. t \in Sale
    BY <1>t, DealType DEF DealDoc
  <2>2. sale[t] # None /\ (sale[t].deal = e \/ Linking(t, e) \/ t \in cut)
    BY DEF LinksInv, NamedBack
  <2>3. CASE t = s
    <3>1. Linking(s, e) => e = d
      BY <1>j, <1>6 DEF Linking, Selling, Is
    <3>2. sale[s].deal # e
      BY <1>j, CrmAssumption
    <3> QED
      BY <1>3, <2>2, <2>3, <3>1, <3>2
  <2>4. CASE t # s
    <3>1. Linking(t, e) => Linking(t, e)'
      <4>1. \A k \in Job : Is(k, "win", "link") /\ job[k].s = t => k # j
        BY <1>j, <2>4
      <4> QED
        BY <1>1, <4>1 DEF Linking, Is
    <3> QED
      BY <1>2, <2>1, <2>2, <2>4, <3>1
  <2> QED
    BY <2>3, <2>4
<1>10. \A e \in Deal \ {d} : SalesOf(e)' \in SUBSET SalesOf(e)
  BY <1>2, <1>3 DEF SalesOf
<1>11. UnsoldInv'
  <2> SUFFICES ASSUME NEW e \in Deal \ reopened, OpenDeal(e)
               PROVE  /\ SalesOf(e)' = {}
                      /\ \A k \in Job : Is(k, "win", "link")' => job'[k].d # e
    BY <1>4 DEF UnsoldInv, OpenDeal
  <2>1. e # d
    BY <1>j, <1>5 DEF LinksInv, UnsoldInv
  <2>2. SalesOf(e)' = {}
    BY <1>10, <2>1 DEF LinksInv, UnsoldInv
  <2>3. \A k \in Job : Is(k, "win", "link")' => job'[k].d # e
    BY <1>1 DEF LinksInv, UnsoldInv, Is
  <2> QED
    BY <2>2, <2>3
<1>12. SalesWithin'
  <2> SUFFICES ASSUME NEW e \in Deal \ reopened PROVE Within(SalesOf(e)', Winners(e)')
    BY <1>4 DEF SalesWithin
  <2>1. /\ Within(SalesOf(e), Winners(e)) /\ Winners(e) \in SUBSET Job
        /\ Winners(e)' \in SUBSET (Winners(e) \ {j})
    BY <1>1 DEF LinksInv, SalesWithin, Winners, Is
  <2>2. CASE e = d
    <3>1. j \in Winners(d)
      BY <1>j, <1>5 DEF Winners
    <3>2. Within(SalesOf(d) \cup {s}, Winners(d) \ {j})
      BY <2>1, <2>2, <3>1, WithinCreated
    <3>3. SalesOf(d)' \in SUBSET (SalesOf(d) \cup {s})
      BY <1>2 DEF SalesOf
    <3>4. Winners(d) \ {j} \in SUBSET Job
      BY DEF Winners
    <3> QED
      BY <2>1, <2>2, <3>2, <3>3, <3>4, WithinFewer
  <2>3. CASE e # d
    <3>1. SalesOf(e)' \in SUBSET SalesOf(e)
      BY <1>10, <2>3
    <3> QED
      BY <2>1, <3>1, WithinFewer
  <2> QED
    BY <2>2, <2>3
<1> QED
  BY <1>7, <1>8, <1>9, <1>11, <1>12 DEF LinksInv

\* A new sale has no other job than the one it starts.
LEMMA CreateSaleLinks ==
  ASSUME CrmInv, LinksInv, NEW j \in Job, NEW c \in Contact, NEW st \in SaleStatus,
         CreateSale(j, c, st)
  PROVE  LinksInv'
<1>t. TypeOK
  BY DEF CrmInv
<1>1. PICK s \in Sale :
        /\ sale[s] = None
        /\ sale' = [sale EXCEPT ![s] = [contact |-> c, status |-> st,
                                        deal |-> None, sent |-> FALSE]]
        /\ IF st = "confirmed" THEN Start(j, "win", "pipeline", c, s, None, {})
           ELSE UNCHANGED job
  BY DEF CreateSale
<1>2. sale'[s].deal = None /\ \A t \in Sale \ {s} : sale'[t] = sale[t]
  BY <1>1, <1>t DEF TypeOK
<1>3. CalmSales
  BY <1>1, <1>2 DEF CalmSales
<1>4. CalmDeals /\ UNCHANGED cut
  BY SameDeals DEF CreateSale, history
<1>5. CASE UNCHANGED job
  <2>1. CalmSelling /\ CalmJobs
    BY <1>4, <1>5 DEF CalmSelling, CalmJobs, Selling, Is
  <2> QED
    BY <1>3, <1>4, <2>1, SalesCalm, CalmStep
<1>6. CASE Start(j, "win", "pipeline", c, s, None, {})
  <2>1. /\ job[j] = None /\ \A x \in Job \ {j} : job'[x] = job[x]
        /\ job'[j].op = "win" /\ job'[j].at = "pipeline" /\ job'[j].s = s
    BY <1>6, <1>t DEF Start, TypeOK
  <2>2. \A k \in Job : Selling(k) => job[k].s \in Sale \ {s} /\ k # j
    BY <1>1, <2>1 DEF CrmInv, JobsSound, TaskSound, Sold, Selling
  <2>3. SalesInv'
    <3> SUFFICES ASSUME NEW k \in Job, Selling(k)'
                 PROVE  /\ sale'[job'[k].s].deal = None
                        /\ \A l \in Job : Selling(l)' /\ job'[l].s = job'[k].s => l = k
      BY DEF SalesInv
    <3>1. \A l \in Job \ {j} : Selling(l)' => /\ Selling(l) /\ job'[l] = job[l]
                                              /\ job[l].s \in Sale \ {s}
      BY <2>1, <2>2 DEF Selling
    <3>2. CASE k = j
      BY <1>2, <2>1, <3>1, <3>2
    <3>3. CASE k # j
      BY <1>2, <2>1, <3>1, <3>3 DEF LinksInv, SalesInv
    <3> QED
      BY <3>2, <3>3
  <2>4. CalmJobs
    BY <1>4, <2>1 DEF CalmJobs, Is
  <2> QED
    BY <1>3, <1>4, <2>3, <2>4, CalmStep
<1> QED
  BY <1>1, <1>5, <1>6

LEMMA LinksStep == CrmInv /\ LinksInv /\ [Next]_vars => LinksInv'
<1> SUFFICES ASSUME CrmInv, LinksInv, [Next]_vars PROVE LinksInv'
  OBVIOUS
<1>t. TypeOK
  BY DEF CrmInv
<1>1. ASSUME CalmSelling, CalmJobs, CalmDeals, CalmSales PROVE LinksInv'
  BY <1>1, SalesCalm, CalmStep
<1>2. ASSUME UNCHANGED sale PROVE CalmSales
  BY <1>2 DEF CalmSales
<1>3. ASSUME NEW j \in Job, Continue(j) PROVE LinksInv'
  <2>1. ASSUME ~FindOpenDeal(j), ~MarkDealWon(j), ~LinkSale(j) PROVE LinksInv'
    <3>1. CalmSelling /\ CalmJobs
      BY <1>3, <2>1, ContinueCalm
    <3>2. ASSUME CreateLead(j) PROVE CalmDeals /\ CalmSales
      <4>1. PICK d \in Deal : Insert(d, job[j].c, job[j].pipe)
        BY <3>2 DEF CreateLead
      <4> QED
        BY <1>2, <1>t, <3>2, <4>1, InsertCalm DEF CreateLead, history
    <3>3. ASSUME AdvanceOpenDeal(j) PROVE CalmDeals /\ CalmSales
      BY <1>2, <3>3, AdvanceCalm DEF AdvanceOpenDeal
    <3>4. ASSUME MarkRecompraSent(j) PROVE CalmDeals /\ CalmSales
      <4>1. PICK s \in Sale : s = job[j].s /\ sale[s] # None /\ sale[s] \in SaleDoc
        BY <1>t, <3>4, SaleType
           DEF MarkRecompraSent, Is, CrmInv, JobsSound, TaskSound, Sold
      <4>2. /\ sale'[s] = [sale[s] EXCEPT !.sent = TRUE]
            /\ \A t \in Sale \ {s} : sale'[t] = sale[t]
        BY <1>t, <3>4, <4>1 DEF MarkRecompraSent, TypeOK
      <4>3. [sale[s] EXCEPT !.sent = TRUE] \in SaleDoc
        BY <4>1 DEF SaleDoc
      <4>4. sale'[s] # None /\ sale'[s].deal = sale[s].deal
        BY <4>1, <4>2, <4>3, CrmAssumption DEF SaleDoc
      <4> QED
        BY <3>4, <4>1, <4>2, <4>4, SameDeals DEF MarkRecompraSent, history, CalmSales
    <3> QED
      BY <1>1, <1>2, <1>3, <2>1, <3>1, <3>2, <3>3, <3>4, SameDeals
         DEF Continue, FindDefault, CreateDefault, FindLead, Lose,
             UpdateConversationState, documents, history
  <2> QED
    BY <1>3, <2>1, FindOpenDealLinks, MarkDealWonLinks, LinkSaleLinks
<1>4. ASSUME NEW j \in Job, Begin(j) PROVE LinksInv'
  <2>1. ASSUME NEW op \in {"kanban", "remind", "lead", "reply", "advance"}, NEW at,
               NEW c, NEW s, NEW to, NEW seen, Start(j, op, at, c, s, to, seen),
               UNCHANGED <<deal, fresh, sale, reopened, advanced, cut>>
        PROVE  LinksInv'
    <3>1. /\ job[j] = None /\ job'[j].op # "win"
          /\ \A x \in Job \ {j} : job'[x] = job[x]
      BY <1>t, <2>1 DEF Start, TypeOK
    <3>2. CalmSelling /\ CalmJobs
      BY <2>1, <3>1, OneJobCalm DEF Is
    <3> QED
      BY <1>1, <1>2, <2>1, <3>2, SameDeals
  <2>2. ASSUME NEW c \in Contact, NEW st \in SaleStatus, CreateSale(j, c, st)
        PROVE  LinksInv'
    BY <2>2, CreateSaleLinks
  <2> QED
    BY <1>4, <2>1, <2>2
       DEF Begin, GetKanban, Remind, UpsertConversation, GetConversationState,
           NotifySaleConfirmed, PanelSale, AdvanceDealByContact, SaleStatus,
           documents, history
<1>5. ASSUME Panel PROVE LinksInv'
  BY <1>1, <1>5, PanelCalm
<1>6. ASSUME UNCHANGED vars PROVE LinksInv'
  <2>1. CalmSelling /\ CalmJobs
    BY <1>6 DEF vars, CalmSelling, CalmJobs, Selling, Is
  <2> QED
    BY <1>1, <1>2, <1>6, <2>1, SameDeals DEF vars
<1> QED
  BY <1>3, <1>4, <1>5, <1>6 DEF Next

\* The deal that a sale names was given a sale, and the sale that a deal names
\* names it back or its job is on its way or died (sales.service.ts create).
THEOREM LinksAgree == Spec => []SaleAndDealAgree
<1>1. TypeOK /\ LinksInv => SaleAndDealAgree
  BY DEF LinksInv, LinkedInv, NamedBack, SaleAndDealAgree, Sold, Sealed
<1> QED
  BY <1>1, CrmInvariant, LinksInit, LinksStep, PTL DEF Spec, CrmInv

\* Sales confirmed at one time may all win one deal; sales that come one after
\* the other do not, unless the panel reopens it (pipeline.service.ts
\* findOpenDealByContact and markDealWon).
THEOREM FewSalesOfDeal == Spec => []SalesOfDealBounded
<1>1. LinksInv => SalesOfDealBounded
  BY WithinBound DEF LinksInv, SalesWithin, SalesOfDealBounded, Winners
<1> QED
  BY <1>1, CrmInvariant, LinksInit, LinksStep, PTL DEF Spec

-----------------------------------------------------------------------------
(***************************************************************************)
(* The fields of a conversation.                                           *)
(***************************************************************************)

\* Answers of the agent on one reading of the sale lose no field of each other
\* (conversations.service.ts sets the fields of an answer one by one).
THEOREM FieldsNeverLost == Spec => FieldsKept
<1>1. ASSUME CrmInv, [Next]_vars, NEW c \in Contact, conv[c] # None
      PROVE  conv'[c] # None /\ conv[c].data \subseteq conv'[c].data
  <2>t. conv \in [Contact -> Conversation \cup {None}] /\ conv[c] \in Conversation
    BY <1>1 DEF CrmInv, TypeOK
  <2>1. CASE UNCHANGED conv
    BY <1>1, <2>1
  <2>2. ASSUME NEW j \in Job, NEW b \in Contact, UpsertConversation(j, b)
        PROVE  conv'[c] = conv[c]
    BY <1>1, <2>t, <2>2 DEF UpsertConversation
  <2>3. ASSUME NEW j \in Job, NEW f \in Field, UpdateConversationState(j, f)
        PROVE  conv'[c] # None /\ conv[c].data \subseteq conv'[c].data
    <3>1. PICK b : b = job[j].c
      OBVIOUS
    <3>2. conv' = [conv EXCEPT ![b].data = @ \cup {f}]
      BY <2>3, <3>1 DEF UpdateConversationState, Merged
    <3>3. CASE b = c
      <4>1. conv'[c] = [conv[c] EXCEPT !.data = conv[c].data \cup {f}]
        BY <2>t, <3>2, <3>3
      <4>2. /\ [conv[c] EXCEPT !.data = conv[c].data \cup {f}] \in Conversation
            /\ [conv[c] EXCEPT !.data = conv[c].data \cup {f}].data = conv[c].data \cup {f}
        BY <2>t DEF Conversation
      <4> QED
        BY <4>1, <4>2, CrmAssumption
    <3>4. CASE b # c
      <4>1. conv'[c] = conv[c]
        BY <2>t, <3>2, <3>4
      <4> QED
        BY <1>1, <4>1
    <3> QED
      BY <3>3, <3>4
  <2>4. ASSUME NEW j \in Job, Continue(j)
        PROVE  UNCHANGED conv \/ \E f \in Field : UpdateConversationState(j, f)
    BY <2>4 DEF Continue, FindDefault, CreateDefault, FindLead, CreateLead, FindOpenDeal,
                MarkDealWon, LinkSale, AdvanceOpenDeal, MarkRecompraSent, Lose, documents
  <2>5. ASSUME NEW j \in Job, Begin(j)
        PROVE  UNCHANGED conv \/ \E b \in Contact : UpsertConversation(j, b)
    BY <2>5 DEF Begin, GetKanban, Remind, GetConversationState, NotifySaleConfirmed,
                PanelSale, CreateSale, AdvanceDealByContact, documents
  <2>6. ASSUME Panel PROVE UNCHANGED conv
    BY <2>6 DEF Panel, CreateDeal, UpdateDeal, DeleteDeal
  <2>7. CASE UNCHANGED vars
    BY <2>1, <2>7 DEF vars
  <2>8. CASE Next
    <3>1. ASSUME NEW j \in Job, Continue(j)
          PROVE  conv'[c] # None /\ conv[c].data \subseteq conv'[c].data
      BY <2>1, <2>3, <2>4, <3>1
    <3>2. ASSUME NEW j \in Job, Begin(j)
          PROVE  conv'[c] # None /\ conv[c].data \subseteq conv'[c].data
      BY <1>1, <2>1, <2>2, <2>5, <3>2
    <3> QED
      BY <2>1, <2>6, <2>8, <3>1, <3>2 DEF Next
  <2> QED
    BY <1>1, <2>7, <2>8
<1>2. CrmInv /\ [Next]_vars =>
        [\A c \in Contact :
           conv[c] # None => /\ conv'[c] # None
                             /\ conv[c].data \subseteq conv'[c].data]_vars
  BY <1>1
<1> QED
  BY <1>2, CrmInvariant, PTL DEF Spec, FieldsKept
=============================================================================
