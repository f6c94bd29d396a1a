---------------------------- MODULE ServicesProofs ---------------------------
(***************************************************************************)
(* The WhatsApp instance, the stored files and the channels, each proved   *)
(* for any number of requests in flight; and the five services side by     *)
(* side, which keep what each of them keeps alone.                         *)
(***************************************************************************)
EXTENDS MCServices, GoogleProofs, AccountsProofs

-----------------------------------------------------------------------------
(***************************************************************************)
(* Types.                                                                  *)
(***************************************************************************)
LEMMA WhatsAppTypeInit == WhatsAppInit => WhatsAppTypeOK
  BY WhatsAppAssumption DEF WhatsAppInit, WhatsAppTypeOK, Idle, ShownStatus

\* A visit keeps its type when it goes on or leaves.
LEMMA VisitType ==
  ASSUME WhatsAppTypeOK, NEW r \in Req
  PROVE  /\ visit[r] # None => visit[r] \in Visit
         /\ Leave(r) => visit' \in [Req -> Visit \cup {None}]
         /\ \A v \in Visit :
              visit' = [visit EXCEPT ![r] = v] => visit' \in [Req -> Visit \cup {None}]
  BY DEF WhatsAppTypeOK, Leave

LEMMA GoOnType ==
  ASSUME WhatsAppTypeOK, NEW r \in Req, visit[r] # None,
         NEW at \in {"call", "record", "adopt", "webhook", "webhookThenQr", "qr", "write"},
         GoOn(r, at)
  PROVE  visit' \in [Req -> Visit \cup {None}]
<1>1. visit[r] \in Visit
  BY VisitType
<1>2. [visit[r] EXCEPT !.at = at] \in Visit
  BY <1>1 DEF Visit
<1> QED
  BY <1>2, VisitType DEF GoOn

\* A request in flight that changes something.
Altering(r) == visit[r] # None /\ visit[r].op \in Changing

LEMMA CrowdAlters ==
  ASSUME NEW r \in Req
  PROVE  Crowd(r) = {x \in Req \ {r} : Altering(x)}
  BY DEF Crowd, Altering

LEMMA NewVisitType ==
  ASSUME NEW r \in Req, NEW op \in {"connect", "qr", "status", "logout", "delete", "link"},
         NEW at \in {"call", "qr", "webhook"}, NEW n \in Name
  PROVE  /\ NewVisit(r, op, at, n) \in Visit
         /\ NewVisit(r, op, at, n).op = op /\ NewVisit(r, op, at, n).at = at
         /\ NewVisit(r, op, at, n).name = n
         /\ NewVisit(r, op, at, n).alone <=> Crowd(r) = {}
<1>1. (Crowd(r) = {}) \in BOOLEAN
  OBVIOUS
<1> QED
  BY <1>1 DEF NewVisit, Visit

\* What is left of the others when a request enters that changes something.
LEMMA Entered ==
  ASSUME WhatsAppTypeOK, NEW r \in Req, NEW v \in Visit \cup {None}, Enter(r, v)
  PROVE  /\ visit' \in [Req -> Visit \cup {None}]
         /\ visit'[r] = v
         /\ \A x \in Req \ {r} : ~Altering(x) => visit'[x] = visit[x]
         /\ \A x \in Req \ {r} : Altering(x) =>
              /\ visit'[x] # None /\ visit'[x].op = visit[x].op
              /\ visit'[x].at = visit[x].at /\ visit'[x].name = visit[x].name
              /\ ~visit'[x].alone
<1>1. visit' = [x \in Req |->
        IF x = r THEN v
        ELSE IF x \in Crowd(r) THEN [visit[x] EXCEPT !.alone = FALSE] ELSE visit[x]]
  BY DEF Enter
<1>2. \A x \in Req \ {r} : x \in Crowd(r) <=> Altering(x)
  BY CrowdAlters
<1>3. ASSUME NEW x \in Req, Altering(x)
      PROVE  /\ [visit[x] EXCEPT !.alone = FALSE] \in Visit
             /\ [visit[x] EXCEPT !.alone = FALSE].op = visit[x].op
             /\ [visit[x] EXCEPT !.alone = FALSE].at = visit[x].at
             /\ [visit[x] EXCEPT !.alone = FALSE].name = visit[x].name
             /\ ~[visit[x] EXCEPT !.alone = FALSE].alone
  BY <1>3, VisitType DEF Altering, Visit
<1>4. \A x \in Req : visit[x] \in Visit \cup {None}
  BY DEF WhatsAppTypeOK
<1>5. visit' \in [Req -> Visit \cup {None}]
  <2>1. \A x \in Req : visit'[x] \in Visit \cup {None}
    BY <1>1, <1>2, <1>3, <1>4
  <2> QED
    BY <1>1, <2>1
<1>6. \A x \in Req \ {r} : Altering(x) => visit'[x] = [visit[x] EXCEPT !.alone = FALSE]
  BY <1>1, <1>2
<1>7. \A x \in Req \ {r} : Altering(x) =>
        /\ visit'[x] # None /\ visit'[x].op = visit[x].op
        /\ visit'[x].at = visit[x].at /\ visit'[x].name = visit[x].name
        /\ ~visit'[x].alone
  BY <1>3, <1>6, WhatsAppAssumption
<1> QED
  BY <1>1, <1>2, <1>5, <1>7

LEMMA ChangeType ==
  ASSUME WhatsAppTypeOK, NEW r \in Req, NEW op \in {"connect", "delete"}, NEW n \in Name,
         BeginChange(r, op, n), use' = use
  PROVE  WhatsAppTypeOK'
<1>1. visit' \in [Req -> Visit \cup {None}]
  BY NewVisitType, Entered DEF BeginChange
<1>2. NamesMet(r) \subseteq Name
  BY VisitType DEF NamesMet, Crowd, Visit
<1>3. astray' \subseteq Name
  BY <1>2 DEF BeginChange, WhatsAppTypeOK
<1> QED
  BY <1>1, <1>3 DEF BeginChange, shown, evolution, WhatsAppTypeOK

LEMMA LookType ==
  ASSUME WhatsAppTypeOK, NEW r \in Req, NEW op \in {"qr", "status", "logout"},
         NEW at \in {"call", "qr"}, BeginLook(r, op, at), use' = use
  PROVE  WhatsAppTypeOK'
<1>1. name \in Name
  BY DEF BeginLook, WhatsAppTypeOK
<1>2. NewVisit(r, op, at, name) \in Visit
  BY <1>1, NewVisitType
<1>3. visit' = [visit EXCEPT ![r] = NewVisit(r, op, at, name)]
  BY DEF BeginLook
<1>4. visit' \in [Req -> Visit \cup {None}]
  BY <1>2, <1>3, VisitType
<1> QED
  BY <1>4 DEF BeginLook, shown, evolution, WhatsAppTypeOK

LEMMA WhatsAppTypeStep ==
  WhatsAppTypeOK /\ [WhatsAppNext]_whatsAppVars => WhatsAppTypeOK'
<1> SUFFICES ASSUME WhatsAppTypeOK, [WhatsAppNext]_whatsAppVars
             PROVE  WhatsAppTypeOK'
  OBVIOUS
<1>1. ASSUME NEW r \in Req, WhatsAppStep(r), use' = use PROVE WhatsAppTypeOK'
  <2>0. visit[r] # None => visit[r] \in Visit /\ visit[r].name \in Name
    BY VisitType DEF Visit
  <2>1. CASE ConnectWhatsApp(r)
    <3>1. (IF name = None THEN Default ELSE name) \in Name
      BY WhatsAppAssumption DEF WhatsAppTypeOK
    <3> QED
      BY <1>1, <2>1, <3>1, ChangeType DEF ConnectWhatsApp
  <2>2. CASE CreateInstance(r)
    <3>1. visit' \in [Req -> Visit \cup {None}]
      BY <2>2, GoOnType DEF CreateInstance, Visiting
    <3>2. instance' \in [Name -> {"open", "close", None}] /\ hooked' \subseteq Name
      BY <2>2 DEF CreateInstance, evolution, WhatsAppTypeOK
    <3> QED
      BY <1>1, <2>2, <3>1, <3>2 DEF CreateInstance, shown, WhatsAppTypeOK
  <2>3. CASE RecordInstance(r)
    BY <1>1, <2>0, <2>3, GoOnType
       DEF RecordInstance, Visiting, evolution, ShownStatus, WhatsAppTypeOK
  <2>4. CASE AdoptInstance(r)
    BY <1>1, <2>0, <2>4, GoOnType
       DEF AdoptInstance, NameAfterAdoption, Visiting, evolution, WhatsAppTypeOK
  <2>5. CASE SetWebhook(r)
    <3>1. visit' \in [Req -> Visit \cup {None}]
      BY <2>5, GoOnType, VisitType DEF SetWebhook
    <3>2. astray' \subseteq Name /\ hooked' \subseteq Name
      BY <2>0, <2>5 DEF SetWebhook, WhatsAppTypeOK
    <3> QED
      BY <1>1, <2>5, <3>1, <3>2 DEF SetWebhook, shown, WhatsAppTypeOK
  <2>6. CASE GetQR(r)
    BY <1>1, <2>6, LookType DEF GetQR
  <2>7. CASE FetchQR(r)
    <3>1. [visit[r] EXCEPT !.at = "write", !.seen = "open"] \in Visit
      BY <2>7, VisitType DEF FetchQR, Visit
    <3>2. visit' = [visit EXCEPT ![r] = [visit[r] EXCEPT !.at = "write", !.seen = "open"]]
            \/ Leave(r)
      BY <2>7 DEF FetchQR, WhatsAppTypeOK
    <3> QED
      BY <1>1, <2>7, <3>1, <3>2, VisitType DEF FetchQR, shown, evolution, WhatsAppTypeOK
  <2>8. CASE GetStatus(r)
    BY <1>1, <2>8, LookType DEF GetStatus
  <2>9. CASE FetchState(r)
    <3> DEFINE state == instance[visit[r].name]
    <3>1. state \in {"open", "close", None}
      BY <2>0, <2>9 DEF FetchState, Visiting, WhatsAppTypeOK
    <3>2. state # None => [visit[r] EXCEPT !.at = "write", !.seen = state] \in Visit
      BY <2>0, <2>9, <3>1 DEF FetchState, Visiting, Visit
    <3>3. \/ state # None /\ visit' =
               [visit EXCEPT ![r] = [visit[r] EXCEPT !.at = "write", !.seen = state]]
          \/ Leave(r)
      BY <2>9 DEF FetchState, WhatsAppTypeOK
    <3> HIDE DEF state
    <3> QED
      BY <1>1, <2>9, <3>2, <3>3, VisitType DEF FetchState, shown, evolution, WhatsAppTypeOK
  <2>10. CASE WriteStatus(r)
    BY <1>1, <2>10, VisitType DEF WriteStatus, evolution, ShownStatus, WhatsAppTypeOK
  <2>11. CASE DisconnectWhatsApp(r)
    BY <1>1, <2>11, LookType DEF DisconnectWhatsApp
  <2>12. CASE Logout(r)
    <3>1. visit' \in [Req -> Visit \cup {None}]
      BY <2>12, GoOnType DEF Logout, Visiting
    <3>2. instance' \in [Name -> {"open", "close", None}]
      BY <2>12 DEF Logout, WhatsAppTypeOK
    <3> QED
      BY <1>1, <2>12, <3>1, <3>2 DEF Logout, shown, WhatsAppTypeOK
  <2>13. CASE RecordLogout(r)
    BY <1>1, <2>13, VisitType DEF RecordLogout, evolution, ShownStatus, WhatsAppTypeOK
  <2>14. CASE DeleteInstance(r)
    BY <1>1, <2>14, ChangeType DEF DeleteInstance, WhatsAppTypeOK
  <2>15. CASE EraseInstance(r)
    <3>1. visit' \in [Req -> Visit \cup {None}]
      BY <2>15, GoOnType DEF EraseInstance, Visiting
    <3>2. /\ instance' \in [Name -> {"open", "close", None}]
          /\ hooked' \subseteq Name /\ astray' \subseteq Name
      BY <2>0, <2>15 DEF EraseInstance, Visiting, evolution, WhatsAppTypeOK
    <3> QED
      BY <1>1, <2>15, <3>1, <3>2 DEF EraseInstance, shown, WhatsAppTypeOK
  <2>16. CASE RecordDelete(r)
    BY <1>1, <2>16, VisitType
       DEF RecordDelete, StatusAfterDelete, Polling, evolution, ShownStatus, WhatsAppTypeOK
  <2>17. CASE FailVisit(r)
    <3>1. astray' \subseteq Name
      BY <2>0, <2>17 DEF FailVisit, WhatsAppTypeOK
    <3> QED
      BY <1>1, <2>17, <3>1, VisitType DEF FailVisit, shown, evolution, WhatsAppTypeOK
  <2> QED
    BY <1>1, <2>1, <2>2, <2>3, <2>4, <2>5, <2>6, <2>7, <2>8, <2>9, <2>10, <2>11,
       <2>12, <2>13, <2>14, <2>15, <2>16, <2>17 DEF WhatsAppStep
<1>2. ASSUME NEW st \in ShownStatus, NEW r \in Req, NEW n \in Name \cup {None},
             LinkByHand(r, n, st), use' = use
      PROVE  WhatsAppTypeOK'
  <2>1. visit' \in [Req -> Visit \cup {None}]
    BY <1>2, NewVisitType, Entered DEF LinkByHand
  <2>2. NamesMet(r) \subseteq Name
    BY VisitType DEF NamesMet, Crowd, Visit
  <2>3. astray' \subseteq Name
    BY <1>2, <2>2 DEF LinkByHand, WhatsAppTypeOK
  <2>4. late' \in BOOLEAN
    BY <1>2 DEF LinkByHand, WhatsAppTypeOK, Polling
  <2> QED
    BY <1>2, <2>1, <2>3, <2>4 DEF LinkByHand, evolution, WhatsAppTypeOK
<1>3. ASSUME NEW st \in ShownStatus, WriteStatusByHand(st), use' = use
      PROVE  WhatsAppTypeOK'
  BY <1>3 DEF WriteStatusByHand, evolution, WhatsAppTypeOK
<1>4. ASSUME NEW n \in Name, Pair(n), use' = use PROVE WhatsAppTypeOK'
  <2>1. instance' \in [Name -> {"open", "close", None}]
    BY <1>4 DEF Pair, WhatsAppTypeOK
  <2> QED
    BY <1>4, <2>1 DEF Pair, shown, WhatsAppTypeOK
<1>5. CASE UNCHANGED whatsAppVars
  BY <1>5 DEF whatsAppVars, WhatsAppTypeOK
<1> QED
  BY <1>1, <1>2, <1>3, <1>4, <1>5 DEF WhatsAppNext, ByHand

\* Every variable keeps its type.
THEOREM WhatsAppTypes == WhatsAppSpec => []WhatsAppTypeOK
  BY WhatsAppTypeInit, WhatsAppTypeStep, PTL DEF WhatsAppSpec

-----------------------------------------------------------------------------
(***************************************************************************)
(* Shown as connected.  A document without an instance's name has no poll  *)
(* on its way that may still write, unless one outlived the name: only     *)
(* then can its status become connected.                                   *)
(***************************************************************************)
NoPollWithoutName == name # None \/ late \/ ~Polling

ConnectedInv == ConnectedIsReal /\ NoPollWithoutName

LEMMA ConnectedInit == WhatsAppInit => ConnectedInv
  BY WhatsAppAssumption
     DEF WhatsAppInit, ConnectedInv, ConnectedIsReal, NoPollWithoutName, Polling, Idle

\* The requests in flight that may still write what a poll saw.
Pollers ==
  {r \in Req : visit[r] # None /\ \/ visit[r].op \in {"qr", "status"}
                                  \/ visit[r].at \in {"webhookThenQr", "qr", "write"}}

LEMMA PollingIsPollers == (Polling <=> Pollers # {}) /\ (Polling' <=> Pollers' # {})
  BY DEF Polling, Pollers

\* None of the others begins to poll because a request enters.
LEMMA EnterPolls ==
  ASSUME WhatsAppTypeOK, NEW r \in Req, NEW v \in Visit \cup {None}, Enter(r, v),
         v # None => v.op \notin {"qr", "status"} /\ v.at \in {"call", "webhook"}
  PROVE  Pollers' \subseteq Pollers
<1>1. visit'[r] = v
  BY Entered
<1>2. \A x \in Req \ {r} : visit'[x] = visit[x] \/
        (visit[x] # None /\ visit'[x].op = visit[x].op /\ visit'[x].at = visit[x].at)
  BY Entered DEF Altering
<1> QED
  BY <1>1, <1>2 DEF Pollers

\* A request without the name of an instance does not start to poll.
LEMMA FewerPollers ==
  ASSUME WhatsAppTypeOK, name = None, WhatsAppNext
  PROVE  name' # None \/ Pollers' \subseteq Pollers
<1>1. ASSUME NEW r \in Req, visit' = [visit EXCEPT ![r] = None]
      PROVE  Pollers' \subseteq Pollers
  BY <1>1 DEF Pollers, WhatsAppTypeOK
<1>2. ASSUME NEW r \in Req, NEW at \in {"record", "adopt", "webhook"}, visit[r] # None,
             visit' = [visit EXCEPT ![r].at = at]
      PROVE  Pollers' \subseteq Pollers
  BY <1>2, VisitType DEF Pollers, WhatsAppTypeOK, Visit
<1>3. ASSUME NEW r \in Req, r \in Pollers, NEW v, visit' = [visit EXCEPT ![r] = v]
      PROVE  Pollers' \subseteq Pollers
  BY <1>3 DEF Pollers, WhatsAppTypeOK
<1>4. ASSUME NEW r \in Req, ConnectWhatsApp(r) PROVE Pollers' \subseteq Pollers
  <2> DEFINE v == NewVisit(r, "connect", "call", Default)
  <2>1. Enter(r, v)
    BY <1>4 DEF ConnectWhatsApp, BeginChange
  <2>2. v \in Visit /\ v.op = "connect" /\ v.at = "call"
    BY NewVisitType, WhatsAppAssumption
  <2> HIDE DEF v
  <2> QED
    BY <2>1, <2>2, EnterPolls
<1>5. ASSUME NEW r \in Req, WhatsAppStep(r) PROVE name' # None \/ Pollers' \subseteq Pollers
  <2>1. CASE CreateInstance(r)
    BY <1>2, <2>1 DEF CreateInstance, Visiting, GoOn
  <2>2. CASE RecordInstance(r) \/ AdoptInstance(r)
    <3>1. visit[r].name \in Name
      BY <2>2, VisitType DEF RecordInstance, AdoptInstance, Visiting, Visit
    <3> QED
      BY <2>2, <3>1, WhatsAppAssumption DEF RecordInstance, AdoptInstance, NameAfterAdoption
  <2>3. CASE SetWebhook(r)
    <3>1. CASE visit[r].at = "webhook"
      BY <1>1, <2>3, <3>1 DEF SetWebhook, Leave
    <3>2. CASE visit[r].at = "webhookThenQr"
      BY <1>3, <2>3, <3>2 DEF SetWebhook, GoOn, Pollers
    <3> QED
      BY <2>3, <3>1, <3>2 DEF SetWebhook
  <2>4. CASE FetchQR(r) \/ FetchState(r)
    <3>1. r \in Pollers
      BY <2>4 DEF FetchQR, FetchState, Visiting, Pollers
    <3>2. \E v : visit' = [visit EXCEPT ![r] = v]
      BY <2>4 DEF FetchQR, FetchState, Leave
    <3> QED
      BY <1>3, <3>1, <3>2
  <2>5. CASE WriteStatus(r) \/ RecordLogout(r) \/ RecordDelete(r) \/ FailVisit(r)
    BY <1>1, <2>5 DEF WriteStatus, RecordLogout, RecordDelete, FailVisit, Leave
  <2>6. CASE Logout(r) \/ EraseInstance(r)
    BY <1>2, <2>6 DEF Logout, EraseInstance, Visiting, GoOn
  <2>7. CASE GetQR(r) \/ GetStatus(r) \/ DisconnectWhatsApp(r) \/ DeleteInstance(r)
    BY <2>7 DEF GetQR, GetStatus, DisconnectWhatsApp, DeleteInstance, BeginLook
  <2> QED
    BY <1>4, <1>5, <2>1, <2>2, <2>3, <2>4, <2>5, <2>6, <2>7 DEF WhatsAppStep
<1>6. ASSUME NEW st \in ShownStatus, NEW r \in Req, NEW n \in Name \cup {None},
             LinkByHand(r, n, st)
      PROVE  Pollers' \subseteq Pollers
  <2> DEFINE v == IF n = None THEN None ELSE NewVisit(r, "link", "webhook", n)
  <2>1. Enter(r, v)
    BY <1>6 DEF LinkByHand
  <2>2. v = None \/ (v \in Visit /\ v.op = "link" /\ v.at = "webhook")
    BY NewVisitType
  <2> HIDE DEF v
  <2> QED
    BY <2>1, <2>2, EnterPolls
<1>7. ASSUME UNCHANGED visit PROVE Pollers' \subseteq Pollers
  BY <1>7 DEF Pollers
<1> QED
  BY <1>5, <1>6, <1>7 DEF WhatsAppNext, ByHand, WriteStatusByHand, Pair

LEMMA ConnectedStep ==
  WhatsAppTypeOK /\ ConnectedInv /\ [WhatsAppNext]_whatsAppVars => ConnectedInv'
<1> SUFFICES ASSUME WhatsAppTypeOK, ConnectedInv, [WhatsAppNext]_whatsAppVars
             PROVE  ConnectedInv'
  OBVIOUS
<1>1. ASSUME WhatsAppNext, UNCHANGED <<name, late>>, status' = status \/ status' # "connected"
      PROVE  ConnectedInv'
  <2>1. name # None \/ late \/ ~Polling'
    BY <1>1, FewerPollers, PollingIsPollers DEF ConnectedInv, NoPollWithoutName
  <2> QED
    BY <1>1, <2>1 DEF ConnectedInv, ConnectedIsReal, NoPollWithoutName
<1>2. ASSUME NEW r \in Req, WhatsAppStep(r), WhatsAppNext PROVE ConnectedInv'
  <2>1. CASE RecordInstance(r) \/ AdoptInstance(r)
    <3>1. visit[r].name \in Name
      BY <2>1, VisitType DEF RecordInstance, AdoptInstance, Visiting, Visit
    <3>2. name' # None
      BY <2>1, <3>1, WhatsAppAssumption DEF RecordInstance, AdoptInstance, NameAfterAdoption
    <3> QED
      BY <3>2 DEF ConnectedInv, ConnectedIsReal, NoPollWithoutName
  <2>2. CASE WriteStatus(r)
    <3>1. Polling
      BY <2>2 DEF WriteStatus, Polling
    <3>2. (name # None \/ late) /\ UNCHANGED <<name, late>>
      BY <2>2, <3>1 DEF WriteStatus, ConnectedInv, NoPollWithoutName
    <3> QED
      BY <3>2 DEF ConnectedInv, ConnectedIsReal, NoPollWithoutName
  <2>3. CASE RecordDelete(r)
    <3>1. visit' = [visit EXCEPT ![r] = None] /\ late' = (late \/ Polling)
      BY <2>3 DEF RecordDelete, Leave
    <3>2. Polling' => Polling
      BY <3>1 DEF Polling, WhatsAppTypeOK
    <3> QED
      BY <2>3, <3>1, <3>2
         DEF RecordDelete, StatusAfterDelete, ConnectedInv, ConnectedIsReal,
             NoPollWithoutName
  <2>4. CASE RecordLogout(r)
    BY <1>1, <1>2, <2>4 DEF RecordLogout
  <2> QED
    BY <1>1, <1>2, <2>1, <2>2, <2>3, <2>4
       DEF WhatsAppStep, ConnectWhatsApp, CreateInstance, SetWebhook, GetQR, FetchQR,
           GetStatus, FetchState, DisconnectWhatsApp, Logout, DeleteInstance,
           EraseInstance, FailVisit, BeginChange, BeginLook, shown
<1>3. ASSUME NEW st \in ShownStatus, NEW r \in Req, NEW n \in Name \cup {None},
             LinkByHand(r, n, st), WhatsAppNext
      PROVE  ConnectedInv'
  <2>1. CASE n = None
    <3>1. late' = (late \/ st = "connected" \/ Polling) /\ status' = st
      BY <1>3, <2>1 DEF LinkByHand
    <3>2. Enter(r, None) /\ Pollers' \subseteq Pollers
      BY <1>3, <2>1, EnterPolls DEF LinkByHand
    <3> QED
      BY <3>1, <3>2, PollingIsPollers DEF ConnectedInv, ConnectedIsReal, NoPollWithoutName
  <2>2. CASE n # None
    BY <1>3, <2>2 DEF LinkByHand, ConnectedInv, ConnectedIsReal, NoPollWithoutName
  <2> QED
    BY <2>1, <2>2
<1>4. ASSUME NEW st \in ShownStatus, WriteStatusByHand(st) PROVE ConnectedInv'
  BY <1>4 DEF WriteStatusByHand, ConnectedInv, ConnectedIsReal, NoPollWithoutName, Polling
<1>5. ASSUME NEW n \in Name, Pair(n), WhatsAppNext PROVE ConnectedInv'
  BY <1>1, <1>5 DEF Pair, shown
<1>6. CASE UNCHANGED whatsAppVars
  BY <1>6 DEF whatsAppVars, ConnectedInv, ConnectedIsReal, NoPollWithoutName, Polling
<1> QED
  BY <1>2, <1>3, <1>4, <1>5, <1>6 DEF WhatsAppNext, ByHand

\* A tenant shown as connected has an instance, unless a poll that saw it open
\* outlived its name (whatsapp.service.ts getStatus) or the panel wrote
\* "connected" where no name was (tenants.service.ts updateEvolutionInstance).
THEOREM ConnectedReally == WhatsAppSpec => []ConnectedIsReal
<1>1. WhatsAppSpec => []ConnectedInv
  BY WhatsAppTypes, ConnectedInit, ConnectedStep, PTL DEF WhatsAppSpec
<1> QED
  BY <1>1, PTL DEF ConnectedInv

-----------------------------------------------------------------------------
(***************************************************************************)
(* Document and instances.  A request that changes something and is still  *)
(* alone is the only one of its kind, so that what it has done so far      *)
(* still holds; what the others are about has gone astray (Strays).  The   *)
(* document names what one of them is about, or something astray, or       *)
(* nothing (Named), so that a name nobody is about is as it was (Far);     *)
(* and a request alone knows how far it is (Near).                         *)
(***************************************************************************)
AgreeOn(n) == /\ name = n <=> instance[n] # None
              /\ name = n => n \in hooked

\* Only what changes something waits for a webhook.
Placed ==
  \A r \in Req : visit[r] # None /\ visit[r].at \in {"webhook", "webhookThenQr"} => Altering(r)

Solo == \A r, s \in Req : Altering(r) /\ Altering(s) /\ visit[r].alone => r = s

Strays == \A r \in Req : Altering(r) /\ ~visit[r].alone => visit[r].name \in astray

Named == \A r \in Req : Altering(r) => name \in {None, visit[r].name} \cup astray

Far ==
  \A n \in Name \ astray : (\A r \in Req : Altering(r) => visit[r].name # n) => AgreeOn(n)

NearOne(r) ==
  /\ visit[r].at \in {"webhook", "webhookThenQr"} => name = visit[r].name
  /\ visit[r].at \in {"qr", "write"} /\ visit[r].name \notin astray => AgreeOn(visit[r].name)
  /\ visit[r].op = "delete" /\ visit[r].at = "record" /\ visit[r].name \notin astray
       => instance[visit[r].name] = None

Near == \A r \in Req : Altering(r) /\ visit[r].alone => NearOne(r)

AgreeInv == Placed /\ Solo /\ Strays /\ Named /\ Far /\ Near

LEMMA AgreeInit == WhatsAppInit => AgreeInv
<1> SUFFICES ASSUME WhatsAppInit PROVE AgreeInv
  OBVIOUS
<1>1. \A r \in Req : visit[r] = None
  BY DEF WhatsAppInit, Idle
<1>2. \A r \in Req : ~Altering(r)
  BY <1>1 DEF Altering
<1>3. ASSUME NEW n \in Name \ astray PROVE AgreeOn(n)
  <2>1. name = None /\ instance[n] = None
    BY <1>3 DEF WhatsAppInit
  <2> QED
    BY <2>1, WhatsAppAssumption DEF AgreeOn
<1> QED
  BY <1>1, <1>2, <1>3 DEF AgreeInv, Placed, Solo, Strays, Named, Far, Near

\* Where a request stands after it goes on, and after it leaves.
LEMMA VisitOnward ==
  ASSUME WhatsAppTypeOK, NEW r \in Req, visit[r] # None,
         NEW at \in {"call", "record", "adopt", "webhook", "webhookThenQr", "qr", "write"},
         GoOn(r, at)
  PROVE  /\ visit'[r] # None /\ visit'[r].at = at
         /\ visit'[r].op = visit[r].op /\ visit'[r].alone = visit[r].alone
         /\ visit'[r].name = visit[r].name
         /\ \A x \in Req \ {r} : visit'[x] = visit[x]
<1>1. visit'[r] = [visit[r] EXCEPT !.at = at] /\ visit[r] \in Visit
  BY VisitType DEF GoOn, WhatsAppTypeOK
<1>2. visit'[r] \in Visit
  BY <1>1 DEF Visit
<1>3. \A x \in Req \ {r} : visit'[x] = visit[x]
  BY DEF GoOn, WhatsAppTypeOK
<1> QED
  BY <1>1, <1>2, <1>3, WhatsAppAssumption DEF Visit

\* And after it has seen the instance's state.
LEMMA VisitSeen ==
  ASSUME WhatsAppTypeOK, NEW r \in Req, visit[r] # None, NEW seen,
         visit' = [visit EXCEPT ![r].at = "write", ![r].seen = seen]
  PROVE  /\ visit'[r].at = "write"
         /\ visit'[r].op = visit[r].op /\ visit'[r].alone = visit[r].alone
         /\ visit'[r].name = visit[r].name
         /\ \A x \in Req \ {r} : visit'[x] = visit[x]
<1>1. visit[r] \in Visit /\ r \in DOMAIN visit
  BY VisitType DEF WhatsAppTypeOK
<1>2. visit'[r] = [visit[r] EXCEPT !.at = "write", !.seen = seen]
  BY <1>1
<1>3. \A x \in Req \ {r} : visit'[x] = visit[x]
  BY DEF WhatsAppTypeOK
<1> QED
  BY <1>1, <1>2, <1>3 DEF Visit

LEMMA Away ==
  ASSUME WhatsAppTypeOK, NEW r \in Req, Leave(r)
  PROVE  visit'[r] = None /\ \A x \in Req \ {r} : visit'[x] = visit[x]
  BY DEF Leave, WhatsAppTypeOK

\* A step that leaves alone what the invariant speaks of.
LEMMA EvenStep ==
  ASSUME AgreeInv, UNCHANGED <<name, hooked, astray>>,
         \A n \in Name : instance'[n] = None <=> instance[n] = None,
         \A x \in Req : visit[x] \in Visit \cup {None},
         \A x \in Req : Altering(x)' <=> Altering(x),
         \A x \in Req : Altering(x) => visit'[x] = visit[x],
         \A x \in Req : ~Altering(x) /\ visit'[x] # None =>
           visit'[x].at \notin {"webhook", "webhookThenQr"}
  PROVE  AgreeInv'
<1>1. \A n \in Name : AgreeOn(n)' <=> AgreeOn(n)
  BY DEF AgreeOn
<1>2. Placed' /\ Solo' /\ Strays' /\ Named'
  BY DEF AgreeInv, Placed, Solo, Strays, Named
<1>3. Far'
  BY <1>1 DEF AgreeInv, Far
<1>4. ASSUME NEW x \in Req, Altering(x)', visit'[x].alone PROVE NearOne(x)'
  <2>1. visit'[x] = visit[x] /\ NearOne(x) /\ visit[x].name \in Name
    BY <1>4 DEF AgreeInv, Near, Altering, Visit
  <2> QED
    BY <1>1, <2>1 DEF NearOne
<1> QED
  BY <1>2, <1>3, <1>4 DEF AgreeInv, Near

\* The same, for a step of a request that only looks.
LEMMA LookingStep ==
  ASSUME WhatsAppTypeOK, AgreeInv, NEW r \in Req, ~Altering(r),
         \A x \in Req \ {r} : visit'[x] = visit[x],
         UNCHANGED <<name, hooked, astray>>,
         \A n \in Name : instance'[n] = None <=> instance[n] = None,
         visit'[r] # None => /\ visit'[r].op \notin Changing
                             /\ visit'[r].at \notin {"webhook", "webhookThenQr"}
  PROVE  AgreeInv'
<1>1. \A x \in Req : Altering(x)' <=> Altering(x)
  BY DEF Altering
<1>2. \A x \in Req : Altering(x) => visit'[x] = visit[x]
  OBVIOUS
<1>3. \A x \in Req : ~Altering(x) /\ visit'[x] # None =>
        visit'[x].at \notin {"webhook", "webhookThenQr"}
  BY DEF AgreeInv, Placed
<1>4. \A x \in Req : visit[x] \in Visit \cup {None}
  BY DEF WhatsAppTypeOK
<1> QED
  BY <1>1, <1>2, <1>3, <1>4, EvenStep

\* A step of a request that changes something, about the name m: if it is alone
\* there is no other one, and if it is not, m is astray.
LEMMA ChangingStep ==
  ASSUME AgreeInv, NEW r \in Req, Altering(r), NEW m \in Name, visit[r].name = m,
         \A x \in Req \ {r} : visit'[x] = visit[x],
         visit'[r] # None =>
           /\ visit'[r].op = visit[r].op /\ visit'[r].name = m
           /\ visit'[r].alone = visit[r].alone,
         name' \in {name, m, None},
         \A n \in Name \ {m} : instance'[n] = instance[n] /\ (n \in hooked' <=> n \in hooked),
         astray \ {m} \subseteq astray',
         ~visit[r].alone => astray \subseteq astray',
         visit'[r] # None /\ visit[r].alone => NearOne(r)',
         visit'[r] = None /\ visit[r].alone /\ m \notin astray' => AgreeOn(m)'
  PROVE  AgreeInv'
<1>1. \A x \in Req : Altering(x)' => Altering(x)
  BY DEF Altering
<1>2. \A x \in Req \ {r} : Altering(x) => ~visit[x].alone /\ ~visit[r].alone
  BY DEF AgreeInv, Solo
<1>3. ~visit[r].alone => m \in astray'
  BY DEF AgreeInv, Strays
<1>4. name \in {None, m} \cup astray
  BY DEF AgreeInv, Named
<1>5. Placed'
  BY DEF AgreeInv, Placed, Altering
<1>6. Solo'
  <2> SUFFICES ASSUME NEW x \in Req, NEW y \in Req, Altering(x)', Altering(y)',
                      visit'[x].alone
               PROVE  x = y
    BY DEF Solo
  <2>1. Altering(x) /\ Altering(y) /\ visit'[x] # None /\ visit'[y] # None
    BY <1>1 DEF Altering
  <2>2. visit[x].alone
    BY <2>1
  <2> QED
    BY <2>1, <2>2 DEF AgreeInv, Solo
<1>7. Strays'
  <2> SUFFICES ASSUME NEW x \in Req, Altering(x)', ~visit'[x].alone
               PROVE  visit'[x].name \in astray'
    BY DEF Strays
  <2>1. CASE x = r
    BY <1>3, <2>1 DEF Altering
  <2>2. CASE x # r
    BY <1>1, <1>2, <2>2 DEF AgreeInv, Strays
  <2> QED
    BY <2>1, <2>2
<1>8. Named'
  <2> SUFFICES ASSUME NEW x \in Req, Altering(x)'
               PROVE  name' \in {None, visit'[x].name} \cup astray'
    BY DEF Named
  <2>1. CASE x = r
    BY <1>4, <2>1 DEF Altering
  <2>2. CASE x # r
    <3>1. astray \subseteq astray' /\ m \in astray'
      BY <1>1, <1>2, <1>3, <2>2
    <3>2. name \in {None, visit[x].name} \cup astray
      BY <1>1, <2>2 DEF AgreeInv, Named
    <3> QED
      BY <2>2, <3>1, <3>2
  <2> QED
    BY <2>1, <2>2
<1>9. Far'
  <2> SUFFICES ASSUME NEW n \in Name \ astray',
                      \A x \in Req : Altering(x)' => visit'[x].name # n
               PROVE  AgreeOn(n)'
    BY DEF Far
  <2>1. CASE n = m
    <3>1. visit'[r] = None
      BY <2>1 DEF Altering
    <3> QED
      BY <1>3, <2>1, <3>1
  <2>2. CASE n # m
    <3>1. \A x \in Req : Altering(x) => visit[x].name # n
      BY <2>2 DEF Altering
    <3>2. AgreeOn(n) /\ n \notin astray
      BY <2>2, <3>1 DEF AgreeInv, Far
    <3>3. name # n \/ n = None
      BY <1>4, <2>2, <3>2
    <3>4. name' = n <=> name = n
      BY <1>4, <2>2, <3>2, WhatsAppAssumption
    <3> QED
      BY <2>2, <3>2, <3>4 DEF AgreeOn
  <2> QED
    BY <2>1, <2>2
<1>10. Near'
  <2> SUFFICES ASSUME NEW x \in Req, Altering(x)', visit'[x].alone
               PROVE  NearOne(x)'
    BY DEF Near
  <2>1. Altering(x) /\ visit'[x] # None /\ visit[x].alone
    BY <1>1 DEF Altering
  <2>2. x = r
    BY <1>2, <2>1
  <2> QED
    BY <2>1, <2>2
<1> QED
  BY <1>5, <1>6, <1>7, <1>8, <1>9, <1>10 DEF AgreeInv

\* A request that changes something begins, or a name is written by hand: if
\* others are about to change something, what they and it are about is astray.
LEMMA ChangeBegins ==
  ASSUME WhatsAppTypeOK, AgreeInv, NEW r \in Req, visit[r] = None,
         NEW v \in Visit \cup {None}, Enter(r, v),
         v # None => /\ v.op \in Changing
                     /\ v.alone <=> Crowd(r) = {}
                     /\ Crowd(r) # {} => v.name \in astray'
                     /\ name' \in {None, v.name}
                     /\ \/ v.at = "call"
                        \/ v.op = "link" /\ v.at = "webhook" /\ name' = v.name,
         astray \subseteq astray', NamesMet(r) \subseteq astray',
         UNCHANGED <<instance, hooked>>,
         name' = name \/ {name, name'} \subseteq astray' \cup {None}
  PROVE  AgreeInv'
<1>1. visit'[r] = v
  BY Entered
<1>2. \A x \in Req \ {r} : ~Altering(x) => visit'[x] = visit[x]
  BY Entered
<1>3. \A x \in Req \ {r} : Altering(x) =>
        /\ visit'[x] # None /\ visit'[x].op = visit[x].op
        /\ visit'[x].at = visit[x].at /\ visit'[x].name = visit[x].name
        /\ ~visit'[x].alone
  BY Entered
<1>4. ~Altering(r)
  BY DEF Altering
<1>5. \A x \in Req \ {r} : Altering(x)' <=> Altering(x)
  BY <1>2, <1>3 DEF Altering
<1>6. \A x \in Req : Altering(x) => x \in Crowd(r) /\ visit[x].name \in astray'
  BY <1>4, CrowdAlters DEF NamesMet
<1>7. Placed'
  <2>1. \A x \in Req \ {r} : visit'[x] # None => visit[x] # None /\ visit'[x].at = visit[x].at
    BY <1>2, <1>3 DEF Altering
  <2> QED
    BY <1>1, <1>5, <2>1 DEF AgreeInv, Placed, Altering
<1>8. Solo'
  <2> SUFFICES ASSUME NEW x \in Req, NEW y \in Req, Altering(x)', Altering(y)',
                      visit'[x].alone
               PROVE  x = y
    BY DEF Solo
  <2>1. x = r /\ v # None
    BY <1>1, <1>3, <1>5 DEF Altering
  <2>2. Crowd(r) = {}
    BY <1>1, <2>1
  <2> QED
    BY <1>5, <1>6, <2>1, <2>2
<1>9. Strays'
  <2> SUFFICES ASSUME NEW x \in Req, Altering(x)', ~visit'[x].alone
               PROVE  visit'[x].name \in astray'
    BY DEF Strays
  <2> QED
    BY <1>1, <1>3, <1>5, <1>6 DEF Altering
<1>10. Named'
  <2> SUFFICES ASSUME NEW x \in Req, Altering(x)'
               PROVE  name' \in {None, visit'[x].name} \cup astray'
    BY DEF Named
  <2>1. CASE x = r
    BY <1>1, <2>1 DEF Altering
  <2>2. CASE x # r
    BY <1>3, <1>5, <2>2 DEF AgreeInv, Named
  <2> QED
    BY <2>1, <2>2
<1>11. Far'
  <2> SUFFICES ASSUME NEW n \in Name \ astray'
               PROVE  AgreeOn(n)'
    BY DEF Far
  <2>1. AgreeOn(n)
    BY <1>6 DEF AgreeInv, Far
  <2>2. name' = n <=> name = n
    BY WhatsAppAssumption
  <2> QED
    BY <2>1, <2>2 DEF AgreeOn
<1>12. Near'
  <2> SUFFICES ASSUME NEW x \in Req, Altering(x)', visit'[x].alone
               PROVE  NearOne(x)'
    BY DEF Near
  <2>1. x = r /\ visit'[r] = v /\ v # None
    BY <1>1, <1>3, <1>5 DEF Altering
  <2> QED
    BY <2>1 DEF NearOne
<1> QED
  BY <1>7, <1>8, <1>9, <1>10, <1>11, <1>12 DEF AgreeInv

LEMMA LookBegins ==
  ASSUME WhatsAppTypeOK, AgreeInv, NEW r \in Req, NEW op \in {"qr", "status", "logout"},
         NEW at \in {"call", "qr"}, BeginLook(r, op, at)
  PROVE  AgreeInv'
<1>1. visit'[r] = NewVisit(r, op, at, name) /\ \A x \in Req \ {r} : visit'[x] = visit[x]
  BY DEF BeginLook, WhatsAppTypeOK
<1>2. visit'[r].op = op /\ visit'[r].at = at
  BY <1>1 DEF NewVisit
<1>3. UNCHANGED <<name, hooked, instance, astray>> /\ ~Altering(r)
  BY DEF BeginLook, shown, evolution, Altering
<1> QED
  BY <1>1, <1>2, <1>3, LookingStep DEF Changing

LEMMA AgreeStep ==
  WhatsAppTypeOK /\ AgreeInv /\ [WhatsAppNext]_whatsAppVars => AgreeInv'
<1> SUFFICES ASSUME WhatsAppTypeOK, AgreeInv, [WhatsAppNext]_whatsAppVars
             PROVE  AgreeInv'
  OBVIOUS
<1>1. ASSUME NEW r \in Req, WhatsAppStep(r), NEW m, m = visit[r].name PROVE AgreeInv'
  <2>m. visit[r] # None => m \in Name /\ m # None
    BY <1>1, VisitType, WhatsAppAssumption DEF Visit
  <2>n. Altering(r) /\ visit[r].alone => NearOne(r)
    BY DEF AgreeInv, Near
  <2>a. Altering(r) /\ ~visit[r].alone => m \in astray
    BY <1>1 DEF AgreeInv, Strays
  <2>1. CASE ConnectWhatsApp(r)
    <3> DEFINE n == IF name = None THEN Default ELSE name
    <3>1. n \in Name /\ name \in {None, n}
      BY WhatsAppAssumption DEF WhatsAppTypeOK
    <3> HIDE DEF n
    <3>2. BeginChange(r, "connect", n)
      BY <1>1, <2>1 DEF ConnectWhatsApp, n
    <3> DEFINE v == NewVisit(r, "connect", "call", n)
    <3>3. /\ v \in Visit /\ v.op = "connect" /\ v.at = "call" /\ v.name = n
          /\ v.alone <=> Crowd(r) = {}
      BY <1>1, <3>1, NewVisitType
    <3>4. Enter(r, v) /\ visit[r] = None /\ UNCHANGED <<name, instance, hooked>>
      BY <1>1, <3>2 DEF BeginChange, shown, evolution
    <3>5. /\ astray \subseteq astray' /\ NamesMet(r) \subseteq astray'
          /\ Crowd(r) # {} => n \in astray'
      BY <1>1, <3>2 DEF BeginChange, NamesMet
    <3> HIDE DEF v
    <3> QED
      BY <1>1, <3>1, <3>3, <3>4, <3>5, ChangeBegins DEF Changing
  <2>2. CASE DeleteInstance(r)
    <3>1. name \in Name /\ BeginChange(r, "delete", name)
      BY <1>1, <2>2 DEF DeleteInstance, WhatsAppTypeOK
    <3> DEFINE v == NewVisit(r, "delete", "call", name)
    <3>3. /\ v \in Visit /\ v.op = "delete" /\ v.at = "call" /\ v.name = name
          /\ v.alone <=> Crowd(r) = {}
      BY <1>1, <3>1, NewVisitType
    <3>4. Enter(r, v) /\ visit[r] = None /\ UNCHANGED <<name, instance, hooked>>
      BY <1>1, <3>1 DEF BeginChange, shown, evolution
    <3>5. /\ astray \subseteq astray' /\ NamesMet(r) \subseteq astray'
          /\ Crowd(r) # {} => name \in astray'
      BY <1>1, <3>1 DEF BeginChange, NamesMet
    <3> HIDE DEF v
    <3> QED
      BY <1>1, <3>3, <3>4, <3>5, ChangeBegins DEF Changing
  <2>3. CASE GetQR(r) \/ GetStatus(r) \/ DisconnectWhatsApp(r)
    BY <1>1, <2>3, LookBegins DEF GetQR, GetStatus, DisconnectWhatsApp
  <2>4. CASE CreateInstance(r)
    <3>1. visit[r] # None /\ visit[r].op = "connect" /\ visit[r].at = "call" /\ Altering(r)
      BY <1>1, <2>4 DEF CreateInstance, Visiting, Altering, Changing
    <3>2. PICK at \in {"record", "adopt"} : GoOn(r, at)
      BY <1>1, <2>4 DEF CreateInstance
    <3>3. /\ UNCHANGED <<name, astray>>
          /\ \A n \in Name \ {m} :
               instance'[n] = instance[n] /\ (n \in hooked' <=> n \in hooked)
      BY <1>1, <2>4 DEF CreateInstance, evolution, shown, WhatsAppTypeOK
    <3>4. NearOne(r)' /\ visit'[r] # None
      BY <1>1, <3>1, <3>2, VisitOnward DEF NearOne
    <3> QED
      BY <1>1, <2>m, <3>1, <3>2, <3>3, <3>4, VisitOnward, ChangingStep
  <2>5. CASE RecordInstance(r) \/ AdoptInstance(r)
    <3>1. visit[r] # None /\ visit[r].op = "connect" /\ Altering(r)
      BY <1>1, <2>5 DEF RecordInstance, AdoptInstance, Visiting, Altering, Changing
    <3>2. PICK at \in {"webhook", "webhookThenQr"} : GoOn(r, at)
      BY <1>1, <2>5 DEF RecordInstance, AdoptInstance
    <3>3. name' = m /\ UNCHANGED <<instance, hooked, astray>>
      BY <1>1, <2>5 DEF RecordInstance, AdoptInstance, NameAfterAdoption, evolution
    <3>4. NearOne(r)' /\ visit'[r] # None
      BY <1>1, <3>1, <3>2, <3>3, VisitOnward DEF NearOne
    <3> QED
      BY <1>1, <2>m, <3>1, <3>2, <3>3, <3>4, VisitOnward, ChangingStep
  <2>6. CASE SetWebhook(r)
    <3>1. visit[r] # None /\ visit[r].at \in {"webhook", "webhookThenQr"} /\ Altering(r)
      BY <1>1, <2>6 DEF SetWebhook, AgreeInv, Placed
    <3>2. visit[r].alone => name = m
      BY <1>1, <2>n, <3>1 DEF NearOne
    <3>3. \/ /\ instance[m] # None /\ hooked' = hooked \cup {m}
             /\ astray' = IF visit[r].alone THEN astray \ {m} ELSE astray
          \/ astray' = astray \cup {m} /\ hooked' = hooked
      BY <1>1, <2>6 DEF SetWebhook
    <3>4. UNCHANGED <<name, instance>>
      BY <1>1, <2>6 DEF SetWebhook, shown
    <3>5. visit[r].alone /\ m \notin astray' => AgreeOn(m)'
      BY <1>1, <3>2, <3>3, <3>4 DEF AgreeOn
    <3>6. /\ astray \ {m} \subseteq astray'
          /\ ~visit[r].alone => astray \subseteq astray'
          /\ \A n \in Name \ {m} : n \in hooked' <=> n \in hooked
      BY <1>1, <3>3
    <3>7. CASE Leave(r)
      <4>1. visit'[r] = None /\ \A x \in Req \ {r} : visit'[x] = visit[x]
        BY <1>1, <3>7, Away
      <4> QED
        BY <1>1, <2>m, <3>1, <3>4, <3>5, <3>6, <4>1, ChangingStep
    <3>8. CASE GoOn(r, "qr")
      <4>1. /\ visit'[r] # None /\ visit'[r].at = "qr" /\ visit'[r].name = m
            /\ visit'[r].op = visit[r].op /\ visit'[r].alone = visit[r].alone
            /\ \A x \in Req \ {r} : visit'[x] = visit[x]
        BY <1>1, <3>1, <3>8, VisitOnward
      <4>2. visit[r].alone => NearOne(r)'
        BY <1>1, <3>5, <4>1 DEF NearOne, AgreeOn
      <4> QED
        BY <1>1, <2>m, <3>1, <3>4, <3>6, <4>1, <4>2, ChangingStep
    <3> QED
      BY <1>1, <2>6, <3>7, <3>8 DEF SetWebhook
  <2>7. CASE FetchQR(r)
    <3>1. /\ visit[r] # None /\ visit[r].at = "qr"
          /\ UNCHANGED <<name, hooked, instance, astray>>
      BY <1>1, <2>7 DEF FetchQR, shown, evolution
    <3>2. CASE visit' = [visit EXCEPT ![r].at = "write", ![r].seen = "open"]
      <4>1. /\ visit'[r].at = "write" /\ visit'[r].name = m
            /\ visit'[r].op = visit[r].op /\ visit'[r].alone = visit[r].alone
            /\ \A x \in Req \ {r} : visit'[x] = visit[x]
        BY <1>1, <3>1, <3>2, VisitSeen
      <4>2. CASE Altering(r)
        <5>1. visit[r].alone => NearOne(r)'
          BY <1>1, <2>n, <3>1, <4>1, <4>2 DEF NearOne, AgreeOn
        <5>2. visit'[r] # None \/ (visit[r].alone /\ m \notin astray => AgreeOn(m)')
          BY <1>1, <2>n, <3>1, <4>2 DEF NearOne, AgreeOn
        <5> QED
          BY <1>1, <2>m, <3>1, <4>1, <4>2, <5>1, <5>2, ChangingStep
      <4>3. CASE ~Altering(r)
        BY <1>1, <3>1, <4>1, <4>3, LookingStep DEF Altering
      <4> QED
        BY <4>2, <4>3
    <3>3. CASE Leave(r)
      <4>1. visit'[r] = None /\ \A x \in Req \ {r} : visit'[x] = visit[x]
        BY <1>1, <3>3, Away
      <4>2. CASE Altering(r)
        <5>1. visit[r].alone /\ m \notin astray => AgreeOn(m)'
          BY <1>1, <2>n, <3>1, <4>2 DEF NearOne, AgreeOn
        <5> QED
          BY <1>1, <2>m, <3>1, <4>1, <4>2, <5>1, ChangingStep
      <4>3. CASE ~Altering(r)
        BY <1>1, <3>1, <4>1, <4>3, LookingStep
      <4> QED
        BY <4>2, <4>3
    <3> QED
      BY <1>1, <2>7, <3>2, <3>3 DEF FetchQR
  <2>8. CASE FetchState(r)
    <3>1. /\ visit[r] # None /\ visit[r].op = "status" /\ ~Altering(r)
          /\ UNCHANGED <<name, hooked, instance, astray>>
      BY <1>1, <2>8 DEF FetchState, Visiting, Altering, Changing, shown, evolution
    <3>2. CASE visit' = [visit EXCEPT ![r].at = "write", ![r].seen = instance[visit[r].name]]
      <4>1. /\ visit'[r].at = "write" /\ visit'[r].op = "status"
            /\ \A x \in Req \ {r} : visit'[x] = visit[x]
        BY <1>1, <3>1, <3>2, VisitSeen
      <4> QED
        BY <1>1, <3>1, <4>1, LookingStep DEF Changing
    <3>3. CASE Leave(r)
      BY <1>1, <3>1, <3>3, Away, LookingStep
    <3> QED
      BY <1>1, <2>8, <3>2, <3>3 DEF FetchState
  <2>9. CASE WriteStatus(r)
    <3>1. /\ visit[r] # None /\ visit[r].at = "write" /\ Leave(r)
          /\ UNCHANGED <<name, hooked, instance, astray>>
      BY <1>1, <2>9 DEF WriteStatus, evolution
    <3>2. visit'[r] = None /\ \A x \in Req \ {r} : visit'[x] = visit[x]
      BY <1>1, <3>1, Away
    <3>3. CASE Altering(r)
      <4>1. visit[r].alone /\ m \notin astray => AgreeOn(m)'
        BY <1>1, <2>n, <3>1, <3>3 DEF NearOne, AgreeOn
      <4> QED
        BY <1>1, <2>m, <3>1, <3>2, <3>3, <4>1, ChangingStep
    <3>4. CASE ~Altering(r)
      BY <1>1, <3>1, <3>2, <3>4, LookingStep
    <3> QED
      BY <1>1, <3>3, <3>4
  <2>10. CASE Logout(r)
    <3>1. /\ visit[r] # None /\ visit[r].op = "logout" /\ GoOn(r, "record")
          /\ UNCHANGED <<name, hooked, astray>> /\ ~Altering(r)
      BY <1>1, <2>10 DEF Logout, Visiting, Altering, Changing, shown
    <3>2. \A n \in Name : instance'[n] = None <=> instance[n] = None
      BY <1>1, <2>10, WhatsAppAssumption DEF Logout, WhatsAppTypeOK
    <3>3. /\ visit'[r].at = "record" /\ visit'[r].op = "logout"
          /\ \A x \in Req \ {r} : visit'[x] = visit[x]
      BY <1>1, <3>1, VisitOnward
    <3> QED
      BY <1>1, <3>1, <3>2, <3>3, LookingStep DEF Changing
  <2>11. CASE RecordLogout(r)
    <3>1. ~Altering(r) /\ Leave(r) /\ UNCHANGED <<name, hooked, instance, astray>>
      BY <1>1, <2>11 DEF RecordLogout, Visiting, Altering, Changing, evolution
    <3> QED
      BY <1>1, <3>1, Away, LookingStep
  <2>12. CASE EraseInstance(r)
    <3>1. /\ visit[r] # None /\ visit[r].op = "delete" /\ Altering(r) /\ GoOn(r, "record")
          /\ UNCHANGED name
      BY <1>1, <2>12 DEF EraseInstance, Visiting, Altering, Changing, shown
    <3>2. \/ /\ instance' = [instance EXCEPT ![m] = None] /\ hooked' = hooked \ {m}
             /\ astray' = IF visit[r].alone THEN astray \ {m} ELSE astray
          \/ astray' = astray \cup {m} /\ UNCHANGED <<instance, hooked>>
      BY <1>1, <2>12 DEF EraseInstance, evolution
    <3>3. /\ astray \ {m} \subseteq astray'
          /\ ~visit[r].alone => astray \subseteq astray'
          /\ \A n \in Name \ {m} :
               instance'[n] = instance[n] /\ (n \in hooked' <=> n \in hooked)
      BY <1>1, <3>2 DEF WhatsAppTypeOK
    <3>4. m \notin astray' => instance'[m] = None
      BY <1>1, <2>m, <3>1, <3>2 DEF WhatsAppTypeOK
    <3>5. /\ visit'[r] # None /\ visit'[r].at = "record" /\ visit'[r].name = m
          /\ visit'[r].op = "delete" /\ visit'[r].alone = visit[r].alone
          /\ \A x \in Req \ {r} : visit'[x] = visit[x]
      BY <1>1, <3>1, VisitOnward
    <3>6. NearOne(r)'
      BY <1>1, <3>4, <3>5 DEF NearOne
    <3> QED
      BY <1>1, <2>m, <3>1, <3>3, <3>5, <3>6, ChangingStep
  <2>13. CASE RecordDelete(r)
    <3>1. /\ visit[r] # None /\ visit[r].op = "delete" /\ visit[r].at = "record"
          /\ Altering(r) /\ Leave(r)
          /\ name' = None /\ UNCHANGED <<instance, hooked, astray>>
      BY <1>1, <2>13 DEF RecordDelete, Visiting, Altering, Changing, evolution
    <3>2. visit'[r] = None /\ \A x \in Req \ {r} : visit'[x] = visit[x]
      BY <1>1, <3>1, Away
    <3>3. visit[r].alone /\ m \notin astray' => AgreeOn(m)'
      BY <1>1, <2>m, <2>n, <3>1 DEF NearOne, AgreeOn
    <3> QED
      BY <1>1, <2>m, <3>1, <3>2, <3>3, ChangingStep
  <2>14. CASE FailVisit(r)
    <3>1. UNCHANGED <<name, hooked, instance>> /\ Leave(r) /\ visit[r] # None
      BY <1>1, <2>14 DEF FailVisit, shown, evolution
    <3>2. visit'[r] = None /\ \A x \in Req \ {r} : visit'[x] = visit[x]
      BY <1>1, <3>1, Away
    <3>3. CASE Altering(r)
      <4>1. astray' = astray \cup {m}
        BY <1>1, <2>14, <3>3 DEF FailVisit, Altering
      <4> QED
        BY <1>1, <2>m, <3>1, <3>2, <3>3, <4>1, ChangingStep
    <3>4. CASE ~Altering(r)
      <4>1. astray' = astray
        BY <1>1, <2>14, <3>4 DEF FailVisit, Altering
      <4> QED
        BY <1>1, <3>1, <3>2, <3>4, <4>1, LookingStep
    <3> QED
      BY <1>1, <3>3, <3>4
  <2> QED
    BY <1>1, <2>1, <2>2, <2>3, <2>4, <2>5, <2>6, <2>7, <2>8, <2>9, <2>10, <2>11,
       <2>12, <2>13, <2>14 DEF WhatsAppStep
<1>2. ASSUME NEW st \in ShownStatus, NEW r \in Req, NEW n \in Name \cup {None},
             LinkByHand(r, n, st)
      PROVE  AgreeInv'
  <2> DEFINE v == IF n = None THEN None ELSE NewVisit(r, "link", "webhook", n)
  <2>1. v # None => /\ v \in Visit /\ v.op = "link" /\ v.at = "webhook" /\ v.name = n
                    /\ v.alone <=> Crowd(r) = {}
                    /\ n # None
    BY NewVisitType
  <2>2. /\ Enter(r, v) /\ visit[r] = None /\ name' = n
        /\ UNCHANGED <<instance, hooked>>
        /\ astray' = astray \cup NamesMet(r) \cup ({name, n} \ {None})
    BY <1>2 DEF LinkByHand, evolution
  <2>3. v \in Visit \cup {None}
    BY <2>1
  <2> HIDE DEF v
  <2>4. /\ astray \subseteq astray' /\ NamesMet(r) \subseteq astray'
        /\ n # None => n \in astray' /\ {name, name'} \subseteq astray' \cup {None}
        /\ {name, name'} \subseteq astray' \cup {None}
    BY <2>2
  <2> QED
    BY <2>1, <2>2, <2>3, <2>4, ChangeBegins DEF Changing
<1>3. ASSUME UNCHANGED <<name, hooked, visit, astray>>,
             \A n \in Name : instance'[n] = None <=> instance[n] = None
      PROVE  AgreeInv'
  <2>1. \A x \in Req : Altering(x)' <=> Altering(x)
    BY <1>3 DEF Altering
  <2>2. \A x \in Req : visit[x] \in Visit \cup {None}
    BY DEF WhatsAppTypeOK
  <2> QED
    BY <1>3, <2>1, <2>2, EvenStep DEF AgreeInv, Placed
<1>4. ASSUME NEW st \in ShownStatus, WriteStatusByHand(st) PROVE AgreeInv'
  BY <1>3, <1>4 DEF WriteStatusByHand, evolution
<1>5. ASSUME NEW n \in Name, Pair(n) PROVE AgreeInv'
  <2>1. \A x \in Name : instance'[x] = None <=> instance[x] = None
    BY <1>5, WhatsAppAssumption DEF Pair, WhatsAppTypeOK
  <2> QED
    BY <1>3, <1>5, <2>1 DEF Pair, shown
<1>6. CASE UNCHANGED whatsAppVars
  BY <1>3, <1>6 DEF whatsAppVars
<1> QED
  BY <1>1, <1>2, <1>4, <1>5, <1>6 DEF WhatsAppNext, ByHand

\* While no request is changing something, the document names exactly the
\* instances that the Evolution API has, and they send to n8n, but for the names
\* that went astray: by a call about them that failed or met another, or by a
\* name written by hand, and no lone call about them since (whatsapp.service.ts
\* connectWhatsApp, deleteInstance; tenants.service.ts updateEvolutionInstance).
THEOREM InstanceMatches == WhatsAppSpec => []InstanceAgrees
<1>1. AgreeInv => InstanceAgrees
  BY DEF AgreeInv, Far, InstanceAgrees, AgreeOn, Busy, Altering
<1> QED
  BY <1>1, WhatsAppTypes, AgreeInit, AgreeStep, PTL DEF WhatsAppSpec

-----------------------------------------------------------------------------
(***************************************************************************)
(* Stored files: types.  A request that uploads has a file to upload, and  *)
(* one that deletes has read which.                                        *)
(***************************************************************************)
FileWork ==
  [op : FileOp, at : {"delete", "upload", "save", "drop"},
   item : Item, ext : AnyExt \cup {None}, had : BOOLEAN, seen : AnyExt \cup {None}]

ConfigWork ==
  [op : {"config", "qr"}, at : {"read", "save"}, had : BOOLEAN, pay : BOOLEAN,
   qr : BOOLEAN]

WorkSound(w) ==
  /\ w.op \in {"create", "replace"} => w.ext \in AnyExt /\ w.at # "drop"
  /\ w.op = "remove" => w.at \in {"delete", "drop"}
  /\ w.op \in FileOp /\ w.at = "delete" => w.seen \in AnyExt
  /\ w.op = "qr" => w.pay /\ w.qr
  /\ w.op = "config" => w.at = "save"

WorksSound == \A r \in Req : work[r] # None => WorkSound(work[r])

FilesInv == FilesTypeOK /\ WorksSound

LEMMA WorkKinds ==
  /\ FileWork \subseteq Work /\ ConfigWork \subseteq Work
  /\ \A w \in Work : /\ w.op \in FileOp => w \in FileWork
                     /\ w.op \in {"config", "qr"} => w \in ConfigWork
                     /\ w.op \in FileOp \cup {"config", "qr"}
  BY DEF Work, FileWork, ConfigWork, FileOp

LEMMA WorkOf ==
  ASSUME FilesInv, NEW r \in Req, work[r] # None
  PROVE  /\ WorkSound(work[r])
         /\ work[r].op \in FileOp => work[r] \in FileWork
         /\ work[r].op \in {"config", "qr"} => work[r] \in ConfigWork
         /\ work[r].op \in FileOp \cup {"config", "qr"}
  BY WorkKinds DEF FilesInv, FilesTypeOK, WorksSound

\* The requests in flight after one of them has changed.
LEMMA WorkWith ==
  ASSUME FilesInv, NEW r \in Req, NEW w,
         w = None \/ (w \in FileWork \cup ConfigWork /\ WorkSound(w)),
         work' = [work EXCEPT ![r] = w]
  PROVE  /\ work' \in [Req -> Work \cup {None}]
         /\ WorksSound'
         /\ work'[r] = w /\ \A x \in Req \ {r} : work'[x] = work[x]
  BY WorkKinds DEF FilesInv, FilesTypeOK, WorksSound

LEMMA FinishedWork ==
  ASSUME FilesInv, NEW r \in Req, Finish(r)
  PROVE  /\ work' \in [Req -> Work \cup {None}]
         /\ WorksSound'
         /\ work'[r] = None /\ \A x \in Req \ {r} : work'[x] = work[x]
  BY WorkWith DEF Finish

\* A request goes on with its file.
LEMMA ProceedingWork ==
  ASSUME FilesInv, NEW r \in Req, NEW at \in {"upload", "save", "drop"},
         work[r] # None, work[r].op \in FileOp, Proceed(r, at),
         at = "drop" <=> work[r].op = "remove"
  PROVE  /\ work' \in [Req -> Work \cup {None}]
         /\ WorksSound'
         /\ work'[r] \in FileWork /\ work'[r] = [work[r] EXCEPT !.at = at]
         /\ \A x \in Req \ {r} : work'[x] = work[x]
<1> DEFINE w == [work[r] EXCEPT !.at = at]
<1>1. work[r] \in FileWork /\ WorkSound(work[r])
  BY WorkOf
<1>2. w \in FileWork /\ WorkSound(w)
  BY <1>1 DEF FileWork, WorkSound, FileOp
<1>3. work' = [work EXCEPT ![r] = w]
  BY DEF Proceed
<1> HIDE DEF w
<1> QED
  BY <1>2, <1>3, WorkWith DEF w

\* A request reads a document.
LEMMA FoundDocument ==
  ASSUME FilesInv, NEW r \in Req, NEW op \in {"replace", "remove"}, NEW i \in Item,
         NEW e \in AnyExt \cup {None}, op = "replace" <=> e # None,
         FindDocument(r, op, i, e)
  PROVE  /\ work[r] = None
         /\ work' \in [Req -> Work \cup {None}]
         /\ WorksSound'
         /\ work'[r] \in FileWork
         /\ work'[r].op = op /\ work'[r].item = i /\ work'[r].ext = e
         /\ work'[r].had <=> doc[i] # None
         /\ work'[r].seen = IF doc[i] = None THEN None ELSE doc[i].key
         /\ work'[r].at = First(op, work'[r].seen)
         /\ \A x \in Req \ {r} : work'[x] = work[x]
<1> DEFINE seen == IF doc[i] = None THEN None ELSE doc[i].key
           w == [op |-> op, at |-> First(op, seen), item |-> i, ext |-> e,
                 had |-> doc[i] # None, seen |-> seen]
<1>1. seen \in AnyExt \cup {None}
  BY DEF FilesInv, FilesTypeOK, Document
<1>2. work[r] = None /\ work' = [work EXCEPT ![r] = w]
  BY DEF FindDocument
<1> HIDE DEF seen
<1>3. w \in FileWork
  BY <1>1 DEF FileWork, FileOp, First
<1>4. WorkSound(w)
  BY <1>1, FilesAssumption DEF WorkSound, First
<1>5. /\ work' \in [Req -> Work \cup {None}] /\ WorksSound' /\ work'[r] = w
      /\ \A x \in Req \ {r} : work'[x] = work[x]
  <2> HIDE DEF w
  <2> QED
    BY <1>2, <1>3, <1>4, WorkWith
<1> QED
  BY <1>2, <1>3, <1>5 DEF seen

LEMMA FilesInitInv == FilesInit => FilesInv
  BY DEF FilesInit, FilesInv, FilesTypeOK, WorksSound, Idle

LEMMA DocumentInv ==
  ASSUME FilesInv, NEW r \in Req, use' = use,
         \/ \E p \in Product : \E e \in Ext \cup {None} : CreateProduct(r, p, e)
         \/ \E op \in {"replace", "remove"}, i \in Item, e \in AnyExt \cup {None} :
              (op = "replace" <=> e # None) /\ FindDocument(r, op, i, e)
         \/ DeleteFile(r) \/ UploadFile(r) \/ SaveDocument(r) \/ DropDocument(r)
  PROVE  FilesInv'
<1>1. ASSUME NEW p \in Product, NEW e \in Ext \cup {None}, CreateProduct(r, p, e)
      PROVE  FilesInv'
  <2>1. [key |-> None] \in Document /\ p \in Item
    BY DEF Document, Item
  <2>2. doc' \in [Item -> Document \cup {None}] /\ unborn' \subseteq Product
    BY <1>1, <2>1 DEF CreateProduct, FilesInv, FilesTypeOK
  <2>3. work' \in [Req -> Work \cup {None}] /\ WorksSound'
    <3> DEFINE w == [op |-> "create", at |-> "upload", item |-> p, ext |-> e,
                     had |-> TRUE, seen |-> None]
    <3>1. CASE e = None
      BY <1>1, <3>1 DEF CreateProduct, FilesInv, FilesTypeOK, WorksSound
    <3>2. CASE e # None
      <4>1. w \in FileWork /\ WorkSound(w)
        BY <2>1, <3>2 DEF FileWork, WorkSound, FileOp, AnyExt
      <4>2. work' = [work EXCEPT ![r] = w]
        BY <1>1, <3>2 DEF CreateProduct
      <4> HIDE DEF w
      <4> QED
        BY <4>1, <4>2, WorkWith
    <3> QED
      BY <3>1, <3>2
  <2> QED
    BY <1>1, <2>2, <2>3 DEF CreateProduct, FilesInv, FilesTypeOK
<1>2. ASSUME NEW op \in {"replace", "remove"}, NEW i \in Item,
             NEW e \in AnyExt \cup {None}, op = "replace" <=> e # None,
             FindDocument(r, op, i, e)
      PROVE  FilesInv'
  <2>1. torn' \subseteq Item
    BY <1>2 DEF FindDocument, FilesInv, FilesTypeOK
  <2> QED
    BY <1>2, <2>1, FoundDocument DEF FindDocument, FilesInv, FilesTypeOK
<1>3. CASE DeleteFile(r)
  <2>1. work[r] \in FileWork /\ work[r] # None /\ work[r].op \in FileOp
    BY <1>3, WorkOf DEF DeleteFile, Handling
  <2>2. store' \subseteq Item \X AnyExt /\ torn' \subseteq Item
    BY <1>3, <2>1 DEF DeleteFile, FilesInv, FilesTypeOK, FileWork
  <2> DEFINE at == IF work[r].op = "remove" THEN "drop" ELSE "upload"
  <2>3. Proceed(r, at) /\ at \in {"upload", "save", "drop"}
        /\ (at = "drop" <=> work[r].op = "remove")
    BY <1>3 DEF DeleteFile
  <2> HIDE DEF at
  <2>4. work' \in [Req -> Work \cup {None}] /\ WorksSound'
    BY <2>1, <2>3, ProceedingWork
  <2> QED
    BY <1>3, <2>2, <2>4 DEF DeleteFile, FilesInv, FilesTypeOK
<1>4. CASE UploadFile(r)
  <2>1. work[r] \in FileWork /\ WorkSound(work[r]) /\ work[r] # None /\ work[r].op \in FileOp
        /\ work[r].at = "upload"
    BY <1>4, WorkOf DEF UploadFile, Handling
  <2>2. work[r].op # "remove" /\ work[r].ext \in AnyExt /\ work[r].item \in Item
    BY <2>1 DEF WorkSound, FileOp, FileWork
  <2>3. store' \subseteq Item \X AnyExt
    BY <1>4, <2>2 DEF UploadFile, FilesInv, FilesTypeOK
  <2>4. work' \in [Req -> Work \cup {None}] /\ WorksSound'
    BY <1>4, <2>1, <2>2, ProceedingWork DEF UploadFile
  <2> QED
    BY <1>4, <2>3, <2>4 DEF UploadFile, FilesInv, FilesTypeOK
<1>5. CASE SaveDocument(r)
  <2>1. work[r] \in FileWork
    BY <1>5, WorkOf DEF SaveDocument, Handling
  <2>2. work[r].item \in Item /\ [key |-> work[r].ext] \in Document
    BY <2>1 DEF FileWork, Document
  <2>3. \A d \in Document : Saved(d, work[r]) \in Document
    BY <2>1 DEF FileWork, Document, Saved
  <2>4. doc' \in [Item -> Document \cup {None}]
    BY <1>5, <2>2, <2>3 DEF SaveDocument, FilesInv, FilesTypeOK
  <2> QED
    BY <1>5, <2>4, FinishedWork DEF SaveDocument, FilesInv, FilesTypeOK
<1>6. CASE DropDocument(r)
  BY <1>6, FinishedWork DEF DropDocument, FilesInv, FilesTypeOK
<1> QED
  BY <1>1, <1>2, <1>3, <1>4, <1>5, <1>6

LEMMA ConfigInv ==
  ASSUME FilesInv, NEW r \in Req, use' = use,
         \/ \E pay, given \in BOOLEAN : UpsertConfig(r, pay, given)
         \/ UploadPaymentQr(r) \/ ReadConfig(r) \/ SaveConfig(r) \/ FailWork(r)
  PROVE  FilesInv'
<1>1. ASSUME NEW pay \in BOOLEAN, NEW given \in BOOLEAN, UpsertConfig(r, pay, given)
      PROVE  FilesInv'
  <2> DEFINE w == [op |-> "config", at |-> "save", had |-> config # None, pay |-> pay,
                   qr |-> pay /\ Preserved(given, HasQr)]
  <2>1. w \in ConfigWork /\ WorkSound(w)
    BY DEF ConfigWork, WorkSound, FileOp
  <2>2. work' = [work EXCEPT ![r] = w]
    BY <1>1 DEF UpsertConfig
  <2> HIDE DEF w
  <2>3. work' \in [Req -> Work \cup {None}] /\ WorksSound'
    BY <2>1, <2>2, WorkWith
  <2> QED
    BY <1>1, <2>3 DEF UpsertConfig, FilesInv, FilesTypeOK
<1>2. CASE UploadPaymentQr(r)
  <2> DEFINE w == [op |-> "qr", at |-> "read", had |-> FALSE, pay |-> TRUE, qr |-> TRUE]
  <2>1. w \in ConfigWork /\ WorkSound(w)
    BY DEF ConfigWork, WorkSound, FileOp
  <2>2. work' = [work EXCEPT ![r] = w]
    BY <1>2 DEF UploadPaymentQr
  <2> HIDE DEF w
  <2>3. work' \in [Req -> Work \cup {None}] /\ WorksSound'
    BY <2>1, <2>2, WorkWith
  <2> QED
    BY <1>2, <2>3 DEF UploadPaymentQr, FilesInv, FilesTypeOK
<1>3. CASE ReadConfig(r)
  <2> DEFINE w == [work[r] EXCEPT !.had = config # None, !.at = "save"]
  <2>1. work[r] \in ConfigWork /\ WorkSound(work[r])
    BY <1>3, WorkOf DEF ReadConfig, Configuring
  <2>2. w \in ConfigWork /\ WorkSound(w)
    BY <2>1 DEF ConfigWork, WorkSound, FileOp
  <2>3. work' = [work EXCEPT ![r] = w]
    BY <1>3 DEF ReadConfig
  <2> HIDE DEF w
  <2>4. work' \in [Req -> Work \cup {None}] /\ WorksSound'
    BY <2>2, <2>3, WorkWith
  <2> QED
    BY <1>3, <2>4 DEF ReadConfig, FilesInv, FilesTypeOK
<1>4. CASE SaveConfig(r)
  <2>1. work[r] \in ConfigWork
    BY <1>4, WorkOf DEF SaveConfig, Configuring
  <2>2. [qr |-> work[r].qr] \in Config
    BY <2>1 DEF ConfigWork, Config
  <2>3. config' \in Config \cup {None} /\ blind' \subseteq Req
    BY <1>4, <2>2 DEF SaveConfig, Unaware, FilesInv, FilesTypeOK
  <2> QED
    BY <1>4, <2>3, FinishedWork DEF SaveConfig, FilesInv, FilesTypeOK
<1>5. CASE FailWork(r)
  <2>1. torn' \subseteq Item /\ blind' \subseteq Req
    BY <1>5, WorkOf DEF FailWork, FileWork, FilesInv, FilesTypeOK
  <2> QED
    BY <1>5, <2>1, FinishedWork DEF FailWork, FilesInv, FilesTypeOK
<1> QED
  BY <1>1, <1>2, <1>3, <1>4, <1>5

\* Every step is one of a document or of the configuration.
LEMMA FilesCases ==
  ASSUME FilesNext
  PROVE  /\ use' = use
         /\ \E r \in Req :
              \/ \E p \in Product : \E e \in Ext \cup {None} : CreateProduct(r, p, e)
              \/ \E op \in {"replace", "remove"}, i \in Item, e \in AnyExt \cup {None} :
                   /\ op = "replace" <=> e # None
                   /\ i # "pdf" => doc[i] # None
                   /\ FindDocument(r, op, i, e)
              \/ DeleteFile(r) \/ UploadFile(r) \/ SaveDocument(r) \/ DropDocument(r)
              \/ \E pay, given \in BOOLEAN : UpsertConfig(r, pay, given)
              \/ UploadPaymentQr(r) \/ ReadConfig(r) \/ SaveConfig(r) \/ FailWork(r)
<1>1. PICK r \in Req : FilesStep(r)
  BY DEF FilesNext
<1>2. ASSUME NEW p \in Product, NEW e \in Ext, UpdateProduct(r, p, e)
      PROVE  /\ p \in Item /\ e \in AnyExt \cup {None} /\ e # None
             /\ doc[p] # None /\ FindDocument(r, "replace", p, e)
  BY <1>2, FilesAssumption DEF UpdateProduct, Item, AnyExt
<1>3. ASSUME NEW p \in Product, RemoveProduct(r, p)
      PROVE  p \in Item /\ doc[p] # None /\ FindDocument(r, "remove", p, None)
  BY <1>3 DEF RemoveProduct, Item
<1>4. ASSUME UpsertPdf(r)
      PROVE  /\ "pdf" \in Item /\ "pdf" \in AnyExt /\ "pdf" # None
             /\ FindDocument(r, "replace", "pdf", "pdf")
  BY <1>4, FilesAssumption DEF UpsertPdf, Item, AnyExt
<1>5. ASSUME RemovePdf(r)
      PROVE  "pdf" \in Item /\ FindDocument(r, "remove", "pdf", None)
  BY <1>5 DEF RemovePdf, Item
<1>6. use' = use
  BY DEF FilesNext
<1> QED
  BY <1>1, <1>2, <1>3, <1>4, <1>5, <1>6 DEF FilesStep

LEMMA FilesInvStep == FilesInv /\ [FilesNext]_filesVars => FilesInv'
<1> SUFFICES ASSUME FilesInv, [FilesNext]_filesVars PROVE FilesInv'
  OBVIOUS
<1>1. CASE FilesNext
  BY <1>1, FilesCases, DocumentInv, ConfigInv
<1>2. CASE UNCHANGED filesVars
  BY <1>2 DEF filesVars, FilesInv, FilesTypeOK, WorksSound
<1> QED
  BY <1>1, <1>2

LEMMA FilesInvariant == FilesSpec => []FilesInv
  BY FilesInitInv, FilesInvStep, PTL DEF FilesSpec

\* Every variable keeps its type.
THEOREM FilesTypes == FilesSpec => []FilesTypeOK
  BY FilesInvariant, PTL DEF FilesInv

-----------------------------------------------------------------------------
(***************************************************************************)
(* Documents and files.  While nothing has gone wrong with an item, at     *)
(* most one request works on it; the document is as that request found it, *)
(* and the store has what the request has left there so far.               *)
(***************************************************************************)
FilesOf(i) == {e \in AnyExt : <<i, e>> \in store}

ItemSound(i) ==
  /\ \A r, s \in WorkersOf(i) : r = s
  /\ WorkersOf(i) = {} => FilesOf(i) = KeysOf(i)
  /\ \A r \in WorkersOf(i) :
       /\ work[r].had <=> doc[i] # None
       /\ work[r].had => doc[i].key = work[r].seen
       /\ work[r].at = "delete" => FilesOf(i) = {work[r].seen}
       /\ work[r].at \in {"upload", "drop"} => FilesOf(i) = {}
       /\ work[r].at = "save" => FilesOf(i) = {work[r].ext}

ItemsSound ==
  /\ \A i \in Item \ torn : ItemSound(i)
  /\ \A p \in unborn : doc[p] = None /\ WorkersOf(p) = {}

\* The workers of every item, after a step of one request.
LEMMA WorkersAfter ==
  ASSUME NEW r \in Req, \A x \in Req \ {r} : work'[x] = work[x], NEW i
  PROVE  /\ \A x \in Req \ {r} : x \in WorkersOf(i)' <=> x \in WorkersOf(i)
         /\ r \in WorkersOf(i)' <=>
              work'[r] # None /\ work'[r].op \in FileOp /\ work'[r].item = i
         /\ r \in WorkersOf(i) <=>
              work[r] # None /\ work[r].op \in FileOp /\ work[r].item = i
         /\ \A x \in WorkersOf(i) \ {r} : work'[x] = work[x]
         /\ WorkersOf(i) \subseteq Req /\ WorkersOf(i)' \subseteq Req
  BY DEF WorkersOf

\* Nothing of an item changes when a step is about something else.
LEMMA ItemKept ==
  ASSUME NEW i \in Item, ItemSound(i), NEW r \in Req,
         \A x \in Req \ {r} : work'[x] = work[x],
         r \notin WorkersOf(i), r \notin WorkersOf(i)',
         doc'[i] = doc[i], FilesOf(i)' = FilesOf(i)
  PROVE  ItemSound(i)' /\ WorkersOf(i)' = WorkersOf(i)
<1>1. WorkersOf(i)' = WorkersOf(i) /\ \A x \in WorkersOf(i) : work'[x] = work[x]
  <2>1. \A x \in Req : x \in WorkersOf(i)' <=> x \in WorkersOf(i)
    BY WorkersAfter
  <2>2. WorkersOf(i) \subseteq Req \ {r} /\ WorkersOf(i)' \subseteq Req
    BY WorkersAfter
  <2> QED
    BY <2>1, <2>2
<1>2. KeysOf(i)' = KeysOf(i)
  BY DEF KeysOf
<1>3. ASSUME NEW x \in WorkersOf(i)
      PROVE  /\ work'[x].had <=> doc'[i] # None
             /\ work'[x].had => doc'[i].key = work'[x].seen
             /\ work'[x].at = "delete" => FilesOf(i)' = {work'[x].seen}
             /\ work'[x].at \in {"upload", "drop"} => FilesOf(i)' = {}
             /\ work'[x].at = "save" => FilesOf(i)' = {work'[x].ext}
  <2>1. work'[x] = work[x]
    BY <1>1, <1>3
  <2> QED
    BY <1>3, <2>1, Zenon DEF ItemSound
<1>4. /\ \A x, y \in WorkersOf(i) : x = y
      /\ WorkersOf(i) = {} => FilesOf(i)' = KeysOf(i)'
  BY <1>2 DEF ItemSound
<1> QED
  BY <1>1, <1>3, <1>4, Zenon DEF ItemSound

\* A step of the one request that works on an item.
LEMMA WorkerStep ==
  ASSUME NEW i \in Item, ItemSound(i), NEW r \in WorkersOf(i),
         \A x \in Req \ {r} : work'[x] = work[x]
  PROVE  /\ r \in WorkersOf(i)' => WorkersOf(i)' = {r}
         /\ r \notin WorkersOf(i)' => WorkersOf(i)' = {}
<1>1. WorkersOf(i) = {r} /\ r \in Req
  BY DEF ItemSound, WorkersOf
<1> QED
  BY <1>1, WorkersAfter

LEMMA ItemsInit == FilesInit => ItemsSound
<1> SUFFICES ASSUME FilesInit PROVE ItemsSound
  OBVIOUS
<1>1. \A i : WorkersOf(i) = {}
  BY DEF FilesInit, WorkersOf, Idle
<1>2. \A i \in Item : doc[i] = None /\ FilesOf(i) = {} /\ KeysOf(i) = {}
  BY DEF FilesInit, FilesOf, KeysOf
<1>3. unborn \subseteq Item
  BY DEF FilesInit, Item
<1> QED
  BY <1>1, <1>2, <1>3 DEF ItemsSound, ItemSound

\* A step about one item, which leaves the others alone.
LEMMA StepOfItem ==
  ASSUME FilesInv, ItemsSound, NEW r \in Req, \A x \in Req \ {r} : work'[x] = work[x],
         NEW i \in Item \ unborn, unborn' = unborn, torn \subseteq torn',
         \A j \in Item \ {i} :
           /\ r \notin WorkersOf(j) /\ r \notin WorkersOf(j)'
           /\ doc'[j] = doc[j] /\ FilesOf(j)' = FilesOf(j),
         i \notin torn' => ItemSound(i)'
  PROVE  ItemsSound'
<1>1. ASSUME NEW j \in Item \ torn' PROVE ItemSound(j)'
  <2>1. CASE j = i
    BY <1>1, <2>1
  <2>2. CASE j # i
    BY <1>1, <2>2, ItemKept DEF ItemsSound
  <2> QED
    BY <2>1, <2>2
<1>2. ASSUME NEW p \in unborn PROVE doc'[p] = None /\ WorkersOf(p)' = {}
  <2>1. p \in Item \ {i} /\ doc[p] = None /\ WorkersOf(p) = {}
    BY <1>2 DEF ItemsSound, FilesInv, FilesTypeOK, Item
  <2>2. WorkersOf(p)' = {}
    BY <2>1, WorkersAfter
  <2> QED
    BY <2>1, <2>2
<1> QED
  BY <1>1, <1>2 DEF ItemsSound

\* A step that is about no item.
LEMMA StepOfNoItem ==
  ASSUME FilesInv, ItemsSound, NEW r \in Req, \A x \in Req \ {r} : work'[x] = work[x],
         work[r] # None => work[r].op \notin FileOp,
         work'[r] # None => work'[r].op \notin FileOp,
         UNCHANGED <<doc, unborn, store, torn>>
  PROVE  ItemsSound'
<1>1. \A j : r \notin WorkersOf(j) /\ r \notin WorkersOf(j)'
  BY WorkersAfter
<1>2. \A j \in Item : doc'[j] = doc[j] /\ FilesOf(j)' = FilesOf(j)
  BY DEF FilesOf
<1>3. \A j \in Item \ torn' : ItemSound(j)'
  BY <1>1, <1>2, ItemKept DEF ItemsSound
<1>4. ASSUME NEW p \in unborn PROVE doc'[p] = None /\ WorkersOf(p)' = {}
  <2>1. doc[p] = None /\ WorkersOf(p) = {}
    BY <1>4 DEF ItemsSound
  <2>2. WorkersOf(p)' = {}
    BY <1>1, <2>1, WorkersAfter
  <2> QED
    BY <2>1, <2>2
<1> QED
  BY <1>3, <1>4 DEF ItemsSound

\* What a request that works on an item knows about it.
LEMMA WorkerOf ==
  ASSUME FilesInv, ItemsSound, NEW r \in Req, work[r] # None, work[r].op \in FileOp
  PROVE  /\ work[r] \in FileWork /\ WorkSound(work[r])
         /\ r \in WorkersOf(work[r].item) /\ work[r].item \in Item \ unborn
         /\ \A j \in Item \ {work[r].item} : r \notin WorkersOf(j)
<1>1. work[r] \in FileWork /\ WorkSound(work[r])
  BY WorkOf
<1>2. r \in WorkersOf(work[r].item) /\ \A j \in Item \ {work[r].item} : r \notin WorkersOf(j)
  BY DEF WorkersOf
<1>3. work[r].item \in Item
  BY <1>1 DEF FileWork
<1>4. work[r].item \notin unborn
  BY <1>2 DEF ItemsSound
<1> QED
  BY <1>1, <1>2, <1>3, <1>4

LEMMA ItemsStep == FilesInv /\ ItemsSound /\ [FilesNext]_filesVars => ItemsSound'
<1> SUFFICES ASSUME FilesInv, ItemsSound, [FilesNext]_filesVars PROVE ItemsSound'
  OBVIOUS
<1>1. ASSUME NEW r \in Req, NEW p \in Product, NEW e \in Ext \cup {None},
             CreateProduct(r, p, e)
      PROVE  ItemsSound'
  <2>1. /\ p \in unborn /\ p \in Item /\ doc[p] = None /\ WorkersOf(p) = {}
        /\ unborn' = unborn \ {p} /\ torn' = torn /\ store' = store
    BY <1>1 DEF CreateProduct, ItemsSound, Item
  <2>2. /\ doc' = [doc EXCEPT ![p] = [key |-> None]]
        /\ doc \in [Item -> Document \cup {None}] /\ [key |-> None] # None
    BY <1>1, FilesAssumption DEF CreateProduct, FilesInv, FilesTypeOK, Document
  <2>3. \A j \in Item \ {p} : doc'[j] = doc[j]
    BY <2>2
  <2>4. doc'[p] = [key |-> None] /\ KeysOf(p)' = {} /\ KeysOf(p) = {}
    BY <2>1, <2>2 DEF KeysOf
  <2>5. \A j : FilesOf(j)' = FilesOf(j)
    BY <2>1 DEF FilesOf
  <2>6. /\ \A x \in Req \ {r} : work'[x] = work[x]
        /\ work[r] = None
        /\ work'[r] # None =>
             /\ work'[r].op = "create" /\ work'[r].at = "upload" /\ work'[r].item = p
             /\ work'[r].had /\ work'[r].seen = None
    BY <1>1 DEF CreateProduct, FilesInv, FilesTypeOK
  <2>7. \A j \in Item \ {p} : r \notin WorkersOf(j) /\ r \notin WorkersOf(j)'
    BY <2>6 DEF WorkersOf
  <2>8. \A j \in Item \ {p} : j \notin torn' => ItemSound(j)'
    BY <2>1, <2>3, <2>5, <2>6, <2>7, ItemKept DEF ItemsSound
  <2>9. WorkersOf(p)' \subseteq {r}
    BY <2>1, <2>6, WorkersAfter
  <2>10. p \notin torn' => ItemSound(p)'
    <3>1. ASSUME p \notin torn PROVE FilesOf(p)' = {}
      BY <2>1, <2>4, <2>5, <3>1 DEF ItemsSound, ItemSound
    <3>2. \A x \in WorkersOf(p)' : x = r /\ work'[r] # None
      BY <2>9 DEF WorkersOf
    <3>3. doc'[p] # None /\ doc'[p].key = None
      BY <2>2, <2>4
    <3> QED
      BY <2>1, <2>4, <2>6, <3>1, <3>2, <3>3 DEF ItemSound
  <2>11. ASSUME NEW q \in unborn' PROVE doc'[q] = None /\ WorkersOf(q)' = {}
    <3>1. q \in Item \ {p} /\ doc[q] = None /\ WorkersOf(q) = {}
      BY <2>1, <2>11 DEF ItemsSound, FilesInv, FilesTypeOK, Item
    <3>2. WorkersOf(q)' = {}
      BY <2>6, <2>7, <3>1, WorkersAfter
    <3> QED
      BY <2>3, <3>1, <3>2
  <2> QED
    BY <2>8, <2>10, <2>11 DEF ItemsSound
<1>2. ASSUME NEW r \in Req, NEW op \in {"replace", "remove"}, NEW i \in Item,
             NEW e \in AnyExt \cup {None}, op = "replace" <=> e # None,
             i # "pdf" => doc[i] # None, FindDocument(r, op, i, e)
      PROVE  ItemsSound'
  <2>1. /\ work[r] = None
        /\ work'[r] \in FileWork
        /\ work'[r].op = op /\ work'[r].item = i /\ work'[r].ext = e
        /\ work'[r].had <=> doc[i] # None
        /\ work'[r].seen = IF doc[i] = None THEN None ELSE doc[i].key
        /\ work'[r].at = First(op, work'[r].seen)
        /\ \A x \in Req \ {r} : work'[x] = work[x]
    BY <1>2, FoundDocument
  <2>2. i \notin unborn
    BY <1>2, FilesAssumption DEF ItemsSound, FilesInv, FilesTypeOK
  <2>3. \A j \in Item \ {i} : r \notin WorkersOf(j) /\ r \notin WorkersOf(j)'
    BY <2>1 DEF WorkersOf
  <2>4. UNCHANGED <<doc, store, unborn>> /\ torn \subseteq torn'
    BY <1>2 DEF FindDocument
  <2>5. \A j : FilesOf(j)' = FilesOf(j)
    BY <2>4 DEF FilesOf
  <2>6. ASSUME i \notin torn' PROVE ItemSound(i)'
    <3>1. WorkersOf(i) = {} /\ i \notin torn
      BY <1>2, <2>6 DEF FindDocument
    <3>2. FilesOf(i)' = KeysOf(i)
      BY <2>5, <3>1 DEF ItemsSound, ItemSound
    <3>3. FilesOf(i)' = {work'[r].seen} \ {None}
      BY <2>1, <3>2 DEF KeysOf
    <3>4. WorkersOf(i)' = {r}
      <4>1. r \in WorkersOf(i)'
        BY <2>1, FilesAssumption, WorkKinds DEF WorkersOf, FileOp
      <4> QED
        BY <2>1, <3>1, <4>1, WorkersAfter
    <3>5. /\ work'[r].at = "delete" => FilesOf(i)' = {work'[r].seen}
          /\ work'[r].at \in {"upload", "drop"} => FilesOf(i)' = {}
          /\ work'[r].at # "save"
      BY <2>1, <3>3 DEF First
    <3> QED
      BY <2>1, <2>4, <3>4, <3>5 DEF ItemSound
  <2> QED
    BY <2>1, <2>2, <2>3, <2>4, <2>5, <2>6, StepOfItem
<1>3. ASSUME NEW r \in Req, DeleteFile(r) PROVE ItemsSound'
  <2> DEFINE at == IF work[r].op = "remove" THEN "drop" ELSE "upload"
  <2>1. work[r] # None /\ work[r].op \in FileOp /\ work[r].at = "delete"
    BY <1>3 DEF DeleteFile, Handling
  <2>i. PICK i \in Item : i = work[r].item
    BY <2>1, WorkerOf
  <2>2. /\ work[r] \in FileWork /\ WorkSound(work[r])
        /\ r \in WorkersOf(i) /\ i \in Item \ unborn
        /\ \A j \in Item \ {i} : r \notin WorkersOf(j)
    BY <2>1, <2>i, WorkerOf
  <2>3. Proceed(r, at) /\ at \in {"upload", "save", "drop"}
        /\ (at = "drop" <=> work[r].op = "remove")
    BY <1>3 DEF DeleteFile
  <2>4. /\ work'[r] = [work[r] EXCEPT !.at = at] /\ \A x \in Req \ {r} : work'[x] = work[x]
        /\ work'[r] \in FileWork
    <3> HIDE DEF at
    <3> QED
      BY <2>1, <2>3, ProceedingWork
  <2>5. /\ work'[r].item = i /\ work'[r].had = work[r].had /\ work'[r].seen = work[r].seen
        /\ work'[r].at = at
    BY <2>2, <2>4, <2>i DEF FileWork
  <2>6. \A j \in Item \ {i} : r \notin WorkersOf(j)'
    BY <2>5 DEF WorkersOf
  <2>7. /\ UNCHANGED <<doc, unborn>> /\ torn \subseteq torn'
        /\ store' = store \ {<<i, work[r].seen>>} \/ (store' = store /\ i \in torn')
    BY <1>3, <2>i DEF DeleteFile
  <2>8. \A j \in Item \ {i} : FilesOf(j)' = FilesOf(j)
    BY <2>7 DEF FilesOf
  <2>9. ASSUME i \notin torn' PROVE ItemSound(i)'
    <3>1. ItemSound(i)
      BY <2>2, <2>7, <2>9 DEF ItemsSound
    <3>2. FilesOf(i) = {work[r].seen}
      BY <2>1, <2>2, <3>1 DEF ItemSound
    <3>3. FilesOf(i)' = {}
      BY <2>7, <2>9, <3>2 DEF FilesOf
    <3>4. WorkersOf(i)' = {r}
      <4>1. r \in WorkersOf(i)'
        BY <2>4, <2>5, FilesAssumption, WorkKinds DEF WorkersOf, FileWork
      <4> QED
        BY <2>2, <2>4, <3>1, <4>1, WorkerStep
    <3>5. (work[r].had <=> doc[i] # None) /\ (work[r].had => doc[i].key = work[r].seen)
      BY <2>2, <3>1 DEF ItemSound
    <3> QED
      BY <2>5, <2>7, <3>3, <3>4, <3>5 DEF ItemSound
  <2> QED
    BY <2>2, <2>4, <2>i, <2>6, <2>7, <2>8, <2>9, StepOfItem
<1>4. ASSUME NEW r \in Req, UploadFile(r) PROVE ItemsSound'
  <2>1. work[r] # None /\ work[r].op \in FileOp /\ work[r].at = "upload"
    BY <1>4 DEF UploadFile, Handling
  <2>i. PICK i \in Item : i = work[r].item
    BY <2>1, WorkerOf
  <2>2. /\ work[r] \in FileWork /\ WorkSound(work[r])
        /\ r \in WorkersOf(i) /\ i \in Item \ unborn
        /\ \A j \in Item \ {i} : r \notin WorkersOf(j)
    BY <2>1, <2>i, WorkerOf
  <2>3. work[r].op # "remove" /\ work[r].ext \in AnyExt
    BY <2>1, <2>2 DEF WorkSound, FileOp
  <2>4. /\ work'[r] = [work[r] EXCEPT !.at = "save"]
        /\ \A x \in Req \ {r} : work'[x] = work[x]
        /\ work'[r] \in FileWork
    BY <1>4, <2>1, <2>3, ProceedingWork DEF UploadFile
  <2>5. /\ work'[r].item = i /\ work'[r].had = work[r].had /\ work'[r].seen = work[r].seen
        /\ work'[r].at = "save" /\ work'[r].ext = work[r].ext
    BY <2>2, <2>4, <2>i DEF FileWork
  <2>6. \A j \in Item \ {i} : r \notin WorkersOf(j)'
    BY <2>5 DEF WorkersOf
  <2>7. UNCHANGED <<doc, unborn, torn>> /\ store' = store \cup {<<i, work[r].ext>>}
    BY <1>4, <2>i DEF UploadFile
  <2>8. \A j \in Item \ {i} : FilesOf(j)' = FilesOf(j)
    BY <2>7 DEF FilesOf
  <2>9. ASSUME i \notin torn' PROVE ItemSound(i)'
    <3>1. ItemSound(i)
      BY <2>2, <2>7, <2>9 DEF ItemsSound
    <3>2. FilesOf(i) = {}
      BY <2>1, <2>2, <3>1 DEF ItemSound
    <3>3. FilesOf(i)' = {work[r].ext}
      BY <2>3, <2>7, <3>2 DEF FilesOf
    <3>4. WorkersOf(i)' = {r}
      <4>1. r \in WorkersOf(i)'
        BY <2>4, <2>5, FilesAssumption, WorkKinds DEF WorkersOf, FileWork
      <4> QED
        BY <2>2, <2>4, <3>1, <4>1, WorkerStep
    <3>5. (work[r].had <=> doc[i] # None) /\ (work[r].had => doc[i].key = work[r].seen)
      BY <2>2, <3>1 DEF ItemSound
    <3> QED
      BY <2>5, <2>7, <3>3, <3>4, <3>5 DEF ItemSound
  <2> QED
    BY <2>2, <2>4, <2>i, <2>6, <2>7, <2>8, <2>9, StepOfItem
<1>5. ASSUME NEW r \in Req, SaveDocument(r) \/ DropDocument(r) PROVE ItemsSound'
  <2>1. work[r] # None /\ work[r].op \in FileOp /\ work[r].at \in {"save", "drop"}
    BY <1>5 DEF SaveDocument, DropDocument, Handling
  <2>i. PICK i \in Item : i = work[r].item
    BY <2>1, WorkerOf
  <2>2. /\ work[r] \in FileWork /\ WorkSound(work[r])
        /\ r \in WorkersOf(i) /\ i \in Item \ unborn
        /\ \A j \in Item \ {i} : r \notin WorkersOf(j)
    BY <2>1, <2>i, WorkerOf
  <2>3. work'[r] = None /\ \A x \in Req \ {r} : work'[x] = work[x]
    BY <1>5, FinishedWork DEF SaveDocument, DropDocument
  <2>4. \A j \in Item : r \notin WorkersOf(j)'
    BY <2>3 DEF WorkersOf
  <2>5. UNCHANGED <<store, unborn, torn>> /\ \A j : FilesOf(j)' = FilesOf(j)
    BY <1>5 DEF SaveDocument, DropDocument, FilesOf
  <2>6. \A j \in Item \ {i} : doc'[j] = doc[j]
    BY <1>5, <2>i DEF SaveDocument, DropDocument, FilesInv, FilesTypeOK
  <2>7. ASSUME i \notin torn' PROVE ItemSound(i)'
    <3>1. ItemSound(i)
      BY <2>2, <2>5, <2>7 DEF ItemsSound
    <3>2. WorkersOf(i)' = {}
      BY <2>2, <2>3, <2>4, <3>1, WorkerStep
    <3>3. /\ work[r].had <=> doc[i] # None
          /\ work[r].had => doc[i].key = work[r].seen
          /\ work[r].at = "drop" => FilesOf(i) = {}
          /\ work[r].at = "save" => FilesOf(i) = {work[r].ext}
      BY <2>2, <3>1 DEF ItemSound
    <3>4. FilesOf(i)' = KeysOf(i)'
      <4>1. CASE DropDocument(r)
        <5>1. work[r].at = "drop" /\ doc'[i] = None
          BY <2>2, <2>i, <4>1 DEF DropDocument, Handling, FilesInv, FilesTypeOK
        <5> QED
          BY <2>5, <3>3, <5>1 DEF KeysOf
      <4>2. CASE SaveDocument(r)
        <5>1. work[r].at = "save" /\ work[r].ext \in AnyExt
          BY <2>1, <2>2, <4>2 DEF SaveDocument, Handling, WorkSound, FileOp
        <5>2. doc[i] # None => doc[i] \in Document
          BY <2>2 DEF FilesInv, FilesTypeOK
        <5>3. doc[i] # None => /\ Saved(doc[i], work[r]) \in Document
                               /\ Saved(doc[i], work[r]).key = work[r].ext
          BY <3>3, <5>1, <5>2 DEF Saved, Document
        <5>4. doc'[i] = IF doc[i] # None THEN Saved(doc[i], work[r])
                        ELSE [key |-> work[r].ext]
          BY <2>2, <2>i, <3>3, <4>2 DEF SaveDocument, FilesInv, FilesTypeOK
        <5>5. doc'[i] \in Document /\ doc'[i].key = work[r].ext
          BY <5>1, <5>3, <5>4 DEF Document
        <5>6. doc'[i] # None /\ work[r].ext # None
          BY <5>1, <5>5, FilesAssumption
        <5> QED
          BY <2>5, <3>3, <5>1, <5>5, <5>6 DEF KeysOf
      <4> QED
        BY <1>5, <4>1, <4>2
    <3> QED
      BY <3>2, <3>4 DEF ItemSound
  <2> QED
    BY <2>2, <2>3, <2>4, <2>i, <2>5, <2>6, <2>7, StepOfItem
<1>6. ASSUME NEW r \in Req, FailWork(r) PROVE ItemsSound'
  <2>1. /\ work'[r] = None /\ \A x \in Req \ {r} : work'[x] = work[x]
        /\ work[r] # None /\ UNCHANGED <<doc, unborn, store>>
    BY <1>6, FinishedWork DEF FailWork
  <2>2. CASE work[r].op \in FileOp
    <3>1. torn' = torn \cup {work[r].item}
      BY <1>6, <2>2 DEF FailWork
    <3>2. /\ work[r].item \in Item \ unborn
          /\ \A j \in Item \ {work[r].item} : r \notin WorkersOf(j)
      BY <2>1, <2>2, WorkerOf
    <3>3. \A j : r \notin WorkersOf(j)' /\ FilesOf(j)' = FilesOf(j)
      BY <2>1 DEF WorkersOf, FilesOf
    <3> QED
      BY <2>1, <3>1, <3>2, <3>3, StepOfItem
  <2>3. CASE work[r].op \notin FileOp
    BY <1>6, <2>1, <2>3, StepOfNoItem DEF FailWork
  <2> QED
    BY <2>2, <2>3
<1>7. ASSUME NEW r \in Req,
             \/ \E pay, given \in BOOLEAN : UpsertConfig(r, pay, given)
             \/ UploadPaymentQr(r)
      PROVE  ItemsSound'
  <2>1. /\ work[r] = None /\ work'[r].op \in {"config", "qr"}
        /\ \A x \in Req \ {r} : work'[x] = work[x]
    BY <1>7 DEF UpsertConfig, UploadPaymentQr, FilesInv, FilesTypeOK
  <2>2. UNCHANGED <<doc, unborn, store, torn>>
    BY <1>7 DEF UpsertConfig, UploadPaymentQr
  <2> QED
    BY <2>1, <2>2, StepOfNoItem DEF FileOp
<1>8. ASSUME NEW r \in Req, ReadConfig(r) \/ SaveConfig(r) PROVE ItemsSound'
  <2>1. work[r] # None /\ work[r].op \in {"config", "qr"}
    BY <1>8 DEF ReadConfig, SaveConfig, Configuring
  <2>2. work[r] \in ConfigWork
    BY <2>1, WorkOf
  <2>3. /\ \A x \in Req \ {r} : work'[x] = work[x]
        /\ \/ work'[r] = None
           \/ work'[r] = [work[r] EXCEPT !.had = config # None, !.at = "save"]
    BY <1>8 DEF ReadConfig, SaveConfig, Finish, FilesInv, FilesTypeOK
  <2>4. work'[r] # None => work'[r].op \in {"config", "qr"}
    BY <2>2, <2>3 DEF ConfigWork
  <2>5. UNCHANGED <<doc, unborn, store, torn>>
    BY <1>8 DEF ReadConfig, SaveConfig
  <2> QED
    BY <2>1, <2>3, <2>4, <2>5, StepOfNoItem DEF FileOp
<1>9. CASE UNCHANGED filesVars
  <2>1. \A i : WorkersOf(i)' = WorkersOf(i) /\ FilesOf(i)' = FilesOf(i) /\ KeysOf(i)' = KeysOf(i)
    BY <1>9 DEF filesVars, WorkersOf, FilesOf, KeysOf
  <2> QED
    BY <1>9, <2>1 DEF filesVars, ItemsSound, ItemSound
<1>10. CASE FilesNext
  BY <1>1, <1>2, <1>3, <1>4, <1>5, <1>6, <1>7, <1>8, <1>10, FilesCases
<1> QED
  BY <1>9, <1>10

\* A document names the one file that the store has of it, once nobody works on
\* it (products.service.ts, catalog-pdf.service.ts), for any number of requests.
THEOREM FilesAgreeAlways == FilesSpec => []FilesAgree
<1>1. ItemsSound => FilesAgree
  BY DEF ItemsSound, ItemSound, FilesAgree, FilesOf
<1> QED
  BY <1>1, ItemsInit, ItemsStep, FilesInvariant, PTL DEF FilesSpec

-----------------------------------------------------------------------------
(***************************************************************************)
(* The QR.  While one is stored, the requests that are about to write a    *)
(* payment part without a QR are known to have read none.                  *)
(***************************************************************************)
BlindKnown == HasQr => Unaware \subseteq blind

\* What one request does to those about to write no QR.
LEMMA UnawareAfter ==
  ASSUME NEW r \in Req, \A x \in Req \ {r} : work'[x] = work[x]
  PROVE  /\ \A x \in Req \ {r} : x \in Unaware' <=> x \in Unaware
         /\ r \in Unaware' => /\ work'[r] # None /\ work'[r].op \in {"config", "qr"}
                              /\ work'[r].at = "save" /\ work'[r].had
                              /\ work'[r].pay /\ ~work'[r].qr
         /\ Unaware \subseteq Req /\ Unaware' \subseteq Req
  BY DEF Unaware, Configuring

LEMMA BlindStep ==
  FilesInv /\ BlindKnown /\ [FilesNext]_filesVars =>
    /\ BlindKnown'
    /\ HasQr => HasQr' \/ \E r \in blind : work'[r] = None
<1> SUFFICES ASSUME FilesInv, BlindKnown, [FilesNext]_filesVars
             PROVE  /\ BlindKnown'
                    /\ HasQr => HasQr' \/ \E r \in blind : work'[r] = None
  OBVIOUS
<1>1. ASSUME NEW r \in Req, \A x \in Req \ {r} : work'[x] = work[x],
             UNCHANGED <<config, blind>>, HasQr => r \notin Unaware'
      PROVE  /\ BlindKnown'
             /\ HasQr => HasQr' \/ \E x \in blind : work'[x] = None
  <2>1. HasQr' = HasQr
    BY <1>1 DEF HasQr
  <2> QED
    BY <1>1, <2>1, UnawareAfter DEF BlindKnown
<1>2. ASSUME NEW r \in Req, NEW p \in Product, NEW e \in Ext \cup {None},
             CreateProduct(r, p, e)
      PROVE  /\ BlindKnown'
             /\ HasQr => HasQr' \/ \E x \in blind : work'[x] = None
  <2>1. /\ \A x \in Req \ {r} : work'[x] = work[x]
        /\ work[r] = None /\ work'[r] # None => work'[r].op = "create"
    BY <1>2 DEF CreateProduct, FilesInv, FilesTypeOK
  <2>2. UNCHANGED <<config, blind>> /\ r \notin Unaware'
    BY <1>2, <2>1, UnawareAfter DEF CreateProduct
  <2> QED
    BY <1>1, <2>1, <2>2
<1>3. ASSUME NEW r \in Req, NEW op \in {"replace", "remove"}, NEW i \in Item,
             NEW e \in AnyExt \cup {None}, op = "replace" <=> e # None,
             FindDocument(r, op, i, e)
      PROVE  /\ BlindKnown'
             /\ HasQr => HasQr' \/ \E x \in blind : work'[x] = None
  <2>1. /\ \A x \in Req \ {r} : work'[x] = work[x]
        /\ work'[r].op \in {"replace", "remove"}
    BY <1>3, FoundDocument
  <2>2. UNCHANGED <<config, blind>> /\ r \notin Unaware'
    BY <1>3, <2>1, UnawareAfter DEF FindDocument
  <2> QED
    BY <1>1, <2>1, <2>2
<1>4. ASSUME NEW r \in Req,
             DeleteFile(r) \/ UploadFile(r) \/ SaveDocument(r) \/ DropDocument(r)
      PROVE  /\ BlindKnown'
             /\ HasQr => HasQr' \/ \E x \in blind : work'[x] = None
  <2>1. /\ work[r] # None /\ work[r].op \in FileOp /\ UNCHANGED <<config, blind>>
        /\ Finish(r) \/ \E at \in {"upload", "save", "drop"} : Proceed(r, at)
    BY <1>4 DEF DeleteFile, UploadFile, SaveDocument, DropDocument, Handling
  <2>2. work[r] \in FileWork
    BY <2>1, WorkOf
  <2>3. /\ \A x \in Req \ {r} : work'[x] = work[x]
        /\ \/ work'[r] = None
           \/ \E at \in {"upload", "save", "drop"} : work'[r] = [work[r] EXCEPT !.at = at]
    BY <2>1 DEF Finish, Proceed, FilesInv, FilesTypeOK
  <2>4. work'[r] # None => work'[r].op \in FileOp
    BY <2>1, <2>2, <2>3 DEF FileWork
  <2>5. r \notin Unaware'
    BY <2>3, <2>4, UnawareAfter DEF FileOp
  <2> QED
    BY <1>1, <2>1, <2>3, <2>5
<1>5. ASSUME NEW r \in Req, NEW pay \in BOOLEAN, NEW given \in BOOLEAN,
             UpsertConfig(r, pay, given)
      PROVE  /\ BlindKnown'
             /\ HasQr => HasQr' \/ \E x \in blind : work'[x] = None
  <2>1. /\ \A x \in Req \ {r} : work'[x] = work[x]
        /\ work'[r].pay = pay /\ work'[r].qr = (pay /\ Preserved(given, HasQr))
        /\ UNCHANGED <<config, blind>>
    BY <1>5 DEF UpsertConfig, FilesInv, FilesTypeOK
  <2>2. HasQr => r \notin Unaware'
    BY <2>1, UnawareAfter DEF Preserved
  <2> QED
    BY <1>1, <2>1, <2>2
<1>6. ASSUME NEW r \in Req, UploadPaymentQr(r)
      PROVE  /\ BlindKnown'
             /\ HasQr => HasQr' \/ \E x \in blind : work'[x] = None
  <2>1. /\ \A x \in Req \ {r} : work'[x] = work[x]
        /\ work'[r].qr /\ UNCHANGED <<config, blind>>
    BY <1>6 DEF UploadPaymentQr, FilesInv, FilesTypeOK
  <2>2. r \notin Unaware'
    BY <2>1, UnawareAfter
  <2> QED
    BY <1>1, <2>1, <2>2
<1>7. ASSUME NEW r \in Req, ReadConfig(r)
      PROVE  /\ BlindKnown'
             /\ HasQr => HasQr' \/ \E x \in blind : work'[x] = None
  <2>1. work[r] # None /\ work[r].op \in {"config", "qr"} /\ work[r].at = "read"
    BY <1>7 DEF ReadConfig, Configuring
  <2>2. work[r] \in ConfigWork /\ WorkSound(work[r])
    BY <2>1, WorkOf
  <2>3. /\ \A x \in Req \ {r} : work'[x] = work[x]
        /\ work'[r] = [work[r] EXCEPT !.had = config # None, !.at = "save"]
        /\ UNCHANGED <<config, blind>>
    BY <1>7 DEF ReadConfig, FilesInv, FilesTypeOK
  <2>4. work'[r].qr = work[r].qr
    BY <2>2, <2>3 DEF ConfigWork
  <2>5. work[r].qr
    BY <1>7, <2>1, <2>2 DEF WorkSound
  <2>6. r \notin Unaware'
    BY <2>3, <2>4, <2>5, UnawareAfter
  <2> QED
    BY <1>1, <2>3, <2>6
<1>8. ASSUME NEW r \in Req, SaveConfig(r)
      PROVE  /\ BlindKnown'
             /\ HasQr => HasQr' \/ \E x \in blind : work'[x] = None
  <2>1. work'[r] = None /\ \A x \in Req \ {r} : work'[x] = work[x]
    BY <1>8, FinishedWork DEF SaveConfig
  <2>2. r \notin Unaware' /\ \A x \in Req \ {r} : x \in Unaware' => x \in Unaware
    BY <2>1, UnawareAfter
  <2>3. /\ Configuring(r, "save")
        /\ config' = IF work[r].had THEN IF work[r].pay THEN [qr |-> work[r].qr] ELSE config
                     ELSE IF config = None THEN [qr |-> work[r].qr] ELSE config
        /\ blind' = (IF work[r].qr THEN blind \cup Unaware ELSE blind) \ {r}
    BY <1>8 DEF SaveConfig
  <2>4. HasQr' => HasQr \/ work[r].qr
    BY <2>3 DEF HasQr
  <2>5. HasQr /\ ~HasQr' => r \in Unaware
    <3>1. work[r] \in ConfigWork
      BY <2>3, WorkOf DEF Configuring
    <3>2. [qr |-> work[r].qr] # None /\ work[r].qr \in BOOLEAN /\ work[r].had \in BOOLEAN
          /\ work[r].pay \in BOOLEAN
      BY <3>1, FilesAssumption DEF ConfigWork, Config
    <3> QED
      BY <2>3, <3>2 DEF HasQr, Unaware
  <2>6. BlindKnown'
    BY <2>2, <2>3, <2>4, UnawareAfter, <2>1 DEF BlindKnown
  <2> QED
    BY <2>1, <2>5, <2>6 DEF BlindKnown
<1>9. ASSUME NEW r \in Req, FailWork(r)
      PROVE  /\ BlindKnown'
             /\ HasQr => HasQr' \/ \E x \in blind : work'[x] = None
  <2>1. work'[r] = None /\ \A x \in Req \ {r} : work'[x] = work[x]
    BY <1>9, FinishedWork DEF FailWork
  <2>2. r \notin Unaware' /\ \A x \in Req \ {r} : x \in Unaware' => x \in Unaware
    BY <2>1, UnawareAfter
  <2>3. config' = config /\ blind' = blind \ {r} /\ HasQr' = HasQr
    BY <1>9 DEF FailWork, HasQr
  <2> QED
    BY <2>1, <2>2, <2>3, UnawareAfter DEF BlindKnown
<1>10. CASE UNCHANGED filesVars
  BY <1>10 DEF filesVars, BlindKnown, HasQr, Unaware, Configuring
<1>11. CASE FilesNext
  BY <1>2, <1>3, <1>4, <1>5, <1>6, <1>7, <1>8, <1>9, <1>11, FilesCases
<1> QED
  BY <1>10, <1>11

\* A stored QR is taken away only by a request that read the configuration
\* before the QR was saved (tenant-config.service.ts upsert).
THEOREM QrKeptAlways == FilesSpec => QrKept
<1>1. FilesInit => BlindKnown
  BY DEF FilesInit, BlindKnown, HasQr
<1>2. FilesInv /\ BlindKnown /\ [FilesNext]_filesVars =>
        [HasQr => (HasQr' \/ \E r \in blind : work'[r] = None)]_filesVars
  BY BlindStep
<1> QED
  BY <1>1, <1>2, BlindStep, FilesInvariant, PTL DEF FilesSpec, QrKept

-----------------------------------------------------------------------------
(***************************************************************************)
(* Channels.  The messages that the webhooks have not passed on yet, as    *)
(* pairs of a request and a number; what n8n has had of a channel and what *)
(* it may still get of it are never more than the traffic so far.          *)
(***************************************************************************)
RestOf(f) == IF f.at = "post" THEN f.left ELSE f.left - 1

Rest == {x \in Req \X (1..Batch) : forward[x[1]] # None /\ x[2] <= RestOf(forward[x[1]])}

\* Those of requests whose channel is not the one that they read any more.
Pending(c) == {x \in Rest : forward[x[1]].to = c /\ ~StillFor(forward[x[1]])}

\* The requests about to count a message for the present document.
Counting(c) ==
  {r \in Req : forward[r] # None /\ forward[r].at = "count" /\ forward[r].to = c
               /\ forward[r].life = lives[c]}

LivesSound ==
  /\ \A c \in Channel : channel[c] # None => lives[c] >= 1
  /\ \A r \in Req : forward[r] # None => forward[r].life <= lives[forward[r].to]

TrafficCounts ==
  \A c \in Channel : /\ served[c] + Cardinality(Rest) <= traffic
                     /\ stray[c] + Cardinality(Rest) <= traffic

OwnCounts ==
  \A c \in Channel : channel[c] # None =>
    channel[c].messagesProcessed + Cardinality(Counting(c)) <= served[c]

ChannelsInv == ChannelsTypeOK /\ LivesSound /\ TrafficCounts /\ OwnCounts

StrayCounts ==
  \A c \in Channel : stray[c] + Cardinality(Pending(c)) <= Cardinality(Req) * Batch

LEMMA MessagesFinite ==
  /\ IsFiniteSet(Req \X (1..Batch))
  /\ Cardinality(Req \X (1..Batch)) = Cardinality(Req) * Batch
  /\ Cardinality(Req) * Batch \in Nat
<1>1. IsFiniteSet(1..Batch) /\ Cardinality(1..Batch) = Batch
  BY ChannelsAssumption, FS_Interval
<1>2. /\ IsFiniteSet(Req \X (1..Batch))
      /\ Cardinality(Req \X (1..Batch)) = Cardinality(Req) * Batch
  BY <1>1, RequestsAssumption, FS_Product
<1> QED
  BY <1>2, FS_CardinalityType

LEMMA RestFinite ==
  /\ IsFiniteSet(Rest) /\ Cardinality(Rest) \in Nat
  /\ IsFiniteSet(Rest') /\ Cardinality(Rest') \in Nat
  /\ Rest \subseteq Req \X (1..Batch) /\ Rest' \subseteq Req \X (1..Batch)
<1>1. Rest \in SUBSET (Req \X (1..Batch)) /\ Rest' \in SUBSET (Req \X (1..Batch))
  BY DEF Rest
<1>2. IsFiniteSet(Rest) /\ IsFiniteSet(Rest')
  BY <1>1, MessagesFinite, FS_Subset
<1> QED
  BY <1>1, <1>2, FS_CardinalityType

LEMMA ForwardType ==
  ASSUME NEW f \in Forward
  PROVE  /\ f.to \in Channel /\ f.life \in 1..Lives /\ f.life \in Nat
         /\ f.left \in 1..Batch /\ f.left \in Nat /\ f.left >= 1
         /\ RestOf(f) \in 0..Batch /\ RestOf(f) \in Nat
         /\ f.at = "post" => RestOf(f) \in 1..Batch /\ RestOf(f) = f.left
         /\ f.at = "count" => RestOf(f) = f.left - 1
         /\ f.at \in {"post", "count"}
  BY ChannelsAssumption DEF Forward, RestOf

\* The forwards in flight after one of them has changed.
ForwardTyped == forward \in [Req -> Forward \cup {None}]

ForwardIs(r, f) ==
  /\ ForwardTyped /\ ForwardTyped'
  /\ forward'[r] = f /\ \A x \in Req \ {r} : forward'[x] = forward[x]

LEMMA ForwardWith ==
  ASSUME ForwardTyped, NEW r \in Req, NEW f \in Forward \cup {None},
         forward' = [forward EXCEPT ![r] = f]
  PROVE  ForwardIs(r, f)
  BY DEF ForwardTyped, ForwardIs

LEMMA ForwardOf ==
  ASSUME ForwardTyped, NEW r \in Req, forward[r] # None
  PROVE  forward[r] \in Forward
  BY DEF ForwardTyped

\* A request with no more messages left than it had.
LEMMA FewerLeft ==
  ASSUME NEW r \in Req, NEW f \in Forward \cup {None}, ForwardIs(r, f), forward[r] # None,
         f = None \/ RestOf(f) <= RestOf(forward[r])
  PROVE  Rest' \subseteq Rest /\ Cardinality(Rest') <= Cardinality(Rest)
<1>1. forward[r] \in Forward
  BY ForwardOf DEF ForwardIs
<1>2. ASSUME NEW x \in Req \X (1..Batch), forward'[x[1]] # None,
             x[2] <= RestOf(forward'[x[1]])
      PROVE  forward[x[1]] # None /\ x[2] <= RestOf(forward[x[1]])
  <2>1. CASE x[1] = r
    <3>1. f \in Forward /\ RestOf(f) \in Nat /\ RestOf(forward[r]) \in Nat /\ x[2] \in Nat
      BY <1>1, <1>2, <2>1, ForwardType, ChannelsAssumption DEF ForwardIs
    <3> QED
      BY <1>2, <2>1, <3>1 DEF ForwardIs
  <2>2. CASE x[1] # r
    BY <1>2, <2>2 DEF ForwardIs
  <2> QED
    BY <2>1, <2>2
<1>3. Rest' \subseteq Rest
  BY <1>2 DEF Rest
<1> QED
  BY <1>3, RestFinite, FS_Subset

\* A request that has passed a message on.
LEMMA OneLeftLess ==
  ASSUME NEW r \in Req, NEW f \in Forward \cup {None}, ForwardIs(r, f), forward[r] # None,
         RestOf(forward[r]) \in 1..Batch, f = None \/ RestOf(f) < RestOf(forward[r])
  PROVE  /\ <<r, RestOf(forward[r])>> \in Rest
         /\ Rest' \subseteq Rest \ {<<r, RestOf(forward[r])>>}
         /\ Cardinality(Rest') + 1 <= Cardinality(Rest)
<1> DEFINE n == RestOf(forward[r])
<1>1. <<r, n>> \in Rest
  BY ChannelsAssumption DEF Rest
<1>2. f # None => f \in Forward /\ RestOf(f) \in Nat
  BY ForwardType
<1>3. Rest' \subseteq Rest
  BY <1>2, ChannelsAssumption, FewerLeft
<1>4. <<r, n>> \notin Rest'
  BY <1>2, ChannelsAssumption DEF Rest, ForwardIs
<1>5. Rest' \in SUBSET (Rest \ {<<r, n>>})
  BY <1>3, <1>4
<1> HIDE DEF n
<1>6. Cardinality(Rest') + 1 <= Cardinality(Rest)
  BY <1>1, <1>5, RestFinite, OneLess
<1> QED
  BY <1>1, <1>5, <1>6 DEF n

\* A request that begins with n messages.
LEMMA MoreLeft ==
  ASSUME NEW r \in Req, NEW f \in Forward, ForwardIs(r, f), forward[r] = None
  PROVE  /\ Cardinality(Rest') <= Cardinality(Rest) + RestOf(f)
         /\ \A x \in Rest : x \in Rest' /\ x[1] # r
         /\ \A x \in Rest' : x[1] # r => x \in Rest
         /\ RestOf(f) = 0 => Rest' = Rest
<1> DEFINE n == RestOf(f)
           new == {r} \X (1..n)
<1>1. n \in Nat
  BY ForwardType
<1>2. IsFiniteSet({r}) /\ Cardinality({r}) = 1
  BY FS_Singleton
<1>3. IsFiniteSet(1..n) /\ Cardinality(1..n) = n
  BY <1>1, FS_Interval
<1>4. IsFiniteSet(new) /\ Cardinality(new) = 1 * n
  BY <1>2, <1>3, FS_Product
<1>5. Rest' \subseteq Rest \cup new
  <2>1. ASSUME NEW x \in Rest', x[1] = r PROVE x \in new
    <3>1. x \in Req \X (1..Batch) /\ x[2] <= n /\ x = <<x[1], x[2]>>
      BY <2>1 DEF Rest, ForwardIs
    <3> QED
      BY <1>1, <2>1, <3>1, ChannelsAssumption
  <2>2. ASSUME NEW x \in Rest', x[1] # r PROVE x \in Rest
    BY <2>2 DEF Rest, ForwardIs
  <2> HIDE DEF new
  <2> QED
    BY <2>1, <2>2
<1>6. IsFiniteSet(Rest \cup new)
      /\ Cardinality(Rest \cup new) = Cardinality(Rest) + n - Cardinality(Rest \cap new)
  <2> HIDE DEF new
  <2>1. Cardinality(Rest \cup new) = Cardinality(Rest) + Cardinality(new) - Cardinality(Rest \cap new)
        /\ IsFiniteSet(Rest \cup new)
    BY <1>4, RestFinite, FS_Union
  <2> QED
    BY <1>1, <1>4, <2>1
<1>7. IsFiniteSet(Rest \cap new) /\ Cardinality(Rest \cap new) \in Nat
  <2> HIDE DEF new
  <2>1. (Rest \cap new) \in SUBSET Rest
    OBVIOUS
  <2>2. IsFiniteSet(Rest \cap new)
    BY <2>1, RestFinite, FS_Subset
  <2> QED
    BY <2>2, FS_CardinalityType
<1>8. Cardinality(Rest') <= Cardinality(Rest \cup new)
  <2> HIDE DEF new
  <2> QED
    BY <1>5, <1>6, FS_Subset
<1>9. Cardinality(Rest') <= Cardinality(Rest) + n
  <2> HIDE DEF new, n
  <2> QED
    BY <1>1, <1>6, <1>7, <1>8, RestFinite
<1>10. \A x \in Rest : x \in Rest' /\ x[1] # r
  BY DEF Rest, ForwardIs
<1>11. \A x \in Rest' : x[1] # r => x \in Rest
  BY DEF Rest, ForwardIs
<1>12. n = 0 => Rest' = Rest
  <2>1. ASSUME n = 0, NEW x \in Rest' PROVE x[1] # r
    BY <2>1, ChannelsAssumption DEF Rest, ForwardIs
  <2> QED
    BY <1>10, <1>11, <2>1
<1> HIDE DEF new
<1> QED
  BY <1>9, <1>10, <1>11, <1>12
\* The next message of the entry, or none.
LEMMA NextMessage ==
  ASSUME ForwardTyped, NEW r \in Req, forward[r] # None, Onward(r)
  PROVE  \E f \in Forward \cup {None} :
           /\ ForwardIs(r, f)
           /\ f # None => /\ f.at = "post" /\ f.to = forward[r].to /\ f.life = forward[r].life
                          /\ f.page = forward[r].page /\ RestOf(f) = forward[r].left - 1
<1>1. forward[r] \in Forward
  BY ForwardOf
<1>2. CASE forward[r].left = 1
  <2>1. ForwardIs(r, None)
    BY <1>2, ForwardWith DEF Onward
  <2> QED
    BY <2>1
<1>3. CASE forward[r].left # 1
  <2> DEFINE f == [forward[r] EXCEPT !.at = "post", !.left = @ - 1]
  <2>1. forward[r].left - 1 \in 1..Batch
    BY <1>1, <1>3, ForwardType, ChannelsAssumption
  <2>2. f \in Forward /\ f.at = "post" /\ f.to = forward[r].to /\ f.life = forward[r].life
        /\ f.page = forward[r].page /\ f.left = forward[r].left - 1
    BY <1>1, <2>1 DEF Forward
  <2>3. RestOf(f) = forward[r].left - 1
    BY <2>2, ForwardType
  <2>4. forward' = [forward EXCEPT ![r] = f]
    BY <1>3 DEF Onward
  <2> HIDE DEF f
  <2>5. ForwardIs(r, f)
    BY <2>2, <2>4, ForwardWith
  <2> QED
    BY <2>2, <2>3, <2>5
<1> QED
  BY <1>2, <1>3

LEMMA CountingFinite ==
  ASSUME NEW c
  PROVE  /\ IsFiniteSet(Counting(c)) /\ Cardinality(Counting(c)) \in Nat
         /\ IsFiniteSet(Counting(c)') /\ Cardinality(Counting(c)') \in Nat
         /\ Counting(c) \subseteq Req /\ Counting(c)' \subseteq Req
<1>1. Counting(c) \in SUBSET Req /\ Counting(c)' \in SUBSET Req
  BY DEF Counting
<1>2. IsFiniteSet(Counting(c)) /\ IsFiniteSet(Counting(c)')
  BY <1>1, RequestsAssumption, FS_Subset
<1> QED
  BY <1>1, <1>2, FS_CardinalityType

\* A request that counts no message after the step.
LEMMA FewerCounting ==
  ASSUME NEW r \in Req, NEW f \in Forward \cup {None}, ForwardIs(r, f), lives' = lives,
         NEW c, f = None \/ f.at = "post" \/ f.to # c \/ f.life # lives[c]
  PROVE  /\ Cardinality(Counting(c)') <= Cardinality(Counting(c))
         /\ r \in Counting(c) => Cardinality(Counting(c)') + 1 <= Cardinality(Counting(c))
<1>1. Counting(c)' \in SUBSET (Counting(c) \ {r})
  BY DEF Counting, ForwardIs
<1>2. Counting(c)' \in SUBSET Counting(c)
  BY <1>1
<1> QED
  BY <1>1, <1>2, CountingFinite, FS_Subset, OneLess

\* A request that comes to count one.
LEMMA OneMoreCounting ==
  ASSUME NEW r \in Req, NEW f \in Forward, ForwardIs(r, f), lives' = lives, NEW c
  PROVE  Cardinality(Counting(c)') <= Cardinality(Counting(c)) + 1
<1>1. Counting(c)' \in SUBSET (Counting(c) \cup {r})
  BY DEF Counting, ForwardIs
<1>2. /\ IsFiniteSet(Counting(c) \cup {r})
      /\ Cardinality(Counting(c) \cup {r}) \in
           {Cardinality(Counting(c)), Cardinality(Counting(c)) + 1}
  BY CountingFinite, FS_AddElement
<1>3. Cardinality(Counting(c)') <= Cardinality(Counting(c) \cup {r})
  BY <1>1, <1>2, FS_Subset
<1>4. Cardinality(Counting(c) \cup {r}) \in Nat
  BY <1>2, FS_CardinalityType
<1> QED
  BY <1>2, <1>3, <1>4, CountingFinite

LEMMA ChannelsInitInv == ChannelsInit => ChannelsInv /\ StrayCounts
<1> SUFFICES ASSUME ChannelsInit PROVE ChannelsInv /\ StrayCounts
  OBVIOUS
<1>1. Rest = {} /\ \A c : Pending(c) = {}
  BY DEF ChannelsInit, Rest, Pending, Idle
<1>2. Cardinality({}) = 0
  BY FS_EmptySet
<1>3. ChannelsTypeOK
  BY ChannelsAssumption DEF ChannelsInit, ChannelsTypeOK, Idle
<1>4. LivesSound /\ OwnCounts
  BY DEF ChannelsInit, LivesSound, OwnCounts, Idle
<1>5. TrafficCounts
  BY <1>1, <1>2 DEF ChannelsInit, TrafficCounts
<1>6. StrayCounts
  <2>1. \A n \in Nat : 0 + 0 <= n
    OBVIOUS
  <2> QED
    BY <1>1, <1>2, <2>1, MessagesFinite DEF ChannelsInit, StrayCounts
<1> QED
  BY <1>3, <1>4, <1>5, <1>6 DEF ChannelsInv

\* The panel: nothing that is in flight changes.
LEMMA PanelInv ==
  ASSUME ChannelsInv, NEW c \in Channel,
         \/ \E page \in Page \cup {None}, isActive, url \in BOOLEAN \cup {None} :
              UpsertChannel(c, page, isActive, url)
         \/ RemoveChannel(c)
  PROVE  ChannelsInv'
<1>1. /\ UNCHANGED <<use, forward, traffic>> /\ Rest' = Rest
      /\ stray' = stray \/ stray' = [stray EXCEPT ![c] = 0]
  BY DEF UpsertChannel, RemoveChannel, Changed, Rest
<1>2. /\ \A d \in Channel : stray[d] \in 0..Traffic /\ served[d] \in 0..Traffic
      /\ \A d \in Channel : lives[d] \in 0..Lives
      /\ traffic \in 0..Traffic /\ Traffic \in Nat /\ Lives \in Nat
  BY ChannelsAssumption DEF ChannelsInv, ChannelsTypeOK
<1>3. stray' \in [Channel -> 0..Traffic]
  BY <1>1, <1>2 DEF ChannelsInv, ChannelsTypeOK
<1>4. ASSUME NEW d \in Channel PROVE stray'[d] + Cardinality(Rest) <= traffic
  <2>1. stray'[d] \in {0, stray[d]}
    BY <1>1 DEF ChannelsInv, ChannelsTypeOK
  <2>2. stray[d] + Cardinality(Rest) <= traffic
    BY DEF ChannelsInv, TrafficCounts
  <2> QED
    BY <1>2, <2>1, <2>2, RestFinite
<1>5. CASE RemoveChannel(c)
  <2>1. channel' = [channel EXCEPT ![c] = None] /\ UNCHANGED <<lives, served>>
    BY <1>5 DEF RemoveChannel
  <2>2. ChannelsTypeOK' /\ LivesSound'
    BY <1>1, <1>3, <2>1 DEF ChannelsInv, ChannelsTypeOK, LivesSound
  <2>3. \A d : Counting(d)' = Counting(d)
    BY <1>1, <2>1 DEF Counting
  <2>4. OwnCounts'
    BY <2>1, <2>3 DEF ChannelsInv, ChannelsTypeOK, OwnCounts
  <2>5. TrafficCounts'
    BY <1>1, <1>4, <2>1 DEF ChannelsInv, TrafficCounts
  <2> QED
    BY <2>2, <2>4, <2>5 DEF ChannelsInv
<1>6. ASSUME NEW page \in Page \cup {None}, NEW isActive \in BOOLEAN \cup {None},
             NEW url \in BOOLEAN \cup {None}, UpsertChannel(c, page, isActive, url)
      PROVE  ChannelsInv'
  <2> DEFINE old == IF channel[c] = None THEN Blank ELSE channel[c]
             record == [page |-> Unless(page, old.page), isActive |-> Unless(isActive, old.isActive),
                        url |-> Unless(url, old.url), messagesProcessed |-> old.messagesProcessed]
  <2>1. old \in ChannelConfig
    BY <1>2 DEF ChannelsInv, ChannelsTypeOK, ChannelConfig, Blank
  <2>2. channel' = [channel EXCEPT ![c] = record]
    BY <1>6 DEF UpsertChannel
  <2>3. record \in ChannelConfig /\ record.messagesProcessed = old.messagesProcessed
    <3> HIDE DEF old
    <3> QED
      BY <2>1 DEF ChannelConfig, Unless
  <2> HIDE DEF old, record
  <2>4. channel' \in [Channel -> ChannelConfig \cup {None}]
    BY <2>2, <2>3 DEF ChannelsInv, ChannelsTypeOK
  <2>5. record # None
    BY <2>3, ChannelsAssumption
  <2>6. channel'[c] = record /\ \A d \in Channel \ {c} : channel'[d] = channel[d]
    BY <2>2 DEF ChannelsInv, ChannelsTypeOK
  <2>7. CASE channel[c] # None
    <3>1. UNCHANGED <<lives, served>> /\ old = channel[c]
      BY <1>6, <2>7 DEF UpsertChannel, old
    <3>2. ChannelsTypeOK' /\ LivesSound'
      BY <1>1, <1>3, <2>4, <2>6, <2>7, <3>1 DEF ChannelsInv, ChannelsTypeOK, LivesSound
    <3>3. \A d : Counting(d)' = Counting(d)
      BY <1>1, <3>1 DEF Counting
    <3>4. OwnCounts'
      BY <2>3, <2>6, <2>7, <3>1, <3>3 DEF ChannelsInv, OwnCounts
    <3>5. TrafficCounts'
      BY <1>1, <1>4, <3>1 DEF ChannelsInv, TrafficCounts
    <3> QED
      BY <3>2, <3>4, <3>5 DEF ChannelsInv
  <2>8. CASE channel[c] = None
    <3>1. /\ lives[c] < Lives /\ lives' = [lives EXCEPT ![c] = @ + 1]
          /\ served' = [served EXCEPT ![c] = 0]
          /\ old.messagesProcessed = 0
      BY <1>6, <2>8 DEF UpsertChannel, old, Blank
    <3>2. /\ lives'[c] = lives[c] + 1 /\ \A d \in Channel \ {c} : lives'[d] = lives[d]
          /\ served'[c] = 0 /\ \A d \in Channel \ {c} : served'[d] = served[d]
          /\ lives' \in [Channel -> 0..Lives] /\ served' \in [Channel -> 0..Traffic]
      BY <1>2, <3>1 DEF ChannelsInv, ChannelsTypeOK
    <3>3. ChannelsTypeOK'
      BY <1>1, <1>3, <2>4, <3>2 DEF ChannelsInv, ChannelsTypeOK
    <3>4. \A d \in Channel : lives[d] <= lives'[d] /\ lives[d] \in Nat /\ lives'[d] \in Nat
      BY <1>2, <3>2
    <3>5. LivesSound'
      <4>1. ASSUME NEW d \in Channel, channel'[d] # None PROVE lives'[d] >= 1
        BY <1>2, <2>6, <3>2, <4>1 DEF ChannelsInv, LivesSound
      <4>2. ASSUME NEW r \in Req, forward'[r] # None
            PROVE  forward'[r].life <= lives'[forward'[r].to]
        <5>1. /\ forward'[r] = forward[r] /\ forward[r].life <= lives[forward[r].to]
              /\ forward[r].to \in Channel /\ forward[r].life \in Nat
          BY <1>1, <4>2, ForwardType DEF ChannelsInv, ChannelsTypeOK, LivesSound
        <5> QED
          BY <3>4, <5>1
      <4> QED
        BY <4>1, <4>2 DEF LivesSound
    <3>6. Counting(c)' = {}
      <4> SUFFICES ASSUME NEW r \in Req, forward[r] # None, forward[r].to = c,
                          forward[r].life = lives'[c]
                   PROVE  FALSE
        BY <1>1 DEF Counting
      <4>1. forward[r].life <= lives[c]
        BY DEF ChannelsInv, LivesSound
      <4> QED
        BY <1>2, <3>2, <4>1
    <3>7. \A d \in Channel \ {c} : Counting(d)' = Counting(d)
      BY <1>1, <3>2 DEF Counting
    <3>8. OwnCounts'
      <4>1. channel'[c].messagesProcessed + Cardinality(Counting(c)') <= served'[c]
        BY <2>3, <2>6, <3>1, <3>2, <3>6, FS_EmptySet
      <4>2. ASSUME NEW d \in Channel \ {c}, channel'[d] # None
            PROVE  channel'[d].messagesProcessed + Cardinality(Counting(d)') <= served'[d]
        BY <2>6, <3>2, <3>7, <4>2 DEF ChannelsInv, OwnCounts
      <4> QED
        BY <4>1, <4>2 DEF OwnCounts
    <3>9. TrafficCounts'
      <4>1. ASSUME NEW d \in Channel PROVE served'[d] + Cardinality(Rest) <= traffic
        <5>1. served[d] + Cardinality(Rest) <= traffic
          BY DEF ChannelsInv, TrafficCounts
        <5>2. served'[d] \in {0, served[d]}
          BY <3>2
        <5> QED
          BY <1>2, <5>1, <5>2, RestFinite
      <4> QED
        BY <1>1, <1>4, <4>1 DEF TrafficCounts
    <3> QED
      BY <3>3, <3>5, <3>8, <3>9 DEF ChannelsInv
  <2> QED
    BY <2>7, <2>8
<1> QED
  BY <1>5, <1>6


\* What the arithmetic of a step needs.
LEMMA ChannelsBounds ==
  ASSUME ChannelsInv, NEW c \in Channel
  PROVE  /\ stray[c] \in Nat /\ served[c] \in Nat /\ lives[c] \in Nat /\ traffic \in Nat
         /\ Traffic \in Nat /\ traffic <= Traffic
         /\ served[c] + Cardinality(Rest) <= traffic
         /\ stray[c] + Cardinality(Rest) <= traffic
         /\ Cardinality(Rest) \in Nat /\ Cardinality(Rest') \in Nat
         /\ Cardinality(Counting(c)) \in Nat /\ Cardinality(Counting(c)') \in Nat
         /\ channel[c] # None =>
              /\ channel[c] \in ChannelConfig /\ channel[c].messagesProcessed \in Nat
              /\ lives[c] >= 1
              /\ channel[c].messagesProcessed + Cardinality(Counting(c)) <= served[c]
<1>1. /\ stray[c] \in Nat /\ served[c] \in Nat /\ lives[c] \in Nat /\ traffic \in Nat
      /\ Traffic \in Nat /\ traffic <= Traffic
      /\ channel[c] # None =>
           channel[c] \in ChannelConfig /\ channel[c].messagesProcessed \in Nat
  BY ChannelsAssumption DEF ChannelsInv, ChannelsTypeOK, ChannelConfig
<1> QED
  BY <1>1, RestFinite, CountingFinite
     DEF ChannelsInv, LivesSound, TrafficCounts, OwnCounts

\* A forward of the step is of a document that exists or existed.
LEMMA LivesKept ==
  ASSUME ChannelsInv, NEW r \in Req, NEW f \in Forward \cup {None}, ForwardIs(r, f),
         lives' = lives, f # None => f.life <= lives[f.to],
         \A c \in Channel : channel'[c] # None => channel[c] # None
  PROVE  LivesSound'
<1>1. ASSUME NEW x \in Req, forward'[x] # None
      PROVE  forward'[x].life <= lives[forward'[x].to]
  <2>1. CASE x = r
    BY <1>1, <2>1 DEF ForwardIs
  <2>2. CASE x # r
    BY <1>1, <2>2 DEF ForwardIs, ChannelsInv, LivesSound
  <2> QED
    BY <2>1, <2>2
<1> QED
  BY <1>1 DEF ChannelsInv, LivesSound

LEMMA HookInv ==
  ASSUME ChannelsInv, NEW r \in Req,
         \/ \E p \in Page, n \in 1..Batch : HandleEntry(r, p, n)
         \/ \E c \in Channel : PingChannel(r, c)
  PROVE  ChannelsInv'
<1>1. PICK f \in Forward :
        /\ ForwardIs(r, f) /\ forward[r] = None /\ f.life = lives[f.to]
        /\ traffic + RestOf(f) <= traffic' /\ traffic' \in 0..Traffic
        /\ \/ served' = served /\ f.at = "post"
           \/ /\ served' = [served EXCEPT ![f.to] = @ + 1]
              /\ traffic + 1 <= traffic' /\ RestOf(f) = 0
        /\ UNCHANGED <<use, channel, lives, stray>>
  <2>0. ForwardTyped /\ Traffic \in Nat /\ traffic \in 0..Traffic
    BY ChannelsAssumption DEF ChannelsInv, ChannelsTypeOK, ForwardTyped
  <2>1. ASSUME NEW p \in Page, NEW n \in 1..Batch, HandleEntry(r, p, n)
        PROVE  \E f \in Forward :
                 /\ ForwardIs(r, f) /\ forward[r] = None /\ f.life = lives[f.to]
                 /\ traffic + RestOf(f) <= traffic' /\ traffic' \in 0..Traffic
                 /\ served' = served /\ f.at = "post"
                 /\ UNCHANGED <<use, channel, lives, stray>>
    <3>1. PICK c \in FoundByPage(p) :
            forward' = [forward EXCEPT ![r] =
              [at |-> "post", to |-> c, life |-> lives[c], page |-> p, left |-> n]]
      BY <2>1 DEF HandleEntry
    <3> DEFINE f == [at |-> "post", to |-> c, life |-> lives[c], page |-> p, left |-> n]
    <3>2. c \in Channel /\ channel[c] # None /\ lives[c] \in 1..Lives
      BY ChannelsAssumption DEF FoundByPage, ChannelsInv, ChannelsTypeOK, LivesSound
    <3>3. f \in Forward
      BY <3>2 DEF Forward
    <3>4. f.life = lives[f.to] /\ RestOf(f) = n /\ f.at = "post"
      BY DEF RestOf
    <3>5. forward' = [forward EXCEPT ![r] = f]
      BY <3>1
    <3> HIDE DEF f
    <3>6. ForwardIs(r, f)
      BY <2>0, <3>3, <3>5, ForwardWith
    <3> QED
      BY <2>0, <2>1, <3>3, <3>4, <3>6, ChannelsAssumption DEF HandleEntry
  <2>2. ASSUME NEW c \in Channel, PingChannel(r, c)
        PROVE  \E f \in Forward :
                 /\ ForwardIs(r, f) /\ forward[r] = None /\ f.life = lives[f.to]
                 /\ traffic + RestOf(f) <= traffic' /\ traffic' \in 0..Traffic
                 /\ served' = [served EXCEPT ![f.to] = @ + 1]
                 /\ traffic + 1 <= traffic' /\ RestOf(f) = 0
                 /\ UNCHANGED <<use, channel, lives, stray>>
    <3> DEFINE f == [at |-> "count", to |-> c, life |-> lives[c], page |-> None, left |-> 1]
    <3>2. channel[c] # None /\ lives[c] \in 1..Lives
      BY <2>2, ChannelsAssumption DEF PingChannel, ChannelsInv, ChannelsTypeOK, LivesSound
    <3>3. f \in Forward
      BY <3>2, ChannelsAssumption DEF Forward
    <3>4. f.life = lives[f.to] /\ RestOf(f) = 0 /\ f.to = c
      BY DEF RestOf
    <3>5. forward' = [forward EXCEPT ![r] = f]
      BY <2>2 DEF PingChannel
    <3> HIDE DEF f
    <3>6. ForwardIs(r, f)
      BY <2>0, <3>3, <3>5, ForwardWith
    <3>7. served' = [served EXCEPT ![f.to] = @ + 1]
      BY <2>2, <3>4 DEF PingChannel
    <3>8. /\ traffic + RestOf(f) <= traffic' /\ traffic + 1 <= traffic'
          /\ traffic' \in 0..Traffic
      BY <2>0, <2>2, <3>4 DEF PingChannel
    <3>9. forward[r] = None /\ UNCHANGED <<use, channel, lives, stray>>
      BY <2>2 DEF PingChannel
    <3> QED
      BY <3>3, <3>4, <3>6, <3>7, <3>8, <3>9
  <2> QED
    BY <2>1, <2>2
<1>2. Cardinality(Rest') <= Cardinality(Rest) + RestOf(f) /\ RestOf(f) \in Nat
  BY <1>1, MoreLeft, ForwardType
<1>3. f.to \in Channel
  BY ForwardType
<1>4. served' \in [Channel -> 0..Traffic]
  <2>1. CASE served' = served
    BY <2>1 DEF ChannelsInv, ChannelsTypeOK
  <2>2. CASE served' = [served EXCEPT ![f.to] = @ + 1] /\ traffic + 1 <= traffic'
    <3>1. served[f.to] + 1 \in 0..Traffic
      BY <1>1, <1>3, <2>2, ChannelsBounds
    <3> QED
      BY <2>2, <3>1 DEF ChannelsInv, ChannelsTypeOK
  <2> QED
    BY <1>1, <2>1, <2>2
<1>5. ChannelsTypeOK'
  BY <1>1, <1>4 DEF ChannelsInv, ChannelsTypeOK, ForwardIs, ForwardTyped
<1>6. LivesSound'
  <2>1. f.life <= lives[f.to]
    BY <1>1, <1>3, ChannelsBounds
  <2> QED
    BY <1>1, <2>1, LivesKept
<1>7. ASSUME NEW c \in Channel
      PROVE  /\ served'[c] + Cardinality(Rest') <= traffic'
             /\ stray'[c] + Cardinality(Rest') <= traffic'
             /\ channel'[c] # None =>
                  channel'[c].messagesProcessed + Cardinality(Counting(c)') <= served'[c]
  <2>1. traffic' \in Nat
    BY <1>1, <1>2, ChannelsBounds
  <2>2. CASE served' = served /\ f.at = "post"
    <3>1. Cardinality(Counting(c)') <= Cardinality(Counting(c))
      BY <1>1, <2>2, FewerCounting
    <3> QED
      BY <1>1, <1>2, <2>1, <2>2, <3>1, ChannelsBounds
  <2>3. CASE /\ served' = [served EXCEPT ![f.to] = @ + 1]
             /\ traffic + 1 <= traffic' /\ RestOf(f) = 0
    <3>1. served'[c] = IF c = f.to THEN served[c] + 1 ELSE served[c]
      BY <2>3 DEF ChannelsInv, ChannelsTypeOK
    <3>2. Cardinality(Counting(c)') <= IF c = f.to THEN Cardinality(Counting(c)) + 1
                                       ELSE Cardinality(Counting(c))
      BY <1>1, FewerCounting, OneMoreCounting
    <3> QED
      BY <1>1, <1>2, <2>1, <2>3, <3>1, <3>2, ChannelsBounds
  <2> QED
    BY <1>1, <2>2, <2>3
<1> QED
  BY <1>5, <1>6, <1>7 DEF ChannelsInv, TrafficCounts, OwnCounts

\* A request leaves its message, or goes on to the next.
LEMMA LeftInv ==
  ASSUME ChannelsInv, NEW r \in Req, FailForward(r)
  PROVE  ChannelsInv'
<1>1. ForwardTyped /\ forward[r] # None /\ UNCHANGED <<use, channel, lives, traffic, served, stray>>
  BY DEF FailForward, ChannelsInv, ChannelsTypeOK, ForwardTyped
<1>2. forward[r] \in Forward
  BY <1>1, ForwardOf
<1>3. PICK f \in Forward \cup {None} :
        /\ ForwardIs(r, f)
        /\ f # None => /\ f.at = "post" /\ f.to = forward[r].to /\ f.life = forward[r].life
                       /\ RestOf(f) <= RestOf(forward[r])
  <2>1. CASE forward' = [forward EXCEPT ![r] = None]
    <3>1. ForwardIs(r, None)
      BY <1>1, <2>1, ForwardWith
    <3> QED
      BY <3>1
  <2>2. CASE forward[r].at = "count" /\ Onward(r)
    BY <1>1, <1>2, <2>2, NextMessage, ForwardType
  <2> QED
    BY <2>1, <2>2 DEF FailForward
<1>4. Cardinality(Rest') <= Cardinality(Rest)
  BY <1>1, <1>3, FewerLeft
<1>5. ChannelsTypeOK'
  BY <1>1, <1>3 DEF ChannelsInv, ChannelsTypeOK, ForwardIs, ForwardTyped
<1>6. LivesSound'
  BY <1>1, <1>3, LivesKept DEF ChannelsInv, LivesSound
<1>7. ASSUME NEW c \in Channel
      PROVE  /\ served[c] + Cardinality(Rest') <= traffic
             /\ stray[c] + Cardinality(Rest') <= traffic
             /\ channel[c] # None =>
                  channel[c].messagesProcessed + Cardinality(Counting(c)') <= served[c]
  <2>1. Cardinality(Counting(c)') <= Cardinality(Counting(c))
    BY <1>1, <1>3, FewerCounting
  <2> QED
    BY <1>4, <2>1, ChannelsBounds
<1> QED
  BY <1>1, <1>5, <1>6, <1>7 DEF ChannelsInv, TrafficCounts, OwnCounts


\* n8n gets a message of a request, and answers it or not.
LEMMA PostedInv ==
  ASSUME ChannelsInv, NEW r \in Req, ForwardToN8n(r)
  PROVE  ChannelsInv'
<1>1. /\ ForwardTyped /\ forward[r] # None /\ forward[r].at = "post"
      /\ UNCHANGED <<use, channel, lives, traffic>>
  BY DEF ForwardToN8n, ChannelsInv, ChannelsTypeOK, ForwardTyped
<1>2. /\ forward[r] \in Forward /\ forward[r].to \in Channel
      /\ RestOf(forward[r]) \in 1..Batch /\ RestOf(forward[r]) = forward[r].left
  BY <1>1, ForwardOf, ForwardType
<1> DEFINE to == forward[r].to
           own == lives[to] = forward[r].life
<1>3. PICK f \in Forward \cup {None} :
        /\ ForwardIs(r, f)
        /\ f # None => /\ f.to = to /\ f.life = forward[r].life
                       /\ RestOf(f) < RestOf(forward[r])
        /\ \/ served' = served /\ (f = None \/ f.at = "post")
           \/ /\ f # None
              /\ served' = IF own THEN [served EXCEPT ![to] = @ + 1] ELSE served
  <2>1. CASE Onward(r) /\ served' = served
    <3>1. PICK f \in Forward \cup {None} :
           /\ ForwardIs(r, f)
           /\ f # None => /\ f.at = "post" /\ f.to = forward[r].to /\ f.life = forward[r].life
                          /\ RestOf(f) = forward[r].left - 1
      BY <1>1, <2>1, NextMessage
    <3>2. f # None => RestOf(f) < RestOf(forward[r])
      BY <1>2, <3>1, ForwardType
    <3> QED
      BY <2>1, <3>1, <3>2
  <2>2. CASE /\ forward' = [forward EXCEPT ![r].at = "count"]
             /\ served' = IF own THEN [served EXCEPT ![to] = @ + 1] ELSE served
    <3> DEFINE f == [forward[r] EXCEPT !.at = "count"]
    <3>1. /\ f \in Forward /\ f.at = "count" /\ f.to = to /\ f.life = forward[r].life
          /\ f.left = forward[r].left
      BY <1>2 DEF Forward
    <3>3. forward' = [forward EXCEPT ![r] = f]
      BY <2>2
    <3> HIDE DEF f
    <3>2. RestOf(f) < RestOf(forward[r])
      <4>1. RestOf(f) = f.left - 1 /\ f.left \in Nat
        BY <3>1, ForwardType
      <4> QED
        BY <1>2, <3>1, <4>1
    <3>4. ForwardIs(r, f)
      BY <1>1, <3>1, <3>3, ForwardWith
    <3>5. f # None
      BY <3>1, ChannelsAssumption
    <3> QED
      BY <2>2, <3>1, <3>2, <3>4, <3>5
  <2> QED
    BY <2>1, <2>2 DEF ForwardToN8n
<1>4. Cardinality(Rest') + 1 <= Cardinality(Rest)
  BY <1>1, <1>2, <1>3, OneLeftLess
<1>5. stray' = stray \/ stray' = [stray EXCEPT ![to] = @ + 1]
  BY DEF ForwardToN8n
<1>6. /\ \A c \in Channel : stray'[c] \in {stray[c], stray[c] + 1}
      /\ stray' \in [Channel -> 0..Traffic]
  <2>1. stray[to] + 1 \in 0..Traffic
    BY <1>2, <1>4, ChannelsBounds
  <2> HIDE DEF to
  <2> QED
    BY <1>5, <2>1 DEF ChannelsInv, ChannelsTypeOK
<1>7. /\ \A c \in Channel : served'[c] \in {served[c], served[c] + 1}
      /\ served' \in [Channel -> 0..Traffic]
  <2>1. served[to] + 1 \in 0..Traffic
    BY <1>2, <1>4, ChannelsBounds
  <2>2. served' = served \/ served' = [served EXCEPT ![to] = @ + 1]
    BY <1>3
  <2> HIDE DEF to
  <2> QED
    BY <2>1, <2>2 DEF ChannelsInv, ChannelsTypeOK
<1>8. ChannelsTypeOK'
  BY <1>1, <1>3, <1>6, <1>7 DEF ChannelsInv, ChannelsTypeOK, ForwardIs, ForwardTyped
<1>9. LivesSound'
  <2>1. f # None => f.life <= lives[f.to]
    BY <1>1, <1>3 DEF ChannelsInv, LivesSound
  <2> QED
    BY <1>1, <1>3, <2>1, LivesKept
<1>10. ASSUME NEW c \in Channel
       PROVE  /\ served'[c] + Cardinality(Rest') <= traffic
              /\ stray'[c] + Cardinality(Rest') <= traffic
  BY <1>4, <1>6, <1>7, ChannelsBounds
<1>11. ASSUME NEW c \in Channel, channel[c] # None
       PROVE  channel[c].messagesProcessed + Cardinality(Counting(c)') <= served'[c]
  <2>1. CASE Cardinality(Counting(c)') <= Cardinality(Counting(c))
    BY <1>7, <1>11, <2>1, ChannelsBounds
  <2>2. CASE ~(Cardinality(Counting(c)') <= Cardinality(Counting(c)))
    <3>1. f # None /\ f.at # "post" /\ f.to = c /\ f.life = lives[c]
      BY <1>1, <1>3, <2>2, FewerCounting
    <3>2. served' = [served EXCEPT ![c] = @ + 1]
      BY <1>3, <3>1
    <3>3. served'[c] = served[c] + 1
      BY <3>2 DEF ChannelsInv, ChannelsTypeOK
    <3>4. Cardinality(Counting(c)') <= Cardinality(Counting(c)) + 1
      BY <1>1, <1>3, <3>1, OneMoreCounting
    <3> QED
      BY <1>11, <3>3, <3>4, ChannelsBounds
  <2> QED
    BY <2>1, <2>2
<1> QED
  BY <1>1, <1>8, <1>9, <1>10, <1>11 DEF ChannelsInv, TrafficCounts, OwnCounts

\* A message is counted in the document that it was read from, or in none.
LEMMA CountedInv ==
  ASSUME ChannelsInv, NEW r \in Req, IncrementMessages(r)
  PROVE  ChannelsInv'
<1>1. /\ ForwardTyped /\ forward[r] # None /\ forward[r].at = "count" /\ Onward(r)
      /\ UNCHANGED <<use, lives, traffic, served, stray>>
  BY DEF IncrementMessages, ChannelsInv, ChannelsTypeOK, ForwardTyped
<1>2. forward[r] \in Forward /\ forward[r].to \in Channel
  BY <1>1, ForwardOf, ForwardType
<1>3. PICK f \in Forward \cup {None} :
        /\ ForwardIs(r, f)
        /\ f # None => /\ f.at = "post" /\ f.to = forward[r].to /\ f.life = forward[r].life
                       /\ RestOf(f) = forward[r].left - 1
  BY <1>1, NextMessage
<1>4. Cardinality(Rest') <= Cardinality(Rest)
  <2>1. RestOf(forward[r]) = forward[r].left - 1 /\ RestOf(forward[r]) \in Nat
    BY <1>1, <1>2, ForwardType
  <2>2. f # None => RestOf(f) <= RestOf(forward[r])
    BY <1>3, <2>1
  <2> QED
    BY <1>1, <1>3, <2>2, FewerLeft
<1>5. LivesSound'
  <2>1. f # None => f.life <= lives[f.to]
    BY <1>1, <1>3 DEF ChannelsInv, LivesSound
  <2>2. \A c \in Channel : channel'[c] # None => channel[c] # None
    BY DEF IncrementMessages, OfTheId, ChannelsInv, ChannelsTypeOK
  <2> QED
    BY <1>1, <1>3, <2>1, <2>2, LivesKept
<1>6. ASSUME NEW c \in Channel
      PROVE  /\ served[c] + Cardinality(Rest') <= traffic
             /\ stray[c] + Cardinality(Rest') <= traffic
  BY <1>4, ChannelsBounds
<1>7. \A c \in Channel : /\ Cardinality(Counting(c)') <= Cardinality(Counting(c))
                         /\ r \in Counting(c) =>
                              Cardinality(Counting(c)') + 1 <= Cardinality(Counting(c))
  BY <1>1, <1>3, FewerCounting
<1>8. channel' \in [Channel -> ChannelConfig \cup {None}] /\ OwnCounts'
  <2>1. CASE ~OfTheId(forward[r].to, forward[r].life)
    <3>1. channel' = channel
      BY <2>1 DEF IncrementMessages
    <3>2. ASSUME NEW c \in Channel, channel[c] # None
          PROVE  channel[c].messagesProcessed + Cardinality(Counting(c)') <= served[c]
      BY <1>7, <3>2, ChannelsBounds
    <3> QED
      BY <1>1, <3>1, <3>2 DEF OwnCounts, ChannelsInv, ChannelsTypeOK
  <2>2. CASE OfTheId(forward[r].to, forward[r].life)
    <3>a. PICK c \in Channel : c = forward[r].to
      BY <1>2
    <3> DEFINE record == [channel[c] EXCEPT !.messagesProcessed = @ + 1]
    <3>1. channel' = [channel EXCEPT ![c] = record]
      BY <2>2, <3>a DEF IncrementMessages
    <3>2. channel[c] # None /\ r \in Counting(c)
      BY <1>1, <2>2, <3>a DEF OfTheId, Counting
    <3>3. channel[c].messagesProcessed + 1 \in 0..Traffic
      BY <1>7, <3>2, ChannelsBounds
    <3>4. /\ record \in ChannelConfig
          /\ record.messagesProcessed = channel[c].messagesProcessed + 1
      BY <3>2, <3>3, ChannelsBounds DEF ChannelConfig
    <3>5. record.messagesProcessed + Cardinality(Counting(c)') <= served[c]
      BY <1>7, <3>2, <3>4, ChannelsBounds
    <3> HIDE DEF record
    <3>6. /\ channel' \in [Channel -> ChannelConfig \cup {None}]
          /\ channel'[c] = record /\ \A d \in Channel \ {c} : channel'[d] = channel[d]
      BY <3>1, <3>4 DEF ChannelsInv, ChannelsTypeOK
    <3>7. ASSUME NEW d \in Channel, channel'[d] # None
          PROVE  channel'[d].messagesProcessed + Cardinality(Counting(d)') <= served[d]
      <4>1. CASE d = c
        BY <3>5, <3>6, <4>1
      <4>2. CASE d # c
        BY <1>7, <3>6, <3>7, <4>2, ChannelsBounds
      <4> QED
        BY <4>1, <4>2
    <3> QED
      BY <1>1, <3>6, <3>7 DEF OwnCounts
  <2> QED
    BY <2>1, <2>2
<1>9. ChannelsTypeOK'
  BY <1>1, <1>3, <1>8 DEF ChannelsInv, ChannelsTypeOK, ForwardIs, ForwardTyped
<1> QED
  BY <1>1, <1>5, <1>6, <1>8, <1>9 DEF ChannelsInv, TrafficCounts

LEMMA ChannelsInvStep == ChannelsInv /\ [ChannelsNext]_channelsVars => ChannelsInv'
<1> SUFFICES ASSUME ChannelsInv, [ChannelsNext]_channelsVars PROVE ChannelsInv'
  OBVIOUS
<1>1. CASE UNCHANGED channelsVars
  <2>1. Rest' = Rest /\ \A c : Counting(c)' = Counting(c)
    BY <1>1 DEF channelsVars, Rest, Counting
  <2> QED
    BY <1>1, <2>1
       DEF channelsVars, ChannelsInv, ChannelsTypeOK, LivesSound, TrafficCounts, OwnCounts
<1>2. CASE ChannelsNext
  BY <1>2, PanelInv, HookInv, LeftInv, PostedInv, CountedInv DEF ChannelsNext
<1> QED
  BY <1>1, <1>2

LEMMA ChannelsInvariant == ChannelsSpec => []ChannelsInv
  BY ChannelsInitInv, ChannelsInvStep, PTL DEF ChannelsSpec

\* Every variable keeps its type.
THEOREM ChannelsTypes == ChannelsSpec => []ChannelsTypeOK
  BY ChannelsInvariant, PTL DEF ChannelsInv

\* The counter of a channel has only messages of its own document
\* (channels.service.ts incrementMessages), for any number of webhooks.
THEOREM CountsOwn == ChannelsSpec => []CountIsOwn
<1>1. ChannelsInv => CountIsOwn
  BY ChannelsBounds DEF CountIsOwn
<1> QED
  BY <1>1, ChannelsInvariant, PTL

-----------------------------------------------------------------------------
(***************************************************************************)
(* A channel goes quiet.  What n8n has had of messages that are not the    *)
(* channel's any more, and may still get of them, is never more than all   *)
(* requests can carry.                                                     *)
(***************************************************************************)
LEMMA PendingFinite ==
  ASSUME NEW c
  PROVE  /\ IsFiniteSet(Pending(c)) /\ Cardinality(Pending(c)) \in Nat
         /\ IsFiniteSet(Pending(c)') /\ Cardinality(Pending(c)') \in Nat
         /\ Pending(c) \subseteq Rest /\ Pending(c)' \subseteq Rest'
         /\ Cardinality(Pending(c)') <= Cardinality(Req) * Batch
<1>1. Pending(c) \in SUBSET Rest /\ Pending(c)' \in SUBSET Rest'
  BY DEF Pending
<1>2. IsFiniteSet(Pending(c)) /\ IsFiniteSet(Pending(c)')
  BY <1>1, RestFinite, FS_Subset
<1>3. Pending(c)' \in SUBSET (Req \X (1..Batch))
  BY <1>1, RestFinite
<1>4. Cardinality(Pending(c)') <= Cardinality(Req) * Batch
  BY <1>3, MessagesFinite, FS_Subset
<1> QED
  BY <1>1, <1>2, <1>4, FS_CardinalityType

\* A step that gives a channel no new messages to lose.
LEMMA StrayKept ==
  ASSUME ChannelsInv, StrayCounts,
         \A c \in Channel : stray'[c] = stray[c] /\ Pending(c)' \subseteq Pending(c)
  PROVE  StrayCounts'
<1> SUFFICES ASSUME NEW c \in Channel
             PROVE  stray'[c] + Cardinality(Pending(c)') <= Cardinality(Req) * Batch
  BY DEF StrayCounts
<1>1. Cardinality(Pending(c)') <= Cardinality(Pending(c))
  BY PendingFinite, FS_Subset
<1>2. stray[c] + Cardinality(Pending(c)) <= Cardinality(Req) * Batch
  BY DEF StrayCounts
<1> QED
  BY <1>1, <1>2, PendingFinite, ChannelsBounds, MessagesFinite

\* The documents as webhooks see them: all but their counters.
SameDocuments ==
  /\ lives' = lives
  /\ \A c \in Channel :
       /\ channel'[c] # None <=> channel[c] # None
       /\ channel[c] # None => /\ channel'[c].page = channel[c].page
                               /\ channel'[c].isActive = channel[c].isActive

\* While the documents stay, only the request that takes a step can change what
\* it has pending, and not if it goes on for the same account.
LEMMA PendingAfter ==
  ASSUME SameDocuments, NEW r \in Req, \A x \in Req \ {r} : forward'[x] = forward[x],
         \/ forward'[r] = None
         \/ /\ forward[r] # None /\ forward'[r].to = forward[r].to
            /\ forward'[r].life = forward[r].life /\ forward'[r].page = forward[r].page
            /\ Rest' \subseteq Rest
         \/ \A x \in Rest' : x[1] = r => StillFor(forward[r])',
         NEW c
  PROVE  Pending(c)' \subseteq Pending(c)
<1> SUFFICES ASSUME NEW x \in Pending(c)' PROVE x \in Pending(c)
  OBVIOUS
<1>1. /\ x \in Rest' /\ x \in Req \X (1..Batch) /\ x[1] \in Req /\ forward'[x[1]] # None
      /\ forward'[x[1]].to = c /\ ~StillFor(forward[x[1]])'
  BY DEF Pending, Rest
<1>2. /\ x \in Rest /\ forward'[x[1]].to = forward[x[1]].to
      /\ forward'[x[1]].life = forward[x[1]].life
      /\ forward'[x[1]].page = forward[x[1]].page
  <2>1. CASE x[1] = r
    BY <1>1, <2>1
  <2>2. CASE x[1] # r
    BY <1>1, <2>2 DEF Rest
  <2> QED
    BY <2>1, <2>2
<1>3. ~StillFor(forward[x[1]])
  BY <1>1, <1>2 DEF SameDocuments, StillFor, FoundByPage
<1> QED
  BY <1>1, <1>2, <1>3 DEF Pending

LEMMA StrayStep ==
  ChannelsInv /\ StrayCounts /\ [ChannelsNext]_channelsVars => StrayCounts'
<1> SUFFICES ASSUME ChannelsInv, StrayCounts, [ChannelsNext]_channelsVars
             PROVE  StrayCounts'
  OBVIOUS
<1>t. ForwardTyped
  BY DEF ChannelsInv, ChannelsTypeOK, ForwardTyped
<1>1. ASSUME NEW c \in Channel,
             \/ \E page \in Page \cup {None}, isActive, url \in BOOLEAN \cup {None} :
                  UpsertChannel(c, page, isActive, url)
             \/ RemoveChannel(c)
      PROVE  StrayCounts'
  <2>1. /\ forward' = forward /\ Rest' = Rest
        /\ stray' = IF channel[c] # None /\ channel[c].isActive
                      THEN [stray EXCEPT ![c] = 0] ELSE stray
    BY <1>1 DEF UpsertChannel, RemoveChannel, Changed, Rest
  <2>2. \A d \in Channel \ {c} : channel'[d] = channel[d] /\ lives'[d] = lives[d]
    BY <1>1 DEF UpsertChannel, RemoveChannel, ChannelsInv, ChannelsTypeOK
  <2>3. ASSUME NEW d \in Channel \ {c}, NEW f, f.to = d PROVE StillFor(f)' = StillFor(f)
    BY <2>2, <2>3 DEF StillFor, FoundByPage
  <2>4. ASSUME NEW d \in Channel \ {c} PROVE Pending(d)' = Pending(d)
    BY <2>1, <2>3, <2>4 DEF Pending
  <2>5. ASSUME NEW d \in Channel \ {c}
        PROVE  stray'[d] + Cardinality(Pending(d)') <= Cardinality(Req) * Batch
    <3>1. stray'[d] = stray[d]
      BY <2>1 DEF ChannelsInv, ChannelsTypeOK
    <3> QED
      BY <2>4, <3>1 DEF StrayCounts
  <2>6. stray'[c] + Cardinality(Pending(c)') <= Cardinality(Req) * Batch
    <3>1. CASE channel[c] # None /\ channel[c].isActive
      <4>1. stray'[c] = 0
        BY <2>1, <3>1 DEF ChannelsInv, ChannelsTypeOK
      <4> QED
        BY <4>1, PendingFinite
    <3>2. CASE ~(channel[c] # None /\ channel[c].isActive)
      <4>1. \A f : f.to = c => ~StillFor(f)
        BY <3>2 DEF StillFor, FoundByPage
      <4>2. Pending(c)' \in SUBSET Pending(c)
        BY <2>1, <4>1 DEF Pending
      <4>3. Cardinality(Pending(c)') <= Cardinality(Pending(c))
        BY <4>2, PendingFinite, FS_Subset
      <4>4. stray[c] + Cardinality(Pending(c)) <= Cardinality(Req) * Batch
        BY DEF StrayCounts
      <4> QED
        BY <2>1, <3>2, <4>3, <4>4, PendingFinite, ChannelsBounds, MessagesFinite
    <3> QED
      BY <3>1, <3>2
  <2> QED
    BY <2>5, <2>6 DEF StrayCounts
<1>2. ASSUME NEW r \in Req, NEW c \in Channel, PingChannel(r, c) PROVE StrayCounts'
  <2>1. /\ UNCHANGED <<channel, lives, stray>> /\ \A x \in Req \ {r} : forward'[x] = forward[x]
        /\ forward'[r] = [at |-> "count", to |-> c, life |-> lives[c], page |-> None,
                          left |-> 1]
    BY <1>2, <1>t DEF PingChannel, ForwardTyped
  <2>2. RestOf(forward'[r]) = 0
    BY <2>1 DEF RestOf
  <2>3. \A x \in Rest' : x[1] # r
    BY <2>1, <2>2, ChannelsAssumption DEF Rest
  <2>4. \A d : Pending(d)' \subseteq Pending(d)
    BY <2>1, <2>3, PendingAfter DEF SameDocuments
  <2> QED
    BY <2>1, <2>4, StrayKept
<1>3. ASSUME NEW r \in Req, NEW p \in Page, NEW n \in 1..Batch, HandleEntry(r, p, n)
      PROVE  StrayCounts'
  <2>1. PICK c \in FoundByPage(p) :
          forward' = [forward EXCEPT ![r] =
            [at |-> "post", to |-> c, life |-> lives[c], page |-> p, left |-> n]]
    BY <1>3 DEF HandleEntry
  <2>2. /\ UNCHANGED <<channel, lives, stray>> /\ \A x \in Req \ {r} : forward'[x] = forward[x]
        /\ forward'[r].to = c /\ forward'[r].life = lives[c] /\ forward'[r].page = p
    BY <1>3, <1>t, <2>1 DEF HandleEntry, ForwardTyped
  <2>3. StillFor(forward[r])'
    BY <2>2 DEF StillFor, FoundByPage
  <2>4. \A d : Pending(d)' \subseteq Pending(d)
    BY <2>2, <2>3, PendingAfter DEF SameDocuments
  <2> QED
    BY <2>2, <2>4, StrayKept
<1>4. ASSUME NEW r \in Req, FailForward(r) \/ IncrementMessages(r) PROVE StrayCounts'
  <2>1. forward[r] # None /\ forward[r] \in Forward /\ UNCHANGED <<lives, stray>>
    BY <1>4, <1>t, ForwardOf DEF FailForward, IncrementMessages
  <2>2. SameDocuments
    <3>1. CASE channel' = channel
      BY <2>1, <3>1 DEF SameDocuments
    <3>2. CASE OfTheId(forward[r].to, forward[r].life) /\ IncrementMessages(r)
      <4>a. PICK c \in Channel : c = forward[r].to
        BY <2>1, ForwardType
      <4>1. /\ channel' = [channel EXCEPT ![c] = [channel[c] EXCEPT !.messagesProcessed = @ + 1]]
            /\ channel[c] # None
        BY <3>2, <4>a DEF IncrementMessages, OfTheId
      <4>2. channel[c] \in ChannelConfig
        BY <4>1, ChannelsBounds
      <4>3. /\ \A d \in Channel \ {c} : channel'[d] = channel[d]
            /\ channel'[c] = [channel[c] EXCEPT !.messagesProcessed = @ + 1]
        BY <4>1 DEF ChannelsInv, ChannelsTypeOK
      <4>4. /\ channel'[c].page = channel[c].page /\ channel'[c].isActive = channel[c].isActive
            /\ channel'[c] # None
        <5>1. channel[c].messagesProcessed + 1 \in 0..Traffic
          <6>1. r \in Counting(c) /\ {} \in SUBSET (Counting(c) \ {r})
            BY <2>1, <3>2, <4>a DEF IncrementMessages, OfTheId, Counting
          <6>2. 1 <= Cardinality(Counting(c))
            BY <6>1, CountingFinite, OneLess, FS_EmptySet
          <6> QED
            BY <4>1, <6>2, ChannelsBounds
        <5>2. channel'[c] \in ChannelConfig
          BY <4>2, <4>3, <5>1 DEF ChannelConfig
        <5> QED
          BY <4>2, <4>3, <5>2, ChannelsAssumption DEF ChannelConfig
      <4> QED
        BY <2>1, <4>1, <4>3, <4>4 DEF SameDocuments
    <3> QED
      BY <1>4, <3>1, <3>2 DEF FailForward, IncrementMessages
  <2>3. PICK f \in Forward \cup {None} :
          /\ ForwardIs(r, f)
          /\ f # None => /\ f.to = forward[r].to /\ f.life = forward[r].life
                         /\ f.page = forward[r].page /\ RestOf(f) = forward[r].left - 1
                         /\ forward[r].at = "count"
    <3>1. CASE forward' = [forward EXCEPT ![r] = None]
      <4>1. ForwardIs(r, None)
        BY <1>t, <3>1, ForwardWith
      <4> QED
        BY <4>1
    <3>2. CASE forward[r].at = "count" /\ Onward(r)
      BY <1>t, <2>1, <3>2, NextMessage
    <3> QED
      BY <1>4, <3>1, <3>2 DEF FailForward, IncrementMessages
  <2>4. f # None => RestOf(f) <= RestOf(forward[r])
    BY <2>1, <2>3, ForwardType
  <2>5. Rest' \subseteq Rest
    BY <2>1, <2>3, <2>4, FewerLeft
  <2>6. \A d : Pending(d)' \subseteq Pending(d)
    BY <2>1, <2>2, <2>3, <2>5, PendingAfter DEF ForwardIs
  <2> QED
    BY <2>1, <2>6, StrayKept
<1>5. ASSUME NEW r \in Req, ForwardToN8n(r) PROVE StrayCounts'
  <2>1. /\ forward[r] # None /\ forward[r].at = "post" /\ UNCHANGED <<channel, lives>>
        /\ SameDocuments
    BY <1>5 DEF ForwardToN8n, SameDocuments
  <2>2. /\ forward[r] \in Forward /\ forward[r].to \in Channel
        /\ RestOf(forward[r]) \in 1..Batch /\ RestOf(forward[r]) = forward[r].left
    BY <1>t, <2>1, ForwardOf, ForwardType
  <2>3. PICK f \in Forward \cup {None} :
          /\ ForwardIs(r, f)
          /\ f # None => /\ f.to = forward[r].to /\ f.life = forward[r].life
                         /\ f.page = forward[r].page /\ RestOf(f) = forward[r].left - 1
    <3>1. CASE Onward(r)
      BY <1>t, <2>1, <3>1, NextMessage
    <3>2. CASE forward' = [forward EXCEPT ![r].at = "count"]
      <4> DEFINE f == [forward[r] EXCEPT !.at = "count"]
      <4>1. /\ f \in Forward /\ f.at = "count" /\ f.to = forward[r].to
            /\ f.life = forward[r].life /\ f.page = forward[r].page
            /\ f.left = forward[r].left
        BY <2>2 DEF Forward
      <4>2. forward' = [forward EXCEPT ![r] = f]
        BY <3>2
      <4> HIDE DEF f
      <4>3. ForwardIs(r, f) /\ RestOf(f) = forward[r].left - 1
        BY <1>t, <4>1, <4>2, ForwardWith, ForwardType
      <4> QED
        BY <4>1, <4>3
    <3> QED
      BY <1>5, <3>1, <3>2 DEF ForwardToN8n
  <2>4. f # None => RestOf(f) < RestOf(forward[r])
    <3>1. f # None => RestOf(f) \in Nat
      BY ForwardType
    <3> QED
      BY <2>2, <2>3, <3>1
  <2> DEFINE x == <<r, RestOf(forward[r])>>
  <2>5. x \in Rest /\ Rest' \subseteq Rest \ {x}
    BY <2>1, <2>2, <2>3, <2>4, OneLeftLess
  <2>6. \A d : Pending(d)' \subseteq Pending(d)
    <3> HIDE DEF x
    <3> QED
      BY <2>1, <2>3, <2>5, PendingAfter DEF ForwardIs
  <2>7. CASE stray' = stray
    BY <2>6, <2>7, StrayKept
  <2>8. CASE ~StillFor(forward[r]) /\ stray' = [stray EXCEPT ![forward[r].to] = @ + 1]
    <3>1. x \in Pending(forward[r].to)
      BY <2>5, <2>8 DEF Pending
    <3> HIDE DEF x
    <3> SUFFICES ASSUME NEW c \in Channel
                 PROVE  stray'[c] + Cardinality(Pending(c)') <= Cardinality(Req) * Batch
      BY DEF StrayCounts
    <3>2. stray[c] + Cardinality(Pending(c)) <= Cardinality(Req) * Batch
      BY DEF StrayCounts
    <3>3. CASE c = forward[r].to
      <4>1. stray'[c] = stray[c] + 1
        BY <2>8, <3>3 DEF ChannelsInv, ChannelsTypeOK
      <4>2. Pending(c)' \in SUBSET (Pending(c) \ {x})
        BY <2>5, <2>6, PendingFinite
      <4>3. Cardinality(Pending(c)') + 1 <= Cardinality(Pending(c))
        BY <3>1, <3>3, <4>2, PendingFinite, OneLess
      <4> QED
        BY <3>2, <4>1, <4>3, PendingFinite, ChannelsBounds, MessagesFinite
    <3>4. CASE c # forward[r].to
      <4>1. stray'[c] = stray[c]
        BY <2>8, <3>4 DEF ChannelsInv, ChannelsTypeOK
      <4>2. Cardinality(Pending(c)') <= Cardinality(Pending(c))
        BY <2>6, PendingFinite, FS_Subset
      <4> QED
        BY <3>2, <4>1, <4>2, PendingFinite, ChannelsBounds, MessagesFinite
    <3> QED
      BY <3>3, <3>4
  <2> QED
    BY <1>5, <2>7, <2>8 DEF ForwardToN8n
<1>6. CASE UNCHANGED channelsVars
  <2>1. \A c : Pending(c)' = Pending(c)
    BY <1>6 DEF channelsVars, Pending, Rest, StillFor, FoundByPage
  <2> QED
    BY <1>6, <2>1 DEF channelsVars, StrayCounts
<1> QED
  BY <1>1, <1>2, <1>3, <1>4, <1>5, <1>6 DEF ChannelsNext

\* After a channel is switched off, removed or given to another account, n8n
\* gets no more of the old messages than the webhooks on their way still had
\* (channels.controller.ts handleEntry), however many they are.
THEOREM OffGoesQuiet == ChannelsSpec => []OffIsQuiet
<1>1. ChannelsInv /\ StrayCounts => OffIsQuiet
  <2> SUFFICES ASSUME ChannelsInv, StrayCounts, NEW c \in Channel
               PROVE  stray[c] <= Cardinality(Req) * Batch
    BY DEF OffIsQuiet
  <2>1. stray[c] + Cardinality(Pending(c)) <= Cardinality(Req) * Batch
    BY DEF StrayCounts
  <2> QED
    BY <2>1, PendingFinite, ChannelsBounds, MessagesFinite
<1>2. ChannelsInit => StrayCounts
  BY ChannelsInitInv
<1> QED
  BY <1>1, <1>2, ChannelsInvariant, StrayStep, PTL DEF ChannelsSpec

-----------------------------------------------------------------------------
(***************************************************************************)
(* The five services together.  A step of one leaves the others alone.     *)
(***************************************************************************)
LEMMA StepOfService ==
  [Next]_vars => /\ [GoogleNext]_googleVars /\ [FilesNext]_filesVars
                 /\ [AccountsNext]_accountsVars /\ [WhatsAppNext]_whatsAppVars
                 /\ [ChannelsNext]_channelsVars
<1> SUFFICES ASSUME [Next]_vars
             PROVE  /\ [GoogleNext]_googleVars /\ [FilesNext]_filesVars
                    /\ [AccountsNext]_accountsVars /\ [WhatsAppNext]_whatsAppVars
                    /\ [ChannelsNext]_channelsVars
  OBVIOUS
<1>a. ChannelsNext => use' = use
  BY DEF ChannelsNext, UpsertChannel, RemoveChannel, PingChannel, HandleEntry, ForwardToN8n,
         IncrementMessages, FailForward
<1>1. UNCHANGED <<use, googleState>> \/ GoogleNext
  BY <1>a DEF Next, FilesNext, AccountsNext, WhatsAppNext, vars
<1>2. UNCHANGED <<use, filesState>> \/ FilesNext
  BY <1>a DEF Next, GoogleNext, AccountsNext, WhatsAppNext, vars
<1>3. UNCHANGED <<use, accountsState>> \/ AccountsNext
  BY <1>a DEF Next, GoogleNext, FilesNext, WhatsAppNext, vars
<1>4. UNCHANGED <<use, whatsAppState>> \/ WhatsAppNext
  BY <1>a DEF Next, GoogleNext, FilesNext, AccountsNext, vars
<1>5. UNCHANGED <<use, channelsState>> \/ ChannelsNext
  BY DEF Next, GoogleNext, FilesNext, AccountsNext, WhatsAppNext, vars
<1> QED
  BY <1>1, <1>2, <1>3, <1>4, <1>5
     DEF googleVars, filesVars, accountsVars, whatsAppVars, channelsVars,
         googleState, filesState, accountsState, whatsAppState, channelsState

\* Side by side, each service behaves as it does alone.
THEOREM ServicesApart ==
  Spec => GoogleSpec /\ FilesSpec /\ AccountsSpec /\ WhatsAppSpec /\ ChannelsSpec
<1>1. Init => GoogleInit /\ FilesInit /\ AccountsInit /\ WhatsAppInit /\ ChannelsInit
  BY DEF Init
<1> QED
  BY <1>1, StepOfService, PTL
     DEF Spec, GoogleSpec, FilesSpec, AccountsSpec, WhatsAppSpec, ChannelsSpec

\* Every variable of the services keeps its type.
THEOREM ServicesTypes == Spec => []ServicesTypeOK
  BY ServicesApart, GoogleTypes, FilesTypes, AccountsTypes, WhatsAppTypes, ChannelsTypes,
     PTL DEF ServicesTypeOK

\* What each service keeps alone it keeps beside the others: tokens, sheets and
\* rows, files, owners and reset links, the instance, and the channels' counts.
THEOREM ServicesKept ==
  Spec => /\ []TokenIsOwn /\ []SheetsBounded /\ []CancelKept /\ OtherRowsKept
          /\ []FilesAgree /\ QrKept
          /\ []OrphanHasCause /\ []FounderIsOwner /\ []TokensBounded
          /\ []InstanceAgrees /\ []ConnectedIsReal
          /\ []OffIsQuiet /\ []CountIsOwn
  BY ServicesApart, TokensOwn, FewSheets, CancelledStays, RowsKept, FilesAgreeAlways,
     QrKeptAlways, OrphansStranded, FoundersOwn, FewTokens, InstanceMatches,
     ConnectedReally, OffGoesQuiet, CountsOwn, PTL
=============================================================================
