------------------------------ MODULE WhatsApp ------------------------------
(***************************************************************************)
(* The WhatsApp instances of one tenant (whatsapp/): which one the         *)
(* tenant's document names, and what the Evolution API has.                *)
(*                                                                         *)
(* A request reads the tenant, calls the Evolution API, and writes what it *)
(* found into the document, in three awaits; the panel polls the status    *)
(* while it does so.  connect makes or adopts the instance that the        *)
(* document names, sb- and the tenant's id if it names none; the owner may *)
(* write any other name by hand (tenants.service.ts                        *)
(* updateEvolutionInstance).  The Evolution API is modelled by what its    *)
(* calls do.  Left out: the URL and key of a server of the tenant's own,   *)
(* what is done in the Evolution API's own panel once the tenant is there, *)
(* and the QR itself.                                                      *)
(***************************************************************************)
EXTENDS Requests

CONSTANTS
  Name,       \* names of instances that the tenant may use
  Default     \* sb- and the tenant's id

VARIABLES
  name,       \* the instance that the document names, or None
  status,     \* the status that the document shows
  instance,   \* state in the Evolution API, by name, or None
  hooked,     \* instances that send their messages to n8n
  visit,      \* None or a Visit, by request
  astray,     \* history: names whose document and instance may have parted
  late        \* history: "connected" may stand without a name

whatsAppVars == <<use, name, status, instance, hooked, visit, astray, late>>

ShownStatus == {"none", "pending", "connected", "disconnected"}

\* name: the instance that a visit is about, as it read it when it began.
Visit ==
  [op : {"connect", "qr", "status", "logout", "delete", "link"},
   at : {"call", "record", "adopt", "webhook", "webhookThenQr", "qr", "write"},
   name : Name, seen : {"open", "close", None}, alone : BOOLEAN]

ASSUME WhatsAppAssumption ==
  /\ Default \in Name
  /\ None \notin Name \cup Visit \cup {"open", "close"}

\* The owner may have made instances in the Evolution API's own panel.
WhatsAppInit ==
  /\ use \in Uses
  /\ name = None /\ status = "none"
  /\ \E made \in SUBSET (Name \ {Default}) :
       /\ made # {} => "link" \in use
       /\ instance = [n \in Name |-> IF n \in made THEN "open" ELSE None]
       /\ astray = made
  /\ hooked = {}
  /\ visit = Idle
  /\ late = FALSE

-----------------------------------------------------------------------------
(***************************************************************************)
(* Faulty variants, to show that the properties notice a slip.             *)
(***************************************************************************)
NameNotAdopted(r) == name

StatusKept == status

StatusUnknown == "deleted"

-----------------------------------------------------------------------------
(***************************************************************************)
(* Visits to the Evolution API.                                            *)
(***************************************************************************)
Visiting(r, op, at) == visit[r] # None /\ visit[r].op = op /\ visit[r].at = at

\* What touches the name or makes and deletes instances; the others only look,
\* or log out.
Changing == {"connect", "delete", "link"}

\* The other visits that are changing something.
Crowd(r) == {x \in Req \ {r} : visit[x] # None /\ visit[x].op \in Changing}

NamesMet(r) == {visit[x].name : x \in Crowd(r)}

GoOn(r, at) == visit' = [visit EXCEPT ![r].at = at]

Leave(r) == visit' = [visit EXCEPT ![r] = None]

shown == <<name, status>>
evolution == <<instance, hooked>>

NewVisit(r, op, at, n) ==
  [op |-> op, at |-> at, name |-> n, seen |-> None, alone |-> Crowd(r) = {}]

\* The request r begins to change something: nobody in flight is alone then.
Enter(r, v) ==
  visit' = [x \in Req |->
    IF x = r THEN v
    ELSE IF x \in Crowd(r) THEN [visit[x] EXCEPT !.alone = FALSE] ELSE visit[x]]

BeginChange(r, op, n) ==
  /\ op \in use /\ visit[r] = None
  /\ Enter(r, NewVisit(r, op, "call", n))
  /\ astray' = IF Crowd(r) = {} THEN astray ELSE astray \cup NamesMet(r) \cup {n}
  /\ UNCHANGED <<shown, evolution, late>>

\* A request that needs a name is refused without one.
BeginLook(r, op, at) ==
  /\ op \in use /\ visit[r] = None
  /\ name # None
  /\ visit' = [visit EXCEPT ![r] = NewVisit(r, op, at, name)]
  /\ UNCHANGED <<shown, evolution, astray, late>>

\* An error of the Evolution API or the database, or a restart.
FailVisit(r) ==
  /\ visit[r] # None
  /\ astray' = IF visit[r].op \in Changing THEN astray \cup {visit[r].name} ELSE astray
  /\ Leave(r)
  /\ UNCHANGED <<shown, evolution, late>>

\* A poll is on its way that may still see the instance open, and write so.
Polling ==
  \E r \in Req :
    visit[r] # None /\ \/ visit[r].op \in {"qr", "status"}
                       \/ visit[r].at \in {"webhookThenQr", "qr", "write"}

-----------------------------------------------------------------------------
(***************************************************************************)
(* connect and getQR.                                                      *)
(***************************************************************************)
ConnectWhatsApp(r) == BeginChange(r, "connect", IF name = None THEN Default ELSE name)

\* An instance that exists already is adopted.
CreateInstance(r) ==
  LET n == visit[r].name IN
  /\ Visiting(r, "connect", "call")
  /\ IF instance[n] = None
       THEN /\ instance' = [instance EXCEPT ![n] = "close"]
            /\ hooked' = hooked \ {n}
            /\ GoOn(r, "record")
       ELSE UNCHANGED evolution /\ GoOn(r, "adopt")
  /\ UNCHANGED <<shown, astray, late>>

RecordInstance(r) ==
  /\ Visiting(r, "connect", "record")
  /\ name' = visit[r].name /\ status' = "pending"
  /\ late' = FALSE
  /\ GoOn(r, "webhook")
  /\ UNCHANGED <<evolution, astray>>

NameAfterAdoption(r) == visit[r].name

AdoptInstance(r) ==
  /\ Visiting(r, "connect", "adopt")
  /\ name' = NameAfterAdoption(r)
  /\ GoOn(r, "webhookThenQr")
  /\ UNCHANGED <<status, evolution, astray, late>>

\* The error of setWebhook is only logged.  A visit that ran alone and had none
\* leaves document and instance in agreement.
SetWebhook(r) ==
  LET v == visit[r] IN
  /\ v # None /\ v.at \in {"webhook", "webhookThenQr"}
  /\ \/ /\ instance[v.name] # None
        /\ hooked' = hooked \cup {v.name}
        /\ astray' = IF v.alone THEN astray \ {v.name} ELSE astray
     \/ astray' = astray \cup {v.name} /\ UNCHANGED hooked
  /\ IF v.at = "webhook" THEN Leave(r) ELSE GoOn(r, "qr")
  /\ UNCHANGED <<shown, instance, late>>

GetQR(r) == BeginLook(r, "qr", "qr")

\* The instance answers with a QR, or that it is open.
FetchQR(r) ==
  /\ visit[r] # None /\ visit[r].at = "qr"
  /\ IF instance[visit[r].name] = "open"
       THEN visit' = [visit EXCEPT ![r].at = "write", ![r].seen = "open"]
       ELSE Leave(r)
  /\ UNCHANGED <<shown, evolution, astray, late>>

-----------------------------------------------------------------------------
(***************************************************************************)
(* getStatus, disconnect and deleteInstance.                               *)
(***************************************************************************)
GetStatus(r) == BeginLook(r, "status", "call")

\* An instance that is not there is an error, which writes nothing.
FetchState(r) ==
  LET state == instance[visit[r].name] IN
  /\ Visiting(r, "status", "call")
  /\ IF state = None THEN Leave(r)
     ELSE visit' = [visit EXCEPT ![r].at = "write", ![r].seen = state]
  /\ UNCHANGED <<shown, evolution, astray, late>>

\* What was seen is written, even if the name is gone by now.
WriteStatus(r) ==
  /\ visit[r] # None /\ visit[r].at = "write" /\ visit[r].seen # None
  /\ status' = IF visit[r].seen = "open" THEN "connected" ELSE "disconnected"
  /\ Leave(r)
  /\ UNCHANGED <<name, evolution, astray, late>>

DisconnectWhatsApp(r) == BeginLook(r, "logout", "call")

DeleteInstance(r) == name # None /\ BeginChange(r, "delete", name)

\* An error of logout is only logged.
Logout(r) ==
  LET n == visit[r].name IN
  /\ Visiting(r, "logout", "call")
  /\ \/ instance[n] # None /\ instance' = [instance EXCEPT ![n] = "close"]
     \/ UNCHANGED instance
  /\ GoOn(r, "record")
  /\ UNCHANGED <<shown, hooked, astray, late>>

RecordLogout(r) ==
  /\ Visiting(r, "logout", "record")
  /\ status' = "disconnected"
  /\ Leave(r)
  /\ UNCHANGED <<name, evolution, astray, late>>

\* So is an error of delete: the instance then stays.
EraseInstance(r) ==
  LET v == visit[r] IN
  /\ Visiting(r, "delete", "call")
  /\ \/ /\ instance' = [instance EXCEPT ![v.name] = None]
        /\ hooked' = hooked \ {v.name}
        /\ astray' = IF v.alone THEN astray \ {v.name} ELSE astray
     \/ astray' = astray \cup {v.name} /\ UNCHANGED evolution
  /\ GoOn(r, "record")
  /\ UNCHANGED <<shown, late>>

StatusAfterDelete == "disconnected"

\* Whatever the document names by now is taken away.
RecordDelete(r) ==
  /\ Visiting(r, "delete", "record")
  /\ name' = None /\ status' = StatusAfterDelete
  /\ late' = (late \/ Polling)
  /\ Leave(r)
  /\ UNCHANGED <<evolution, astray>>

-----------------------------------------------------------------------------
(***************************************************************************)
(* tenants.service.ts updateEvolutionInstance: the owner writes a name,    *)
(* any name or none, and a status ("connected" if he gives none), and then *)
(* the instance of that name is told to send to n8n.                       *)
(***************************************************************************)
LinkByHand(r, n, st) ==
  /\ "link" \in use /\ visit[r] = None
  /\ name' = n /\ status' = st
  /\ Enter(r, IF n = None THEN None ELSE NewVisit(r, "link", "webhook", n))
  /\ astray' = astray \cup NamesMet(r) \cup ({name, n} \ {None})
  /\ late' = (late \/ (n = None /\ (st = "connected" \/ Polling)))
  /\ UNCHANGED evolution

\* The name may be left out, for a new URL or key.
WriteStatusByHand(st) ==
  /\ "link" \in use
  /\ status' = st
  /\ late' = (late \/ (name = None /\ st = "connected"))
  /\ UNCHANGED <<name, evolution, visit, astray>>

\* The owner scans the QR; the phone logs out.
Pair(n) ==
  /\ instance[n] # None
  /\ \E state \in {"open", "close"} : instance' = [instance EXCEPT ![n] = state]
  /\ UNCHANGED <<shown, hooked, visit, astray, late>>

ByHand(st) ==
  \/ \E r \in Req, n \in Name \cup {None} : LinkByHand(r, n, st)
  \/ WriteStatusByHand(st)

WhatsAppStep(r) ==
  \/ ConnectWhatsApp(r) \/ CreateInstance(r) \/ RecordInstance(r)
  \/ AdoptInstance(r) \/ SetWebhook(r) \/ GetQR(r) \/ FetchQR(r)
  \/ GetStatus(r) \/ FetchState(r) \/ WriteStatus(r)
  \/ DisconnectWhatsApp(r) \/ Logout(r) \/ RecordLogout(r)
  \/ DeleteInstance(r) \/ EraseInstance(r) \/ RecordDelete(r)
  \/ FailVisit(r)

WhatsAppNext ==
  /\ \/ \E r \in Req : WhatsAppStep(r)
     \/ \E st \in ShownStatus \ {"none"} : ByHand(st)
     \/ \E n \in Name : Pair(n)
  /\ UNCHANGED use

WhatsAppSpec == WhatsAppInit /\ [][WhatsAppNext]_whatsAppVars

-----------------------------------------------------------------------------
(***************************************************************************)
(* Properties.                                                             *)
(***************************************************************************)

\* Every variable has its type.
WhatsAppTypeOK ==
  /\ use \in Uses
  /\ name \in Name \cup {None} /\ status \in ShownStatus
  /\ instance \in [Name -> {"open", "close", None}] /\ hooked \subseteq Name
  /\ visit \in [Req -> Visit \cup {None}]
  /\ astray \subseteq Name /\ late \in BOOLEAN

Busy == \E r \in Req : visit[r] # None /\ visit[r].op \in Changing

\* An instance lives in the Evolution API exactly while the document names it,
\* and then its messages go to n8n.  What breaks this for a name: a call about
\* it that fails, also where the error is only logged, or dies; one that meets
\* another; a name written by hand, for the instance that it leaves as much as
\* for the new one.  What mends it for that name, and for no other, is the next
\* connect, link or delete of it that runs alone and without an error.
InstanceAgrees ==
  ~Busy => \A n \in Name \ astray : /\ name = n <=> instance[n] # None
                                    /\ name = n => n \in hooked

\* A tenant shown as connected has an instance, unless a poll came back after
\* the name was taken away, by a deletion or by hand, and wrote what it had
\* seen, or the panel wrote "connected" where there was no name.
ConnectedIsReal == status = "connected" => name # None \/ late
=============================================================================
