-------------------------- MODULE GoogleIntegration -------------------------
(***************************************************************************)
(* The Google account of one tenant (google-integration/): its tokens, its *)
(* calendar and the spreadsheet of its appointments.  The panel connects,  *)
(* disconnects and configures; n8n writes events and rows.                 *)
(*                                                                         *)
(* A request finds or creates the spreadsheet, reads the tokens, renews    *)
(* them if they are about to expire, and then calls Google; each of these  *)
(* is an await.  Google is modelled by what it does with the calls: it     *)
(* gives an account's tokens, and opens a calendar or a sheet only to the  *)
(* account that owns it.  auth-url asks for consent every time, so that    *)
(* every exchange of a code returns a refresh token                        *)
(* (google-integration.service.ts:74).                                     *)
(*                                                                         *)
(* Of a row the model keeps columns G and H, where updateSheetRow looks    *)
(* for the event, and whether column F says that it is cancelled.  A row   *)
(* of the present schema has the employee in G and the event in H; one of  *)
(* the old schema has the event in G and a date in H.                      *)
(*                                                                         *)
(* Left out: encryption (it fails only if the key is not configured), the  *)
(* calendarId, the header of the sheet, the other columns, and updates     *)
(* that name no event.                                                     *)
(***************************************************************************)
EXTENDS Requests

CONSTANTS
  Account,    \* Google accounts of the tenant's people
  Sheet,      \* ids of spreadsheets, each used once   (bounds the history)
  Event,      \* ids of calendar events, each used once (bounds the history)
  LastRow     \* rows that a sheet has below its header (bounds the history)

VARIABLES
  integ,      \* the tenant's document
  owner,      \* account that owns a spreadsheet, or None if it is not created
  rows,       \* a sheet's rows below the header: None or a Row
  calendar,   \* account that holds an event, or None
  used,       \* events whose id is not free any more
  call,       \* None or a Call, by request
  overtaken,  \* history: renewals since whose reading the account changed
  strayed,    \* history: an overtaken renewal wrote the access token last
  unstored,   \* history: sheets created by calls that died before they stored it
  shaken,     \* history: updates since whose reading their row was cleared or
              \* given other events
  crossed,    \* history: updates that overlap, or did, another of their row
  cancelled   \* history: places of rows last said to be cancelled

googleVars == <<use, integ, owner, rows, calendar, used, call, overtaken,
                strayed, unstored, shaken, crossed, cancelled>>

At1 == 1..LastRow

\* An absent document reads like one that was never connected.  account: the
\* one whose e-mail is shown, if any; access, refresh: those the tokens are of.
Integration == [connected : BOOLEAN, account : Account \cup {None},
                access : Account \cup {None}, refresh : Account \cup {None},
                expired : BOOLEAN, sheet : Sheet \cup {None}]

\* g, h: the events in columns G and H, None for anything else there.
Row == [g : Event \cup {None}, h : Event \cup {None}, off : BOOLEAN]

\* What a request to update a row gives: an employee, an eventoCalendarId (an
\* event, or blank), and an estado, which is cancelled ("off") or another.
Change == [emp : BOOLEAN, rekey : BOOLEAN, key : Event \cup {None},
           state : {"off", "on", None}]

NoChange == [emp |-> FALSE, rekey |-> FALSE, key |-> None, state |-> None]

SheetOp == {"append", "update", "rows", "ensure", "header", "clear"}
EventOp == {"createEvent", "updateEvent", "deleteEvent"}

\* token: account of the token in use; sheet, pos, seen: what it has read;
\* event, change: what it was asked.
Call == [op : SheetOp \cup EventOp \cup {"callback"},
         at : {"exchange", "ensure", "tokens", "refresh", "create", "store",
               "act", "write"},
         token : Account \cup {None}, sheet : Sheet \cup {None},
         pos : 0..LastRow, seen : Row \cup {None},
         event : Event \cup {None}, change : Change]

ASSUME GoogleAssumption ==
  /\ LastRow \in Nat
  /\ IsFiniteSet(Sheet)
  /\ None \notin Account \cup Sheet \cup Event \cup Row \cup Call \cup {"off", "on"}

Unconnected ==
  [connected |-> FALSE, account |-> None, access |-> None, refresh |-> None,
   expired |-> FALSE, sheet |-> None]

\* A tenant is new, or one who connected a while ago and whose sheet begins with
\* a row of the old schema.
NewTenant ==
  /\ integ = Unconnected
  /\ owner = [s \in Sheet |-> None]
  /\ rows = [s \in Sheet |-> [p \in At1 |-> None]]
  /\ calendar = [e \in Event |-> None]
  /\ used = {}

OldTenant(a, s, e) ==
  /\ integ = [connected |-> TRUE, account |-> a, access |-> a, refresh |-> a,
              expired |-> FALSE, sheet |-> s]
  /\ owner = [t \in Sheet |-> IF t = s THEN a ELSE None]
  /\ rows = [t \in Sheet |-> [p \in At1 |->
               IF t = s /\ p = 1 THEN [g |-> e, h |-> None, off |-> FALSE] ELSE None]]
  /\ calendar = [f \in Event |-> IF f = e THEN a ELSE None]
  /\ used = {e}

GoogleInit ==
  /\ use \in Uses
  /\ \/ "legacy" \notin use /\ NewTenant
     \/ "legacy" \in use /\ \E a \in Account, s \in Sheet, e \in Event : OldTenant(a, s, e)
  /\ call = Idle
  /\ overtaken = {} /\ strayed = FALSE /\ unstored = {}
  /\ shaken = {} /\ crossed = {} /\ cancelled = {}

-----------------------------------------------------------------------------
(***************************************************************************)
(* Faulty variants, to show that the properties notice a slip.             *)
(***************************************************************************)
RefreshTokenKept(doc) ==
  [doc EXCEPT !.connected = FALSE, !.access = None, !.account = None]

FoundAfterHeader(s, e) ==
  {p \in At1 : /\ p - 1 \in At1 /\ rows[s][p] # None /\ rows[s][p - 1] # None
               /\ e \in {rows[s][p - 1].g, rows[s][p - 1].h}}

StateOfRequest(c) == [c.seen EXCEPT !.off = (c.change.state = "off")]

SheetUnseen == None

-----------------------------------------------------------------------------
(***************************************************************************)
(* Calls.                                                                  *)
(***************************************************************************)
Calling(r, at) == call[r] # None /\ call[r].at = at

Ended(r) == call' = [call EXCEPT ![r] = None]

Ask(r, op, e, change) ==
  /\ op \in use
  /\ call[r] = None
  /\ call' = [call EXCEPT ![r] =
       [op |-> op, at |-> IF op \in SheetOp THEN "ensure" ELSE "tokens",
        token |-> None, sheet |-> None, pos |-> 0, seen |-> None,
        event |-> e, change |-> change]]

stored == <<integ, owner, rows, calendar, used>>
past == <<overtaken, strayed, unstored, shaken, crossed, cancelled>>

\* The renewals of the tokens on their way.
Renewals == {r \in Req : Calling(r, "refresh")}

\* A call dies: an error of Google or of the database, or a restart.
Fail(r) ==
  /\ call[r] # None
  /\ Ended(r)
  /\ unstored' = IF call[r].at = "store" THEN unstored \cup {call[r].sheet}
                 ELSE unstored
  /\ overtaken' = overtaken \ {r}
  /\ shaken' = shaken \ {r} /\ crossed' = crossed \ {r}
  /\ UNCHANGED <<stored, strayed, cancelled>>

-----------------------------------------------------------------------------
(***************************************************************************)
(* The connection.                                                         *)
(***************************************************************************)

\* The owner consents, and handleCallback exchanges the code for tokens.
HandleCallback(r, a) ==
  /\ \/ "reconnect" \in use
     \/ "google" \in use /\ ~integ.connected
  /\ call[r] = None
  /\ call' = [call EXCEPT ![r] =
       [op |-> "callback", at |-> "exchange", token |-> a, sheet |-> None,
        pos |-> 0, seen |-> None, event |-> None, change |-> NoChange]]
  /\ UNCHANGED <<stored, past>>

\* The tokens are stored, with the e-mail that userinfo answers: if that call is
\* refused the e-mail is blank.  The spreadsheet stays what it was.  (The calls
\* before the write touch nothing of the model's; Fail stands for their errors.)
Connect(r) ==
  /\ Calling(r, "exchange")
  /\ LET a == call[r].token
     IN \E email \in {a, None} :
          integ' = [integ EXCEPT !.connected = TRUE, !.account = email, !.access = a,
                                 !.refresh = a, !.expired = FALSE]
  /\ overtaken' = Renewals /\ strayed' = FALSE
  /\ Ended(r)
  /\ UNCHANGED <<owner, rows, calendar, used, unstored, shaken, crossed, cancelled>>

Disconnected(doc) ==
  [doc EXCEPT !.connected = FALSE, !.account = None, !.access = None,
              !.refresh = None, !.expired = FALSE]

Disconnect ==
  /\ integ' = Disconnected(integ)
  /\ overtaken' = Renewals /\ strayed' = FALSE
  /\ UNCHANGED <<owner, rows, calendar, used, call, unstored, shaken, crossed,
                 cancelled>>

\* The panel gives the id of a spreadsheet.
UpdateConfig(s) ==
  /\ owner[s] # None
  /\ integ' = [integ EXCEPT !.sheet = s]
  /\ UNCHANGED <<owner, rows, calendar, used, call, past>>

\* An hour passes.
Expire ==
  /\ integ.connected /\ ~integ.expired
  /\ integ' = [integ EXCEPT !.expired = TRUE]
  /\ UNCHANGED <<owner, rows, calendar, used, call, past>>

\* Where a call goes once it has its token.
WithToken(c) ==
  IF c.op \in SheetOp /\ c.sheet = None THEN "create" ELSE "act"

\* getDecryptedTokens, up to the renewal.
ReadTokens(r) ==
  /\ Calling(r, "tokens")
  /\ IF ~integ.connected \/ (integ.expired /\ integ.refresh = None) THEN Ended(r)
     ELSE IF integ.expired
       THEN call' = [call EXCEPT ![r].token = integ.refresh, ![r].at = "refresh"]
       ELSE call' = [call EXCEPT ![r].token = integ.access,
                                 ![r].at = WithToken(call[r])]
  /\ UNCHANGED <<stored, past>>

\* refreshAccessToken writes the token that it got, whoever is connected now.
RefreshAccessToken(r) ==
  /\ Calling(r, "refresh")
  /\ integ' = [integ EXCEPT !.access = call[r].token, !.expired = FALSE]
  /\ call' = [call EXCEPT ![r].at = WithToken(call[r])]
  /\ strayed' = (r \in overtaken) /\ overtaken' = overtaken \ {r}
  /\ UNCHANGED <<owner, rows, calendar, used, unstored, shaken, crossed, cancelled>>

-----------------------------------------------------------------------------
(***************************************************************************)
(* The calendar.                                                           *)
(***************************************************************************)
CreateCalendarEvent(r) ==
  /\ Calling(r, "act") /\ call[r].op = "createEvent"
  /\ \E e \in Event \ used :
       /\ calendar' = [calendar EXCEPT ![e] = call[r].token]
       /\ used' = used \cup {e}
  /\ Ended(r)
  /\ UNCHANGED <<integ, owner, rows, past>>

\* Google answers 404 for an event of another account; either way the call ends.
UpdateCalendarEvent(r) ==
  /\ Calling(r, "act") /\ call[r].op = "updateEvent"
  /\ Ended(r)
  /\ UNCHANGED <<stored, past>>

DeleteCalendarEvent(r) ==
  /\ Calling(r, "act") /\ call[r].op = "deleteEvent"
  /\ calendar' = IF calendar[call[r].event] = call[r].token
                   THEN [calendar EXCEPT ![call[r].event] = None] ELSE calendar
  /\ Ended(r)
  /\ UNCHANGED <<integ, owner, rows, used, past>>

-----------------------------------------------------------------------------
(***************************************************************************)
(* The spreadsheet.                                                        *)
(***************************************************************************)

\* What ensureSpreadsheet reads.
StoredSheet == integ.sheet

\* With the sheet, a call reads the tokens (again); a request for the sheet
\* alone is done.
Ensured(r, s) ==
  IF call[r].op = "ensure" THEN Ended(r)
  ELSE call' = [call EXCEPT ![r].sheet = s, ![r].at = "tokens"]

EnsureSpreadsheet(r) ==
  /\ Calling(r, "ensure")
  /\ IF StoredSheet # None THEN Ensured(r, StoredSheet)
     ELSE call' = [call EXCEPT ![r].at = "tokens"]
  /\ UNCHANGED <<stored, past>>

CreateSpreadsheet(r) ==
  /\ Calling(r, "create")
  /\ \E s \in Sheet :
       /\ owner[s] = None
       /\ owner' = [owner EXCEPT ![s] = call[r].token]
       /\ call' = [call EXCEPT ![r].sheet = s, ![r].at = "store"]
  /\ UNCHANGED <<integ, rows, calendar, used, past>>

StoreSpreadsheet(r) ==
  /\ Calling(r, "store")
  /\ integ' = [integ EXCEPT !.sheet = call[r].sheet]
  /\ Ensured(r, call[r].sheet)
  /\ UNCHANGED <<owner, rows, calendar, used, past>>

\* A call of a sheet operation that Google lets in.
Opens(r, op) ==
  /\ Calling(r, "act") /\ call[r].op = op
  /\ owner[call[r].sheet] = call[r].token

\* Google refuses, and the handler throws (or returns no rows).
Refused(r) ==
  /\ Calling(r, "act") /\ call[r].op \in SheetOp
  /\ owner[call[r].sheet] # call[r].token
  /\ Ended(r)
  /\ UNCHANGED <<stored, past>>

\* rows and fix-header leave the rows as they are.
ReadSheetRows(r) ==
  /\ \E op \in {"rows", "header"} : Opens(r, op)
  /\ Ended(r)
  /\ UNCHANGED <<stored, past>>

AppendedRow(e) == [g |-> None, h |-> e, off |-> FALSE]

\* Google appends below a table: a run of rows that are not blank.
AppendSheetRow(r) ==
  LET c == call[r] IN
  /\ Opens(r, "append")
  /\ \E p \in At1 :
       /\ rows[c.sheet][p] = None
       /\ p - 1 \in At1 => rows[c.sheet][p - 1] # None
       /\ rows' = [rows EXCEPT ![c.sheet][p] = AppendedRow(c.event)]
  /\ Ended(r)
  /\ UNCHANGED <<integ, owner, calendar, used, past>>

\* The events by which a row is found.
EventsOf(row) == {row.g, row.h} \ {None}

\* Where updateSheetRow finds the event, of which it takes the first place.
Found(s, e) == {p \in At1 : rows[s][p] # None /\ e \in EventsOf(rows[s][p])}

\* Updates that have read their row, those of one row among them.
Updating == {r \in Req : Calling(r, "write") /\ call[r].op = "update"}

UpdatingAt(s, p) == {r \in Updating : call[r].sheet = s /\ call[r].pos = p}

FindSheetRow(r) ==
  LET c == call[r]
      found == Found(c.sheet, c.event)
  IN /\ Opens(r, "update")
     /\ IF found = {}
          THEN Ended(r) /\ UNCHANGED crossed
          ELSE \E p \in found :
                 /\ \A q \in found : p <= q
                 /\ call' = [call EXCEPT ![r].pos = p, ![r].at = "write",
                                         ![r].seen = rows[c.sheet][p]]
                 /\ crossed' = IF UpdatingAt(c.sheet, p) = {} THEN crossed
                               ELSE crossed \cup UpdatingAt(c.sheet, p) \cup {r}
     /\ UNCHANGED <<stored, overtaken, strayed, unstored, shaken, cancelled>>

\* The whole row is written back, with what the request changes: the employee
\* goes to G, and eventoCalendarId to H, also in a row of the old schema.
NewRow(c) ==
  [g |-> IF c.change.emp THEN None ELSE c.seen.g,
   h |-> IF c.change.rekey THEN c.change.key ELSE c.seen.h,
   off |-> IF c.change.state = None THEN c.seen.off ELSE c.change.state = "off"]

UpdateSheetRow(r) ==
  LET c == call[r]
      place == <<c.sheet, c.pos>>
  IN
  /\ Calling(r, "write") /\ c.op = "update"
  /\ rows' = [rows EXCEPT ![c.sheet][c.pos] = NewRow(c)]
  /\ cancelled' = IF c.change.state = "off" THEN cancelled \cup {place}
                  ELSE IF c.change.state = "on" \/ r \in crossed
                    THEN cancelled \ {place} ELSE cancelled
  /\ shaken' = (shaken \cup IF r \in shaken \/ EventsOf(NewRow(c)) # EventsOf(c.seen)
                               THEN UpdatingAt(c.sheet, c.pos) ELSE {}) \ {r}
  /\ crossed' = crossed \ {r}
  /\ Ended(r)
  /\ UNCHANGED <<integ, owner, calendar, used, overtaken, strayed, unstored>>

\* The sheet returns its rows up to the last that is not blank, the nth.
LastFilled(s, n) ==
  /\ n \in At1 => rows[s][n] # None
  /\ \A p \in At1 : rows[s][p] # None => p <= n

CountSheetRows(r) ==
  /\ Opens(r, "clear")
  /\ \E n \in 0..LastRow :
       /\ LastFilled(call[r].sheet, n)
       /\ IF n = 0 THEN Ended(r)
          ELSE call' = [call EXCEPT ![r].pos = n, ![r].at = "write"]
  /\ UNCHANGED <<stored, past>>

\* The rows that were counted are blanked, whatever they hold by now.
ClearSheetRows(r) ==
  LET c == call[r] IN
  /\ Calling(r, "write") /\ c.op = "clear"
  /\ rows' = [rows EXCEPT ![c.sheet] =
                [p \in At1 |-> IF p <= c.pos THEN None ELSE @[p]]]
  /\ shaken' = shaken \cup UNION {UpdatingAt(c.sheet, p) : p \in 1..c.pos}
  /\ cancelled' = cancelled \ ({c.sheet} \X (1..c.pos))
  /\ Ended(r)
  /\ UNCHANGED <<integ, owner, calendar, used, overtaken, strayed, unstored, crossed>>

-----------------------------------------------------------------------------
\* n8n appends a row for an event, or without one if the calendar refused it.
AskAppend(r, e) ==
  /\ e \in used \cup {None}
  /\ Ask(r, "append", e, NoChange)
  /\ UNCHANGED <<stored, past>>

\* What n8n gives in an update; use says which of the fields.
Changes ==
  {c \in Change : /\ c.emp => "employee" \in use
                  /\ c.rekey => "rekey" \in use /\ c.key \in used \cup {None}
                  /\ ~c.rekey => c.key = None
                  /\ c.state = "on" => "reopen" \in use}

AskAbout(r, e) ==
  /\ e \in used
  /\ \/ \E change \in Changes : Ask(r, "update", e, change)
     \/ \E op \in {"updateEvent", "deleteEvent"} : Ask(r, op, e, NoChange)
  /\ UNCHANGED <<stored, past>>

AskForAll(r) ==
  /\ \E op \in {"rows", "ensure", "header", "clear", "createEvent"} :
       Ask(r, op, None, NoChange)
  /\ UNCHANGED <<stored, past>>

GoogleStep ==
  \/ "disconnect" \in use /\ Disconnect
  \/ "expire" \in use /\ Expire
  \/ "config" \in use /\ \E s \in Sheet : UpdateConfig(s)
  \/ \E r \in Req :
       \/ \E a \in Account : HandleCallback(r, a)
       \/ \E e \in Event \cup {None} : AskAppend(r, e)
       \/ \E e \in Event : AskAbout(r, e)
       \/ AskForAll(r)
       \/ Connect(r) \/ ReadTokens(r) \/ RefreshAccessToken(r)
       \/ CreateCalendarEvent(r) \/ UpdateCalendarEvent(r) \/ DeleteCalendarEvent(r)
       \/ EnsureSpreadsheet(r) \/ CreateSpreadsheet(r) \/ StoreSpreadsheet(r)
       \/ Refused(r) \/ ReadSheetRows(r) \/ AppendSheetRow(r)
       \/ FindSheetRow(r) \/ UpdateSheetRow(r)
       \/ CountSheetRows(r) \/ ClearSheetRows(r)
       \/ "fail" \in use /\ Fail(r)

GoogleNext == GoogleStep /\ UNCHANGED use

GoogleSpec == GoogleInit /\ [][GoogleNext]_googleVars

-----------------------------------------------------------------------------
(***************************************************************************)
(* Properties.                                                             *)
(***************************************************************************)

\* Every variable has its type.
GoogleTypeOK ==
  /\ use \in Uses
  /\ integ \in Integration
  /\ owner \in [Sheet -> Account \cup {None}]
  /\ rows \in [Sheet -> [At1 -> Row \cup {None}]]
  /\ calendar \in [Event -> Account \cup {None}]
  /\ used \subseteq Event
  /\ call \in [Req -> Call \cup {None}]
  /\ overtaken \subseteq Req /\ strayed \in BOOLEAN /\ unstored \subseteq Sheet
  /\ shaken \subseteq Req /\ crossed \subseteq Req
  /\ cancelled \subseteq Sheet \X At1

\* The refresh token is there exactly while the tenant is connected and is of the
\* account that the panel shows, if userinfo told it; a disconnected tenant keeps
\* none.  The access token is of the same account, however many renewals and
\* reconnections interleave, unless a renewal that was on its way when the
\* account changed wrote it last, as refreshAccessToken does not look at the
\* document again; the next renewal or reconnection puts an end to that.
TokenIsOwn ==
  /\ integ.connected <=> integ.refresh # None
  /\ integ.account # None => integ.refresh = integ.account
  /\ ~strayed => integ.access = integ.refresh

\* The spreadsheets that were created and stored, or are about to be.
Made == {s \in Sheet : owner[s] # None} \ unstored

\* ensureSpreadsheet looks for the sheet and creates one some calls to Google
\* later: appointments that come together may each have a sheet of their own,
\* but no more of them than calls in flight; one, if one comes first.
SheetsBounded == Cardinality(Made) <= Cardinality(Req)

\* An update writes to the position at which it read its event.  A row that is
\* overwritten holds the event that the update was asked about, and gets no
\* event but that which the update gives it, unless since the update's reading
\* the row was cleared, or given other events by an update that overlaps.
OtherRowsKept ==
  [][\A s \in Sheet, p \in At1 :
       LET row == rows[s][p]  new == rows'[s][p] IN
       (row # None /\ new # None /\ new # row) =>
         \E r \in Req :
           /\ call[r] # None /\ call'[r] = None
           /\ \/ r \in shaken
              \/ /\ call[r].event \in EventsOf(row)
                 /\ EventsOf(new) \subseteq EventsOf(row) \cup {call[r].change.key}]_googleVars

\* An update writes back the fields that the request leaves out.  A row that
\* was cancelled stays so until it is cleared or a request gives another
\* estado, unless an update of it crosses another and writes back what it read.
CancelKept ==
  \A s \in Sheet, p \in At1 :
    <<s, p>> \in cancelled => rows[s][p] # None /\ rows[s][p].off
=============================================================================
