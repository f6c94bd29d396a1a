---------------------------- MODULE GoogleProofs ----------------------------
(***************************************************************************)
(* The types of GoogleIntegration, whose the tokens of a tenant are, how    *)
(* many spreadsheets its requests may make, and what becomes of the rows   *)
(* of the sheets, for any number of requests in flight.                    *)
(***************************************************************************)
EXTENDS GoogleIntegration, RequestsProofs

-----------------------------------------------------------------------------
(***************************************************************************)
(* Types.  What a call has found when it gets somewhere.                   *)
(***************************************************************************)
CallSound(c) ==
  /\ c.at = "exchange" => c.token \in Account
  /\ c.op = "update" => c.event \in Event
  /\ (c.op \in SheetOp /\ c.at \in {"act", "write"}) => c.sheet \in Sheet
  /\ c.at = "store" => c.sheet \in Sheet
  /\ c.at = "create" => c.op \in SheetOp /\ c.sheet = None
  /\ (c.op = "update" /\ c.at = "write") => c.seen \in Row /\ c.pos \in At1

CallsSound == \A r \in Req : call[r] # None => CallSound(call[r])

GoogleInv == GoogleTypeOK /\ CallsSound

LEMMA GoogleInitInv == GoogleInit => GoogleInv
<1> SUFFICES ASSUME GoogleInit PROVE GoogleInv
  OBVIOUS
<1>1. call \in [Req -> Call \cup {None}] /\ CallsSound
  BY DEF GoogleInit, Idle, CallsSound
<1>2. /\ integ \in Integration
      /\ owner \in [Sheet -> Account \cup {None}]
      /\ rows \in [Sheet -> [At1 -> Row \cup {None}]]
      /\ calendar \in [Event -> Account \cup {None}]
      /\ used \subseteq Event
  <2>1. CASE NewTenant
    BY <2>1 DEF NewTenant, Unconnected, Integration
  <2>2. ASSUME NEW a \in Account, NEW s \in Sheet, NEW e \in Event, OldTenant(a, s, e)
        PROVE  /\ integ \in Integration
               /\ owner \in [Sheet -> Account \cup {None}]
               /\ rows \in [Sheet -> [At1 -> Row \cup {None}]]
               /\ calendar \in [Event -> Account \cup {None}]
               /\ used \subseteq Event
    <3>1. [g |-> e, h |-> None, off |-> FALSE] \in Row
      BY DEF Row
    <3> DEFINE old(t) == [p \in At1 |->
                 IF t = s /\ p = 1 THEN [g |-> e, h |-> None, off |-> FALSE] ELSE None]
    <3>2. \A t \in Sheet : old(t) \in [At1 -> Row \cup {None}]
      BY <3>1
    <3>3. rows = [t \in Sheet |-> old(t)]
      BY <2>2 DEF OldTenant
    <3> HIDE DEF old
    <3>4. rows \in [Sheet -> [At1 -> Row \cup {None}]]
      BY <3>2, <3>3
    <3> QED
      BY <2>2, <3>4 DEF OldTenant, Integration
  <2> QED
    BY <2>1, <2>2 DEF GoogleInit
<1> QED
  BY <1>1, <1>2 DEF GoogleInit, GoogleInv, GoogleTypeOK

\* The calls in flight after one of them has changed.
LEMMA CallsWith ==
  ASSUME GoogleInv, NEW r \in Req, NEW c, c = None \/ (c \in Call /\ CallSound(c)),
         call' = [call EXCEPT ![r] = c]
  PROVE  /\ call' \in [Req -> Call \cup {None}]
         /\ CallsSound'
         /\ call'[r] = c /\ \A x \in Req \ {r} : call'[x] = call[x]
  BY DEF GoogleInv, GoogleTypeOK, CallsSound

LEMMA CallOf ==
  ASSUME GoogleInv, NEW r \in Req, call[r] # None
  PROVE  call[r] \in Call /\ CallSound(call[r])
  BY DEF GoogleInv, GoogleTypeOK, CallsSound

LEMMA EndedCalls ==
  ASSUME GoogleInv, NEW r \in Req, Ended(r)
  PROVE  /\ call' \in [Req -> Call \cup {None}]
         /\ CallsSound'
         /\ call'[r] = None /\ \A x \in Req \ {r} : call'[x] = call[x]
  BY CallsWith DEF Ended

LEMMA AskedCalls ==
  ASSUME GoogleInv, NEW r \in Req, NEW op \in SheetOp \cup EventOp,
         NEW e \in Event \cup {None}, NEW change \in Change, Ask(r, op, e, change),
         op = "update" => e \in Event
  PROVE  call' \in [Req -> Call \cup {None}] /\ CallsSound'
<1> DEFINE c == [op |-> op, at |-> IF op \in SheetOp THEN "ensure" ELSE "tokens",
                 token |-> None, sheet |-> None, pos |-> 0, seen |-> None,
                 event |-> e, change |-> change]
<1>1. 0 \in 0..LastRow
  BY GoogleAssumption
<1>2. c \in Call
  BY <1>1 DEF Call
<1>3. CallSound(c)
  BY DEF CallSound
<1>4. call' = [call EXCEPT ![r] = c]
  BY DEF Ask
<1> HIDE DEF c
<1> QED
  BY <1>2, <1>3, <1>4, CallsWith

LEMMA EnsuredCalls ==
  ASSUME GoogleInv, NEW r \in Req, call[r] # None, NEW s \in Sheet, Ensured(r, s),
         call[r].at \in {"ensure", "store"}
  PROVE  call' \in [Req -> Call \cup {None}] /\ CallsSound'
<1>1. CASE call[r].op = "ensure"
  BY <1>1, EndedCalls DEF Ensured
<1>2. CASE call[r].op # "ensure"
  <2> DEFINE c == [call[r] EXCEPT !.sheet = s, !.at = "tokens"]
  <2>1. c \in Call /\ CallSound(c)
    BY CallOf DEF Call, CallSound
  <2>2. call' = [call EXCEPT ![r] = c]
    BY <1>2 DEF Ensured
  <2> HIDE DEF c
  <2> QED
    BY <2>1, <2>2, CallsWith
<1> QED
  BY <1>1, <1>2

LEMMA WithTokenCalls ==
  ASSUME GoogleInv, NEW r \in Req, call[r] # None, call[r].at \in {"tokens", "refresh"},
         NEW token \in Account \cup {None}, NEW at \in {"refresh", WithToken(call[r])},
         call' = [call EXCEPT ![r] = [call[r] EXCEPT !.token = token, !.at = at]]
  PROVE  /\ call' \in [Req -> Call \cup {None}] /\ CallsSound'
         /\ call'[r] = [call[r] EXCEPT !.token = token, !.at = at]
         /\ \A x \in Req \ {r} : call'[x] = call[x]
<1> DEFINE c == [call[r] EXCEPT !.token = token, !.at = at]
<1>1. call[r] \in Call /\ CallSound(call[r])
  BY CallOf
<1>2. at \in {"refresh", "create", "act"}
  BY DEF WithToken
<1>3. c \in Call
  BY <1>1, <1>2 DEF Call
<1>4. CASE at = "refresh"
  <2>1. CallSound(c)
    BY <1>1, <1>4 DEF Call, CallSound
  <2> QED
    BY <1>3, <2>1, CallsWith
<1>5. CASE at = WithToken(call[r])
  <2>1. CallSound(c)
    BY <1>1, <1>5 DEF Call, CallSound, WithToken
  <2> QED
    BY <1>3, <2>1, CallsWith
<1> QED
  BY <1>4, <1>5

LEMMA ConnectionInv ==
  ASSUME GoogleInv, NEW r \in Req, use' = use,
         \/ \E a \in Account : HandleCallback(r, a)
         \/ Connect(r)
         \/ ReadTokens(r)
         \/ RefreshAccessToken(r)
  PROVE  GoogleInv'
<1>1. ASSUME NEW a \in Account, HandleCallback(r, a) PROVE GoogleInv'
  <2> DEFINE c == [op |-> "callback", at |-> "exchange", token |-> a, sheet |-> None,
                   pos |-> 0, seen |-> None, event |-> None, change |-> NoChange]
  <2>1. 0 \in 0..LastRow /\ NoChange \in Change
    BY GoogleAssumption DEF NoChange, Change
  <2>2. c \in Call
    BY <2>1 DEF Call
  <2>3. CallSound(c)
    BY DEF CallSound, SheetOp
  <2>4. call' = [call EXCEPT ![r] = c]
    BY <1>1 DEF HandleCallback
  <2> HIDE DEF c
  <2>5. call' \in [Req -> Call \cup {None}] /\ CallsSound'
    BY <2>2, <2>3, <2>4, CallsWith
  <2> QED
    BY <1>1, <2>5 DEF HandleCallback, stored, past, GoogleInv, GoogleTypeOK
<1>2. CASE Connect(r)
  <2>1. call[r].token \in Account
    BY <1>2, CallOf DEF Connect, Calling, CallSound
  <2>2. integ' \in Integration
    BY <1>2, <2>1 DEF Connect, GoogleInv, GoogleTypeOK, Integration
  <2>3. overtaken' \subseteq Req /\ strayed' \in BOOLEAN
    BY <1>2 DEF Connect, Renewals
  <2>4. call' \in [Req -> Call \cup {None}] /\ CallsSound'
    BY <1>2, EndedCalls DEF Connect
  <2> QED
    BY <1>2, <2>2, <2>3, <2>4 DEF Connect, GoogleInv, GoogleTypeOK
<1>3. CASE ReadTokens(r)
  <2>1. integ.access \in Account \cup {None} /\ integ.refresh \in Account \cup {None}
    BY DEF GoogleInv, GoogleTypeOK, Integration
  <2>2. \/ Ended(r)
        \/ call' = [call EXCEPT ![r] = [call[r] EXCEPT !.token = integ.refresh,
                                                       !.at = "refresh"]]
        \/ call' = [call EXCEPT ![r] = [call[r] EXCEPT !.token = integ.access,
                                                       !.at = WithToken(call[r])]]
    BY <1>3 DEF ReadTokens
  <2>3. call' \in [Req -> Call \cup {None}] /\ CallsSound'
    BY <1>3, <2>1, <2>2, EndedCalls, WithTokenCalls DEF ReadTokens, Calling
  <2> QED
    BY <1>3, <2>3 DEF ReadTokens, stored, past, GoogleInv, GoogleTypeOK
<1>4. CASE RefreshAccessToken(r)
  <2>1. call[r] \in Call
    BY <1>4, CallOf DEF RefreshAccessToken, Calling
  <2>2. call[r].token \in Account \cup {None}
    BY <2>1 DEF Call
  <2>3. integ' \in Integration
    BY <1>4, <2>2 DEF RefreshAccessToken, GoogleInv, GoogleTypeOK, Integration
  <2>4. call' = [call EXCEPT ![r] = [call[r] EXCEPT !.token = call[r].token,
                                                    !.at = WithToken(call[r])]]
    BY <1>4, <2>1 DEF RefreshAccessToken, Call
  <2>5. call' \in [Req -> Call \cup {None}] /\ CallsSound'
    BY <1>4, <2>2, <2>4, WithTokenCalls DEF RefreshAccessToken, Calling
  <2>6. overtaken' \subseteq Req /\ strayed' \in BOOLEAN
    BY <1>4 DEF RefreshAccessToken, GoogleInv, GoogleTypeOK
  <2> QED
    BY <1>4, <2>3, <2>5, <2>6 DEF RefreshAccessToken, GoogleInv, GoogleTypeOK
<1> QED
  BY <1>1, <1>2, <1>3, <1>4

LEMMA SheetInv ==
  ASSUME GoogleInv, NEW r \in Req, use' = use,
         \/ EnsureSpreadsheet(r)
         \/ CreateSpreadsheet(r)
         \/ StoreSpreadsheet(r)
         \/ Fail(r)
  PROVE  GoogleInv'
<1>1. CASE EnsureSpreadsheet(r)
  <2>1. CASE StoredSheet # None
    <3>1. StoredSheet \in Sheet /\ Ensured(r, StoredSheet)
      BY <1>1, <2>1 DEF EnsureSpreadsheet, StoredSheet, GoogleInv, GoogleTypeOK, Integration
    <3>2. call' \in [Req -> Call \cup {None}] /\ CallsSound'
      BY <1>1, <3>1, EnsuredCalls DEF EnsureSpreadsheet, Calling
    <3> QED
      BY <1>1, <3>2 DEF EnsureSpreadsheet, stored, past, GoogleInv, GoogleTypeOK
  <2>2. CASE StoredSheet = None
    <3> DEFINE c == [call[r] EXCEPT !.at = "tokens"]
    <3>1. call[r] \in Call /\ CallSound(call[r])
      BY <1>1, CallOf DEF EnsureSpreadsheet, Calling
    <3>2. c \in Call /\ CallSound(c)
      BY <3>1 DEF Call, CallSound
    <3>3. call' = [call EXCEPT ![r] = c]
      BY <1>1, <2>2 DEF EnsureSpreadsheet
    <3> HIDE DEF c
    <3>4. call' \in [Req -> Call \cup {None}] /\ CallsSound'
      BY <3>2, <3>3, CallsWith
    <3> QED
      BY <1>1, <3>4 DEF EnsureSpreadsheet, stored, past, GoogleInv, GoogleTypeOK
  <2> QED
    BY <2>1, <2>2
<1>2. CASE CreateSpreadsheet(r)
  <2>1. PICK s \in Sheet :
          /\ owner' = [owner EXCEPT ![s] = call[r].token]
          /\ call' = [call EXCEPT ![r].sheet = s, ![r].at = "store"]
    BY <1>2 DEF CreateSpreadsheet
  <2>2. call[r] \in Call /\ CallSound(call[r])
    BY <1>2, CallOf DEF CreateSpreadsheet, Calling
  <2> DEFINE c == [call[r] EXCEPT !.sheet = s, !.at = "store"]
  <2>3. c \in Call /\ CallSound(c)
    BY <2>2 DEF Call, CallSound
  <2>4. call' = [call EXCEPT ![r] = c]
    BY <2>1
  <2>5. call[r].token \in Account \cup {None}
    BY <2>2 DEF Call
  <2>6. owner' \in [Sheet -> Account \cup {None}]
    BY <2>1, <2>5 DEF GoogleInv, GoogleTypeOK
  <2> HIDE DEF c
  <2>7. call' \in [Req -> Call \cup {None}] /\ CallsSound'
    BY <2>3, <2>4, CallsWith
  <2> QED
    BY <1>2, <2>6, <2>7 DEF CreateSpreadsheet, past, GoogleInv, GoogleTypeOK
<1>3. CASE StoreSpreadsheet(r)
  <2>1. call[r].sheet \in Sheet
    BY <1>3, CallOf DEF StoreSpreadsheet, Calling, CallSound
  <2>2. call' \in [Req -> Call \cup {None}] /\ CallsSound'
    BY <1>3, <2>1, EnsuredCalls DEF StoreSpreadsheet, Calling
  <2>3. integ' \in Integration
    BY <1>3, <2>1 DEF StoreSpreadsheet, GoogleInv, GoogleTypeOK, Integration
  <2> QED
    BY <1>3, <2>2, <2>3 DEF StoreSpreadsheet, past, GoogleInv, GoogleTypeOK
<1>4. CASE Fail(r)
  <2>1. call[r].at = "store" => call[r].sheet \in Sheet
    BY <1>4, CallOf DEF Fail, CallSound
  <2>2. /\ unstored' \subseteq Sheet /\ overtaken' \subseteq Req
        /\ shaken' \subseteq Req /\ crossed' \subseteq Req
    BY <1>4, <2>1 DEF Fail, GoogleInv, GoogleTypeOK
  <2>3. call' \in [Req -> Call \cup {None}] /\ CallsSound'
    BY <1>4, EndedCalls DEF Fail
  <2> QED
    BY <1>4, <2>2, <2>3 DEF Fail, stored, GoogleInv, GoogleTypeOK
<1> QED
  BY <1>1, <1>2, <1>3, <1>4

LEMMA CalendarInv ==
  ASSUME GoogleInv, NEW r \in Req, use' = use,
         \/ CreateCalendarEvent(r)
         \/ UpdateCalendarEvent(r)
         \/ DeleteCalendarEvent(r)
  PROVE  GoogleInv'
<1>1. call' \in [Req -> Call \cup {None}] /\ CallsSound'
  BY EndedCalls DEF CreateCalendarEvent, UpdateCalendarEvent, DeleteCalendarEvent
<1>2. call[r] \in Call
  BY CallOf DEF CreateCalendarEvent, UpdateCalendarEvent, DeleteCalendarEvent, Calling
<1>3. call[r].token \in Account \cup {None}
  BY <1>2 DEF Call
<1>4. calendar' \in [Event -> Account \cup {None}] /\ used' \subseteq Event
  BY <1>3
     DEF CreateCalendarEvent, UpdateCalendarEvent, DeleteCalendarEvent, stored,
         GoogleInv, GoogleTypeOK
<1> QED
  BY <1>1, <1>4
     DEF CreateCalendarEvent, UpdateCalendarEvent, DeleteCalendarEvent, stored, past,
         GoogleInv, GoogleTypeOK

LEMMA RowsInv ==
  ASSUME GoogleInv, NEW r \in Req, use' = use,
         \/ Refused(r)
         \/ ReadSheetRows(r)
         \/ AppendSheetRow(r)
         \/ FindSheetRow(r)
         \/ UpdateSheetRow(r)
         \/ CountSheetRows(r)
         \/ ClearSheetRows(r)
  PROVE  GoogleInv'
<1>a. call[r] \in Call /\ CallSound(call[r])
  BY CallOf
     DEF Refused, ReadSheetRows, Opens, AppendSheetRow, FindSheetRow, UpdateSheetRow,
         CountSheetRows, ClearSheetRows, Calling
<1>1. CASE Refused(r) \/ ReadSheetRows(r)
  BY <1>1, EndedCalls DEF Refused, ReadSheetRows, stored, past, GoogleInv, GoogleTypeOK
<1>2. CASE AppendSheetRow(r)
  <2>1. PICK p \in At1 :
          rows' = [rows EXCEPT ![call[r].sheet][p] = AppendedRow(call[r].event)]
    BY <1>2 DEF AppendSheetRow
  <2>2. AppendedRow(call[r].event) \in Row
    BY <1>a DEF AppendedRow, Row, Call
  <2>3. rows' \in [Sheet -> [At1 -> Row \cup {None}]]
    BY <2>1, <2>2 DEF GoogleInv, GoogleTypeOK
  <2> QED
    BY <1>2, <2>3, EndedCalls DEF AppendSheetRow, past, GoogleInv, GoogleTypeOK
<1>3. CASE FindSheetRow(r)
  <2>1. call[r].op = "update" /\ call[r].event \in Event /\ call[r].sheet \in Sheet
    BY <1>3, <1>a DEF FindSheetRow, Opens, Calling, CallSound, SheetOp
  <2>2. crossed' \subseteq Req
    BY <1>3 DEF FindSheetRow, UpdatingAt, Updating, GoogleInv, GoogleTypeOK
  <2>3. ASSUME NEW p \in Found(call[r].sheet, call[r].event),
               call' = [call EXCEPT ![r].pos = p, ![r].at = "write",
                                    ![r].seen = rows[call[r].sheet][p]]
        PROVE  call' \in [Req -> Call \cup {None}] /\ CallsSound'
    <3> DEFINE c == [call[r] EXCEPT !.pos = p, !.at = "write",
                                    !.seen = rows[call[r].sheet][p]]
    <3>1. rows[call[r].sheet][p] \in Row /\ p \in 0..LastRow /\ p \in At1
      BY <2>1, <2>3, GoogleAssumption DEF GoogleInv, GoogleTypeOK, At1, Found
    <3>2. c \in Call
      BY <1>a, <3>1 DEF Call
    <3>3. CallSound(c)
      BY <1>a, <2>1, <3>1 DEF Call, CallSound
    <3>4. call' = [call EXCEPT ![r] = c]
      BY <2>3
    <3> HIDE DEF c
    <3> QED
      BY <3>2, <3>3, <3>4, CallsWith
  <2>4. call' \in [Req -> Call \cup {None}] /\ CallsSound'
    BY <1>3, <2>3, EndedCalls DEF FindSheetRow
  <2> QED
    BY <1>3, <2>2, <2>4 DEF FindSheetRow, stored, GoogleInv, GoogleTypeOK
<1>4. CASE UpdateSheetRow(r)
  <2>1. /\ call[r].op = "update" /\ call[r].seen \in Row /\ call[r].change \in Change
        /\ call[r].sheet \in Sheet /\ call[r].pos \in At1
    BY <1>4, <1>a DEF UpdateSheetRow, Calling, CallSound, SheetOp, Call
  <2>3. NewRow(call[r]) \in Row
    BY <2>1 DEF NewRow, Row, Change
  <2>4. rows' \in [Sheet -> [At1 -> Row \cup {None}]]
    BY <1>4, <2>3 DEF UpdateSheetRow, GoogleInv, GoogleTypeOK
  <2>5. /\ cancelled' \subseteq Sheet \X At1
        /\ shaken' \subseteq Req /\ crossed' \subseteq Req
    BY <1>4, <2>1 DEF UpdateSheetRow, UpdatingAt, Updating, GoogleInv, GoogleTypeOK
  <2>6. call' \in [Req -> Call \cup {None}] /\ CallsSound'
    BY <1>4, EndedCalls DEF UpdateSheetRow
  <2> QED
    BY <1>4, <2>4, <2>5, <2>6 DEF UpdateSheetRow, GoogleInv, GoogleTypeOK
<1>5. CASE CountSheetRows(r)
  <2>1. ASSUME NEW n \in 0..LastRow, call' = [call EXCEPT ![r].pos = n, ![r].at = "write"]
        PROVE  call' \in [Req -> Call \cup {None}] /\ CallsSound'
    <3> DEFINE c == [call[r] EXCEPT !.pos = n, !.at = "write"]
    <3>1. c \in Call
      BY <1>a DEF Call
    <3>2. CallSound(c)
      BY <1>5, <1>a DEF CountSheetRows, Opens, Calling, Call, CallSound
    <3>3. call' = [call EXCEPT ![r] = c]
      BY <2>1
    <3> HIDE DEF c
    <3> QED
      BY <3>1, <3>2, <3>3, CallsWith
  <2>2. call' \in [Req -> Call \cup {None}] /\ CallsSound'
    BY <1>5, <2>1, EndedCalls DEF CountSheetRows
  <2> QED
    BY <1>5, <2>2 DEF CountSheetRows, stored, past, GoogleInv, GoogleTypeOK
<1>6. CASE ClearSheetRows(r)
  <2>1. rows' \in [Sheet -> [At1 -> Row \cup {None}]]
    BY <1>6 DEF ClearSheetRows, GoogleInv, GoogleTypeOK
  <2>2. shaken' \subseteq Req /\ cancelled' \subseteq Sheet \X At1
    BY <1>6 DEF ClearSheetRows, UpdatingAt, Updating, GoogleInv, GoogleTypeOK
  <2> QED
    BY <1>6, <2>1, <2>2, EndedCalls DEF ClearSheetRows, GoogleInv, GoogleTypeOK
<1> QED
  BY <1>1, <1>2, <1>3, <1>4, <1>5, <1>6

LEMMA AskInv ==
  ASSUME GoogleInv, NEW r \in Req, use' = use,
         \/ \E e \in Event \cup {None} : AskAppend(r, e)
         \/ \E e \in Event : AskAbout(r, e)
         \/ AskForAll(r)
  PROVE  GoogleInv'
<1>0. NoChange \in Change
  BY DEF NoChange, Change
<1>1. ASSUME NEW e \in Event \cup {None}, AskAppend(r, e) PROVE GoogleInv'
  <2>1. call' \in [Req -> Call \cup {None}] /\ CallsSound'
    BY <1>0, <1>1, AskedCalls DEF AskAppend, SheetOp
  <2> QED
    BY <1>1, <2>1 DEF AskAppend, stored, past, GoogleInv, GoogleTypeOK
<1>2. ASSUME NEW e \in Event, AskAbout(r, e) PROVE GoogleInv'
  <2>1. PICK op \in {"update", "updateEvent", "deleteEvent"}, change \in Change :
          Ask(r, op, e, change)
    BY <1>0, <1>2 DEF AskAbout, Changes
  <2>2. call' \in [Req -> Call \cup {None}] /\ CallsSound'
    BY <2>1, AskedCalls DEF SheetOp, EventOp
  <2> QED
    BY <1>2, <2>2 DEF AskAbout, stored, past, GoogleInv, GoogleTypeOK
<1>3. CASE AskForAll(r)
  <2>1. PICK op \in {"rows", "ensure", "header", "clear", "createEvent"} :
          Ask(r, op, None, NoChange)
    BY <1>3 DEF AskForAll
  <2>2. call' \in [Req -> Call \cup {None}] /\ CallsSound'
    BY <1>0, <2>1, AskedCalls DEF SheetOp, EventOp
  <2> QED
    BY <1>3, <2>2 DEF AskForAll, stored, past, GoogleInv, GoogleTypeOK
<1> QED
  BY <1>1, <1>2, <1>3

LEMMA GoogleInvStep == GoogleInv /\ [GoogleNext]_googleVars => GoogleInv'
<1> SUFFICES ASSUME GoogleInv, [GoogleNext]_googleVars PROVE GoogleInv'
  OBVIOUS
<1>1. ASSUME Disconnect, use' = use PROVE GoogleInv'
  <2>1. integ' \in Integration
    BY <1>1 DEF Disconnect, Disconnected, GoogleInv, GoogleTypeOK, Integration
  <2>2. overtaken' \subseteq Req /\ strayed' \in BOOLEAN
    BY <1>1 DEF Disconnect, Renewals
  <2> QED
    BY <1>1, <2>1, <2>2 DEF Disconnect, GoogleInv, GoogleTypeOK, CallsSound
<1>2. ASSUME Expire, use' = use PROVE GoogleInv'
  <2>1. integ' \in Integration
    BY <1>2 DEF Expire, GoogleInv, GoogleTypeOK, Integration
  <2> QED
    BY <1>2, <2>1 DEF Expire, past, GoogleInv, GoogleTypeOK, CallsSound
<1>3. ASSUME NEW s \in Sheet, UpdateConfig(s), use' = use PROVE GoogleInv'
  <2>1. integ' \in Integration
    BY <1>3 DEF UpdateConfig, GoogleInv, GoogleTypeOK, Integration
  <2> QED
    BY <1>3, <2>1 DEF UpdateConfig, past, GoogleInv, GoogleTypeOK, CallsSound
<1>4. CASE UNCHANGED googleVars
  BY <1>4 DEF googleVars, GoogleInv, GoogleTypeOK, CallsSound
<1> QED
  BY <1>1, <1>2, <1>3, <1>4, ConnectionInv, SheetInv, CalendarInv, RowsInv, AskInv
     DEF GoogleNext, GoogleStep

\* What every later proof starts from.
LEMMA GoogleInvariant == GoogleSpec => []GoogleInv
  BY GoogleInitInv, GoogleInvStep, PTL DEF GoogleSpec

\* Every variable keeps its type.
THEOREM GoogleTypes == GoogleSpec => []GoogleTypeOK
  BY GoogleInvariant, PTL DEF GoogleInv

-----------------------------------------------------------------------------
(***************************************************************************)
(* The tokens.  A renewal on its way is of the refresh token that is       *)
(* stored, unless the account changed since it was read.                   *)
(***************************************************************************)
RenewalsOwn ==
  \A r \in Req : Calling(r, "refresh") /\ r \notin overtaken => call[r].token = integ.refresh

TokenInv == TokenIsOwn /\ RenewalsOwn

\* A step that leaves the document and begins no renewal.
LEMMA NoRenewal ==
  ASSUME TokenInv, strayed' = strayed, integ'.access = integ.access,
         integ'.refresh = integ.refresh, integ'.account = integ.account,
         integ'.connected = integ.connected,
         \A r \in Req :
           Calling(r, "refresh")' =>
             call'[r] = call[r] /\ (r \in overtaken => r \in overtaken')
  PROVE  TokenInv'
  BY DEF TokenInv, TokenIsOwn, RenewalsOwn, Calling

\* Calls that end, begin or go anywhere but to a renewal.
LEMMA OtherCalls ==
  ASSUME GoogleInv, NEW r \in Req,
         \/ call' = call
         \/ Ended(r)
         \/ \E op \in SheetOp \cup EventOp : \E e, change : Ask(r, op, e, change)
         \/ \E c \in Call : c.at # "refresh" /\ call' = [call EXCEPT ![r] = c]
  PROVE  \A x \in Req : Calling(x, "refresh")' => call'[x] = call[x]
<1>1. CASE \E op \in SheetOp \cup EventOp : \E e, change : Ask(r, op, e, change)
  <2>1. call'[r].at # "refresh" /\ \A x \in Req \ {r} : call'[x] = call[x]
    BY <1>1 DEF Ask, GoogleInv, GoogleTypeOK
  <2> QED
    BY <2>1 DEF Calling
<1>2. CASE Ended(r)
  BY <1>2, EndedCalls DEF Calling
<1>3. CASE \E c \in Call : c.at # "refresh" /\ call' = [call EXCEPT ![r] = c]
  BY <1>3 DEF Calling, GoogleInv, GoogleTypeOK
<1>4. CASE call' = call
  BY <1>4 DEF Calling
<1> QED
  BY <1>1, <1>2, <1>3, <1>4

LEMMA TokenStep == GoogleInv /\ TokenInv /\ [GoogleNext]_googleVars => TokenInv'
<1> SUFFICES ASSUME GoogleInv, TokenInv, [GoogleNext]_googleVars PROVE TokenInv'
  OBVIOUS
<1>1. CASE Disconnect
  <2>1. /\ integ'.access = None /\ integ'.refresh = None /\ integ'.account = None
        /\ ~integ'.connected
    BY <1>1 DEF Disconnect, Disconnected, GoogleInv, GoogleTypeOK, Integration
  <2>2. strayed' = FALSE /\ \A r \in Req : Calling(r, "refresh")' => r \in overtaken'
    BY <1>1 DEF Disconnect, Renewals, Calling
  <2> QED
    BY <2>1, <2>2 DEF TokenInv, TokenIsOwn, RenewalsOwn
<1>2. ASSUME NEW r \in Req, Connect(r) PROVE TokenInv'
  <2> DEFINE a == call[r].token
  <2>1. a \in Account
    BY <1>2, CallOf DEF Connect, Calling, CallSound
  <2>2. /\ integ'.access = a /\ integ'.refresh = a /\ integ'.account \in {a, None}
        /\ integ'.connected
    BY <1>2 DEF Connect, GoogleInv, GoogleTypeOK, Integration
  <2>3. \A x \in Req : Calling(x, "refresh")' => x \in overtaken'
    BY <1>2, EndedCalls DEF Connect, Renewals, Calling
  <2> QED
    BY <2>1, <2>2, <2>3, GoogleAssumption DEF TokenInv, TokenIsOwn, RenewalsOwn
<1>3. ASSUME NEW r \in Req, ReadTokens(r) PROVE TokenInv'
  <2>0. UNCHANGED <<integ, overtaken, strayed>>
    BY <1>3 DEF ReadTokens, stored, past
  <2>1. CASE Ended(r)
    BY <2>0, <2>1, NoRenewal, OtherCalls
  <2>2. CASE call' = [call EXCEPT ![r].token = integ.refresh, ![r].at = "refresh"]
    <3>1. call[r] \in Call
      BY <1>3, CallOf DEF ReadTokens, Calling
    <3>2. /\ call'[r] = [call[r] EXCEPT !.token = integ.refresh, !.at = "refresh"]
          /\ \A x \in Req \ {r} : call'[x] = call[x]
      BY <2>2 DEF GoogleInv, GoogleTypeOK
    <3>3. call'[r].token = integ.refresh
      BY <3>1, <3>2 DEF Call
    <3> QED
      BY <2>0, <3>2, <3>3 DEF TokenInv, TokenIsOwn, RenewalsOwn, Calling
  <2>3. CASE call' = [call EXCEPT ![r].token = integ.access, ![r].at = WithToken(call[r])]
    <3>1. call[r] \in Call
      BY <1>3, CallOf DEF ReadTokens, Calling
    <3>2. /\ call'[r] = [call[r] EXCEPT !.token = integ.access, !.at = WithToken(call[r])]
          /\ \A x \in Req \ {r} : call'[x] = call[x]
      BY <2>3 DEF GoogleInv, GoogleTypeOK
    <3>3. call'[r].at # "refresh"
      BY <3>1, <3>2 DEF Call, WithToken
    <3> QED
      BY <2>0, <3>2, <3>3, NoRenewal DEF Calling
  <2> QED
    BY <1>3, <2>1, <2>2, <2>3 DEF ReadTokens
<1>4. ASSUME NEW r \in Req, RefreshAccessToken(r) PROVE TokenInv'
  <2>1. call[r] \in Call
    BY <1>4, CallOf DEF RefreshAccessToken, Calling
  <2>2. /\ integ'.access = call[r].token /\ integ'.refresh = integ.refresh
        /\ integ'.account = integ.account /\ integ'.connected = integ.connected
        /\ strayed' = (r \in overtaken) /\ overtaken' = overtaken \ {r}
    BY <1>4 DEF RefreshAccessToken, GoogleInv, GoogleTypeOK, Integration
  <2>3. r \notin overtaken => call[r].token = integ.refresh
    BY <1>4 DEF RefreshAccessToken, TokenInv, RenewalsOwn
  <2>4. /\ call'[r] = [call[r] EXCEPT !.at = WithToken(call[r])]
        /\ \A x \in Req \ {r} : call'[x] = call[x]
    BY <1>4 DEF RefreshAccessToken, GoogleInv, GoogleTypeOK
  <2>5. call'[r].at # "refresh"
    BY <2>1, <2>4 DEF Call, WithToken
  <2> QED
    BY <2>2, <2>3, <2>4, <2>5 DEF TokenInv, TokenIsOwn, RenewalsOwn, Calling
<1>5. ASSUME NEW r \in Req,
             \/ EnsureSpreadsheet(r) \/ CreateSpreadsheet(r) \/ StoreSpreadsheet(r)
      PROVE  TokenInv'
  <2>1. call[r] \in Call
    BY <1>5, CallOf DEF EnsureSpreadsheet, CreateSpreadsheet, StoreSpreadsheet, Calling
  <2>2. /\ UNCHANGED <<overtaken, strayed>>
        /\ integ' \in {integ, [integ EXCEPT !.sheet = call[r].sheet]}
    BY <1>5 DEF EnsureSpreadsheet, CreateSpreadsheet, StoreSpreadsheet, stored, past
  <2>3. /\ integ'.access = integ.access /\ integ'.refresh = integ.refresh
        /\ integ'.account = integ.account /\ integ'.connected = integ.connected
    BY <2>2 DEF GoogleInv, GoogleTypeOK, Integration
  <2>4. \/ Ended(r)
        \/ \E s : \E at \in {"tokens", "store"} :
             call' = [call EXCEPT ![r].sheet = s, ![r].at = at]
        \/ call' = [call EXCEPT ![r].at = "tokens"]
    BY <1>5 DEF EnsureSpreadsheet, CreateSpreadsheet, StoreSpreadsheet, Ensured
  <2>5. Ended(r) \/ (call'[r].at # "refresh" /\ \A x \in Req \ {r} : call'[x] = call[x])
    <3>1. ASSUME NEW s, NEW at \in {"tokens", "store"},
                 call' = [call EXCEPT ![r].sheet = s, ![r].at = at]
          PROVE  call'[r].at # "refresh" /\ \A x \in Req \ {r} : call'[x] = call[x]
      <4>1. call'[r] = [call[r] EXCEPT !.sheet = s, !.at = at]
        BY <3>1 DEF GoogleInv, GoogleTypeOK
      <4>2. call'[r].at # "refresh"
        BY <2>1, <4>1 DEF Call
      <4> QED
        BY <3>1, <4>2 DEF GoogleInv, GoogleTypeOK
    <3>2. ASSUME call' = [call EXCEPT ![r].at = "tokens"]
          PROVE  call'[r].at # "refresh" /\ \A x \in Req \ {r} : call'[x] = call[x]
      <4>1. call'[r] = [call[r] EXCEPT !.at = "tokens"]
        BY <3>2 DEF GoogleInv, GoogleTypeOK
      <4>2. call'[r].at # "refresh"
        BY <2>1, <4>1 DEF Call
      <4> QED
        BY <3>2, <4>2 DEF GoogleInv, GoogleTypeOK
    <3> QED
      BY <2>4, <3>1, <3>2
  <2>6. \A x \in Req : Calling(x, "refresh")' => call'[x] = call[x]
    BY <2>5, OtherCalls DEF Calling
  <2> QED
    BY <2>2, <2>3, <2>6, NoRenewal
<1>6. ASSUME NEW r \in Req, FindSheetRow(r) \/ CountSheetRows(r) PROVE TokenInv'
  <2>0. UNCHANGED <<integ, overtaken, strayed>>
    BY <1>6 DEF FindSheetRow, CountSheetRows, stored, past
  <2>1. call[r] \in Call
    BY <1>6, CallOf DEF FindSheetRow, CountSheetRows, Opens, Calling
  <2>2. \/ Ended(r)
        \/ \E p, seen : call' = [call EXCEPT ![r].pos = p, ![r].at = "write", ![r].seen = seen]
        \/ \E p : call' = [call EXCEPT ![r].pos = p, ![r].at = "write"]
    BY <1>6 DEF FindSheetRow, CountSheetRows
  <2>3. ASSUME NEW p, NEW seen,
               \/ call' = [call EXCEPT ![r].pos = p, ![r].at = "write", ![r].seen = seen]
               \/ call' = [call EXCEPT ![r].pos = p, ![r].at = "write"]
        PROVE  call'[r].at # "refresh" /\ \A x \in Req \ {r} : call'[x] = call[x]
    <3>1. call'[r] \in {[call[r] EXCEPT !.pos = p, !.at = "write", !.seen = seen],
                        [call[r] EXCEPT !.pos = p, !.at = "write"]}
      BY <2>3 DEF GoogleInv, GoogleTypeOK
    <3>2. call'[r].at # "refresh"
      BY <2>1, <3>1 DEF Call
    <3> QED
      BY <2>3, <3>2 DEF GoogleInv, GoogleTypeOK
  <2>4. \A x \in Req : Calling(x, "refresh")' => call'[x] = call[x]
    BY <2>2, <2>3, OtherCalls DEF Calling
  <2> QED
    BY <2>0, <2>4, NoRenewal
<1>7. ASSUME NEW r \in Req, NEW a \in Account, HandleCallback(r, a) PROVE TokenInv'
  <2>1. UNCHANGED <<integ, overtaken, strayed>>
    BY <1>7 DEF HandleCallback, stored, past
  <2>2. call'[r].at # "refresh" /\ \A x \in Req \ {r} : call'[x] = call[x]
    BY <1>7 DEF HandleCallback, GoogleInv, GoogleTypeOK
  <2> QED
    BY <2>1, <2>2, NoRenewal DEF Calling
<1>8. ASSUME NEW r \in Req, Ended(r), UNCHANGED <<integ, overtaken, strayed>> PROVE TokenInv'
  BY <1>8, NoRenewal, OtherCalls
<1>9. ASSUME NEW r \in Req,
             \/ \E e \in Event \cup {None} : AskAppend(r, e)
             \/ \E e \in Event : AskAbout(r, e)
             \/ AskForAll(r)
      PROVE  TokenInv'
  <2>1. UNCHANGED <<integ, overtaken, strayed>>
    BY <1>9 DEF AskAppend, AskAbout, AskForAll, stored, past
  <2>2. \E op \in SheetOp \cup EventOp : \E e, change : Ask(r, op, e, change)
    BY <1>9 DEF AskAppend, AskAbout, AskForAll, SheetOp, EventOp
  <2> QED
    BY <2>1, <2>2, NoRenewal, OtherCalls
<1>10. ASSUME NEW r \in Req, Fail(r) PROVE TokenInv'
  <2>1. UNCHANGED <<integ, strayed>> /\ overtaken' = overtaken \ {r} /\ Ended(r)
    BY <1>10 DEF Fail, stored
  <2>2. \A x \in Req : Calling(x, "refresh")' => x # r /\ call'[x] = call[x]
    BY <2>1, EndedCalls DEF Calling
  <2> QED
    BY <2>1, <2>2, NoRenewal
<1>11. CASE Expire \/ (\E s \in Sheet : UpdateConfig(s)) \/ UNCHANGED googleVars
  <2>1. /\ UNCHANGED <<call, overtaken, strayed>>
        /\ \E b, s : integ' \in {integ, [integ EXCEPT !.expired = b], [integ EXCEPT !.sheet = s]}
    BY <1>11 DEF Expire, UpdateConfig, googleVars, past
  <2>2. /\ integ'.access = integ.access /\ integ'.refresh = integ.refresh
        /\ integ'.account = integ.account /\ integ'.connected = integ.connected
    BY <2>1 DEF GoogleInv, GoogleTypeOK, Integration
  <2> QED
    BY <2>1, <2>2, NoRenewal
<1> QED
  BY <1>1, <1>2, <1>3, <1>4, <1>5, <1>6, <1>7, <1>8, <1>9, <1>10, <1>11
     DEF GoogleNext, GoogleStep, CreateCalendarEvent, UpdateCalendarEvent,
         DeleteCalendarEvent, Refused, ReadSheetRows, AppendSheetRow, UpdateSheetRow,
         ClearSheetRows, stored, past

\* While the tenant is connected, its tokens are of the account that is shown,
\* or of one that is not shown because userinfo refused, through any renewals
\* and reconnections, save for an access token that a renewal read before the
\* account changed has written last (google-integration.service.ts
\* refreshAccessToken).
THEOREM TokensOwn == GoogleSpec => []TokenIsOwn
<1>1. GoogleInit => TokenInv
  BY GoogleAssumption
     DEF GoogleInit, NewTenant, OldTenant, Unconnected, TokenInv, TokenIsOwn,
         RenewalsOwn, Calling, Idle
<1> QED
  BY <1>1, GoogleInvariant, TokenStep, PTL DEF TokenInv, GoogleSpec

-----------------------------------------------------------------------------
(***************************************************************************)
(* The spreadsheets.  The calls about to create one and those they have    *)
(* created stay within the number of requests.                             *)
(***************************************************************************)
SheetMakers ==
  {r \in Req : /\ call[r] # None /\ call[r].op \in SheetOp /\ call[r].sheet = None
               /\ call[r].at \in {"tokens", "refresh", "create"}}

Storers == {r \in Req : Calling(r, "store")}

\* Until a sheet is stored, each one that was made is about to be.
SheetsInv ==
  /\ Within(Made, SheetMakers)
  /\ integ.sheet = None => \A s \in Made : \E r \in Storers : call[r].sheet = s

LEMMA StoredBound ==
  ASSUME integ.sheet = None, SheetsInv, NEW makers \in SUBSET (Req \ Storers)
  PROVE  Within(Made, makers)
<1> DEFINE Sheets == {call[r].sheet : r \in Storers}
           f == [r \in Storers |-> call[r].sheet]
<1>1. IsFiniteSet(Storers) /\ IsFiniteSet(makers) /\ Storers \subseteq Req
  BY RequestsAssumption, FS_Subset DEF Storers
<1>2. f \in Surjection(Storers, Sheets)
  BY DEF Surjection
<1>3. IsFiniteSet(Sheets) /\ Cardinality(Sheets) <= Cardinality(Storers)
  BY <1>1, <1>2, FS_Surjection
<1>4. Made \subseteq Sheets
  BY DEF SheetsInv
<1>5. IsFiniteSet(Made) /\ Cardinality(Made) <= Cardinality(Sheets)
  BY <1>3, <1>4, FS_Subset
<1>6. Storers \cap makers = {} /\ Storers \cup makers \subseteq Req
  BY <1>1
<1>7. Cardinality(Storers \cup makers) = Cardinality(Storers) + Cardinality(makers)
  BY <1>1, <1>6, FS_Union, FS_EmptySet, FS_CardinalityType
<1>8. Cardinality(Storers \cup makers) <= Cardinality(Req)
  BY <1>6, RequestsAssumption, FS_Subset
<1>9. /\ Cardinality(Made) \in Nat /\ Cardinality(Sheets) \in Nat
      /\ Cardinality(Storers) \in Nat /\ Cardinality(makers) \in Nat
      /\ Cardinality(Req) \in Nat
  BY <1>1, <1>3, <1>5, RequestsAssumption, FS_CardinalityType
<1> HIDE DEF Sheets, f
<1> QED
  BY <1>3, <1>5, <1>7, <1>8, <1>9 DEF Within

\* A step of a call that stores no sheet and does not begin to look for one.
LEMMA SheetsKept ==
  ASSUME SheetsInv, NEW r \in Req, \A x \in Req \ {r} : call'[x] = call[x],
         r \notin Storers, r \in SheetMakers' => r \in SheetMakers,
         Made' = Made, integ'.sheet = integ.sheet
  PROVE  SheetsInv'
<1>1. SheetMakers' \in SUBSET SheetMakers /\ SheetMakers \in SUBSET Req
  BY DEF SheetMakers
<1>2. Within(Made', SheetMakers')
  BY <1>1, WithinFewer DEF SheetsInv
<1>3. \A x \in Storers : x \in Storers' /\ call'[x].sheet = call[x].sheet
  BY DEF Storers, Calling
<1> QED
  BY <1>2, <1>3 DEF SheetsInv

LEMMA SheetsStep == GoogleInv /\ SheetsInv /\ [GoogleNext]_googleVars => SheetsInv'
<1> SUFFICES ASSUME GoogleInv, SheetsInv, [GoogleNext]_googleVars PROVE SheetsInv'
  OBVIOUS
<1>1. ASSUME NEW r \in Req, Ended(r), ~Calling(r, "store"), UNCHANGED <<owner, unstored>>,
             integ'.sheet = integ.sheet
      PROVE  SheetsInv'
  BY <1>1, EndedCalls, SheetsKept DEF Storers, Made, SheetMakers
<1>2. ASSUME NEW r \in Req, Fail(r) PROVE SheetsInv'
  <2>1. /\ call'[r] = None /\ \A x \in Req \ {r} : call'[x] = call[x]
        /\ owner' = owner /\ integ' = integ
    BY <1>2, EndedCalls DEF Fail, stored
  <2>2. CASE call[r].at = "store"
    <3>1. unstored' = unstored \cup {call[r].sheet}
      BY <1>2, <2>2 DEF Fail
    <3>2. Made' = Made \ {call[r].sheet}
      BY <2>1, <3>1 DEF Made
    <3>3. SheetMakers' \in SUBSET SheetMakers /\ SheetMakers \in SUBSET Req
      BY <2>1 DEF SheetMakers
    <3>4. Within(Made', SheetMakers')
      BY <3>2, <3>3, WithinFewer DEF SheetsInv
    <3>5. \A x \in Storers \ {r} : x \in Storers' /\ call'[x].sheet = call[x].sheet
      BY <2>1 DEF Storers, Calling
    <3> QED
      BY <2>1, <3>2, <3>4, <3>5 DEF SheetsInv
  <2>3. CASE call[r].at # "store"
    BY <1>1, <1>2, <2>1, <2>3 DEF Fail, Calling
  <2> QED
    BY <2>2, <2>3
<1>3. ASSUME NEW r \in Req, \E a \in Account : HandleCallback(r, a)
      PROVE  SheetsInv'
  <2>1. /\ call[r] = None /\ call'[r].at = "exchange"
        /\ \A x \in Req \ {r} : call'[x] = call[x]
    BY <1>3 DEF HandleCallback, GoogleInv, GoogleTypeOK
  <2>2. UNCHANGED <<owner, unstored, integ>>
    BY <1>3 DEF HandleCallback, stored, past
  <2> QED
    BY <2>1, <2>2, SheetsKept DEF Storers, Calling, Made, SheetMakers
<1>4. ASSUME NEW r \in Req,
             \/ \E e \in Event \cup {None} : AskAppend(r, e)
             \/ \E e \in Event : AskAbout(r, e)
             \/ AskForAll(r)
      PROVE  SheetsInv'
  <2>1. UNCHANGED <<owner, unstored, integ>>
    BY <1>4 DEF AskAppend, AskAbout, AskForAll, stored, past
  <2>2. PICK op \in SheetOp \cup EventOp : \E e, change : Ask(r, op, e, change)
    BY <1>4 DEF AskAppend, AskAbout, AskForAll, SheetOp, EventOp
  <2>3. /\ call[r] = None /\ \A x \in Req \ {r} : call'[x] = call[x]
        /\ call'[r].op = op /\ call'[r].at = IF op \in SheetOp THEN "ensure" ELSE "tokens"
    BY <2>2 DEF Ask, GoogleInv, GoogleTypeOK
  <2> QED
    BY <2>1, <2>3, SheetsKept DEF Storers, Calling, Made, SheetMakers
<1>5. ASSUME NEW r \in Req, Connect(r) PROVE SheetsInv'
  <2>1. integ'.sheet = integ.sheet
    BY <1>5 DEF Connect, GoogleInv, GoogleTypeOK, Integration
  <2>2. ~Calling(r, "store")
    BY <1>5 DEF Connect, Calling
  <2> QED
    BY <1>1, <1>5, <2>1, <2>2 DEF Connect
<1>6. ASSUME NEW r \in Req, NEW token, NEW at \in {"refresh", WithToken(call[r])},
             Calling(r, "tokens") \/ Calling(r, "refresh"),
             call' = [call EXCEPT ![r] = [call[r] EXCEPT !.token = token, !.at = at]],
             UNCHANGED <<owner, unstored>>, integ'.sheet = integ.sheet
      PROVE  SheetsInv'
  <2>1. call[r] \in Call
    BY <1>6, CallOf DEF Calling
  <2>2. /\ call'[r] = [call[r] EXCEPT !.token = token, !.at = at]
        /\ \A x \in Req \ {r} : call'[x] = call[x]
    BY <1>6 DEF GoogleInv, GoogleTypeOK
  <2>3. call'[r].op = call[r].op /\ call'[r].sheet = call[r].sheet
    BY <2>1, <2>2 DEF Call
  <2>4. r \in SheetMakers' => r \in SheetMakers
    BY <1>6, <2>3 DEF SheetMakers, Calling
  <2>5. r \notin Storers
    BY <1>6 DEF Storers, Calling
  <2> QED
    BY <1>6, <2>2, <2>4, <2>5, SheetsKept DEF Made
<1>7. ASSUME NEW r \in Req, ReadTokens(r) PROVE SheetsInv'
  <2>1. UNCHANGED <<owner, unstored, integ>> /\ Calling(r, "tokens")
    BY <1>7 DEF ReadTokens, stored, past
  <2>2. \/ Ended(r)
        \/ call' = [call EXCEPT ![r] = [call[r] EXCEPT !.token = integ.refresh,
                                                       !.at = "refresh"]]
        \/ call' = [call EXCEPT ![r] = [call[r] EXCEPT !.token = integ.access,
                                                       !.at = WithToken(call[r])]]
    BY <1>7 DEF ReadTokens
  <2> QED
    BY <1>1, <1>6, <2>1, <2>2 DEF Calling
<1>8. ASSUME NEW r \in Req, RefreshAccessToken(r) PROVE SheetsInv'
  <2>1. call[r] \in Call
    BY <1>8, CallOf DEF RefreshAccessToken, Calling
  <2>2. call' = [call EXCEPT ![r] = [call[r] EXCEPT !.token = call[r].token,
                                                    !.at = WithToken(call[r])]]
    BY <1>8, <2>1 DEF RefreshAccessToken, Call
  <2>3. integ'.sheet = integ.sheet
    BY <1>8 DEF RefreshAccessToken, GoogleInv, GoogleTypeOK, Integration
  <2> QED
    BY <1>6, <1>8, <2>2, <2>3 DEF RefreshAccessToken, past
<1>9. ASSUME NEW r \in Req, NEW s \in Sheet, Ensured(r, s), call[r] # None
      PROVE  /\ \A x \in Req \ {r} : call'[x] = call[x]
             /\ r \notin SheetMakers'
  <2>1. CASE call[r].op = "ensure"
    BY <1>9, <2>1, EndedCalls DEF Ensured, SheetMakers
  <2>2. CASE call[r].op # "ensure"
    <3>1. call[r] \in Call
      BY <1>9, CallOf
    <3>2. /\ call'[r] = [call[r] EXCEPT !.sheet = s, !.at = "tokens"]
          /\ \A x \in Req \ {r} : call'[x] = call[x]
      BY <1>9, <2>2 DEF Ensured, GoogleInv, GoogleTypeOK
    <3>3. call'[r].sheet # None
      BY <3>1, <3>2, GoogleAssumption DEF Call
    <3> QED
      BY <3>2, <3>3 DEF SheetMakers
  <2> QED
    BY <2>1, <2>2
<1>10. ASSUME NEW r \in Req, EnsureSpreadsheet(r) PROVE SheetsInv'
  <2>1. UNCHANGED <<owner, unstored, integ>> /\ Calling(r, "ensure") /\ Made' = Made
    BY <1>10 DEF EnsureSpreadsheet, stored, past, Made
  <2>2. r \notin Storers
    BY <2>1 DEF Storers, Calling
  <2>3. CASE StoredSheet # None
    <3>1. StoredSheet \in Sheet /\ Ensured(r, StoredSheet)
      BY <1>10, <2>3 DEF EnsureSpreadsheet, StoredSheet, GoogleInv, GoogleTypeOK, Integration
    <3> QED
      BY <1>9, <2>1, <2>2, <3>1, SheetsKept DEF Calling
  <2>4. CASE StoredSheet = None
    <3>1. integ.sheet = None /\ call' = [call EXCEPT ![r].at = "tokens"]
      BY <1>10, <2>4 DEF EnsureSpreadsheet, StoredSheet
    <3>2. \A x \in Req \ {r} : call'[x] = call[x]
      BY <3>1 DEF GoogleInv, GoogleTypeOK
    <3>3. \A x \in Storers : x \in Storers' /\ call'[x].sheet = call[x].sheet
      BY <2>2, <3>2 DEF Storers, Calling
    <3>4. SheetMakers' \in SUBSET (Req \ Storers)
      BY <2>2, <3>2 DEF SheetMakers, Storers, Calling
    <3>5. Within(Made, SheetMakers')
      BY <3>1, <3>4, StoredBound
    <3> QED
      BY <2>1, <3>3, <3>5 DEF SheetsInv
  <2> QED
    BY <2>3, <2>4
<1>11. ASSUME NEW r \in Req, CreateSpreadsheet(r) PROVE SheetsInv'
  <2>1. PICK s \in Sheet :
          /\ owner' = [owner EXCEPT ![s] = call[r].token]
          /\ call' = [call EXCEPT ![r].sheet = s, ![r].at = "store"]
    BY <1>11 DEF CreateSpreadsheet
  <2>2. call[r] \in Call /\ CallSound(call[r]) /\ call[r].at = "create" /\ call[r] # None
    BY <1>11, CallOf DEF CreateSpreadsheet, Calling
  <2>3. /\ call'[r] = [call[r] EXCEPT !.sheet = s, !.at = "store"]
        /\ \A x \in Req \ {r} : call'[x] = call[x]
    BY <2>1 DEF GoogleInv, GoogleTypeOK
  <2>4. call'[r].sheet = s /\ call'[r].at = "store" /\ call'[r] # None
    <3>1. call'[r] \in Call /\ call'[r].sheet = s /\ call'[r].at = "store"
      BY <2>2, <2>3 DEF Call
    <3> QED
      BY <3>1, GoogleAssumption
  <2>5. r \in SheetMakers /\ SheetMakers \in SUBSET Req
    BY <2>2 DEF CallSound, SheetMakers
  <2>6. SheetMakers' \in SUBSET (SheetMakers \ {r})
    BY <2>3, <2>4 DEF SheetMakers
  <2>7. Made' \in SUBSET (Made \cup {s})
    <3>1. owner' = [owner EXCEPT ![s] = call[r].token] /\ unstored' = unstored
      BY <1>11, <2>1 DEF CreateSpreadsheet, past
    <3> QED
      BY <3>1 DEF Made, GoogleInv, GoogleTypeOK
  <2>8. Within(Made \cup {s}, SheetMakers \ {r})
    BY <2>5, WithinCreated DEF SheetsInv
  <2>9. Within(Made', SheetMakers')
    BY <2>5, <2>6, <2>7, <2>8, WithinFewer
  <2>10. \A x \in Storers : x \in Storers' /\ call'[x].sheet = call[x].sheet
    BY <2>2, <2>3 DEF Storers, Calling
  <2>11. r \in Storers'
    BY <2>4 DEF Storers, Calling
  <2>12. integ' = integ
    BY <1>11 DEF CreateSpreadsheet
  <2> QED
    BY <2>4, <2>7, <2>9, <2>10, <2>11, <2>12 DEF SheetsInv
<1>12. ASSUME NEW r \in Req, StoreSpreadsheet(r) PROVE SheetsInv'
  <2>1. call[r].sheet \in Sheet /\ call[r] # None
    BY <1>12, CallOf DEF StoreSpreadsheet, Calling, CallSound
  <2>2. /\ \A x \in Req \ {r} : call'[x] = call[x]
        /\ r \notin SheetMakers'
    BY <1>9, <1>12, <2>1 DEF StoreSpreadsheet
  <2>3. SheetMakers' \in SUBSET SheetMakers /\ SheetMakers \in SUBSET Req
    BY <2>2 DEF SheetMakers
  <2>4. Made' = Made
    BY <1>12 DEF StoreSpreadsheet, past, Made
  <2>5. integ'.sheet # None
    BY <1>12, <2>1, GoogleAssumption DEF StoreSpreadsheet, GoogleInv, GoogleTypeOK, Integration
  <2>6. Within(Made', SheetMakers')
    BY <2>3, <2>4, WithinFewer DEF SheetsInv
  <2> QED
    BY <2>5, <2>6 DEF SheetsInv
<1>13. ASSUME NEW r \in Req, FindSheetRow(r) \/ CountSheetRows(r) PROVE SheetsInv'
  <2>0. UNCHANGED <<owner, unstored, integ>> /\ Calling(r, "act")
    BY <1>13 DEF FindSheetRow, CountSheetRows, Opens, stored, past
  <2>1. call[r] \in Call
    BY <2>0, CallOf DEF Calling
  <2>2. \/ Ended(r)
        \/ \E p, seen : call' = [call EXCEPT ![r].pos = p, ![r].at = "write", ![r].seen = seen]
        \/ \E p : call' = [call EXCEPT ![r].pos = p, ![r].at = "write"]
    BY <1>13 DEF FindSheetRow, CountSheetRows
  <2>3. ASSUME NEW p, NEW seen,
               \/ call' = [call EXCEPT ![r].pos = p, ![r].at = "write", ![r].seen = seen]
               \/ call' = [call EXCEPT ![r].pos = p, ![r].at = "write"]
        PROVE  SheetsInv'
    <3>1. call'[r] \in {[call[r] EXCEPT !.pos = p, !.at = "write", !.seen = seen],
                        [call[r] EXCEPT !.pos = p, !.at = "write"]}
      BY <2>3 DEF GoogleInv, GoogleTypeOK
    <3>2. call'[r].at = "write"
      BY <2>1, <3>1 DEF Call
    <3>3. \A x \in Req \ {r} : call'[x] = call[x]
      BY <2>3 DEF GoogleInv, GoogleTypeOK
    <3> QED
      BY <2>0, <3>2, <3>3, SheetsKept DEF Storers, Calling, SheetMakers, Made
  <2>4. CASE Ended(r)
    BY <1>1, <2>0, <2>4 DEF Calling
  <2> QED
    BY <2>2, <2>3, <2>4
<1>14. ASSUME NEW s \in Sheet, UpdateConfig(s) PROVE SheetsInv'
  <2>1. integ'.sheet # None
    BY <1>14, GoogleAssumption DEF UpdateConfig, GoogleInv, GoogleTypeOK, Integration
  <2>2. Made' = Made /\ SheetMakers' = SheetMakers
    BY <1>14 DEF UpdateConfig, past, Made, SheetMakers
  <2> QED
    BY <2>1, <2>2 DEF SheetsInv
<1>15. CASE Disconnect \/ Expire \/ UNCHANGED googleVars
  <2>1. integ'.sheet = integ.sheet
    BY <1>15
       DEF Disconnect, Disconnected, Expire, googleVars, GoogleInv, GoogleTypeOK, Integration
  <2>2. Made' = Made /\ call' = call
    BY <1>15 DEF Disconnect, Expire, googleVars, past, Made
  <2> QED
    BY <2>1, <2>2 DEF SheetsInv, SheetMakers, Storers, Calling
<1>16. ASSUME NEW r \in Req,
              \/ CreateCalendarEvent(r) \/ UpdateCalendarEvent(r) \/ DeleteCalendarEvent(r)
              \/ Refused(r) \/ ReadSheetRows(r) \/ AppendSheetRow(r) \/ UpdateSheetRow(r)
              \/ ClearSheetRows(r)
      PROVE  SheetsInv'
  <2>1. Ended(r) /\ ~Calling(r, "store") /\ UNCHANGED <<owner, unstored, integ>>
    BY <1>16
       DEF CreateCalendarEvent, UpdateCalendarEvent, DeleteCalendarEvent, Refused,
           ReadSheetRows, Opens, AppendSheetRow, UpdateSheetRow, ClearSheetRows, Calling,
           stored, past
  <2> QED
    BY <1>1, <2>1
<1> QED
  BY <1>2, <1>3, <1>4, <1>5, <1>7, <1>8, <1>10, <1>11, <1>12, <1>13, <1>14, <1>15, <1>16
     DEF GoogleNext, GoogleStep

\* Appointments that come together may each make a spreadsheet; the tenant gets
\* no more of them than requests in flight (google-integration.service.ts
\* ensureSpreadsheet).
THEOREM FewSheets == GoogleSpec => []SheetsBounded
<1>1. GoogleInit => SheetsInv
  <2> SUFFICES ASSUME GoogleInit PROVE SheetsInv
    OBVIOUS
  <2>1. SheetMakers = {}
    BY DEF GoogleInit, SheetMakers, Idle
  <2>2. CASE NewTenant
    <3>1. Made = {}
      BY <2>2 DEF NewTenant, Made
    <3> QED
      BY <2>1, <3>1, WithinNone DEF SheetsInv
  <2>3. ASSUME NEW a \in Account, NEW s \in Sheet, NEW e \in Event, OldTenant(a, s, e)
        PROVE  SheetsInv
    <3>1. Made \in SUBSET {s}
      BY <2>3 DEF OldTenant, Made
    <3>2. integ.sheet # None
      BY <2>3, GoogleAssumption DEF OldTenant
    <3>3. PICK r \in Req : TRUE
      BY RequestsAssumption
    <3>4. Within({} \cup {s}, Req \ {r})
      BY WithinNone, WithinCreated
    <3>5. Within({s}, Req \ {r})
      BY <3>4
    <3>6. Within(Made, SheetMakers)
      BY <2>1, <3>1, <3>5, WithinFewer
    <3> QED
      BY <3>2, <3>6 DEF SheetsInv
  <2> QED
    BY <2>2, <2>3 DEF GoogleInit
<1>2. SheetsInv => SheetsBounded
  <2>1. SheetMakers \in SUBSET Req
    BY DEF SheetMakers
  <2> QED
    BY <2>1, WithinBound DEF SheetsInv, SheetsBounded
<1> QED
  BY <1>1, <1>2, GoogleInvariant, SheetsStep, PTL DEF GoogleSpec
-----------------------------------------------------------------------------
(***************************************************************************)
(* The rows.  What is known of the updates that have read their row: it    *)
(* had the event that they are about; its place still has the events that  *)
(* they read, unless they are shaken; they read it cancelled if it was to  *)
(* be so, unless they crossed another update of it.                        *)
(***************************************************************************)
RowAt(x) == rows[call[x].sheet][call[x].pos]

SeenSound == \A x \in Updating : call[x].event \in EventsOf(call[x].seen)

PlacesSound ==
  \A x \in Updating \ shaken :
    RowAt(x) # None /\ EventsOf(RowAt(x)) = EventsOf(call[x].seen)

SamePlace(x, y) == call[x].sheet = call[y].sheet /\ call[x].pos = call[y].pos

CancelsSound ==
  /\ \A x \in Updating \ crossed :
       <<call[x].sheet, call[x].pos>> \in cancelled => call[x].seen.off
  /\ \A x \in Updating, y \in Updating : x # y /\ SamePlace(x, y) => x \in crossed

RowsKnown == SeenSound /\ PlacesSound /\ CancelKept /\ CancelsSound

LEMMA UpdatingTypes ==
  ASSUME GoogleInv, NEW x \in Updating
  PROVE  /\ x \in Req /\ call[x] \in Call /\ call[x].op = "update" /\ call[x].at = "write"
         /\ call[x].sheet \in Sheet /\ call[x].pos \in At1 /\ call[x].seen \in Row
<1>1. x \in Req /\ call[x] # None /\ call[x].at = "write" /\ call[x].op = "update"
  BY DEF Updating, Calling
<1>2. call[x] \in Call /\ CallSound(call[x])
  BY <1>1, CallOf
<1> QED
  BY <1>1, <1>2 DEF CallSound, SheetOp

\* A request that does not read a row to update.
Quiet(r) ==
  /\ \A x \in Req \ {r} : call'[x] = call[x]
  /\ r \notin Updating'

LEMMA UpdatingAfter ==
  ASSUME NEW r \in Req, \A x \in Req \ {r} : call'[x] = call[x]
  PROVE  /\ \A x \in Req \ {r} : x \in Updating' <=> x \in Updating
         /\ Updating \subseteq Req /\ Updating' \subseteq Req
  BY DEF Updating, Calling

LEMMA EndedQuiet ==
  ASSUME GoogleInv, NEW r \in Req, Ended(r)
  PROVE  Quiet(r)
  BY EndedCalls DEF Quiet, Updating, Calling

LEMMA AskedQuiet ==
  ASSUME GoogleInv, NEW r \in Req, NEW op, NEW e, NEW change, Ask(r, op, e, change)
  PROVE  Quiet(r)
<1>1. /\ call'[r].at \in {"ensure", "tokens"}
      /\ \A x \in Req \ {r} : call'[x] = call[x]
  BY DEF Ask, GoogleInv, GoogleTypeOK
<1> QED
  BY <1>1 DEF Quiet, Updating, Calling

LEMMA MovedQuiet ==
  ASSUME GoogleInv, NEW r \in Req, call[r] # None, NEW c,
         call' = [call EXCEPT ![r] = c], c.op = call[r].op,
         c.at # "write" \/ c.op # "update"
  PROVE  Quiet(r)
<1>1. call'[r] = c /\ \A x \in Req \ {r} : call'[x] = call[x]
  BY DEF GoogleInv, GoogleTypeOK
<1> QED
  BY <1>1 DEF Quiet, Updating, Calling

LEMMA EnsuredQuiet ==
  ASSUME GoogleInv, NEW r \in Req, call[r] # None, NEW s \in Sheet, Ensured(r, s)
  PROVE  Quiet(r)
<1>1. CASE call[r].op = "ensure"
  BY <1>1, EndedQuiet DEF Ensured
<1>2. CASE call[r].op # "ensure"
  <2> DEFINE c == [call[r] EXCEPT !.sheet = s, !.at = "tokens"]
  <2>1. c.op = call[r].op /\ c.at = "tokens"
    BY CallOf DEF Call
  <2>2. call' = [call EXCEPT ![r] = c]
    BY <1>2 DEF Ensured
  <2> HIDE DEF c
  <2> QED
    BY <2>1, <2>2, MovedQuiet
<1> QED
  BY <1>1, <1>2

\* The steps of a request that leave the rows and what is known about them.
LEMMA QuietSteps ==
  ASSUME GoogleInv, NEW r \in Req,
         \/ \E a \in Account : HandleCallback(r, a)
         \/ \E e \in Event \cup {None} : AskAppend(r, e)
         \/ \E e \in Event : AskAbout(r, e)
         \/ AskForAll(r)
         \/ Connect(r) \/ ReadTokens(r) \/ RefreshAccessToken(r)
         \/ CreateCalendarEvent(r) \/ UpdateCalendarEvent(r) \/ DeleteCalendarEvent(r)
         \/ EnsureSpreadsheet(r) \/ CreateSpreadsheet(r) \/ StoreSpreadsheet(r)
         \/ Refused(r) \/ ReadSheetRows(r) \/ CountSheetRows(r)
         \/ Fail(r)
  PROVE  /\ Quiet(r) /\ UNCHANGED <<rows, cancelled>>
         /\ shaken \ {r} \subseteq shaken' /\ crossed \ {r} \subseteq crossed'
<1>0. ASSUME NEW e \in Event \cup {None}, AskAppend(r, e) PROVE Quiet(r)
  BY <1>0, AskedQuiet DEF AskAppend, SheetOp
<1>1. ASSUME NEW a \in Account, HandleCallback(r, a) PROVE Quiet(r)
  <2>1. /\ call'[r].op = "callback" /\ \A x \in Req \ {r} : call'[x] = call[x]
    BY <1>1 DEF HandleCallback, GoogleInv, GoogleTypeOK
  <2> QED
    BY <2>1 DEF Quiet, Updating
<1>2. ASSUME NEW e \in Event, AskAbout(r, e) PROVE Quiet(r)
  BY <1>2, AskedQuiet DEF AskAbout, SheetOp, EventOp
<1>3. ASSUME AskForAll(r) PROVE Quiet(r)
  BY <1>3, AskedQuiet DEF AskForAll, SheetOp, EventOp
<1>4. ASSUME Ended(r) PROVE Quiet(r)
  BY <1>4, EndedQuiet
<1>5. ASSUME call[r] # None, NEW token, NEW at \in {"refresh", WithToken(call[r])},
             call' = [call EXCEPT ![r] = [call[r] EXCEPT !.token = token, !.at = at]]
      PROVE  Quiet(r)
  <2> DEFINE c == [call[r] EXCEPT !.token = token, !.at = at]
  <2>1. c.op = call[r].op /\ c.at = at
    BY <1>5, CallOf DEF Call
  <2>2. at # "write"
    BY DEF WithToken
  <2>3. call' = [call EXCEPT ![r] = c]
    BY <1>5
  <2> HIDE DEF c
  <2> QED
    BY <1>5, <2>1, <2>2, <2>3, MovedQuiet
<1>6. ASSUME ReadTokens(r) PROVE Quiet(r)
  <2>1. \/ Ended(r)
        \/ call' = [call EXCEPT ![r] = [call[r] EXCEPT !.token = integ.refresh,
                                                       !.at = "refresh"]]
        \/ call' = [call EXCEPT ![r] = [call[r] EXCEPT !.token = integ.access,
                                                       !.at = WithToken(call[r])]]
    BY <1>6 DEF ReadTokens
  <2> QED
    BY <1>4, <1>5, <1>6, <2>1 DEF ReadTokens, Calling
<1>7. ASSUME RefreshAccessToken(r) PROVE Quiet(r)
  <2>1. call[r] \in Call /\ call[r] # None
    BY <1>7, CallOf DEF RefreshAccessToken, Calling
  <2>2. call' = [call EXCEPT ![r] = [call[r] EXCEPT !.token = call[r].token,
                                                    !.at = WithToken(call[r])]]
    BY <1>7, <2>1 DEF RefreshAccessToken, Call
  <2> QED
    BY <1>5, <2>1, <2>2
<1>8. ASSUME EnsureSpreadsheet(r) PROVE Quiet(r)
  <2>1. CASE StoredSheet # None
    <3>1. StoredSheet \in Sheet /\ Ensured(r, StoredSheet)
      BY <1>8, <2>1 DEF EnsureSpreadsheet, StoredSheet, GoogleInv, GoogleTypeOK, Integration
    <3> QED
      BY <1>8, <3>1, EnsuredQuiet DEF EnsureSpreadsheet, Calling
  <2>2. CASE StoredSheet = None
    <3> DEFINE c == [call[r] EXCEPT !.at = "tokens"]
    <3>1. call[r] # None /\ call' = [call EXCEPT ![r] = c]
      BY <1>8, <2>2 DEF EnsureSpreadsheet, Calling
    <3>2. c.op = call[r].op /\ c.at = "tokens"
      BY <3>1, CallOf DEF Call
    <3> HIDE DEF c
    <3> QED
      BY <3>1, <3>2, MovedQuiet
  <2> QED
    BY <2>1, <2>2
<1>9. ASSUME CreateSpreadsheet(r) PROVE Quiet(r)
  <2>1. PICK s \in Sheet : call' = [call EXCEPT ![r].sheet = s, ![r].at = "store"]
    BY <1>9 DEF CreateSpreadsheet
  <2> DEFINE c == [call[r] EXCEPT !.sheet = s, !.at = "store"]
  <2>2. call[r] # None /\ call' = [call EXCEPT ![r] = c]
    BY <1>9, <2>1 DEF CreateSpreadsheet, Calling
  <2>3. c.op = call[r].op /\ c.at = "store"
    BY <2>2, CallOf DEF Call
  <2> HIDE DEF c
  <2> QED
    BY <2>2, <2>3, MovedQuiet
<1>10. ASSUME StoreSpreadsheet(r) PROVE Quiet(r)
  <2>1. call[r].sheet \in Sheet /\ call[r] # None
    BY <1>10, CallOf DEF StoreSpreadsheet, Calling, CallSound
  <2> QED
    BY <1>10, <2>1, EnsuredQuiet DEF StoreSpreadsheet
<1>11. ASSUME CountSheetRows(r) PROVE Quiet(r)
  <2>1. call[r] # None /\ call[r].op = "clear"
    BY <1>11 DEF CountSheetRows, Opens, Calling
  <2>2. ASSUME NEW n, call' = [call EXCEPT ![r].pos = n, ![r].at = "write"] PROVE Quiet(r)
    <3> DEFINE c == [call[r] EXCEPT !.pos = n, !.at = "write"]
    <3>1. call' = [call EXCEPT ![r] = c]
      BY <2>2
    <3>2. c.op = call[r].op
      BY <2>1, CallOf DEF Call
    <3> HIDE DEF c
    <3> QED
      BY <2>1, <3>1, <3>2, MovedQuiet
  <2> QED
    BY <1>4, <1>11, <2>2 DEF CountSheetRows
<1>12. Quiet(r)
  BY <1>0, <1>1, <1>2, <1>3, <1>4, <1>6, <1>7, <1>8, <1>9, <1>10, <1>11
     DEF Connect, CreateCalendarEvent, UpdateCalendarEvent, DeleteCalendarEvent, Refused,
         ReadSheetRows, Fail
<1>13. /\ UNCHANGED <<rows, cancelled>>
       /\ shaken \ {r} \subseteq shaken' /\ crossed \ {r} \subseteq crossed'
  BY DEF HandleCallback, AskAppend, AskAbout, AskForAll, Connect, ReadTokens, RefreshAccessToken,
         CreateCalendarEvent, UpdateCalendarEvent, DeleteCalendarEvent, EnsureSpreadsheet,
         CreateSpreadsheet, StoreSpreadsheet, Refused, ReadSheetRows, CountSheetRows, Fail,
         stored, past
<1> QED
  BY <1>12, <1>13

\* Updates that go on as they were keep what is known of them, if their places
\* keep their events and no row is said to be cancelled.
LEMMA UpdatesKept ==
  ASSUME RowsKnown, CancelKept', cancelled' \subseteq cancelled,
         \A x \in Updating' :
           /\ x \in Updating /\ call'[x] = call[x]
           /\ x \in shaken => x \in shaken'
           /\ x \in crossed => x \in crossed',
         \A x \in Updating' \ shaken' :
           RowAt(x)' # None /\ EventsOf(RowAt(x)') = EventsOf(RowAt(x))
  PROVE  RowsKnown'
<1>1. SeenSound'
  BY DEF RowsKnown, SeenSound
<1>2. PlacesSound'
  BY DEF RowsKnown, PlacesSound
<1>3. CancelsSound'
  BY DEF RowsKnown, CancelsSound, SamePlace
<1> QED
  BY <1>1, <1>2, <1>3 DEF RowsKnown

\* What a step that writes no row and reads none leaves true.
LEMMA QuietStep ==
  ASSUME RowsKnown, UNCHANGED <<rows, cancelled>>,
         \A x \in Updating' :
           /\ x \in Updating /\ call'[x] = call[x]
           /\ x \in shaken => x \in shaken'
           /\ x \in crossed => x \in crossed'
  PROVE  RowsKnown'
<1>1. CancelKept'
  BY DEF RowsKnown, CancelKept
<1>2. \A x \in Updating' \ shaken' :
        RowAt(x)' # None /\ EventsOf(RowAt(x)') = EventsOf(RowAt(x))
  BY DEF RowAt, RowsKnown, PlacesSound
<1> QED
  BY <1>1, <1>2, UpdatesKept

\* A row that is appended goes where none is, and no update in flight that is
\* not shaken has its row there.
LEMMA AppendKeeps ==
  ASSUME GoogleInv, RowsKnown, NEW r \in Req, AppendSheetRow(r)
  PROVE  RowsKnown'
<1>1. Quiet(r) /\ UNCHANGED <<shaken, crossed, cancelled>>
  BY EndedQuiet DEF AppendSheetRow, past
<1>2. PICK p \in At1 :
        /\ rows[call[r].sheet][p] = None
        /\ rows' = [rows EXCEPT ![call[r].sheet][p] = AppendedRow(call[r].event)]
  BY DEF AppendSheetRow
<1>3. \A s \in Sheet, q \in At1 : rows[s][q] # None => rows'[s][q] = rows[s][q]
  BY <1>2 DEF GoogleInv, GoogleTypeOK
<1>4. CancelKept'
  BY <1>1, <1>3 DEF RowsKnown, CancelKept
<1>5. \A x \in Updating' : x \in Updating /\ call'[x] = call[x]
  BY <1>1, UpdatingAfter DEF Quiet
<1>6. ASSUME NEW x \in Updating' \ shaken'
      PROVE  RowAt(x)' # None /\ EventsOf(RowAt(x)') = EventsOf(RowAt(x))
  <2>1. x \in Updating \ shaken /\ call'[x] = call[x]
    BY <1>1, <1>5, <1>6
  <2>2. call[x].sheet \in Sheet /\ call[x].pos \in At1
    BY <2>1, UpdatingTypes
  <2> QED
    BY <1>3, <2>1, <2>2 DEF RowAt, RowsKnown, PlacesSound
<1> QED
  BY <1>1, <1>4, <1>5, <1>6, UpdatesKept

\* A clear shakes the updates whose rows it blanks.
LEMMA ClearKeeps ==
  ASSUME GoogleInv, RowsKnown, NEW r \in Req, ClearSheetRows(r)
  PROVE  RowsKnown'
<1> DEFINE s == call[r].sheet
           n == call[r].pos
<1>1. Quiet(r) /\ crossed' = crossed
  BY EndedQuiet DEF ClearSheetRows
<1>2. /\ rows' = [rows EXCEPT ![s] = [p \in At1 |-> IF p <= n THEN None ELSE @[p]]]
      /\ shaken' = shaken \cup UNION {UpdatingAt(s, p) : p \in 1..n}
      /\ cancelled' = cancelled \ ({s} \X (1..n))
      /\ n \in 0..LastRow
  BY CallOf DEF ClearSheetRows, Calling, Call
<1> HIDE DEF s, n
<1>3. \A t \in Sheet, q \in At1 :
        rows'[t][q] = IF t = s /\ q <= n THEN None ELSE rows[t][q]
  BY <1>2 DEF GoogleInv, GoogleTypeOK
<1>4. \A q \in At1 : q <= n => q \in 1..n
  BY <1>2, GoogleAssumption DEF At1
<1>5. CancelKept'
  <2> SUFFICES ASSUME NEW t \in Sheet, NEW q \in At1, <<t, q>> \in cancelled'
               PROVE  rows'[t][q] # None /\ rows'[t][q].off
    BY DEF CancelKept
  <2>1. <<t, q>> \in cancelled /\ ~(t = s /\ q \in 1..n)
    BY <1>2
  <2>2. rows'[t][q] = rows[t][q]
    BY <1>3, <1>4, <2>1
  <2> QED
    BY <2>1, <2>2 DEF RowsKnown, CancelKept
<1>6. \A x \in Updating' : x \in Updating /\ call'[x] = call[x]
  BY <1>1, UpdatingAfter DEF Quiet
<1>7. ASSUME NEW x \in Updating' \ shaken'
      PROVE  RowAt(x)' # None /\ EventsOf(RowAt(x)') = EventsOf(RowAt(x))
  <2>1. x \in Updating \ shaken /\ call'[x] = call[x]
    BY <1>2, <1>6, <1>7
  <2>2. call[x].sheet \in Sheet /\ call[x].pos \in At1
    BY <2>1, UpdatingTypes
  <2>3. ~(call[x].sheet = s /\ call[x].pos \in 1..n)
    BY <1>2, <1>7, <2>1 DEF UpdatingAt
  <2>4. RowAt(x)' = RowAt(x)
    BY <1>3, <1>4, <2>1, <2>2, <2>3 DEF RowAt
  <2> QED
    BY <2>1, <2>4 DEF RowsKnown, PlacesSound
<1> QED
  BY <1>1, <1>2, <1>5, <1>6, <1>7, UpdatesKept

\* An update that finds its row joins those that are about to write it.
LEMMA FindKeeps ==
  ASSUME GoogleInv, RowsKnown, NEW r \in Req, FindSheetRow(r)
  PROVE  RowsKnown'
<1> DEFINE s == call[r].sheet
<1>1. UNCHANGED <<rows, cancelled, shaken>> /\ call[r] # None /\ r \notin Updating
  BY DEF FindSheetRow, Opens, Calling, stored, Updating
<1>2. CASE Ended(r) /\ UNCHANGED crossed
  BY <1>1, <1>2, EndedQuiet, UpdatingAfter, QuietStep DEF Quiet
<1>3. ASSUME NEW p \in Found(s, call[r].event),
             call' = [call EXCEPT ![r].pos = p, ![r].at = "write", ![r].seen = rows[s][p]],
             crossed' = IF UpdatingAt(s, p) = {} THEN crossed
                        ELSE crossed \cup UpdatingAt(s, p) \cup {r}
      PROVE  RowsKnown'
  <2>1. call[r] \in Call /\ s \in Sheet
    BY <1>1, CallOf DEF FindSheetRow, Opens, Calling, CallSound, SheetOp
  <2>2. /\ call'[r] = [call[r] EXCEPT !.pos = p, !.at = "write", !.seen = rows[s][p]]
        /\ \A x \in Req \ {r} : call'[x] = call[x]
    BY <1>3 DEF GoogleInv, GoogleTypeOK
  <2>3. /\ call'[r].pos = p /\ call'[r].seen = rows[s][p] /\ call'[r].sheet = s
        /\ call'[r].event = call[r].event
    BY <2>1, <2>2 DEF Call
  <2>4. p \in At1 /\ rows[s][p] # None /\ call[r].event \in EventsOf(rows[s][p])
    BY DEF Found
  <2>5. /\ \A x \in Updating' : x = r \/ (x \in Updating /\ x # r /\ call'[x] = call[x])
        /\ \A x \in Updating' : x \in crossed => x \in crossed'
    BY <1>3, <2>2, UpdatingAfter
  <2>6. SeenSound'
    BY <2>3, <2>4, <2>5 DEF RowsKnown, SeenSound
  <2>7. PlacesSound'
    BY <1>1, <2>3, <2>4, <2>5 DEF RowsKnown, PlacesSound, RowAt
  <2>8. CancelKept'
    BY <1>1 DEF RowsKnown, CancelKept
  <2>9. CancelsSound'
    <3>1. \A x \in Updating' \ crossed' :
            <<call'[x].sheet, call'[x].pos>> \in cancelled' => call'[x].seen.off
      BY <1>1, <2>1, <2>3, <2>4, <2>5 DEF RowsKnown, CancelsSound, CancelKept
    <3>2. \A x \in Updating : call[x].sheet = s /\ call[x].pos = p
            => x \in crossed' /\ r \in crossed'
      BY <1>3 DEF UpdatingAt
    <3>3. ASSUME NEW x \in Updating', NEW y \in Updating', x # y, SamePlace(x, y)'
          PROVE  x \in crossed'
      BY <2>3, <2>5, <3>2, <3>3 DEF RowsKnown, CancelsSound, SamePlace
    <3> QED
      BY <3>1, <3>3 DEF CancelsSound
  <2> QED
    BY <2>6, <2>7, <2>8, <2>9 DEF RowsKnown
<1> QED
  BY <1>2, <1>3 DEF FindSheetRow

\* What an update writes, and where.
LEMMA UpdateWrites ==
  ASSUME GoogleInv, RowsKnown, NEW r \in Req, UpdateSheetRow(r)
  PROVE  /\ r \in Updating /\ Quiet(r) /\ call[r] # None /\ call'[r] = None
         /\ NewRow(call[r]) \in Row
         /\ rows'[call[r].sheet][call[r].pos] = NewRow(call[r])
         /\ \A s \in Sheet, p \in At1 :
              s # call[r].sheet \/ p # call[r].pos => rows'[s][p] = rows[s][p]
<1>1. r \in Updating /\ Quiet(r) /\ call[r] # None /\ call'[r] = None
  BY EndedQuiet, EndedCalls DEF UpdateSheetRow, Updating, Calling
<1>2. /\ call[r] \in Call /\ call[r].sheet \in Sheet /\ call[r].pos \in At1
      /\ call[r].seen \in Row
  BY <1>1, UpdatingTypes
<1>3. NewRow(call[r]) \in Row
  <2>1. call[r].change \in Change
    BY <1>2 DEF Call
  <2> QED
    BY <1>2, <2>1 DEF NewRow, Row, Change
<1>4. rows' = [rows EXCEPT ![call[r].sheet][call[r].pos] = NewRow(call[r])]
  BY DEF UpdateSheetRow
<1> QED
  BY <1>1, <1>2, <1>3, <1>4 DEF GoogleInv, GoogleTypeOK

\* An update that gives its row other events shakes the others of that row, and
\* one that crossed another has no say in what is cancelled.
LEMMA UpdateKeeps ==
  ASSUME GoogleInv, RowsKnown, NEW r \in Req, UpdateSheetRow(r)
  PROVE  RowsKnown'
<1> DEFINE s == call[r].sheet
           p == call[r].pos
           state == call[r].change.state
<1>1. /\ r \in Updating /\ Quiet(r)
      /\ NewRow(call[r]) \in Row /\ rows'[s][p] = NewRow(call[r])
      /\ \A t \in Sheet, q \in At1 : t # s \/ q # p => rows'[t][q] = rows[t][q]
  BY UpdateWrites
<1>2. s \in Sheet /\ p \in At1 /\ call[r].seen \in Row
  BY <1>1, UpdatingTypes
<1>3. /\ cancelled' = IF state = "off" THEN cancelled \cup {<<s, p>>}
                      ELSE IF state = "on" \/ r \in crossed
                        THEN cancelled \ {<<s, p>>} ELSE cancelled
      /\ shaken' = (shaken \cup IF r \in shaken
                                   \/ EventsOf(NewRow(call[r])) # EventsOf(call[r].seen)
                                THEN UpdatingAt(s, p) ELSE {}) \ {r}
      /\ crossed' = crossed \ {r}
  BY DEF UpdateSheetRow
<1>4. /\ NewRow(call[r]).off = IF state = None THEN call[r].seen.off ELSE state = "off"
      /\ NewRow(call[r]) # None
  BY <1>1, GoogleAssumption DEF NewRow
<1>5. /\ \A x \in Updating' : x \in Updating /\ x # r /\ call'[x] = call[x]
      /\ \A x \in Updating' : x \in crossed => x \in crossed'
  BY <1>1, <1>3, UpdatingAfter DEF Quiet
<1> HIDE DEF s, p, state
<1>6. SeenSound'
  BY <1>5 DEF RowsKnown, SeenSound
<1>7. PlacesSound'
  <2> SUFFICES ASSUME NEW x \in Updating' \ shaken'
               PROVE  RowAt(x)' # None /\ EventsOf(RowAt(x)') = EventsOf(call[x].seen)
    BY <1>5 DEF PlacesSound
  <2>1. /\ x \in Updating \ shaken /\ x # r /\ call'[x] = call[x]
        /\ call[x].sheet \in Sheet /\ call[x].pos \in At1
    BY <1>3, <1>5, UpdatingTypes
  <2>2. RowAt(x) # None /\ EventsOf(RowAt(x)) = EventsOf(call[x].seen)
    BY <2>1 DEF RowsKnown, PlacesSound
  <2>3. CASE call[x].sheet = s /\ call[x].pos = p
    <3>1. r \notin shaken /\ EventsOf(NewRow(call[r])) = EventsOf(call[r].seen)
      BY <1>3, <2>1, <2>3 DEF UpdatingAt
    <3>2. EventsOf(RowAt(r)) = EventsOf(call[r].seen)
      BY <1>1, <3>1 DEF RowsKnown, PlacesSound
    <3>3. RowAt(x)' = NewRow(call[r]) /\ RowAt(x) = RowAt(r)
      BY <1>1, <2>1, <2>3 DEF RowAt, s, p
    <3> QED
      BY <1>4, <2>2, <3>1, <3>2, <3>3
  <2>4. CASE call[x].sheet # s \/ call[x].pos # p
    BY <1>1, <2>1, <2>2, <2>4 DEF RowAt
  <2> QED
    BY <2>3, <2>4
<1>8. CancelKept'
  <2> SUFFICES ASSUME NEW t \in Sheet, NEW q \in At1, <<t, q>> \in cancelled'
               PROVE  rows'[t][q] # None /\ rows'[t][q].off
    BY DEF CancelKept
  <2>1. CASE t # s \/ q # p
    <3>1. <<t, q>> \in cancelled
      BY <1>3, <2>1
    <3> QED
      BY <1>1, <2>1, <3>1 DEF RowsKnown, CancelKept
  <2>2. CASE t = s /\ q = p /\ state = "off"
    <3>1. state # None
      BY <2>2, GoogleAssumption
    <3> QED
      BY <1>1, <1>4, <2>2, <3>1
  <2>3. CASE t = s /\ q = p /\ state # "off"
    <3>1. state # "on" /\ r \notin crossed /\ <<s, p>> \in cancelled
      BY <1>3, <2>3
    <3>2. call[r].change.state \in {"off", "on", None}
      BY <1>1, UpdatingTypes DEF Call, Change
    <3>3. state = None
      BY <2>3, <3>1, <3>2 DEF state
    <3>4. call[r].seen.off
      BY <1>1, <3>1 DEF RowsKnown, CancelsSound, s, p
    <3> QED
      BY <1>1, <1>4, <2>3, <3>3, <3>4
  <2> QED
    BY <2>1, <2>2, <2>3
<1>9. CancelsSound'
  <2>1. ASSUME NEW x \in Updating' \ crossed',
               <<call'[x].sheet, call'[x].pos>> \in cancelled'
        PROVE  call'[x].seen.off
    <3>1. x \in Updating \ crossed /\ x # r /\ call'[x] = call[x]
      BY <1>5, <2>1
    <3>2. call[x].sheet # s \/ call[x].pos # p
      BY <1>1, <3>1 DEF RowsKnown, CancelsSound, SamePlace, s, p
    <3>3. <<call[x].sheet, call[x].pos>> \in cancelled
      BY <1>3, <2>1, <3>1, <3>2
    <3> QED
      BY <3>1, <3>3 DEF RowsKnown, CancelsSound
  <2>2. ASSUME NEW x \in Updating', NEW y \in Updating', x # y, SamePlace(x, y)'
        PROVE  x \in crossed'
    BY <1>5, <2>2 DEF RowsKnown, CancelsSound, SamePlace
  <2> QED
    BY <2>1, <2>2 DEF CancelsSound
<1> QED
  BY <1>6, <1>7, <1>8, <1>9 DEF RowsKnown

LEMMA RowsKnownInit == GoogleInit => RowsKnown
<1> SUFFICES ASSUME GoogleInit PROVE RowsKnown
  OBVIOUS
<1>1. Updating = {} /\ cancelled = {}
  BY DEF GoogleInit, Idle, Updating, Calling
<1> QED
  BY <1>1 DEF RowsKnown, SeenSound, PlacesSound, CancelKept, CancelsSound

LEMMA RowsKnownStep == GoogleInv /\ RowsKnown /\ [GoogleNext]_googleVars => RowsKnown'
<1> SUFFICES ASSUME GoogleInv, RowsKnown, [GoogleNext]_googleVars PROVE RowsKnown'
  OBVIOUS
<1>1. ASSUME NEW r \in Req, Quiet(r), UNCHANGED <<rows, cancelled>>,
             shaken \ {r} \subseteq shaken', crossed \ {r} \subseteq crossed'
      PROVE  RowsKnown'
  BY <1>1, UpdatingAfter, QuietStep DEF Quiet
<1>2. ASSUME UNCHANGED <<call, rows, cancelled, shaken, crossed>> PROVE RowsKnown'
  <2>1. \A x \in Updating' : x \in Updating
    BY <1>2 DEF Updating, Calling
  <2> QED
    BY <1>2, <2>1, QuietStep
<1>3. CASE Disconnect \/ Expire \/ (\E s \in Sheet : UpdateConfig(s)) \/ UNCHANGED googleVars
  BY <1>2, <1>3 DEF Disconnect, Expire, UpdateConfig, past, googleVars
<1>4. ASSUME NEW r \in Req,
             \/ \E a \in Account : HandleCallback(r, a)
             \/ \E e \in Event \cup {None} : AskAppend(r, e)
             \/ \E e \in Event : AskAbout(r, e)
             \/ AskForAll(r)
             \/ Connect(r) \/ ReadTokens(r) \/ RefreshAccessToken(r)
             \/ CreateCalendarEvent(r) \/ UpdateCalendarEvent(r) \/ DeleteCalendarEvent(r)
             \/ EnsureSpreadsheet(r) \/ CreateSpreadsheet(r) \/ StoreSpreadsheet(r)
             \/ Refused(r) \/ ReadSheetRows(r) \/ CountSheetRows(r)
             \/ Fail(r)
      PROVE  RowsKnown'
  BY <1>1, <1>4, QuietSteps
<1> QED
  BY <1>3, <1>4, AppendKeeps, FindKeeps, UpdateKeeps, ClearKeeps DEF GoogleNext, GoogleStep

\* A row is overwritten by an update that is shaken, or that is about an event of
\* the row and adds no event but its own.
LEMMA RowsKeptStep ==
  ASSUME GoogleInv, RowsKnown, [GoogleNext]_googleVars,
         NEW s \in Sheet, NEW p \in At1,
         rows[s][p] # None, rows'[s][p] # None, rows'[s][p] # rows[s][p]
  PROVE  \E r \in Req :
           /\ call[r] # None /\ call'[r] = None
           /\ \/ r \in shaken
              \/ /\ call[r].event \in EventsOf(rows[s][p])
                 /\ EventsOf(rows'[s][p])
                      \subseteq EventsOf(rows[s][p]) \cup {call[r].change.key}
<1>1. PICK r \in Req : AppendSheetRow(r) \/ UpdateSheetRow(r) \/ ClearSheetRows(r)
  <2>1. rows' # rows
    OBVIOUS
  <2>2. ~(Disconnect \/ Expire \/ (\E t \in Sheet : UpdateConfig(t)) \/ UNCHANGED googleVars)
    BY <2>1 DEF Disconnect, Expire, UpdateConfig, googleVars
  <2>3. \A r \in Req : ~FindSheetRow(r)
    BY <2>1 DEF FindSheetRow, stored
  <2> QED
    BY <2>1, <2>2, <2>3, QuietSteps DEF GoogleNext, GoogleStep
<1>2. ~AppendSheetRow(r)
  <2> SUFFICES ASSUME AppendSheetRow(r) PROVE FALSE
    OBVIOUS
  <2>1. PICK q \in At1 :
          /\ rows[call[r].sheet][q] = None
          /\ rows' = [rows EXCEPT ![call[r].sheet][q] = AppendedRow(call[r].event)]
    BY DEF AppendSheetRow
  <2> QED
    BY <2>1 DEF GoogleInv, GoogleTypeOK
<1>3. ~ClearSheetRows(r)
  BY DEF ClearSheetRows, GoogleInv, GoogleTypeOK
<1>4. UpdateSheetRow(r)
  BY <1>1, <1>2, <1>3
<1>5. /\ r \in Updating /\ call[r] # None /\ call'[r] = None
      /\ s = call[r].sheet /\ p = call[r].pos /\ rows'[s][p] = NewRow(call[r])
  BY <1>4, UpdateWrites
<1>6. CASE r \notin shaken
  <2>1. /\ call[r].event \in EventsOf(call[r].seen)
        /\ EventsOf(rows[s][p]) = EventsOf(call[r].seen)
    BY <1>5, <1>6 DEF RowsKnown, SeenSound, PlacesSound, RowAt
  <2>2. EventsOf(NewRow(call[r])) \subseteq EventsOf(call[r].seen) \cup {call[r].change.key}
    BY DEF EventsOf, NewRow
  <2> QED
    BY <1>5, <2>1, <2>2
<1> QED
  BY <1>5, <1>6

\* An update overwrites a row that holds its event, and brings no event into it
\* but that which it gives, unless the row was cleared or given other events
\* after the update had read it (google-integration.service.ts updateSheetRow).
THEOREM RowsKept == GoogleSpec => OtherRowsKept
<1>1. GoogleInv /\ RowsKnown /\ [GoogleNext]_googleVars =>
        [\A s \in Sheet, p \in At1 :
           LET row == rows[s][p]  new == rows'[s][p] IN
           (row # None /\ new # None /\ new # row) =>
             \E r \in Req :
               /\ call[r] # None /\ call'[r] = None
               /\ \/ r \in shaken
                  \/ /\ call[r].event \in EventsOf(row)
                     /\ EventsOf(new) \subseteq EventsOf(row) \cup {call[r].change.key}]_googleVars
  BY RowsKeptStep
<1> QED
  BY <1>1, RowsKnownInit, RowsKnownStep, GoogleInvariant, PTL DEF GoogleSpec, OtherRowsKept

\* A cancelled appointment stays cancelled in the sheet until it is cleared or
\* opened again, unless two updates of its row crossed.
THEOREM CancelledStays == GoogleSpec => []CancelKept
<1>1. RowsKnown => CancelKept
  BY DEF RowsKnown
<1> QED
  BY <1>1, RowsKnownInit, RowsKnownStep, GoogleInvariant, PTL DEF GoogleSpec
=============================================================================
