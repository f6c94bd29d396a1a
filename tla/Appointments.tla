---------------------------- MODULE Appointments ----------------------------
(***************************************************************************)
(* The appointments of one tenant: the part of internal.controller.ts that *)
(* n8n calls, and appointments.controller.ts, which the panel calls.       *)
(*                                                                         *)
(* n8n books in two awaits: it looks for a confirmed appointment of the    *)
(* customer, then replaces it or creates one.  A worker of n8n lists the   *)
(* reminders due, sends each, and marks it afterwards.  Everything else is *)
(* one write.                                                              *)
(*                                                                         *)
(* Left out: the derived appointmentDateTime (any reminder may be due at   *)
(* any time here), the customer's and the service's fields, and calEventId *)
(* (n8n may cancel or move any appointment here).                          *)
(***************************************************************************)
EXTENDS Naturals, FiniteSets

CONSTANTS
  Id,         \* ids of appointments, each used once (bounds the history)
  Customer,   \* phones
  At,         \* dates and times
  Kind,       \* reminders: 24 hours and 1 hour before
  Req,        \* bookings in flight     (bounds concurrency)
  Job,        \* reminders in flight    (bounds concurrency)
  ByPanel,    \* appointments the panel confirms at a time (bounds inputs)
  None

VARIABLES
  appt,     \* the collection, by id
  fresh,    \* ids MongoDB has not used yet
  req,      \* bookings past their findOne: None or a Booking
  job,      \* reminders sent and not marked yet: None or [i, k]
  manual,   \* history: ids the panel created or confirmed
  told      \* history: reminders sent for the date the appointment has, and
            \* any, when it came to that date by a blind move (see Update)

vars == <<appt, fresh, req, job, manual, told>>

Status == {"confirmed", "cancelled"}

Appointment == [customer : Customer, at : At, status : Status,
                sent : SUBSET Kind]

\* old: the appointment that the booking found, and seen its date.
Booking == [c : Customer, at : At, old : Id \cup {None}, seen : At]

Reminder == [i : Id, k : Kind]

ASSUME AppointmentsAssumption ==
  /\ IsFiniteSet(Id) /\ IsFiniteSet(Req)
  /\ None \notin Id \cup Reminder \cup Appointment \cup Booking

Init ==
  /\ appt = [i \in Id |-> None]
  /\ fresh = Id
  /\ req = [r \in Req |-> None]
  /\ job = [j \in Job |-> None]
  /\ manual = {}
  /\ told = [i \in Id |-> {}]

Exists(i) == appt[i] # None
Confirmed(i) == Exists(i) /\ appt[i].status = "confirmed"
Active(c) == {i \in Id : Confirmed(i) /\ appt[i].customer = c}
Awaited(i) == \E j \in Job : job[j] # None /\ job[j].i = i

-----------------------------------------------------------------------------
(***************************************************************************)
(* Faulty variants, to show that the properties notice a slip.             *)
(***************************************************************************)
ResetNever(seen, at, sent) == sent

ReplaceableNone(c) == {}

MovedBlank(d, at) == [d EXCEPT !.at = None, !.sent = {}]

-----------------------------------------------------------------------------
(***************************************************************************)
(* Writes of an appointment, with their history.                           *)
(***************************************************************************)

\* A new document: no reminder of it was sent.
Insert(i, c, at, s) ==
  /\ i \in fresh
  /\ fresh' = fresh \ {i}
  /\ appt' = [appt EXCEPT ![i] = [customer |-> c, at |-> at, status |-> s,
                                  sent |-> {}]]
  /\ UNCHANGED told

\* The document of i becomes d.  A move to another date makes the reminders
\* sent before void.  It is blind when one is on its way, or when the handler
\* does not look at the date it changes.
Update(i, d, unseen) ==
  /\ appt' = [appt EXCEPT ![i] = d]
  /\ UNCHANGED fresh
  /\ IF d.at = appt[i].at
       THEN UNCHANGED told
       ELSE told' = [told EXCEPT ![i] =
                       IF unseen \/ Awaited(i) THEN Kind ELSE {}]

-----------------------------------------------------------------------------
(***************************************************************************)
(* internal.controller.ts.                                                 *)
(***************************************************************************)

\* The confirmed appointments of a customer, of which findOne takes one.
Replaceable(c) == Active(c)

\* saveAppointment, up to its findOne.
FindActive(r, c, at) ==
  /\ req[r] = None
  /\ \E old \in IF Replaceable(c) = {} THEN {None} ELSE Replaceable(c) :
       req' = [req EXCEPT ![r] =
                 [c |-> c, at |-> at, old |-> old,
                  seen |-> IF old = None THEN at ELSE appt[old].at]]
  /\ UNCHANGED <<appt, fresh, job, manual, told>>

\* Reminders are reset if the date that was read changes.
Reset(seen, at, sent) == IF seen # at THEN {} ELSE sent

\* updateOne by id: nothing happens if it was deleted meanwhile.
Replace(r) ==
  /\ req[r] # None
  /\ req[r].old # None
  /\ LET i == req[r].old
     IN IF Exists(i)
          THEN Update(i, [appt[i] EXCEPT !.at = req[r].at,
                                         !.status = "confirmed",
                                         !.sent = Reset(req[r].seen, req[r].at, @)],
                      req[r].seen # appt[i].at)
          ELSE UNCHANGED <<appt, fresh, told>>
  /\ req' = [req EXCEPT ![r] = None]
  /\ UNCHANGED <<job, manual>>

Create(r) ==
  /\ req[r] # None
  /\ req[r].old = None
  /\ \E i \in Id : Insert(i, req[r].c, req[r].at, "confirmed")
  /\ req' = [req EXCEPT ![r] = None]
  /\ UNCHANGED <<job, manual>>

\* The booking dies between its awaits.
Lose(r) ==
  /\ req[r] # None
  /\ req' = [req EXCEPT ![r] = None]
  /\ UNCHANGED <<appt, fresh, job, manual, told>>

\* getPendingReminders, and n8n sends what it lists: nothing in the backend
\* happens between the two.
Remind(j, i, k) ==
  /\ job[j] = None
  /\ Confirmed(i)
  /\ k \notin appt[i].sent
  /\ job' = [job EXCEPT ![j] = [i |-> i, k |-> k]]
  /\ told' = [told EXCEPT ![i] = @ \cup {k}]
  /\ UNCHANGED <<appt, fresh, req, manual>>

\* markReminderSent: an update by id, whatever became of the appointment.
MarkReminderSent(j) ==
  /\ job[j] # None
  /\ LET i == job[j].i
     IN appt' = IF Exists(i)
                  THEN [appt EXCEPT ![i].sent = @ \cup {job[j].k}]
                  ELSE appt
  /\ job' = [job EXCEPT ![j] = None]
  /\ UNCHANGED <<fresh, req, manual, told>>

\* The reminder was sent and n8n fails to mark it.
LoseMark(j) ==
  /\ job[j] # None
  /\ job' = [job EXCEPT ![j] = None]
  /\ UNCHANGED <<appt, fresh, req, manual, told>>

CancelAppointment(i) ==
  /\ Exists(i)
  /\ appt' = [appt EXCEPT ![i].status = "cancelled"]
  /\ UNCHANGED <<fresh, req, job, manual, told>>

\* updateAppointment resets the reminders whether the date changes or not.
Moved(d, at) == [d EXCEPT !.at = at, !.sent = {}]

UpdateAppointment(i, at) ==
  /\ Exists(i)
  /\ Update(i, Moved(appt[i], at), FALSE)
  /\ UNCHANGED <<req, job, manual>>

-----------------------------------------------------------------------------
(***************************************************************************)
(* appointments.controller.ts: the panel.                                  *)
(***************************************************************************)

\* It creates without a look at what the customer has.
PanelCreate(c, at, s) ==
  /\ Cardinality(manual) < ByPanel
  /\ \E i \in Id : Insert(i, c, at, s) /\ manual' = manual \cup {i}
  /\ UNCHANGED <<req, job>>

\* It keeps the marks of the reminders.
PanelUpdate(i, at, s) ==
  /\ Exists(i)
  /\ Update(i, [appt[i] EXCEPT !.at = at, !.status = s], TRUE)
  /\ IF s = "confirmed" /\ ~Confirmed(i) /\ i \notin manual
       THEN Cardinality(manual) < ByPanel /\ manual' = manual \cup {i}
       ELSE UNCHANGED manual
  /\ UNCHANGED <<req, job>>

PanelRemove(i) ==
  /\ Exists(i)
  /\ appt' = [appt EXCEPT ![i] = None]
  /\ manual' = manual \ {i}
  /\ told' = [told EXCEPT ![i] = {}]
  /\ UNCHANGED <<fresh, req, job>>

-----------------------------------------------------------------------------
Next ==
  \/ \E r \in Req : \/ Replace(r) \/ Create(r) \/ Lose(r)
                    \/ \E c \in Customer, at \in At : FindActive(r, c, at)
  \/ \E j \in Job : \/ MarkReminderSent(j) \/ LoseMark(j)
                    \/ \E i \in Id, k \in Kind : Remind(j, i, k)
  \/ \E i \in Id : \/ CancelAppointment(i) \/ PanelRemove(i)
                   \/ \E at \in At :
                        \/ UpdateAppointment(i, at)
                        \/ \E s \in Status : PanelUpdate(i, at, s)
  \/ \E c \in Customer, at \in At, s \in Status : PanelCreate(c, at, s)

Spec == Init /\ [][Next]_vars

-----------------------------------------------------------------------------
(***************************************************************************)
(* Properties.                                                             *)
(***************************************************************************)

\* Every variable has its type.
TypeOK ==
  /\ appt \in [Id -> Appointment \cup {None}]
  /\ fresh \subseteq {i \in Id : appt[i] = None}
  /\ req \in [Req -> Booking \cup {None}]
  /\ job \in [Job -> Reminder \cup {None}]
  /\ manual \subseteq Id
  /\ told \in [Id -> SUBSET Kind]

\* saveAppointment looks for an active appointment before it creates one, so
\* that a customer has one (internal.controller.ts:734).  Bookings in flight
\* may miss each other, and one may confirm again what was cancelled after it
\* looked; but apart from what the panel confirms, a customer never has more
\* active appointments than there are bookings at a time: one, if n8n books
\* one at a time.
ActiveBounded ==
  \A c \in Customer : Cardinality(Active(c) \ manual) <= Cardinality(Req)

\* A reminder is marked as sent only if it was sent for the date that the
\* appointment has, so that nobody is left without one: unless the last move
\* met a reminder on its way, or came from the panel, which keeps the marks,
\* or from a booking that had read the appointment before another move.
MarkedIsReminded ==
  \A i \in Id : Exists(i) => appt[i].sent \subseteq told[i]
=============================================================================
