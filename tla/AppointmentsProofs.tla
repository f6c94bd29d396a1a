------------------------- MODULE AppointmentsProofs -------------------------
(***************************************************************************)
(* The invariants of Appointments, for any number of ids, customers,       *)
(* dates, bookings and reminders in flight.                                *)
(***************************************************************************)
EXTENDS Appointments, TLAPS, FiniteSetTheorems

LEMMA NoneApart ==
  /\ None \notin Id /\ None \notin Reminder
  /\ None \notin Appointment /\ None \notin Booking
  BY AppointmentsAssumption

-----------------------------------------------------------------------------
(***************************************************************************)
(* Types.                                                                  *)
(***************************************************************************)
LEMMA TypeInit == Init => TypeOK
  BY DEF Init, TypeOK

LEMMA InsertType ==
  ASSUME TypeOK, NEW i \in Id, NEW c \in Customer, NEW at \in At, NEW s \in Status,
         Insert(i, c, at, s)
  PROVE  /\ appt' \in [Id -> Appointment \cup {None}]
         /\ fresh' \subseteq {j \in Id : appt'[j] = None}
         /\ told' \in [Id -> SUBSET Kind]
<1>1. [customer |-> c, at |-> at, status |-> s, sent |-> {}] \in Appointment
  BY DEF Appointment
<1> QED
  BY <1>1 DEF Insert, TypeOK

LEMMA UpdateType ==
  ASSUME TypeOK, NEW i \in Id, Exists(i), NEW d \in Appointment,
         NEW unseen \in BOOLEAN, Update(i, d, unseen)
  PROVE  /\ appt' \in [Id -> Appointment \cup {None}]
         /\ fresh' \subseteq {j \in Id : appt'[j] = None}
         /\ told' \in [Id -> SUBSET Kind]
  BY DEF Update, TypeOK, Exists

LEMMA TypeStep == TypeOK /\ [Next]_vars => TypeOK'
<1> SUFFICES ASSUME TypeOK, [Next]_vars PROVE TypeOK'
  OBVIOUS
<1>D. \A i \in Id : Exists(i) => appt[i] \in Appointment
  BY DEF Exists, TypeOK
<1>1. ASSUME NEW r \in Req, NEW c \in Customer, NEW at \in At, FindActive(r, c, at)
      PROVE  TypeOK'
  <2>1. PICK old \in IF Replaceable(c) = {} THEN {None} ELSE Replaceable(c) :
          req' = [req EXCEPT ![r] =
                    [c |-> c, at |-> at, old |-> old,
                     seen |-> IF old = None THEN at ELSE appt[old].at]]
    BY <1>1 DEF FindActive
  <2>2. old = None \/ (old \in Id /\ Exists(old))
    BY DEF Replaceable, Active, Confirmed
  <2>3. [c |-> c, at |-> at, old |-> old,
         seen |-> IF old = None THEN at ELSE appt[old].at] \in Booking
    BY <2>2, <1>D DEF Booking, Appointment
  <2> QED
    BY <1>1, <2>1, <2>3 DEF FindActive, TypeOK
<1>2. ASSUME NEW r \in Req, Replace(r) PROVE TypeOK'
  <2>1. req[r] \in Booking /\ req[r].old \in Id
    BY <1>2 DEF Replace, TypeOK, Booking
  <2> DEFINE i == req[r].old
             d == [appt[i] EXCEPT !.at = req[r].at, !.status = "confirmed",
                                  !.sent = Reset(req[r].seen, req[r].at, @)]
  <2>2. ASSUME Exists(i) PROVE d \in Appointment
    <3>1. appt[i] \in Appointment /\ req[r].at \in At
      BY <2>1, <2>2, <1>D DEF Booking
    <3>2. Reset(req[r].seen, req[r].at, appt[i].sent) \in SUBSET Kind
      BY <3>1 DEF Reset, Appointment
    <3> QED
      BY <3>1, <3>2 DEF Appointment, Status
  <2>3. Exists(i) => Update(i, d, req[r].seen # appt[i].at)
    BY <1>2 DEF Replace
  <2>4. ~Exists(i) => UNCHANGED <<appt, fresh, told>>
    BY <1>2 DEF Replace
  <2>5. /\ appt' \in [Id -> Appointment \cup {None}]
        /\ fresh' \subseteq {j \in Id : appt'[j] = None}
        /\ told' \in [Id -> SUBSET Kind]
    <3>1. CASE Exists(i)
      <4> HIDE DEF d
      <4> QED
        BY <3>1, <2>1, <2>2, <2>3, UpdateType
    <3>2. CASE ~Exists(i)
      BY <3>2, <2>4 DEF TypeOK
    <3> QED
      BY <3>1, <3>2
  <2> QED
    BY <1>2, <2>5 DEF Replace, TypeOK
<1>3. ASSUME NEW r \in Req, Create(r) PROVE TypeOK'
  <2>1. req[r] \in Booking
    BY <1>3 DEF Create, TypeOK
  <2>2. PICK i \in Id : Insert(i, req[r].c, req[r].at, "confirmed")
    BY <1>3 DEF Create
  <2> QED
    BY <1>3, <2>1, <2>2, InsertType DEF Create, TypeOK, Booking, Status
<1>4. ASSUME NEW r \in Req, Lose(r) PROVE TypeOK'
  BY <1>4 DEF Lose, TypeOK
<1>5. ASSUME NEW j \in Job, NEW i \in Id, NEW k \in Kind, Remind(j, i, k)
      PROVE  TypeOK'
  BY <1>5 DEF Remind, TypeOK, Reminder
<1>6. ASSUME NEW j \in Job, MarkReminderSent(j) PROVE TypeOK'
  <2>1. job[j] \in Reminder
    BY <1>6 DEF MarkReminderSent, TypeOK
  <2>2. Exists(job[j].i) =>
          [appt[job[j].i] EXCEPT !.sent = @ \cup {job[j].k}] \in Appointment
    BY <2>1, <1>D DEF Reminder, Appointment
  <2>3. CASE Exists(job[j].i)
    BY <1>6, <2>1, <2>2, <2>3 DEF MarkReminderSent, TypeOK, Exists, Reminder
  <2>4. CASE ~Exists(job[j].i)
    BY <1>6, <2>4 DEF MarkReminderSent, TypeOK
  <2> QED
    BY <2>3, <2>4
<1>7. ASSUME NEW j \in Job, LoseMark(j) PROVE TypeOK'
  BY <1>7 DEF LoseMark, TypeOK
<1>8. ASSUME NEW i \in Id, CancelAppointment(i) PROVE TypeOK'
  <2>1. [appt[i] EXCEPT !.status = "cancelled"] \in Appointment
    BY <1>8, <1>D DEF CancelAppointment, Appointment, Status
  <2> QED
    BY <1>8, <2>1 DEF CancelAppointment, TypeOK, Exists
<1>9. ASSUME NEW i \in Id, NEW at \in At, UpdateAppointment(i, at) PROVE TypeOK'
  <2>1. Moved(appt[i], at) \in Appointment
    BY <1>9, <1>D DEF UpdateAppointment, Moved, Appointment
  <2> QED
    BY <1>9, <2>1, UpdateType DEF UpdateAppointment, TypeOK
<1>10. ASSUME NEW i \in Id, NEW at \in At, NEW s \in Status, PanelUpdate(i, at, s)
       PROVE  TypeOK'
  <2>1. [appt[i] EXCEPT !.at = at, !.status = s] \in Appointment
    BY <1>10, <1>D DEF PanelUpdate, Appointment
  <2> QED
    BY <1>10, <2>1, UpdateType DEF PanelUpdate, TypeOK
<1>11. ASSUME NEW i \in Id, PanelRemove(i) PROVE TypeOK'
  BY <1>11 DEF PanelRemove, TypeOK
<1>12. ASSUME NEW c \in Customer, NEW at \in At, NEW s \in Status,
              PanelCreate(c, at, s)
       PROVE  TypeOK'
  BY <1>12, InsertType DEF PanelCreate, TypeOK
<1>13. CASE UNCHANGED vars
  BY <1>13 DEF vars, TypeOK
<1> QED
  BY <1>1, <1>2, <1>3, <1>4, <1>5, <1>6, <1>7, <1>8, <1>9, <1>10, <1>11, <1>12,
     <1>13 DEF Next

\* Every variable keeps its type, and an id is used for one appointment only.
THEOREM AppointmentTypes == Spec => []TypeOK
  BY TypeInit, TypeStep, PTL DEF Spec

-----------------------------------------------------------------------------
(***************************************************************************)
(* One active appointment per booking in flight.  A booking that found an  *)
(* appointment may confirm it again, and one that found none may create    *)
(* one: both count with what is active.                                    *)
(***************************************************************************)
Sought(c) ==
  {i \in Id : Exists(i) /\ \E r \in Req : /\ req[r] # None /\ req[r].c = c
                                          /\ req[r].old = i}

Held(c) == (Active(c) \cup Sought(c)) \ manual

Creating(c) == {r \in Req : req[r] # None /\ req[r].c = c /\ req[r].old = None}

\* What a booking found is of its customer, and no new id.
SoughtInv ==
  \A r \in Req :
    req[r] # None /\ req[r].old # None =>
      /\ req[r].old \notin fresh
      /\ Exists(req[r].old) => appt[req[r].old].customer = req[r].c

SlotsInv ==
  \A c \in Customer :
    Cardinality(Held(c)) + Cardinality(Creating(c)) <= Cardinality(Req)

LEMMA HeldFinite ==
  ASSUME NEW c \in Customer
  PROVE  /\ IsFiniteSet(Held(c)) /\ Cardinality(Held(c)) \in Nat
         /\ IsFiniteSet(Creating(c)) /\ Cardinality(Creating(c)) \in Nat
<1>1. Held(c) \in SUBSET Id /\ Creating(c) \in SUBSET Req
  BY DEF Held, Active, Sought, Creating
<1> QED
  BY <1>1, AppointmentsAssumption, FS_Subset, FS_CardinalityType

LEMMA SlotsEnough == SlotsInv => ActiveBounded
<1> SUFFICES ASSUME SlotsInv, NEW c \in Customer
             PROVE  Cardinality(Active(c) \ manual) <= Cardinality(Req)
  BY DEF ActiveBounded
<1>1. Active(c) \ manual \in SUBSET Held(c)
  BY DEF Held
<1>2. /\ Cardinality(Active(c) \ manual) <= Cardinality(Held(c))
      /\ Cardinality(Active(c) \ manual) \in Nat
  BY <1>1, HeldFinite, FS_Subset, FS_CardinalityType
<1>3. Cardinality(Req) \in Nat
  BY AppointmentsAssumption, FS_CardinalityType
<1> QED
  BY <1>2, <1>3, HeldFinite DEF SlotsInv

LEMMA SlotsInit == Init => SoughtInv /\ SlotsInv
<1> SUFFICES ASSUME Init PROVE SoughtInv /\ SlotsInv
  OBVIOUS
<1>1. SoughtInv
  BY DEF Init, SoughtInv
<1>2. ASSUME NEW c \in Customer PROVE Held(c) = {} /\ Creating(c) = {}
  BY DEF Init, Held, Active, Sought, Creating, Confirmed, Exists
<1>3. Cardinality(Req) \in Nat
  BY AppointmentsAssumption, FS_CardinalityType
<1>4. SlotsInv
  BY <1>2, <1>3, FS_EmptySet DEF SlotsInv
<1> QED
  BY <1>1, <1>4

\* No step but these gives a customer anything to count.
LEMMA OtherSteps ==
  ASSUME TypeOK, SoughtInv, [Next]_vars
  PROVE  \/ \A c \in Customer : Held(c)' \subseteq Held(c) /\ Creating(c)' \subseteq Creating(c)
         \/ \E r \in Req : Create(r)
         \/ \E r \in Req, c \in Customer, at \in At : FindActive(r, c, at)
<1> DEFINE Calm ==
      \A c \in Customer : Held(c)' \subseteq Held(c) /\ Creating(c)' \subseteq Creating(c)
<1> USE NoneApart DEF Held, Active, Sought, Creating, Confirmed, Exists
<1>1. ASSUME NEW r \in Req, Replace(r) PROVE Calm
  <2>1. req' = [req EXCEPT ![r] = None] /\ manual' = manual
    BY <1>1 DEF Replace
  <2>2. \A x \in Req : req'[x] # None => req'[x] = req[x] /\ req[x] # None
    BY <2>1 DEF TypeOK
  <2> DEFINE i == req[r].old
  <2>3. \A j \in Id : appt'[j] # None => appt[j] # None
    BY <1>1 DEF Replace, Update, TypeOK
  <2>4. \A j \in Id \ {i} : appt'[j] = appt[j]
    BY <1>1 DEF Replace, Update, TypeOK
  <2>5. i \in Id
    BY <1>1 DEF Replace, TypeOK, Booking
  <2>6. ASSUME appt[i] # None
        PROVE  appt'[i].customer = appt[i].customer /\ appt[i].customer = req[r].c
    <3>1. appt[i] \in Appointment
      BY <2>5, <2>6 DEF TypeOK
    <3> DEFINE d == [appt[i] EXCEPT !.at = req[r].at, !.status = "confirmed",
                                    !.sent = Reset(req[r].seen, req[r].at, @)]
    <3>a. appt' = [appt EXCEPT ![i] = d]
      BY <1>1, <2>6 DEF Replace, Update
    <3>b. d.customer = appt[i].customer
      BY <3>1 DEF Appointment
    <3>2. appt'[i].customer = appt[i].customer
      <4> HIDE DEF d
      <4> QED
        BY <2>5, <3>a, <3>b DEF TypeOK
    <3>3. appt[i].customer = req[r].c
      BY <1>1, <2>6 DEF Replace, SoughtInv
    <3> QED
      BY <3>2, <3>3
  <2>7. req[r] # None /\ i # None
    BY <1>1 DEF Replace
  <2>8. ASSUME NEW c \in Customer PROVE Creating(c)' \subseteq Creating(c)
    BY <2>2
  <2>9. ASSUME NEW c \in Customer, NEW j \in Held(c)' PROVE j \in Held(c)
    <3>1. j \in Id /\ j \notin manual /\ appt'[j] # None
      BY <2>1, <2>9
    <3>2. CASE j = i
      BY <2>2, <2>3, <2>5, <2>6, <2>7, <2>9, <3>1, <3>2
    <3>3. CASE j # i
      BY <2>2, <2>4, <2>9, <3>1, <3>3
    <3> QED
      BY <3>2, <3>3
  <2> QED
    BY <2>8, <2>9
<1>2. ASSUME NEW r \in Req, Lose(r) PROVE Calm
  <2>1. UNCHANGED <<appt, manual>>
    BY <1>2 DEF Lose
  <2>2. \A x \in Req : req'[x] # None => req'[x] = req[x]
    BY <1>2 DEF Lose, TypeOK
  <2> QED
    BY <2>1, <2>2
<1>3. ASSUME UNCHANGED <<appt, req, manual>> PROVE Calm
  BY <1>3
<1>4. ASSUME NEW i \in Id, UNCHANGED <<req, manual>>, appt[i] # None,
             \/ appt'[i].customer = appt[i].customer /\ appt'[i].status = appt[i].status
             \/ appt'[i].status # "confirmed",
             \A j \in Id \ {i} : appt'[j] = appt[j]
      PROVE  Calm
  <2>1. ASSUME NEW c \in Customer, NEW j \in Held(c)' PROVE j \in Held(c)
    BY <1>4, <2>1
  <2> QED
    BY <1>4, <2>1
<1>5. ASSUME NEW j \in Job, MarkReminderSent(j) PROVE Calm
  <2>1. job[j].i \in Id
    BY <1>5 DEF MarkReminderSent, TypeOK, Reminder
  <2>2. CASE appt[job[j].i] # None
    BY <1>4, <1>5, <2>1, <2>2 DEF MarkReminderSent, TypeOK, Appointment
  <2>3. CASE appt[job[j].i] = None
    BY <1>3, <1>5, <2>3 DEF MarkReminderSent
  <2> QED
    BY <2>2, <2>3
<1>6. ASSUME NEW i \in Id, CancelAppointment(i) PROVE Calm
  BY <1>4, <1>6 DEF CancelAppointment, TypeOK, Appointment
<1>7. ASSUME NEW i \in Id, NEW at \in At, UpdateAppointment(i, at) PROVE Calm
  BY <1>4, <1>7 DEF UpdateAppointment, Update, Moved, TypeOK, Appointment
<1>8. ASSUME NEW i \in Id, NEW at \in At, NEW s \in Status, PanelUpdate(i, at, s)
      PROVE  Calm
  <2>1. /\ appt[i] # None /\ req' = req /\ manual \subseteq manual'
        /\ \A j \in Id \ {i} : appt'[j] = appt[j]
        /\ appt'[i].customer = appt[i].customer /\ appt'[i].status = s
    BY <1>8 DEF PanelUpdate, Update, TypeOK, Appointment
  <2>2. s = "confirmed" /\ appt[i].status # "confirmed" => i \in manual'
    BY <1>8 DEF PanelUpdate
  <2>3. ASSUME NEW c \in Customer, NEW j \in Held(c)' PROVE j \in Held(c)
    BY <2>1, <2>2, <2>3
  <2> QED
    BY <2>1, <2>3
<1>9. ASSUME NEW i \in Id, PanelRemove(i) PROVE Calm
  <2>1. req' = req /\ manual' = manual \ {i} /\ appt'[i] = None
    BY <1>9 DEF PanelRemove, TypeOK
  <2>2. \A j \in Id \ {i} : appt'[j] = appt[j]
    BY <1>9 DEF PanelRemove, TypeOK
  <2>3. ASSUME NEW c \in Customer, NEW j \in Held(c)' PROVE j \in Held(c)
    BY <2>1, <2>2, <2>3
  <2> QED
    BY <2>1, <2>3
<1>10. ASSUME NEW c \in Customer, NEW at \in At, NEW s \in Status, PanelCreate(c, at, s)
       PROVE  Calm
  <2>1. PICK i \in Id : Insert(i, c, at, s) /\ manual' = manual \cup {i}
    BY <1>10 DEF PanelCreate
  <2>2. req' = req /\ \A j \in Id \ {i} : appt'[j] = appt[j]
    BY <1>10, <2>1 DEF PanelCreate, Insert, TypeOK
  <2>3. ASSUME NEW d \in Customer, NEW j \in Held(d)' PROVE j \in Held(d)
    BY <2>1, <2>2, <2>3
  <2> QED
    BY <2>2, <2>3
<1>11. ASSUME NEW j \in Job, LoseMark(j) \/ \E i \in Id, k \in Kind : Remind(j, i, k)
       PROVE  Calm
  BY <1>3, <1>11 DEF LoseMark, Remind
<1>12. CASE UNCHANGED vars
  BY <1>3, <1>12 DEF vars
<1> HIDE DEF Calm, Held, Active, Sought, Creating, Confirmed, Exists
<1> QED
  BY <1>1, <1>2, <1>5, <1>6, <1>7, <1>8, <1>9, <1>10, <1>11, <1>12 DEF Next, Calm

\* A booking that creates turns its slot into an appointment.
LEMMA CreateSlots ==
  ASSUME TypeOK, SoughtInv, SlotsInv, NEW r \in Req, Create(r)
  PROVE  SlotsInv'
<1>1. PICK i \in Id : Insert(i, req[r].c, req[r].at, "confirmed")
  BY DEF Create
<1>2. /\ req' = [req EXCEPT ![r] = None] /\ manual' = manual
      /\ req[r] # None /\ req[r].old = None /\ i \in fresh
      /\ appt' = [appt EXCEPT ![i] = [customer |-> req[r].c, at |-> req[r].at,
                                      status |-> "confirmed", sent |-> {}]]
  BY <1>1 DEF Create, Insert
<1>3. /\ \A j \in Id \ {i} : appt'[j] = appt[j]
      /\ appt'[i].customer = req[r].c
      /\ \A x \in Req \ {r} : req'[x] = req[x]
      /\ req'[r] = None
  BY <1>2 DEF TypeOK
<1>4. \A x \in Req : req[x] # None => req[x].old # i
  BY <1>2, NoneApart DEF SoughtInv
<1> SUFFICES ASSUME NEW c \in Customer
             PROVE  Cardinality(Held(c)') + Cardinality(Creating(c)') <= Cardinality(Req)
  BY DEF SlotsInv
<1>5. Cardinality(Held(c)) + Cardinality(Creating(c)) <= Cardinality(Req)
  BY DEF SlotsInv
<1>6. Cardinality(Req) \in Nat
  BY AppointmentsAssumption, FS_CardinalityType
<1>7. CASE c = req[r].c
  <2>1. Creating(c)' = Creating(c) \ {r} /\ r \in Creating(c)
    BY <1>2, <1>3, <1>7 DEF Creating
  <2>2. Held(c)' \in SUBSET (Held(c) \cup {i})
    BY <1>2, <1>3 DEF Held, Active, Sought, Confirmed, Exists
  <2>3. Cardinality(Creating(c)') = Cardinality(Creating(c)) - 1
    BY <2>1, HeldFinite, FS_RemoveElement
  <2>4. /\ IsFiniteSet(Held(c) \cup {i})
        /\ Cardinality(Held(c) \cup {i}) <= Cardinality(Held(c)) + 1
    <3>1. /\ IsFiniteSet(Held(c) \cup {i})
          /\ Cardinality(Held(c) \cup {i}) =
               IF i \in Held(c) THEN Cardinality(Held(c)) ELSE Cardinality(Held(c)) + 1
      BY HeldFinite, FS_AddElement
    <3> QED
      BY <3>1, HeldFinite
  <2>5. /\ Cardinality(Held(c)') <= Cardinality(Held(c) \cup {i})
        /\ Cardinality(Held(c)') \in Nat /\ Cardinality(Held(c) \cup {i}) \in Nat
    BY <2>2, <2>4, FS_Subset, FS_CardinalityType
  <2> QED
    BY <2>3, <2>4, <2>5, <1>5, <1>6, HeldFinite
<1>8. CASE c # req[r].c
  <2>1. Creating(c)' = Creating(c)
    BY <1>2, <1>3, <1>8 DEF Creating
  <2>2. Held(c)' = Held(c)
    <3>1. i \notin Active(c)' /\ i \notin Sought(c)'
      BY <1>3, <1>4, <1>8 DEF Active, Sought
    <3>2. i \notin Held(c)
      BY <1>2 DEF Held, Active, Sought, Confirmed, Exists, TypeOK
    <3>3. \A j \in Id \ {i} : (j \in Active(c)' <=> j \in Active(c))
                              /\ (j \in Sought(c)' <=> j \in Sought(c))
      BY <1>2, <1>3, <1>8 DEF Active, Sought, Confirmed, Exists
    <3>4. Held(c)' \subseteq Id /\ Held(c) \subseteq Id
      BY DEF Held, Active, Sought
    <3> QED
      BY <1>2, <3>1, <3>2, <3>3, <3>4 DEF Held
  <2> QED
    BY <2>1, <2>2, <1>5
<1> QED
  BY <1>7, <1>8

\* A booking that finds nothing active: what is held is what others found.
LEMMA FindSlots ==
  ASSUME TypeOK, SlotsInv, NEW r \in Req, NEW c \in Customer, NEW at \in At,
         FindActive(r, c, at)
  PROVE  SlotsInv'
<1>1. PICK old \in IF Replaceable(c) = {} THEN {None} ELSE Replaceable(c) :
        req' = [req EXCEPT ![r] =
                  [c |-> c, at |-> at, old |-> old,
                   seen |-> IF old = None THEN at ELSE appt[old].at]]
  BY DEF FindActive
<1>2. /\ UNCHANGED <<appt, manual>> /\ req[r] = None
      /\ \A x \in Req \ {r} : req'[x] = req[x]
  BY <1>1 DEF FindActive, TypeOK
<1>3. req'[r].c = c /\ req'[r].old = old
  BY <1>1 DEF TypeOK
<1>4. Cardinality(Req) \in Nat
  BY AppointmentsAssumption, FS_CardinalityType
<1> SUFFICES ASSUME NEW d \in Customer
             PROVE  Cardinality(Held(d)') + Cardinality(Creating(d)') <= Cardinality(Req)
  BY DEF SlotsInv
<1>5. CASE d # c \/ old # None
  <2>1. Creating(d)' \subseteq Creating(d)
    BY <1>2, <1>3, <1>5 DEF Creating
  <2>2. Active(d)' = Active(d) /\ (d = c => old = None \/ old \in Active(d))
    BY <1>1, <1>2 DEF Active, Confirmed, Exists, Replaceable
  <2>3. Held(d)' \subseteq Held(d)
    <3>1. ASSUME NEW i \in Sought(d)' PROVE i \in Active(d) \cup Sought(d)
      BY <1>2, <1>3, <1>5, <2>2, <3>1 DEF Sought, Exists
    <3> QED
      BY <1>2, <2>2, <3>1 DEF Held
  <2>4. /\ Cardinality(Held(d)') <= Cardinality(Held(d)) /\ Cardinality(Held(d)') \in Nat
        /\ Cardinality(Creating(d)') <= Cardinality(Creating(d))
        /\ Cardinality(Creating(d)') \in Nat
    BY <2>1, <2>3, HeldFinite, FS_Subset, FS_CardinalityType
  <2> QED
    BY <2>4, <1>4, HeldFinite DEF SlotsInv
<1>6. CASE d = c /\ old = None
  <2> DEFINE Finders == {x \in Req : req'[x] # None /\ req'[x].c = c
                                     /\ req'[x].old # None}
             found == [x \in Finders |-> req'[x].old]
             Targets == {found[x] : x \in Finders}
  <2>1. Active(c) = {}
    BY <1>1, <1>6, NoneApart DEF Replaceable, Active
  <2>2. Held(c)' \in SUBSET Targets
    <3>1. Active(c)' = {}
      BY <1>2, <2>1 DEF Active, Confirmed, Exists
    <3>2. ASSUME NEW i \in Sought(c)' PROVE i \in Targets
      <4>1. PICK x \in Req : req'[x] # None /\ req'[x].c = c /\ req'[x].old = i
        BY <3>2 DEF Sought
      <4>2. i # None
        BY <3>2, NoneApart DEF Sought
      <4>3. x \in Finders /\ found[x] = i
        BY <4>1, <4>2
      <4> QED
        BY <4>3
    <3> QED
      BY <3>1, <3>2 DEF Held
  <2>3. Finders \in SUBSET Req /\ IsFiniteSet(Finders) /\ Cardinality(Finders) \in Nat
    BY AppointmentsAssumption, FS_Subset, FS_CardinalityType
  <2>4. found \in Surjection(Finders, Targets)
    BY DEF Surjection
  <2>5. IsFiniteSet(Targets) /\ Cardinality(Targets) <= Cardinality(Finders)
    <3> HIDE DEF found, Targets, Finders
    <3> QED
      BY <2>3, <2>4, FS_Surjection
  <2>6. /\ Cardinality(Held(c)') <= Cardinality(Targets)
        /\ Cardinality(Held(c)') \in Nat /\ Cardinality(Targets) \in Nat
    <3> HIDE DEF Targets
    <3> QED
      BY <2>2, <2>5, FS_Subset, FS_CardinalityType
  <2>7. Creating(c)' \in SUBSET Req /\ Creating(c)' \cap Finders = {}
    BY DEF Creating
  <2>8. /\ IsFiniteSet(Creating(c)') /\ Cardinality(Creating(c)') \in Nat
        /\ Cardinality(Creating(c)' \cup Finders)
             = Cardinality(Creating(c)') + Cardinality(Finders)
    <3>1. IsFiniteSet(Creating(c)') /\ Cardinality(Creating(c)') \in Nat
      BY <2>7, AppointmentsAssumption, FS_Subset, FS_CardinalityType
    <3> HIDE DEF Finders
    <3> QED
      BY <3>1, <2>3, <2>7, FS_Union, FS_EmptySet
  <2>9. Cardinality(Creating(c)' \cup Finders) <= Cardinality(Req)
    BY <2>3, <2>7, AppointmentsAssumption, FS_Subset
  <2> HIDE DEF Finders, Targets, found
  <2> QED
    BY <1>4, <1>6, <2>3, <2>5, <2>6, <2>8, <2>9
<1> QED
  BY <1>5, <1>6

\* An id in use stays in use, and of its customer.
Stays(i) ==
  /\ i \notin fresh'
  /\ appt'[i] # None => appt[i] # None /\ appt'[i].customer = appt[i].customer

LEMMA UsedIds ==
  ASSUME TypeOK, [Next]_vars, NEW i \in Id, i \notin fresh
  PROVE  Stays(i)
<1> USE NoneApart DEF Exists, Stays
<1>D. appt[i] # None => appt[i] \in Appointment
  BY DEF TypeOK
<1>1. ASSUME UNCHANGED <<appt, fresh>> PROVE Stays(i)
  BY <1>1
<1>2. ASSUME NEW j \in Id, NEW c \in Customer, NEW at \in At, NEW s \in Status,
             Insert(j, c, at, s) PROVE Stays(i)
  BY <1>2 DEF Insert, TypeOK
<1>3. ASSUME NEW j \in Id, NEW d, fresh' = fresh, appt' = [appt EXCEPT ![j] = d],
             d = None \/ (appt[j] # None /\ d.customer = appt[j].customer) PROVE Stays(i)
  BY <1>3 DEF TypeOK
<1>4. ASSUME NEW r \in Req, Replace(r) PROVE Stays(i)
  <2> DEFINE k == req[r].old
             d == [appt[k] EXCEPT !.at = req[r].at, !.status = "confirmed",
                                  !.sent = Reset(req[r].seen, req[r].at, @)]
  <2>1. k \in Id
    BY <1>4 DEF Replace, TypeOK, Booking
  <2>2. CASE appt[k] # None
    <3>1. fresh' = fresh /\ appt' = [appt EXCEPT ![k] = d]
      BY <1>4, <2>2 DEF Replace, Update
    <3>2. d.customer = appt[k].customer
      BY <2>1, <2>2 DEF TypeOK, Appointment
    <3> HIDE DEF d
    <3> QED
      BY <1>3, <2>1, <2>2, <3>1, <3>2
  <2>3. CASE appt[k] = None
    BY <1>1, <1>4, <2>3 DEF Replace
  <2> QED
    BY <2>2, <2>3
<1>5. ASSUME NEW j \in Job, MarkReminderSent(j) PROVE Stays(i)
  BY <1>5, <1>D DEF MarkReminderSent, TypeOK, Appointment, Reminder
<1>6. ASSUME NEW j \in Id, CancelAppointment(j) PROVE Stays(i)
  BY <1>6, <1>D DEF CancelAppointment, TypeOK, Appointment
<1>7. ASSUME NEW j \in Id, NEW at \in At, UpdateAppointment(j, at) PROVE Stays(i)
  <2>1. Moved(appt[j], at).customer = appt[j].customer /\ appt[j] # None
    BY <1>7 DEF UpdateAppointment, Moved, TypeOK, Appointment
  <2> QED
    BY <1>3, <1>7, <2>1 DEF UpdateAppointment, Update
<1>8. ASSUME NEW j \in Id, NEW at \in At, NEW s \in Status, PanelUpdate(j, at, s) PROVE Stays(i)
  <2> DEFINE d == [appt[j] EXCEPT !.at = at, !.status = s]
  <2>1. d.customer = appt[j].customer /\ appt[j] # None
    BY <1>8 DEF PanelUpdate, TypeOK, Appointment
  <2>2. fresh' = fresh /\ appt' = [appt EXCEPT ![j] = d]
    BY <1>8 DEF PanelUpdate, Update
  <2> HIDE DEF d
  <2> QED
    BY <1>3, <2>1, <2>2
<1>9. ASSUME NEW j \in Id, PanelRemove(j) PROVE Stays(i)
  BY <1>9 DEF PanelRemove, TypeOK
<1>10. ASSUME NEW r \in Req, Create(r) PROVE Stays(i)
  <2>1. req[r] \in Booking
    BY <1>10 DEF Create, TypeOK
  <2> QED
    BY <1>2, <1>10, <2>1 DEF Create, Booking, Status
<1>11. ASSUME NEW c \in Customer, NEW at \in At, NEW s \in Status, PanelCreate(c, at, s) PROVE Stays(i)
  BY <1>2, <1>11 DEF PanelCreate
<1> QED
  BY <1>1, <1>4, <1>5, <1>6, <1>7, <1>8, <1>9, <1>10, <1>11
     DEF Next, vars, Lose, FindActive, Remind, LoseMark

LEMMA SoughtStep == TypeOK /\ SoughtInv /\ [Next]_vars => SoughtInv'
<1> SUFFICES ASSUME TypeOK, SoughtInv, [Next]_vars, NEW r \in Req,
                    req'[r] # None, req'[r].old # None
             PROVE  /\ req'[r].old \notin fresh'
                    /\ appt'[req'[r].old] # None => appt'[req'[r].old].customer = req'[r].c
  BY DEF SoughtInv, Exists
<1>1. CASE req'[r] = req[r]
  <2>1. req[r].old \in Id
    BY <1>1 DEF TypeOK, Booking
  <2>2. /\ req[r].old \notin fresh
        /\ Exists(req[r].old) => appt[req[r].old].customer = req[r].c
    BY <1>1 DEF SoughtInv
  <2> QED
    BY <1>1, <2>1, <2>2, UsedIds DEF Stays, Exists
<1>2. ASSUME NEW c \in Customer, NEW at \in At, FindActive(r, c, at)
      PROVE  /\ req'[r].old \notin fresh'
             /\ appt'[req'[r].old] # None => appt'[req'[r].old].customer = req'[r].c
  <2>1. PICK old \in IF Replaceable(c) = {} THEN {None} ELSE Replaceable(c) :
          req' = [req EXCEPT ![r] =
                    [c |-> c, at |-> at, old |-> old,
                     seen |-> IF old = None THEN at ELSE appt[old].at]]
    BY <1>2 DEF FindActive
  <2>2. req'[r].c = c /\ req'[r].old = old
    BY <2>1 DEF TypeOK
  <2>3. old \in Active(c)
    BY <2>1, <2>2 DEF Replaceable
  <2> QED
    BY <1>2, <2>2, <2>3 DEF FindActive, Active, Confirmed, Exists, TypeOK
<1>3. ASSUME NEW x \in Req, NEW c \in Customer, NEW at \in At, FindActive(x, c, at),
             x # r
      PROVE  req'[r] = req[r]
  BY <1>3 DEF FindActive, TypeOK
<1>4. ASSUME NEW x \in Req, Replace(x) \/ Create(x) \/ Lose(x) PROVE req'[r] = req[r]
  <2>1. req' = [req EXCEPT ![x] = None]
    BY <1>4 DEF Replace, Create, Lose
  <2> QED
    BY <2>1 DEF TypeOK
<1> QED
  BY <1>1, <1>2, <1>3, <1>4
     DEF Next, vars, Remind, MarkReminderSent, LoseMark, CancelAppointment,
         UpdateAppointment, PanelUpdate, PanelRemove, PanelCreate

LEMMA SlotsStep == TypeOK /\ SoughtInv /\ SlotsInv /\ [Next]_vars => SlotsInv'
<1> SUFFICES ASSUME TypeOK, SoughtInv, SlotsInv, [Next]_vars PROVE SlotsInv'
  OBVIOUS
<1>1. ASSUME \A c \in Customer : /\ Held(c)' \subseteq Held(c)
                                 /\ Creating(c)' \subseteq Creating(c)
      PROVE  SlotsInv'
  <2> SUFFICES ASSUME NEW c \in Customer
               PROVE  Cardinality(Held(c)') + Cardinality(Creating(c)') <= Cardinality(Req)
    BY DEF SlotsInv
  <2>1. /\ Cardinality(Held(c)') <= Cardinality(Held(c)) /\ Cardinality(Held(c)') \in Nat
        /\ Cardinality(Creating(c)') <= Cardinality(Creating(c))
        /\ Cardinality(Creating(c)') \in Nat
    BY <1>1, HeldFinite, FS_Subset, FS_CardinalityType
  <2>2. Cardinality(Req) \in Nat
    BY AppointmentsAssumption, FS_CardinalityType
  <2> QED
    BY <2>1, <2>2, HeldFinite DEF SlotsInv
<1> QED
  BY <1>1, OtherSteps, CreateSlots, FindSlots

\* However many bookings run at a time, apart from what the panel confirms a
\* customer has at most as many active appointments as there are bookings in
\* flight; so one, as saveAppointment wants, if n8n books one at a time.
THEOREM ActiveIsBounded == Spec => []ActiveBounded
<1>1. Init => SoughtInv /\ SlotsInv
  BY SlotsInit
<1>2. TypeOK /\ SoughtInv /\ SlotsInv /\ [Next]_vars => SoughtInv' /\ SlotsInv'
  BY SoughtStep, SlotsStep
<1>3. Spec => []TypeOK
  BY AppointmentTypes
<1>4. SlotsInv => ActiveBounded
  BY SlotsEnough
<1> QED
  BY <1>1, <1>2, <1>3, <1>4, PTL DEF Spec

-----------------------------------------------------------------------------
(***************************************************************************)
(* Marks and reminders.  What is on its way was sent for the date that the *)
(* appointment has, or the date came by a blind move.                      *)
(***************************************************************************)
AwaitedInv ==
  \A j \in Job :
    job[j] # None =>
      /\ job[j].i \notin fresh
      /\ Exists(job[j].i) => job[j].k \in told[job[j].i]

MarksInv == AwaitedInv /\ MarkedIsReminded

LEMMA MarksInit == Init => MarksInv
  BY DEF Init, MarksInv, AwaitedInv, MarkedIsReminded, Exists

\* A write that drops marks only, and all of them if it sees the date change.
LEMMA UpdateMarks ==
  ASSUME TypeOK, MarksInv, NEW i \in Id, Exists(i), NEW d \in Appointment,
         NEW unseen \in BOOLEAN, Update(i, d, unseen), job' = job,
         d.sent \subseteq appt[i].sent,
         d.at # appt[i].at => unseen \/ d.sent = {}
  PROVE  MarksInv'
<1> USE NoneApart DEF Exists
<1>1. /\ appt'[i] = d /\ fresh' = fresh
      /\ \A x \in Id \ {i} : appt'[x] = appt[x] /\ told'[x] = told[x]
  BY DEF Update, TypeOK
<1>2. told'[i] = told[i] \/ told'[i] = Kind \/ (d.sent = {} /\ ~Awaited(i))
  BY DEF Update, TypeOK
<1>3. d.sent \subseteq Kind /\ told[i] \subseteq Kind
  BY DEF Appointment, TypeOK
<1>4. d.sent \subseteq told'[i]
  BY <1>2, <1>3 DEF MarksInv, MarkedIsReminded
<1>5. MarkedIsReminded'
  BY <1>1, <1>4 DEF MarksInv, MarkedIsReminded
<1>6. ASSUME NEW j \in Job, job[j] # None
      PROVE  /\ job[j].i \notin fresh
             /\ appt'[job[j].i] # None => job[j].k \in told'[job[j].i]
  <2>1. job[j].i \in Id /\ job[j].k \in Kind
    BY <1>6 DEF TypeOK, Reminder
  <2>2. /\ job[j].i \notin fresh
        /\ appt[job[j].i] # None => job[j].k \in told[job[j].i]
    BY <1>6 DEF MarksInv, AwaitedInv
  <2>3. job[j].i = i => Awaited(i)
    BY <1>6 DEF Awaited
  <2> QED
    BY <1>1, <1>2, <2>1, <2>2, <2>3
<1> QED
  BY <1>1, <1>5, <1>6 DEF MarksInv, AwaitedInv

LEMMA InsertMarks ==
  ASSUME TypeOK, MarksInv, NEW i \in Id, NEW c \in Customer, NEW at \in At,
         NEW s \in Status, Insert(i, c, at, s), job' = job
  PROVE  MarksInv'
<1>1. /\ i \in fresh /\ told' = told /\ fresh' \subseteq fresh
      /\ appt'[i].sent = {} /\ \A x \in Id \ {i} : appt'[x] = appt[x]
  BY DEF Insert, TypeOK
<1>2. \A j \in Job : job[j] # None => job[j].i \in Id
  BY DEF TypeOK, Reminder
<1> QED
  BY <1>1, <1>2 DEF MarksInv, AwaitedInv, MarkedIsReminded, Exists

LEMMA MarksStep == TypeOK /\ MarksInv /\ [Next]_vars => MarksInv'
<1> SUFFICES ASSUME TypeOK, MarksInv, [Next]_vars PROVE MarksInv'
  OBVIOUS
<1>D. \A i \in Id : Exists(i) => appt[i] \in Appointment
  BY DEF Exists, TypeOK
<1>J. \A j \in Job : job[j] # None => job[j].i \in Id /\ job[j].k \in Kind
  BY DEF TypeOK, Reminder
<1>0. ASSUME UNCHANGED <<appt, fresh, told>>,
             \A j \in Job : job'[j] = None \/ job'[j] = job[j]
      PROVE  MarksInv'
  BY <1>0 DEF MarksInv, AwaitedInv, MarkedIsReminded, Exists
<1>1. ASSUME NEW r \in Req, Replace(r) PROVE MarksInv'
  <2> DEFINE i == req[r].old
             d == [appt[i] EXCEPT !.at = req[r].at, !.status = "confirmed",
                                  !.sent = Reset(req[r].seen, req[r].at, @)]
  <2>1. i \in Id /\ req[r].at \in At
    BY <1>1 DEF Replace, TypeOK, Booking
  <2>2. CASE Exists(i)
    <3>1. appt[i] \in Appointment
      BY <2>1, <2>2, <1>D
    <3>2. Reset(req[r].seen, req[r].at, appt[i].sent) \subseteq appt[i].sent
      BY DEF Reset
    <3>3. /\ d \in Appointment /\ d.at = req[r].at
          /\ d.sent = Reset(req[r].seen, req[r].at, appt[i].sent)
      BY <2>1, <3>1, <3>2 DEF Appointment, Status
    <3>4. d.at # appt[i].at => req[r].seen # appt[i].at \/ d.sent = {}
      BY <3>3 DEF Reset
    <3>5. Update(i, d, req[r].seen # appt[i].at) /\ job' = job
      BY <1>1, <2>2 DEF Replace
    <3> HIDE DEF d
    <3> QED
      BY <2>1, <2>2, <3>2, <3>3, <3>4, <3>5, UpdateMarks
  <2>3. CASE ~Exists(i)
    BY <1>0, <1>1, <2>3 DEF Replace
  <2> QED
    BY <2>2, <2>3
<1>2. ASSUME NEW r \in Req, Create(r) PROVE MarksInv'
  <2>1. req[r] \in Booking /\ job' = job
    BY <1>2 DEF Create, TypeOK
  <2> QED
    BY <1>2, <2>1, InsertMarks DEF Create, Booking, Status
<1>3. ASSUME NEW j \in Job, NEW i \in Id, NEW k \in Kind, Remind(j, i, k)
      PROVE  MarksInv'
  <2>1. /\ UNCHANGED <<appt, fresh>> /\ Exists(i) /\ i \notin fresh
        /\ job'[j] = [i |-> i, k |-> k]
        /\ \A x \in Job \ {j} : job'[x] = job[x]
        /\ told'[i] = told[i] \cup {k} /\ \A x \in Id \ {i} : told'[x] = told[x]
    BY <1>3 DEF Remind, Confirmed, Exists, TypeOK
  <2> QED
    BY <2>1, <1>J DEF MarksInv, AwaitedInv, MarkedIsReminded, Exists
<1>4. ASSUME NEW j \in Job, MarkReminderSent(j) PROVE MarksInv'
  <2>1. /\ UNCHANGED <<fresh, told>> /\ job[j] # None
        /\ \A x \in Job : job'[x] = None \/ job'[x] = job[x]
    BY <1>4 DEF MarkReminderSent, TypeOK
  <2>2. CASE Exists(job[j].i)
    <3> DEFINE i == job[j].i
    <3>1. i \in Id /\ appt[i] \in Appointment /\ job[j].k \in told[i]
      BY <2>1, <2>2, <1>D, <1>J DEF MarksInv, AwaitedInv
    <3>2. appt' = [appt EXCEPT ![i] = [appt[i] EXCEPT !.sent = @ \cup {job[j].k}]]
      BY <1>4, <2>2 DEF MarkReminderSent
    <3>3. [appt[i] EXCEPT !.sent = @ \cup {job[j].k}].sent
            = appt[i].sent \cup {job[j].k}
      BY <3>1 DEF Appointment
    <3>4. /\ appt'[i].sent = appt[i].sent \cup {job[j].k}
          /\ \A x \in Id \ {i} : appt'[x] = appt[x]
      BY <3>1, <3>2, <3>3 DEF TypeOK
    <3>5. appt[i].sent \subseteq told[i]
      BY <2>2, <3>1 DEF MarksInv, MarkedIsReminded
    <3>6. MarkedIsReminded'
      BY <2>1, <3>1, <3>4, <3>5 DEF MarksInv, MarkedIsReminded, Exists
    <3>7. AwaitedInv'
      BY <2>1, <2>2, <3>1, <3>4, <1>J DEF MarksInv, AwaitedInv, Exists
    <3> QED
      BY <3>6, <3>7 DEF MarksInv
  <2>3. CASE ~Exists(job[j].i)
    BY <1>0, <1>4, <2>1, <2>3 DEF MarkReminderSent
  <2> QED
    BY <2>2, <2>3
<1>5. ASSUME NEW j \in Job, LoseMark(j) PROVE MarksInv'
  BY <1>0, <1>5 DEF LoseMark, TypeOK
<1>6. ASSUME NEW i \in Id, CancelAppointment(i) PROVE MarksInv'
  <2>1. /\ UNCHANGED <<fresh, told, job>> /\ appt'[i].sent = appt[i].sent
        /\ appt[i] # None /\ \A x \in Id \ {i} : appt'[x] = appt[x]
    BY <1>6, <1>D DEF CancelAppointment, Exists, TypeOK, Appointment
  <2> QED
    BY <2>1, <1>J DEF MarksInv, AwaitedInv, MarkedIsReminded, Exists
<1>7. ASSUME NEW i \in Id, NEW at \in At, UpdateAppointment(i, at) PROVE MarksInv'
  <2>1. appt[i] \in Appointment
    BY <1>7, <1>D DEF UpdateAppointment
  <2>2. Moved(appt[i], at) \in Appointment /\ Moved(appt[i], at).sent = {}
    BY <2>1 DEF Moved, Appointment
  <2> QED
    BY <1>7, <2>2, UpdateMarks DEF UpdateAppointment
<1>8. ASSUME NEW i \in Id, NEW at \in At, NEW s \in Status, PanelUpdate(i, at, s)
      PROVE  MarksInv'
  <2> DEFINE d == [appt[i] EXCEPT !.at = at, !.status = s]
  <2>1. appt[i] \in Appointment
    BY <1>8, <1>D DEF PanelUpdate
  <2>2. d \in Appointment /\ d.sent = appt[i].sent
    BY <2>1 DEF Appointment
  <2>3. Exists(i) /\ Update(i, d, TRUE) /\ job' = job
    BY <1>8 DEF PanelUpdate
  <2> HIDE DEF d
  <2> QED
    BY <2>2, <2>3, UpdateMarks
<1>9. ASSUME NEW i \in Id, PanelRemove(i) PROVE MarksInv'
  <2>1. /\ UNCHANGED <<fresh, job>> /\ appt'[i] = None
        /\ \A x \in Id \ {i} : appt'[x] = appt[x] /\ told'[x] = told[x]
    BY <1>9 DEF PanelRemove, TypeOK
  <2> QED
    BY <2>1, <1>J DEF MarksInv, AwaitedInv, MarkedIsReminded, Exists
<1>10. ASSUME NEW c \in Customer, NEW at \in At, NEW s \in Status, PanelCreate(c, at, s)
       PROVE  MarksInv'
  BY <1>10, InsertMarks DEF PanelCreate
<1>11. ASSUME NEW r \in Req,
              Lose(r) \/ \E c \in Customer, at \in At : FindActive(r, c, at)
       PROVE  MarksInv'
  BY <1>0, <1>11 DEF Lose, FindActive
<1>12. CASE UNCHANGED vars
  BY <1>0, <1>12 DEF vars
<1> QED
  BY <1>1, <1>2, <1>3, <1>4, <1>5, <1>6, <1>7, <1>8, <1>9, <1>10, <1>11, <1>12
     DEF Next

\* However many reminders, bookings and moves run at a time, a mark means that
\* the customer was reminded of the date the appointment has, unless it came
\* to that date by a blind move.
THEOREM MarksAreReminders == Spec => []MarkedIsReminded
<1>1. Spec => []TypeOK
  BY AppointmentTypes
<1>2. Init => MarksInv
  BY MarksInit
<1>3. TypeOK /\ MarksInv /\ [Next]_vars => MarksInv'
  BY MarksStep
<1>4. MarksInv => MarkedIsReminded
  BY DEF MarksInv
<1> QED
  BY <1>1, <1>2, <1>3, <1>4, PTL DEF Spec
=============================================================================
