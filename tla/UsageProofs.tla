----------------------------- MODULE UsageProofs -----------------------------
(***************************************************************************)
(* Proofs about Usage, for any tenants, limits, records in flight and      *)
(* months.                                                                 *)
(***************************************************************************)
EXTENDS Usage, TLAPS, FiniteSetTheorems

\* A tenant moves in its lifecycle and the other variables stay.
PhaseMove(t) ==
  /\ Live(t) \/ phase[t] = "deleted"
  /\ phase' = [phase EXCEPT ![t] = phase'[t]]
  /\ phase'[t] \in {"off", "on", "deleted"}
  /\ UNCHANGED <<limited, used, req, month, job, snapshot, base, spent, cleared>>

LEMMA SwitchMoves ==
  ASSUME phase \in [Tenant -> Lifecycle!TenantPhase], NEW t \in Tenant, Switch(t)
  PROVE  PhaseMove(t)
BY DEF Switch, PhaseMove, Live, Lifecycle!SwitchOn, Lifecycle!SwitchOff,
       Lifecycle!Retire, Lifecycle!Recover, Lifecycle!Move, Lifecycle!TenantPhase

LEMMA PlusUsage ==
  ASSUME NEW a \in Usage, NEW b \in Usage
  PROVE  Plus(a, b) \in Usage
BY DEF Plus, Usage

LEMMA ZeroUsage == Zero \in Usage
BY DEF Zero, Usage

LEMMA AmountUsage == Amount \subseteq Usage
BY UsageAssumption

-----------------------------------------------------------------------------
(***************************************************************************)
(* Types.                                                                  *)
(***************************************************************************)
LEMMA IdleJobType == IdleJob \in Job
BY UsageAssumption DEF IdleJob, Job, Month

LEMMA EndCaptureType ==
  ASSUME job \in [Capture -> Job], NEW j \in Capture, EndCapture(j)
  PROVE  job' \in [Capture -> Job]
<1>1. [IdleJob EXCEPT !.step = NextStep(j)] \in Job
  BY IdleJobType DEF Job, NextStep
<1> QED
  BY <1>1 DEF EndCapture

LEMMA TypeInit == Init => TypeOK
<1> SUFFICES ASSUME Init PROVE TypeOK
  OBVIOUS
<1>1. phase \in [Tenant -> Lifecycle!TenantPhase]
  BY DEF Init, Lifecycle!Init, Lifecycle!TenantPhase
<1>2. 0 \in Month
  BY UsageAssumption DEF Month
<1> QED
  BY <1>1, <1>2, ZeroUsage, IdleJobType DEF Init, TypeOK

LEMMA TypeStep == TypeOK /\ [Next]_vars => TypeOK'
<1> SUFFICES ASSUME TypeOK, [Next]_vars PROVE TypeOK'
  OBVIOUS
<1> USE DEF TypeOK
<1>1. ASSUME NEW r \in Req, NEW t \in Tenant, NEW n \in Amount, Guard(r, t, n)
      PROVE  TypeOK'
  BY <1>1 DEF Guard, tenancy, Record
<1>2. ASSUME NEW r \in Req, RecordUsage(r) PROVE TypeOK'
  <2>1. req[r].t \in Tenant /\ req[r].n \in Usage
    BY <1>2, AmountUsage DEF RecordUsage, Record
  <2>2. Plus(used[req[r].t], req[r].n) \in Usage
    BY <2>1, PlusUsage
  <2>3. Plus(spent[req[r].t][month], req[r].n) \in Usage
    BY <2>1, PlusUsage
  <2>4. req' \in [Req -> Record \cup {None}]
    BY <1>2 DEF RecordUsage
  <2>5. used' \in [Tenant -> Usage]
    BY <1>2, <2>1, <2>2 DEF RecordUsage
  <2>6. spent' \in [Tenant -> [Month -> Usage]]
    <3> DEFINE total == Plus(spent[req[r].t][month], req[r].n)
    <3>1. spent' = spent \/ spent' = [spent EXCEPT ![req[r].t][month] = total]
      BY <1>2 DEF RecordUsage
    <3>2. total \in Usage
      BY <2>3
    <3> HIDE DEF total
    <3>3. \A m \in Month : [spent[req[r].t] EXCEPT ![m] = total]
                            \in [Month -> Usage]
      BY <2>1, <3>2
    <3> QED
      BY <2>1, <3>1, <3>2, <3>3
  <2> QED
    BY <1>2, <2>4, <2>5, <2>6 DEF RecordUsage, tenancy
<1>3. ASSUME NEW r \in Req, Lose(r) PROVE TypeOK'
  BY <1>3 DEF Lose, tenancy
<1>4. CASE NewMonth
  <2>1. month' \in Month
    BY <1>4, UsageAssumption DEF NewMonth, Month
  <2>2. job' \in [Capture -> Job]
    BY <1>4 DEF NewMonth, Job, Capture
  <2> QED
    BY <1>4, <2>1, <2>2 DEF NewMonth, tenancy
<1>5. CASE ManualCapture
  <2>1. job' \in [Capture -> Job]
    BY <1>5 DEF ManualCapture, Job, Capture
  <2> QED
    BY <1>5, <2>1 DEF ManualCapture, tenancy
<1>6. ASSUME NEW j \in Capture, Read(j) PROVE TypeOK'
  <2>1. job' \in [Capture -> Job]
    BY <1>6 DEF Read, Job, Period
  <2> QED
    BY <1>6, <2>1 DEF Read, tenancy
<1>7. ASSUME NEW j \in Capture, Write(j) PROVE TypeOK'
  <2>1. job' \in [Capture -> Job]
    BY <1>7, EndCaptureType DEF Write
  <2>2. job[j].period \in Month /\ job[j].seen \in [Tenant -> Usage \cup {None}]
    BY DEF Job
  <2>3. snapshot' \in [Tenant -> [Month -> Usage \cup {None}]]
    BY <1>7, <2>2 DEF Write
  <2> QED
    BY <1>7, <2>1, <2>3 DEF Write, tenancy
<1>8. ASSUME NEW j \in Capture, CaptureFails(j) PROVE TypeOK'
  <2>1. job' \in [Capture -> Job]
    BY <1>8, EndCaptureType DEF CaptureFails
  <2> QED
    BY <1>8, <2>1 DEF CaptureFails, tenancy
<1>9. CASE Reset
  BY <1>9, ZeroUsage, IdleJobType DEF Reset, Clear, tenancy
<1>10. CASE ResetFails
  BY <1>10, IdleJobType DEF ResetFails, tenancy
<1>11. ASSUME NEW t \in Tenant, NEW b \in BOOLEAN, Register(t, b) PROVE TypeOK'
  BY <1>11 DEF Register, Lifecycle!Register, Lifecycle!Move, Lifecycle!TenantPhase
<1>12. ASSUME NEW t \in Tenant, Switch(t) PROVE TypeOK'
  BY <1>12, SwitchMoves DEF PhaseMove, Lifecycle!TenantPhase
<1>13. ASSUME NEW t \in Tenant, Erase(t) PROVE TypeOK'
  BY <1>13, ZeroUsage DEF Erase, Lifecycle!Erase, Lifecycle!Move, Lifecycle!TenantPhase
<1>14. ASSUME NEW t \in Tenant, ChangePlan(t) PROVE TypeOK'
  BY <1>14 DEF ChangePlan
<1>15. CASE UNCHANGED vars
  BY <1>15 DEF vars
<1> QED
  BY <1>1, <1>2, <1>3, <1>4, <1>5, <1>6, <1>7, <1>8, <1>9, <1>10, <1>11,
     <1>12, <1>13, <1>14, <1>15 DEF Next

\* Every variable of the monthly limits keeps its type.
THEOREM UsageTypes == Spec => []TypeOK
<1> QED
  BY TypeInit, TypeStep, PTL DEF Spec

-----------------------------------------------------------------------------
(***************************************************************************)
(* The limits.  Invariant: what a limited tenant used and what its records *)
(* in flight may still add stay below the bound.  It holds because every   *)
(* record was under the limit when the guard let it pass, so the last one  *)
(* to pass saw less than the limit, and there are no more than Req.        *)
(***************************************************************************)
InFlight(t) == {r \in Req : req[r] # None /\ req[r].t = t}

Bound(t, k) == Larger(base[t][k], MaxUsage[k] - 1)
                 + Largest[k] * Cardinality(Req)

Held(t, k) ==
  used[t][k] + Largest[k] * Cardinality(InFlight(t)) <= Bound(t, k)

OvershootInv ==
  /\ \A t \in Tenant, k \in Kind : limited[t] => Held(t, k)
  /\ \A t \in Tenant : ~Exists(t) => used[t] = Zero

LEMMA TimesMonotone ==
  ASSUME NEW l \in Nat, NEW a \in Nat, NEW b \in Nat, a <= b
  PROVE  l * a \in Nat /\ l * b \in Nat /\ l * a <= l * b
OBVIOUS

LEMMA TimesOneMore ==
  ASSUME NEW l \in Nat, NEW a \in Nat
  PROVE  l * (a + 1) = l * a + l
OBVIOUS

LEMMA SlotsFinite ==
  ASSUME NEW S \in SUBSET Req
  PROVE  /\ IsFiniteSet(S)
         /\ Cardinality(S) \in Nat
         /\ Cardinality(Req) \in Nat
         /\ Cardinality(S) <= Cardinality(Req)
BY UsageAssumption, FS_Subset, FS_CardinalityType

LEMMA LargerNat ==
  ASSUME NEW a \in Nat, NEW b \in Nat
  PROVE  /\ Larger(a, b) \in Nat
         /\ a <= Larger(a, b)
         /\ b <= Larger(a, b)
BY DEF Larger

LEMMA BoundNat ==
  ASSUME NEW b \in Nat, NEW k \in Kind
  PROVE  Larger(b, MaxUsage[k] - 1) + Largest[k] * Cardinality(Req) \in Nat
<1>1. MaxUsage[k] \in Nat \ {0} /\ Largest[k] \in Nat
  BY UsageAssumption DEF Usage
<1>2. Larger(b, MaxUsage[k] - 1) \in Nat
  <2>1. MaxUsage[k] - 1 \in Nat
    BY <1>1
  <2> QED
    BY <2>1, LargerNat
<1>3. Largest[k] * Cardinality(Req) \in Nat
  BY <1>1, SlotsFinite, TimesMonotone, Cardinality(Req) <= Cardinality(Req)
<1> QED
  BY <1>2, <1>3

\* Low usage is within the bound whatever is in flight.
LEMMA LowWithin ==
  ASSUME NEW u \in Nat, NEW b \in Nat, NEW k \in Kind, NEW S \in SUBSET Req,
         u <= b \/ u < MaxUsage[k]
  PROVE  u + Largest[k] * Cardinality(S)
           <= Larger(b, MaxUsage[k] - 1) + Largest[k] * Cardinality(Req)
<1>1. Largest[k] \in Nat /\ MaxUsage[k] \in Nat \ {0}
  BY UsageAssumption DEF Usage
<1>2. u <= Larger(b, MaxUsage[k] - 1) /\ Larger(b, MaxUsage[k] - 1) \in Nat
  <2> DEFINE m == MaxUsage[k] - 1
             x == Larger(b, m)
  <2>1. m \in Nat /\ (u <= b \/ u <= m)
    BY <1>1
  <2> HIDE DEF m
  <2>2. x \in Nat /\ b <= x /\ m <= x
    BY <2>1, LargerNat
  <2> HIDE DEF x
  <2>3. u <= x
    BY <2>1, <2>2
  <2> QED
    BY <2>2, <2>3 DEF x, m
<1>3. /\ Largest[k] * Cardinality(S) \in Nat
      /\ Largest[k] * Cardinality(Req) \in Nat
      /\ Largest[k] * Cardinality(S) <= Largest[k] * Cardinality(Req)
  BY <1>1, SlotsFinite, TimesMonotone
<1> QED
  BY <1>2, <1>3

\* A record that is written or lost leaves the bound's right side alone.
LEMMA FewerWithin ==
  ASSUME NEW u \in Nat, NEW n \in Nat, NEW k \in Kind, NEW x \in Nat,
         NEW S \in SUBSET Req, NEW r \in S, n <= Largest[k],
         u + Largest[k] * Cardinality(S) <= x
  PROVE  u + n + Largest[k] * Cardinality(S \ {r}) <= x
<1>1. /\ Cardinality(S) = Cardinality(S \ {r}) + 1
      /\ Cardinality(S \ {r}) \in Nat
  BY SlotsFinite, FS_RemoveElement, FS_CardinalityType
<1>2. Largest[k] \in Nat
  BY UsageAssumption DEF Usage
<1>3. Largest[k] * Cardinality(S) = Largest[k] * Cardinality(S \ {r}) + Largest[k]
  BY <1>1, <1>2, TimesOneMore
<1>4. Largest[k] * Cardinality(S \ {r}) \in Nat
  BY <1>1, <1>2, TimesMonotone
<1> QED
  BY <1>2, <1>3, <1>4

LEMMA OvershootInit == Init => OvershootInv
<1> SUFFICES ASSUME Init PROVE OvershootInv
  OBVIOUS
<1>1. ASSUME NEW t \in Tenant, NEW k \in Kind PROVE Held(t, k)
  <2>1. used[t][k] = 0 /\ base[t][k] = 0
    BY <1>1 DEF Init, Zero
  <2>2. InFlight(t) \in SUBSET Req
    BY DEF InFlight
  <2> QED
    BY <2>1, <2>2, LowWithin DEF Held, Bound
<1> QED
  BY <1>1 DEF Init, OvershootInv

\* What a step may do to a tenant's side of the bound.
LEMMA OvershootStep == TypeOK /\ OvershootInv /\ [Next]_vars => OvershootInv'
<1> SUFFICES ASSUME TypeOK, OvershootInv, [Next]_vars PROVE OvershootInv'
  OBVIOUS
<1>T. TypeOK'
  BY TypeStep
<1>S. ASSUME NEW t \in Tenant
      PROVE InFlight(t) \in SUBSET Req /\ InFlight(t)' \in SUBSET Req
  BY DEF InFlight
<1>N. ASSUME NEW t \in Tenant, NEW k \in Kind
      PROVE /\ used[t][k] \in Nat /\ base[t][k] \in Nat
            /\ used'[t][k] \in Nat /\ base'[t][k] \in Nat
  BY <1>N, <1>T DEF TypeOK, Usage
<1>L. ASSUME NEW t \in Tenant, NEW k \in Kind,
             used'[t][k] <= base'[t][k] \/ used'[t][k] < MaxUsage[k]
      PROVE  Held(t, k)'
  BY <1>L, <1>S, <1>N, LowWithin DEF Held, Bound
<1>0. ASSUME UNCHANGED <<used, base, req, limited>>,
             \A t \in Tenant : Exists(t)' = Exists(t)
      PROVE  OvershootInv'
  BY <1>0 DEF OvershootInv, Held, Bound, InFlight
<1>1. ASSUME NEW r \in Req, NEW t \in Tenant, NEW n \in Amount, Guard(r, t, n)
      PROVE  OvershootInv'
  <2>1. ASSUME NEW u \in Tenant, NEW k \in Kind, limited'[u] PROVE Held(u, k)'
    <3>1. CASE u = t
      BY <1>1, <2>1, <3>1, <1>L DEF Guard, UnderLimit, tenancy
    <3>2. CASE u # t
      <4>1. InFlight(u)' = InFlight(u)
        BY <1>1, <3>2 DEF Guard, InFlight, TypeOK
      <4> QED
        BY <1>1, <2>1, <4>1 DEF Guard, OvershootInv, Held, Bound, tenancy
    <3> QED
      BY <3>1, <3>2
  <2> QED
    BY <1>1, <2>1 DEF Guard, OvershootInv, Exists, tenancy
<1>2. ASSUME NEW r \in Req, RecordUsage(r) PROVE OvershootInv'
  <2> DEFINE t == req[r].t
  <2>1. t \in Tenant /\ req[r] # None /\ req[r].n \in Amount
    BY <1>2 DEF RecordUsage, TypeOK, Record
  <2>2. ASSUME NEW u \in Tenant, NEW k \in Kind, limited'[u] PROVE Held(u, k)'
    <3>1. Held(u, k) /\ base' = base
      BY <1>2, <2>2 DEF OvershootInv, RecordUsage, tenancy
    <3>2. CASE u = t
      <4>1. r \in InFlight(u) /\ InFlight(u)' = InFlight(u) \ {r}
        BY <1>2, <2>1, <3>2 DEF RecordUsage, InFlight, TypeOK
      <4> DEFINE n == IF Exists(u) THEN req[r].n[k] ELSE 0
      <4>2. n \in Nat /\ n <= Largest[k]
        BY <2>1, UsageAssumption DEF Usage
      <4>3. used'[u][k] = used[u][k] + n
        BY <1>2, <2>1, <3>2, <1>N, <1>T DEF RecordUsage, Plus, TypeOK
      <4>6. Bound(u, k) \in Nat
        BY <1>N, BoundNat DEF Bound
      <4> HIDE DEF n
      <4>7. used[u][k] + n + Largest[k] * Cardinality(InFlight(u) \ {r})
              <= Bound(u, k)
        BY <3>1, <4>1, <4>2, <4>6, <1>S, <1>N, FewerWithin DEF Held
      <4>8. Bound(u, k)' = Bound(u, k)
        BY <3>1 DEF Bound
      <4> QED
        BY <4>1, <4>3, <4>7, <4>8 DEF Held
    <3>3. CASE u # t
      <4>1. InFlight(u)' = InFlight(u)
        BY <1>2, <2>1, <3>3 DEF RecordUsage, InFlight, TypeOK
      <4>2. used'[u] = used[u]
        BY <1>2, <2>1, <3>3, <1>T DEF RecordUsage, TypeOK
      <4> QED
        BY <3>1, <4>1, <4>2 DEF Held, Bound
    <3> QED
      BY <3>2, <3>3
  <2>3. ASSUME NEW u \in Tenant, ~Exists(u)' PROVE used'[u] = Zero
    BY <1>2, <2>1, <2>3, <1>T DEF RecordUsage, Exists, OvershootInv, TypeOK, tenancy
  <2> QED
    BY <2>2, <2>3 DEF OvershootInv
<1>3. ASSUME NEW r \in Req, Lose(r) PROVE OvershootInv'
  <2> DEFINE t == req[r].t
  <2>1. ASSUME NEW u \in Tenant, NEW k \in Kind, limited'[u] PROVE Held(u, k)'
    <3>1. Held(u, k) /\ base' = base /\ used' = used
      BY <1>3, <2>1 DEF OvershootInv, Lose, tenancy
    <3>2. CASE u = t
      <4>1. r \in InFlight(u) /\ InFlight(u)' = InFlight(u) \ {r}
        BY <1>3, <3>2 DEF Lose, InFlight, TypeOK
      <4>3. Largest[k] \in Nat
        BY UsageAssumption DEF Usage
      <4>4. Bound(u, k) \in Nat
        BY <1>N, BoundNat DEF Bound
      <4>5. used[u][k] + 0 + Largest[k] * Cardinality(InFlight(u) \ {r})
              <= Bound(u, k)
        BY <3>1, <4>1, <4>3, <4>4, <1>S, <1>N, FewerWithin DEF Held
      <4>6. Bound(u, k)' = Bound(u, k) /\ used'[u][k] = used[u][k] + 0
        BY <3>1, <1>N DEF Bound
      <4> QED
        BY <4>1, <4>5, <4>6 DEF Held
    <3>3. CASE u # t
      <4>1. InFlight(u)' = InFlight(u)
        BY <1>3, <3>3 DEF Lose, InFlight, TypeOK
      <4> QED
        BY <3>1, <4>1 DEF Held, Bound
    <3> QED
      BY <3>2, <3>3
  <2> QED
    BY <1>3, <2>1 DEF Lose, OvershootInv, Exists, tenancy
<1>4. CASE \/ NewMonth \/ ManualCapture \/ ResetFails
           \/ \E j \in Capture : Read(j) \/ Write(j) \/ CaptureFails(j)
  BY <1>4, <1>0 DEF NewMonth, ManualCapture, ResetFails, Read, Write,
                    CaptureFails, Exists, tenancy
<1>5. CASE Reset
  <2>1. ASSUME NEW u \in Tenant, NEW k \in Kind PROVE Held(u, k)'
    <3>1. used'[u][k] = 0 /\ base'[u][k] = 0
      BY <1>5, <2>1 DEF Reset, Clear, Zero
    <3> QED
      BY <3>1, <1>L
  <2> QED
    BY <1>5, <2>1 DEF Reset, Clear, OvershootInv
<1>6. ASSUME NEW t \in Tenant, NEW b \in BOOLEAN, Register(t, b)
      PROVE  OvershootInv'
  <2>1. ~Exists(t) /\ UNCHANGED <<used, base, req>>
    BY <1>6 DEF Register, Lifecycle!Register, Lifecycle!Move, Exists
  <2>2. ASSUME NEW u \in Tenant, NEW k \in Kind, limited'[u] PROVE Held(u, k)'
    <3>1. CASE u = t
      <4>1. used'[u][k] = 0
        BY <2>1, <3>1 DEF OvershootInv, Zero
      <4> QED
        BY <4>1, <1>L, UsageAssumption
    <3>2. CASE u # t
      BY <1>6, <2>1, <2>2, <3>2 DEF Register, OvershootInv, Held, Bound, InFlight, TypeOK
    <3> QED
      BY <3>1, <3>2
  <2>3. \A u \in Tenant : ~Exists(u)' => ~Exists(u)
    BY <1>6 DEF Register, Lifecycle!Register, Lifecycle!Move, Exists, TypeOK
  <2> QED
    BY <2>1, <2>2, <2>3 DEF OvershootInv
<1>7. ASSUME NEW t \in Tenant, Switch(t) PROVE OvershootInv'
  <2>1. PhaseMove(t)
    BY <1>7, SwitchMoves DEF TypeOK
  <2>2. \A u \in Tenant : Exists(u)' = Exists(u)
    BY <2>1 DEF PhaseMove, Exists, Live, TypeOK
  <2> QED
    BY <2>1, <2>2, <1>0 DEF PhaseMove
<1>8. ASSUME NEW t \in Tenant, Erase(t) PROVE OvershootInv'
  <2>1. ASSUME NEW u \in Tenant, NEW k \in Kind, limited'[u] PROVE Held(u, k)'
    <3>1. CASE u = t
      <4>1. used'[u][k] = 0 /\ base'[u][k] = 0
        BY <1>8, <2>1, <3>1, <1>T DEF Erase, Zero, TypeOK
      <4> QED
        BY <4>1, <1>L
    <3>2. CASE u # t
      BY <1>8, <2>1, <3>2 DEF Erase, OvershootInv, Held, Bound, InFlight, TypeOK
    <3> QED
      BY <3>1, <3>2
  <2>2. ASSUME NEW u \in Tenant, ~Exists(u)' PROVE used'[u] = Zero
    BY <1>8, <2>2 DEF Erase, Lifecycle!Erase, Lifecycle!Move, Exists,
                      OvershootInv, TypeOK
  <2> QED
    BY <2>1, <2>2 DEF OvershootInv
<1>9. ASSUME NEW t \in Tenant, ChangePlan(t) PROVE OvershootInv'
  <2>1. ASSUME NEW u \in Tenant, NEW k \in Kind, limited'[u] PROVE Held(u, k)'
    <3>1. CASE u = t
      <4>1. used'[u][k] <= base'[u][k]
        BY <1>9, <2>1, <3>1, <1>N DEF ChangePlan, TypeOK
      <4> QED
        BY <4>1, <1>L
    <3>2. CASE u # t
      BY <1>9, <2>1, <3>2 DEF ChangePlan, OvershootInv, Held, Bound, InFlight, TypeOK
    <3> QED
      BY <3>1, <3>2
  <2> QED
    BY <1>9, <2>1 DEF ChangePlan, OvershootInv, Exists
<1>10. CASE UNCHANGED vars
  BY <1>10, <1>0 DEF vars, Exists
<1> QED
  BY <1>1, <1>2, <1>3, <1>4, <1>5, <1>6, <1>7, <1>8, <1>9, <1>10 DEF Next

LEMMA OvershootEnough == TypeOK /\ OvershootInv => OvershootBounded
<1> SUFFICES ASSUME TypeOK, OvershootInv,
                    NEW t \in Tenant, NEW k \in Kind, limited[t]
             PROVE  used[t][k] <= Bound(t, k)
  BY DEF OvershootBounded, Bound
<1>1. InFlight(t) \in SUBSET Req
  BY DEF InFlight
<1>2. used[t][k] \in Nat /\ base[t][k] \in Nat /\ Largest[k] \in Nat
  BY UsageAssumption DEF TypeOK, Usage
<1>3. /\ Largest[k] * Cardinality(InFlight(t)) \in Nat
      /\ Largest[k] * Cardinality(Req) \in Nat
  BY <1>1, <1>2, SlotsFinite, TimesMonotone
<1>4. Bound(t, k) \in Nat
  BY <1>2, BoundNat DEF Bound
<1>5. used[t][k] + Largest[k] * Cardinality(InFlight(t)) <= Bound(t, k)
  BY DEF OvershootInv, Held
<1> QED
  BY <1>2, <1>3, <1>4, <1>5

\* The limit of a plan is passed by at most one largest record per slot.
THEOREM OvershootIsBounded == Spec => []OvershootBounded
<1> QED
  BY TypeInit, TypeStep, OvershootInit, OvershootStep, OvershootEnough, PTL DEF Spec

-----------------------------------------------------------------------------
(***************************************************************************)
(* The months.  Invariant: the counters hold usage of this month if its    *)
(* job cleared them, and of this month and the last one if that one's job  *)
(* did; a capture read them in the month it is labelled with; so what it   *)
(* read, and what it wrote, is bounded for ever, since spent only grows.   *)
(***************************************************************************)
Within(s, u, t, m) == \A k \in Kind : u[k] <= s[t][m - 1][k] + s[t][m][k]

Due(c, m) == m # 0 /\ m - 1 \in c

CounterInv ==
  /\ \A m \in cleared : m <= month
  /\ Due(cleared, month) => \A t \in Tenant : Within(spent, used[t], t, month)

CaptureInv ==
  \A j \in Capture :
    job[j].step = "write" =>
      /\ job[j].period <= month
      /\ Due(cleared, job[j].period) =>
           \A t \in Tenant :
             job[j].seen[t] # None => Within(spent, job[j].seen[t], t, job[j].period)

SnapshotInv ==
  \A t \in Tenant, m \in Month :
    snapshot[t][m] # None =>
      /\ m <= month
      /\ Due(cleared, m) => Within(spent, snapshot[t][m], t, m)

MonthsInv == QuotaIsMonthly /\ CounterInv /\ CaptureInv /\ SnapshotInv

LEMMA MonthsInit == Init => MonthsInv
<1> SUFFICES ASSUME Init PROVE MonthsInv
  OBVIOUS
<1>1. month = 0 /\ cleared = {0} /\ 0 \in Month
  BY UsageAssumption DEF Init, Month
<1>2. QuotaIsMonthly
  BY <1>1 DEF Init, QuotaIsMonthly, Zero
<1>3. CounterInv
  BY <1>1 DEF CounterInv, Due
<1>4. CaptureInv
  BY DEF Init, CaptureInv, IdleJob
<1>5. SnapshotInv
  BY DEF Init, SnapshotInv
<1> QED
  BY <1>2, <1>3, <1>4, <1>5 DEF MonthsInv

\* Usage recorded only grows, and it bounds what it bounded.
SpentGrows ==
  \A t \in Tenant, m \in Month, k \in Kind : spent[t][m][k] <= spent'[t][m][k]

LEMMA StepSpentGrows == TypeOK /\ [Next]_vars => SpentGrows
<1> SUFFICES ASSUME TypeOK, [Next]_vars PROVE SpentGrows
  OBVIOUS
<1>N. \A t \in Tenant, m \in Month, k \in Kind : spent[t][m][k] \in Nat
  BY DEF TypeOK, Usage
<1>0. ASSUME UNCHANGED spent PROVE SpentGrows
  BY <1>0, <1>N DEF SpentGrows
<1>1. ASSUME NEW r \in Req, RecordUsage(r) PROVE SpentGrows
  <2>1. req[r].t \in Tenant /\ req[r].n \in Usage
    BY <1>1, AmountUsage DEF RecordUsage, TypeOK, Record
  <2> DEFINE T == req[r].t
             total == Plus(spent[T][month], req[r].n)
  <2>2. \A k \in Kind : spent[T][month][k] <= total[k]
    BY <2>1, <1>N DEF Plus, Usage, TypeOK
  <2>3. spent' = spent \/ spent' = [spent EXCEPT ![T][month] = total]
    BY <1>1 DEF RecordUsage
  <2> HIDE DEF total
  <2>4. \A t \in Tenant, m \in Month :
          spent'[t][m] = spent[t][m] \/ (t = T /\ m = month /\ spent'[t][m] = total)
    BY <2>3 DEF TypeOK
  <2> QED
    BY <2>2, <2>4, <1>N DEF SpentGrows
<1>2. CASE \E t \in Tenant : Switch(t)
  BY <1>2, <1>0, SwitchMoves DEF PhaseMove, TypeOK
<1> QED
  BY <1>0, <1>1, <1>2 DEF Next, vars, Guard, Lose, NewMonth, ManualCapture, Read,
     Write, CaptureFails, Reset, ResetFails, Register, Erase, ChangePlan

LEMMA WithinGrows ==
  ASSUME TypeOK, TypeOK', SpentGrows, NEW u \in Usage, NEW t \in Tenant,
         NEW m \in Month \ {0}, Within(spent, u, t, m)
  PROVE  Within(spent', u, t, m)
<1>1. m - 1 \in Month
  BY UsageAssumption DEF Month
<1>2. ASSUME NEW k \in Kind
      PROVE  u[k] <= spent'[t][m - 1][k] + spent'[t][m][k]
  <2>1. /\ spent[t][m - 1][k] <= spent'[t][m - 1][k]
        /\ spent[t][m][k] <= spent'[t][m][k]
        /\ u[k] <= spent[t][m - 1][k] + spent[t][m][k]
    BY <1>1, <1>2 DEF SpentGrows, Within
  <2>2. /\ u[k] \in Nat
        /\ spent[t][m - 1][k] \in Nat /\ spent[t][m][k] \in Nat
        /\ spent'[t][m - 1][k] \in Nat /\ spent'[t][m][k] \in Nat
    BY <1>1, <1>2 DEF TypeOK, Usage
  <2> QED
    BY <2>1, <2>2
<1> QED
  BY <1>2 DEF Within

\* The steps that leave calendar, snapshots and captures read alone, and take
\* nothing but zeros into the counters.
Quietly ==
  /\ UNCHANGED <<month, cleared, snapshot>>
  /\ \A j \in Capture : job'[j].step = "write" => job'[j] = job[j]
  /\ \A t \in Tenant : used'[t] = used[t] \/ used'[t] = Zero

LEMMA EndedCapture ==
  ASSUME job \in [Capture -> Job], NEW j \in Capture, EndCapture(j)
  PROVE  \A i \in Capture : job'[i].step = "write" => i # j /\ job'[i] = job[i]
<1>1. job'[j].step # "write"
  BY DEF EndCapture, NextStep, IdleJob
<1>2. \A i \in Capture \ {j} : job'[i] = job[i]
  BY DEF EndCapture
<1> QED
  BY <1>1, <1>2

LEMMA StepKinds ==
  ASSUME TypeOK, [Next]_vars
  PROVE  \/ Quietly
         \/ \E r \in Req : RecordUsage(r)
         \/ NewMonth \/ Reset
         \/ \E j \in Capture : Read(j) \/ Write(j)
<1>1. ASSUME NEW r \in Req, Lose(r) PROVE Quietly
  BY <1>1 DEF Lose, Quietly
<1>2. ASSUME NEW r \in Req, NEW t \in Tenant, NEW n \in Amount, Guard(r, t, n)
      PROVE  Quietly
  BY <1>2 DEF Guard, Quietly
<1>3. CASE ManualCapture
  BY <1>3 DEF ManualCapture, Quietly, TypeOK, Job, Capture
<1>4. ASSUME NEW j \in Capture, CaptureFails(j) PROVE Quietly
  BY <1>4, EndedCapture DEF CaptureFails, Quietly, TypeOK
<1>5. CASE ResetFails
  BY <1>5 DEF ResetFails, Quietly, TypeOK, IdleJob, Capture
<1>6. ASSUME NEW t \in Tenant, NEW b \in BOOLEAN, Register(t, b) PROVE Quietly
  BY <1>6 DEF Register, Quietly
<1>7. ASSUME NEW t \in Tenant, Switch(t) PROVE Quietly
  BY <1>7, SwitchMoves DEF PhaseMove, Quietly, TypeOK
<1>8. ASSUME NEW t \in Tenant, Erase(t) PROVE Quietly
  BY <1>8 DEF Erase, Quietly, TypeOK
<1>9. ASSUME NEW t \in Tenant, ChangePlan(t) PROVE Quietly
  BY <1>9 DEF ChangePlan, Quietly
<1>10. CASE UNCHANGED vars
  BY <1>10 DEF vars, Quietly
<1> QED
  BY <1>1, <1>2, <1>3, <1>4, <1>5, <1>6, <1>7, <1>8, <1>9, <1>10 DEF Next

\* Zeros are within every bound.
LEMMA ZeroWithin ==
  ASSUME TypeOK', NEW t \in Tenant, NEW m \in Month \ {0}
  PROVE  Within(spent', Zero, t, m)
<1>1. m - 1 \in Month
  BY UsageAssumption DEF Month
<1> QED
  BY <1>1 DEF Within, Zero, TypeOK, Usage

\* A record adds the same to the counters and to the usage of its month.
LEMMA RecordAdds ==
  ASSUME TypeOK, NEW r \in Req, RecordUsage(r), NEW t \in Tenant, NEW k \in Kind
  PROVE  \E n \in Nat : /\ used'[t][k] = used[t][k] + n
                        /\ spent'[t][month][k] = spent[t][month][k] + n
                        /\ \A m \in Month \ {month} : spent'[t][m] = spent[t][m]
<1>1. req[r].t \in Tenant /\ req[r].n \in Usage
  BY AmountUsage DEF RecordUsage, TypeOK, Record
<1> DEFINE T == req[r].t
           n == req[r].n
           total == Plus(spent[T][month], n)
<1>2. CASE t = T /\ Exists(t)
  <2>1. spent' = [spent EXCEPT ![T][month] = total]
    BY <1>2 DEF RecordUsage
  <2>2. used' = [used EXCEPT ![T] = Plus(used[T], n)]
    BY <1>2 DEF RecordUsage
  <2>3. total[k] = spent[T][month][k] + n[k] /\ Plus(used[T], n)[k] = used[T][k] + n[k]
    BY DEF Plus
  <2>4. n[k] \in Nat
    BY <1>1 DEF Usage
  <2> HIDE DEF n, total
  <2>5. used'[t][k] = used[t][k] + n[k]
    BY <1>1, <1>2, <2>2, <2>3 DEF TypeOK
  <2>6. spent'[t][month] = total /\ \A m \in Month \ {month} : spent'[t][m] = spent[t][m]
    BY <1>1, <1>2, <2>1 DEF TypeOK
  <2> QED
    BY <1>2, <2>3, <2>4, <2>5, <2>6
<1>3. CASE ~(t = T /\ Exists(t))
  <2>1. used'[t] = used[t] /\ spent'[t] = spent[t]
    BY <1>1, <1>3 DEF RecordUsage, TypeOK
  <2>2. used[t][k] \in Nat /\ spent[t][month][k] \in Nat
    BY DEF TypeOK, Usage
  <2> QED
    BY <2>1, <2>2
<1> QED
  BY <1>2, <1>3

LEMMA QuotaStep ==
  ASSUME TypeOK, TypeOK', [Next]_vars, MonthsInv, SpentGrows
  PROVE  QuotaIsMonthly'
<1>N. ASSUME NEW t \in Tenant, NEW k \in Kind
      PROVE  /\ used[t][k] \in Nat /\ used'[t][k] \in Nat
             /\ spent[t][month][k] \in Nat /\ spent'[t][month'][k] \in Nat
  BY <1>N DEF TypeOK, Usage
<1>1. CASE Quietly
  <2> SUFFICES ASSUME month' \in cleared', NEW t \in Tenant, NEW k \in Kind
               PROVE  used'[t][k] <= spent'[t][month'][k]
    BY DEF QuotaIsMonthly
  <2>1. used[t][k] <= spent[t][month][k] /\ month' = month
    BY <1>1 DEF Quietly, MonthsInv, QuotaIsMonthly
  <2>2. spent[t][month][k] <= spent'[t][month][k]
    BY DEF SpentGrows, TypeOK
  <2>3. used'[t][k] = used[t][k] \/ used'[t][k] = 0
    BY <1>1 DEF Quietly, Zero
  <2> QED
    BY <2>1, <2>2, <2>3, <1>N
<1>2. ASSUME NEW r \in Req, RecordUsage(r) PROVE QuotaIsMonthly'
  <2> SUFFICES ASSUME month' \in cleared', NEW t \in Tenant, NEW k \in Kind
               PROVE  used'[t][k] <= spent'[t][month'][k]
    BY DEF QuotaIsMonthly
  <2>1. used[t][k] <= spent[t][month][k] /\ month' = month
    BY <1>2 DEF RecordUsage, MonthsInv, QuotaIsMonthly
  <2>2. PICK n \in Nat : /\ used'[t][k] = used[t][k] + n
                         /\ spent'[t][month][k] = spent[t][month][k] + n
    BY <1>2, RecordAdds
  <2> QED
    BY <2>1, <2>2, <1>N
<1>3. CASE NewMonth
  BY <1>3 DEF NewMonth, MonthsInv, CounterInv, QuotaIsMonthly, TypeOK, Month
<1>4. CASE Reset
  <2>1. \A t \in Tenant, k \in Kind : used'[t][k] = 0
    BY <1>4 DEF Reset, Clear, Zero
  <2> QED
    BY <2>1, <1>N DEF QuotaIsMonthly
<1>5. CASE \E j \in Capture : Read(j) \/ Write(j)
  BY <1>5 DEF Read, Write, MonthsInv, QuotaIsMonthly
<1> QED
  BY <1>1, <1>2, <1>3, <1>4, <1>5, StepKinds

LEMMA CounterStep ==
  ASSUME TypeOK, TypeOK', [Next]_vars, MonthsInv, SpentGrows
  PROVE  CounterInv'
<1>D. ASSUME Due(cleared, month)
      PROVE  month \in Month \ {0} /\ month - 1 \in Month
  BY <1>D, UsageAssumption DEF Due, TypeOK, Month
<1>U. \A t \in Tenant : used[t] \in Usage
  BY DEF TypeOK
<1>1. CASE Quietly
  <2>1. month' = month /\ cleared' = cleared
    BY <1>1 DEF Quietly
  <2>2. ASSUME Due(cleared, month), NEW t \in Tenant
        PROVE  Within(spent', used'[t], t, month)
    <3>1. Within(spent, used[t], t, month)
      BY <2>2 DEF MonthsInv, CounterInv
    <3>2. Within(spent', used[t], t, month)
      BY <3>1, <2>2, <1>D, <1>U, WithinGrows
    <3>3. Within(spent', Zero, t, month)
      BY <2>2, <1>D, ZeroWithin
    <3> QED
      BY <1>1, <3>2, <3>3 DEF Quietly
  <2> QED
    BY <2>1, <2>2 DEF MonthsInv, CounterInv
<1>2. ASSUME NEW r \in Req, RecordUsage(r) PROVE CounterInv'
  <2>1. month' = month /\ cleared' = cleared
    BY <1>2 DEF RecordUsage
  <2>2. ASSUME Due(cleared, month), NEW t \in Tenant, NEW k \in Kind
        PROVE  used'[t][k] <= spent'[t][month - 1][k] + spent'[t][month][k]
    <3>1. used[t][k] <= spent[t][month - 1][k] + spent[t][month][k]
      BY <2>2 DEF MonthsInv, CounterInv, Within
    <3>2. PICK n \in Nat : /\ used'[t][k] = used[t][k] + n
                           /\ spent'[t][month][k] = spent[t][month][k] + n
                           /\ \A m \in Month \ {month} : spent'[t][m] = spent[t][m]
      BY <1>2, RecordAdds
    <3>3. month - 1 \in Month \ {month} /\ month \in Month
      BY <1>D, <2>2 DEF Month
    <3>4. spent'[t][month - 1][k] = spent[t][month - 1][k]
      BY <3>2, <3>3
    <3>5. used[t][k] \in Nat /\ spent[t][month][k] \in Nat /\ spent[t][month - 1][k] \in Nat
      BY <3>3 DEF TypeOK, Usage
    <3> QED
      BY <3>1, <3>2, <3>4, <3>5
  <2> QED
    BY <2>1, <2>2 DEF MonthsInv, CounterInv, Within
<1>3. CASE NewMonth
  <2>1. month' = month + 1 /\ cleared' = cleared /\ used' = used /\ spent' = spent
    BY <1>3 DEF NewMonth
  <2>2. month \in Nat
    BY UsageAssumption DEF TypeOK, Month
  <2>3. \A m \in cleared : m \in Nat /\ m <= month
    BY UsageAssumption DEF MonthsInv, CounterInv, TypeOK, Month
  <2>4. month' - 1 = month /\ month' \in Month
    BY <2>1, <2>2 DEF TypeOK
  <2>5. ASSUME month \in cleared, NEW t \in Tenant
        PROVE  Within(spent', used'[t], t, month')
    <3>1. ASSUME NEW k \in Kind
          PROVE  used[t][k] <= spent[t][month][k] + spent[t][month'][k]
      <4>1. used[t][k] <= spent[t][month][k]
        BY <2>5 DEF MonthsInv, QuotaIsMonthly
      <4>2. used[t][k] \in Nat /\ spent[t][month][k] \in Nat /\ spent[t][month'][k] \in Nat
        BY <2>4 DEF TypeOK, Usage
      <4> QED
        BY <4>1, <4>2
    <3> QED
      BY <2>1, <2>4, <3>1 DEF Within
  <2>6. \A m \in cleared' : m <= month'
    BY <2>1, <2>2, <2>3
  <2>7. Due(cleared', month') => month \in cleared
    BY <2>1, <2>4 DEF Due
  <2> QED
    BY <2>5, <2>6, <2>7 DEF CounterInv
<1>4. CASE Reset
  <2>1. month' = month /\ cleared' = cleared \cup {month}
    BY <1>4 DEF Reset
  <2>2. \A t \in Tenant : used'[t] = Zero
    BY <1>4 DEF Reset, Clear
  <2>3. \A m \in cleared' : m <= month'
    BY <2>1 DEF MonthsInv, CounterInv, TypeOK, Month
  <2>4. ASSUME month # 0, NEW t \in Tenant PROVE Within(spent', Zero, t, month)
    BY <2>4, ZeroWithin DEF TypeOK
  <2> QED
    BY <2>1, <2>2, <2>3, <2>4 DEF CounterInv, Due
<1>5. CASE \E j \in Capture : Read(j) \/ Write(j)
  BY <1>5 DEF Read, Write, MonthsInv, CounterInv
<1> QED
  BY <1>1, <1>2, <1>3, <1>4, <1>5, StepKinds

\* What is due only changes for the month after the present one.
LEMMA DueKept ==
  ASSUME TypeOK, TypeOK', [Next]_vars, NEW m \in Month, m <= month,
         Due(cleared', m)
  PROVE  Due(cleared, m)
<1>1. cleared' = cleared \/ cleared' = cleared \cup {month}
  BY StepKinds DEF Quietly, RecordUsage, NewMonth, Reset, Read, Write
<1>2. m - 1 # month
  BY UsageAssumption DEF TypeOK, Month
<1> QED
  BY <1>1, <1>2 DEF Due

\* A capture that was due and bounded stays so.
LEMMA KeptWithin ==
  ASSUME TypeOK, TypeOK', [Next]_vars, SpentGrows,
         NEW u \in Usage, NEW t \in Tenant, NEW m \in Month,
         m <= month, Due(cleared, m) => Within(spent, u, t, m)
  PROVE  m <= month' /\ (Due(cleared', m) => Within(spent', u, t, m))
<1>1. month \in Nat /\ month' \in Nat /\ m \in Nat
  BY UsageAssumption DEF TypeOK, Month
<1>2. month' = month \/ month' = month + 1
  BY StepKinds DEF Quietly, RecordUsage, NewMonth, Reset, Read, Write
<1>3. Due(cleared', m) => Within(spent', u, t, m)
  BY DueKept, WithinGrows DEF Due
<1> QED
  BY <1>1, <1>2, <1>3

LEMMA CaptureStep ==
  ASSUME TypeOK, TypeOK', [Next]_vars, MonthsInv, SpentGrows
  PROVE  CaptureInv'
<1> SUFFICES ASSUME NEW j \in Capture, job'[j].step = "write"
             PROVE  /\ job'[j].period <= month'
                    /\ Due(cleared', job'[j].period) =>
                         \A t \in Tenant :
                           job'[j].seen[t] # None =>
                             Within(spent', job'[j].seen[t], t, job'[j].period)
  BY DEF CaptureInv
<1>T. job[j] \in Job /\ month \in Month
  BY DEF TypeOK
<1>1. CASE job'[j] = job[j]
  <2>1. job[j].period \in Month /\ job[j].period <= month
    BY <1>1, <1>T DEF Job, MonthsInv, CaptureInv
  <2>2. ASSUME NEW t \in Tenant, job[j].seen[t] # None
        PROVE  job[j].seen[t] \in Usage
    BY <1>T, <2>2 DEF Job
  <2>3. ASSUME NEW t \in Tenant, job[j].seen[t] # None
        PROVE  Due(cleared, job[j].period) =>
                 Within(spent, job[j].seen[t], t, job[j].period)
    BY <1>1, <2>3 DEF MonthsInv, CaptureInv
  <2>4. ASSUME NEW t \in Tenant, job[j].seen[t] # None
        PROVE  Due(cleared', job[j].period) =>
                 Within(spent', job[j].seen[t], t, job[j].period)
    BY <2>1, <2>2, <2>3, <2>4, KeptWithin
  <2>5. month' = month \/ month' = month + 1
    BY StepKinds DEF Quietly, RecordUsage, NewMonth, Reset, Read, Write
  <2>6. job[j].period <= month'
    BY <2>1, <2>5, <1>T, UsageAssumption DEF TypeOK, Month
  <2> QED
    BY <1>1, <2>4, <2>6
<1>2. CASE Read(j)
  <2>1. /\ job'[j].period = month
        /\ \A t \in Tenant : job'[j].seen[t] = IF Live(t) THEN used[t] ELSE None
    BY <1>2 DEF Read, Period, TypeOK
  <2>2. spent' = spent /\ cleared' = cleared /\ month' = month
    BY <1>2 DEF Read
  <2>3. month <= month
    BY <1>T, UsageAssumption DEF Month
  <2>4. Due(cleared, month) => \A t \in Tenant : Within(spent, used[t], t, month)
    BY DEF MonthsInv, CounterInv
  <2> QED
    BY <2>1, <2>2, <2>3, <2>4
<1> QED
  <2>1. ASSUME NEW i \in Capture, i # j, Read(i) \/ Write(i) PROVE job'[j] = job[j]
    BY <2>1 DEF Read, Write, EndCapture, TypeOK
  <2>2. ASSUME Write(j) PROVE FALSE
    BY <2>2, EndedCapture DEF Write, TypeOK
  <2>3. ASSUME NEW r \in Req, RecordUsage(r) PROVE job'[j] = job[j]
    BY <2>3 DEF RecordUsage
  <2>4. ASSUME NewMonth PROVE job'[j] = job[j]
    BY <2>4 DEF NewMonth, TypeOK, Capture, Job
  <2>5. ASSUME Reset PROVE job'[j] = job[j]
    BY <2>5 DEF Reset, TypeOK, Capture, Job, IdleJob
  <2>6. ASSUME Quietly PROVE job'[j] = job[j]
    BY <2>6 DEF Quietly
  <2> QED
    BY <1>1, <1>2, <2>1, <2>2, <2>3, <2>4, <2>5, <2>6, StepKinds

LEMMA SnapshotStep ==
  ASSUME TypeOK, TypeOK', [Next]_vars, MonthsInv, SpentGrows
  PROVE  SnapshotInv'
<1> SUFFICES ASSUME NEW t \in Tenant, NEW m \in Month, snapshot'[t][m] # None
             PROVE  /\ m <= month'
                    /\ Due(cleared', m) => Within(spent', snapshot'[t][m], t, m)
  BY DEF SnapshotInv
<1>1. CASE snapshot'[t][m] = snapshot[t][m]
  <2>1. snapshot[t][m] \in Usage
    BY <1>1 DEF TypeOK
  <2>2. m <= month /\ (Due(cleared, m) => Within(spent, snapshot[t][m], t, m))
    BY <1>1 DEF MonthsInv, SnapshotInv
  <2> QED
    BY <1>1, <2>1, <2>2, KeptWithin
<1>2. ASSUME NEW j \in Capture, Write(j), snapshot'[t][m] # snapshot[t][m]
      PROVE  /\ m <= month'
             /\ Due(cleared', m) => Within(spent', snapshot'[t][m], t, m)
  <2>1. spent' = spent /\ cleared' = cleared /\ month' = month
    BY <1>2 DEF Write
  <2>2. snapshot'[t] = [snapshot[t] EXCEPT ![job[j].period] =
                          IF job[j].seen[t] = None THEN @ ELSE job[j].seen[t]]
    BY <1>2 DEF Write
  <2>3. m = job[j].period /\ job[j].seen[t] # None /\ snapshot'[t][m] = job[j].seen[t]
    BY <1>2, <2>2 DEF TypeOK
  <2>4. job[j].step = "write"
    BY <1>2 DEF Write
  <2> QED
    BY <2>1, <2>3, <2>4 DEF MonthsInv, CaptureInv
<1>3. (\E j \in Capture : Write(j)) \/ snapshot' = snapshot
  BY StepKinds DEF Quietly, RecordUsage, NewMonth, Reset, Read
<1> QED
  BY <1>1, <1>2, <1>3

LEMMA MonthsStep == TypeOK /\ TypeOK' /\ MonthsInv /\ [Next]_vars => MonthsInv'
<1> SUFFICES ASSUME TypeOK, TypeOK', MonthsInv, [Next]_vars PROVE MonthsInv'
  OBVIOUS
<1>1. SpentGrows
  BY StepSpentGrows
<1>2. QuotaIsMonthly'
  BY <1>1, QuotaStep
<1>3. CounterInv'
  BY <1>1, CounterStep
<1>4. CaptureInv'
  BY <1>1, CaptureStep
<1>5. SnapshotInv'
  BY <1>1, SnapshotStep
<1> QED
  BY <1>2, <1>3, <1>4, <1>5 DEF MonthsInv

LEMMA MonthsAlways == Spec => []MonthsInv
<1>1. Init => MonthsInv
  BY MonthsInit
<1>2. TypeOK /\ TypeOK' /\ MonthsInv /\ [Next]_vars => MonthsInv'
  BY MonthsStep
<1>3. Spec => []TypeOK
  BY UsageTypes
<1> QED
  BY <1>1, <1>2, <1>3, PTL DEF Spec

\* Whatever the number of tenants, requests and months: once the job of the
\* month has run, only this month's usage is held against a tenant.
THEOREM QuotaIsMonthlyAlways == Spec => []QuotaIsMonthly
<1>1. MonthsInv => QuotaIsMonthly
  BY DEF MonthsInv
<1> QED
  BY <1>1, MonthsAlways, PTL

\* A snapshot shows at most the usage of its month and of the month before, if
\* the job of that month ran; in particular also after months it missed.
THEOREM SnapshotsBounded == Spec => []SnapshotBounded
<1>1. MonthsInv => SnapshotBounded
  BY DEF MonthsInv, SnapshotInv, SnapshotBounded, Within, Due
<1> QED
  BY <1>1, MonthsAlways, PTL
=============================================================================
