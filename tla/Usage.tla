-------------------------------- MODULE Usage --------------------------------
(***************************************************************************)
(* The monthly limits: usage.service.ts, its scheduler, the guard of       *)
(* POST /internal/usage/record and the snapshots of analytics.service.ts.  *)
(*                                                                         *)
(* The guard reads the tenant, and the record increments it one await      *)
(* later; many records run at once.  At midnight of the first day of a     *)
(* month a job takes a snapshot of every tenant and clears the counters,   *)
(* and an administrator may take a snapshot at any time.  The tenants      *)
(* themselves move as TenantLifecycle allows, which Billing implements.    *)
(*                                                                         *)
(* The guard's check of the WhatsApp credentials is left out: it can only  *)
(* refuse more.                                                            *)
(***************************************************************************)
EXTENDS Naturals, FiniteSets

CONSTANTS
  Tenant,
  Kind,        \* what is metered: messages and tokens
  MaxUsage,    \* maxMessages and maxTokens of the plan free
  Amount,      \* usages one record may report      (bounds inputs)
  Largest,     \* the largest amount of each kind
  Req,         \* record requests in flight         (bounds concurrency)
  LastMonth,   \* months are counted up to it       (bounds time)
  Cap,         \* usage of a month is counted up to it, per kind
  None

VARIABLES
  phase,     \* of each tenant's document, as in TenantLifecycle
  limited,   \* whether the tenant's plan is free; the others have no limit
  used,      \* messagesUsed and tokensUsed
  req,       \* records past the guard: None or [t, n]
  month,     \* the calendar
  job,       \* captures in flight: the scheduler's and an administrator's
  snapshot,  \* usage_snapshots, by tenant and period
  base,      \* history: used when the tenant came to the plan free
  spent,     \* history: usage recorded, by tenant and month
  cleared    \* history: the months whose job cleared the counters

tenancy == <<phase, limited>>
vars == <<phase, limited, used, req, month, job, snapshot, base, spent, cleared>>

Month == 0..LastMonth
Usage == [Kind -> Nat]
Zero == [k \in Kind |-> 0]
Plus(a, b) == [k \in Kind |-> a[k] + b[k]]

ASSUME UsageAssumption ==
  /\ MaxUsage \in [Kind -> Nat \ {0}]
  /\ Largest \in Usage
  /\ Amount \subseteq {a \in Usage : \A k \in Kind : a[k] <= Largest[k]}
  /\ IsFiniteSet(Req)
  /\ LastMonth \in Nat
  /\ Cap \in Nat
  /\ None \notin Usage

Capture == {"cron", "admin"}
Job == [step : {"idle", "read", "write", "reset"}, period : Month,
        seen : [Tenant -> Usage \cup {None}]]
IdleJob == [step |-> "idle", period |-> 0, seen |-> [t \in Tenant |-> None]]
Record == [t : Tenant, n : Amount]

Lifecycle == INSTANCE TenantLifecycle

Init ==
  /\ Lifecycle!Init
  /\ limited = [t \in Tenant |-> TRUE]
  /\ used = [t \in Tenant |-> Zero]
  /\ req = [r \in Req |-> None]
  /\ month = 0
  /\ job = [j \in Capture |-> IdleJob]
  /\ snapshot = [t \in Tenant |-> [m \in Month |-> None]]
  /\ base = [t \in Tenant |-> Zero]
  /\ spent = [t \in Tenant |-> [m \in Month |-> Zero]]
  /\ cleared = {0}

Exists(t) == phase[t] # "absent"
Live(t) == phase[t] \in {"off", "on"}

-----------------------------------------------------------------------------
(***************************************************************************)
(* Faulty variants, to show that the properties notice a slip.             *)
(***************************************************************************)
UnderLimitInclusive(t) == \A k \in Kind : used[t][k] <= MaxUsage[k]

ClearLiveOnly == [t \in Tenant |-> IF Live(t) THEN Zero ELSE used[t]]

PeriodNext == month + 1

WriteAdds(j) ==
  /\ job[j].step = "write"
  /\ snapshot' = [t \in Tenant |->
       [snapshot[t] EXCEPT ![job[j].period] =
          IF job[j].seen[t] = None THEN @
          ELSE IF @ = None THEN job[j].seen[t] ELSE Plus(@, job[j].seen[t])]]
  /\ job' = [job EXCEPT ![j] = IdleJob]
  /\ UNCHANGED <<tenancy, used, req, month, base, spent, cleared>>

-----------------------------------------------------------------------------
(***************************************************************************)
(* Recording usage.                                                        *)
(***************************************************************************)
UnderLimit(t) == \A k \in Kind : used[t][k] < MaxUsage[k]

\* UsageLimitGuard: canProcessDetailed.
Guard(r, t, n) ==
  /\ req[r] = None
  /\ phase[t] = "on"
  /\ limited[t] => UnderLimit(t)
  /\ req' = [req EXCEPT ![r] = [t |-> t, n |-> n]]
  /\ UNCHANGED <<tenancy, used, month, job, snapshot, base, spent, cleared>>

\* recordUsage: an $inc filtered by tenantId only.
RecordUsage(r) ==
  /\ req[r] # None
  /\ LET t == req[r].t
         total == Plus(spent[t][month], req[r].n)
     IN IF Exists(t)
          THEN /\ \A k \in Kind : total[k] <= Cap
               /\ used' = [used EXCEPT ![t] = Plus(@, req[r].n)]
               /\ spent' = [spent EXCEPT ![t][month] = total]
          ELSE UNCHANGED <<used, spent>>
  /\ req' = [req EXCEPT ![r] = None]
  /\ UNCHANGED <<tenancy, month, job, snapshot, base, cleared>>

\* The request dies between the guard and the write.
Lose(r) ==
  /\ req[r] # None
  /\ req' = [req EXCEPT ![r] = None]
  /\ UNCHANGED <<tenancy, used, month, job, snapshot, base, spent, cleared>>

-----------------------------------------------------------------------------
(***************************************************************************)
(* Snapshots and the monthly job.                                          *)
(***************************************************************************)

\* A month begins; the job starts unless the process is down at midnight.
NewMonth ==
  /\ month < LastMonth
  /\ job["cron"].step = "idle"
  /\ month' = month + 1
  /\ \/ job' = [job EXCEPT !["cron"].step = "read"]
     \/ UNCHANGED job
  /\ UNCHANGED <<tenancy, used, req, snapshot, base, spent, cleared>>

ManualCapture ==
  /\ job["admin"].step = "idle"
  /\ job' = [job EXCEPT !["admin"].step = "read"]
  /\ UNCHANGED <<tenancy, used, req, month, snapshot, base, spent, cleared>>

\* captureSnapshot: the period is the month of the call, also for the job,
\* which runs when the month it should describe is over.
Period == month

\* Deleted tenants are not read.
Read(j) ==
  /\ job[j].step = "read"
  /\ job' = [job EXCEPT
       ![j] = [step |-> "write", period |-> Period,
               seen |-> [t \in Tenant |-> IF Live(t) THEN used[t] ELSE None]]]
  /\ UNCHANGED <<tenancy, used, req, month, snapshot, base, spent, cleared>>

\* What follows a capture: the scheduler clears the counters.
NextStep(j) == IF j = "cron" THEN "reset" ELSE "idle"

EndCapture(j) == job' = [job EXCEPT ![j] = [IdleJob EXCEPT !.step = NextStep(j)]]

\* The bulk upsert replaces what the period holds.
Write(j) ==
  /\ job[j].step = "write"
  /\ snapshot' = [t \in Tenant |->
       [snapshot[t] EXCEPT ![job[j].period] =
          IF job[j].seen[t] = None THEN @ ELSE job[j].seen[t]]]
  /\ EndCapture(j)
  /\ UNCHANGED <<tenancy, used, req, month, base, spent, cleared>>

\* The scheduler swallows an error of the capture and goes on.
CaptureFails(j) ==
  /\ job[j].step \in {"read", "write"}
  /\ EndCapture(j)
  /\ UNCHANGED <<tenancy, used, req, month, snapshot, base, spent, cleared>>

\* resetAllMonthly: every document, whatever its state.
Clear == [t \in Tenant |-> Zero]

Reset ==
  /\ job["cron"].step = "reset"
  /\ used' = Clear
  /\ base' = [t \in Tenant |-> Zero]
  /\ cleared' = cleared \cup {month}
  /\ job' = [job EXCEPT !["cron"] = IdleJob]
  /\ UNCHANGED <<tenancy, req, month, snapshot, spent>>

\* The reset fails, or the process dies before it: nobody tries again.
ResetFails ==
  /\ job["cron"].step = "reset"
  /\ job' = [job EXCEPT !["cron"] = IdleJob]
  /\ UNCHANGED <<tenancy, used, req, month, snapshot, base, spent, cleared>>

-----------------------------------------------------------------------------
(***************************************************************************)
(* The tenants.                                                            *)
(***************************************************************************)
Register(t, b) ==
  /\ Lifecycle!Register(t)
  /\ limited' = [limited EXCEPT ![t] = b]
  /\ UNCHANGED <<used, req, month, job, snapshot, base, spent, cleared>>

Switch(t) ==
  /\ \/ Lifecycle!SwitchOn(t) \/ Lifecycle!SwitchOff(t)
     \/ Lifecycle!Retire(t) \/ Lifecycle!Recover(t)
  /\ UNCHANGED <<limited, used, req, month, job, snapshot, base, spent, cleared>>

Erase(t) ==
  /\ Lifecycle!Erase(t)
  /\ used' = [used EXCEPT ![t] = Zero]
  /\ base' = [base EXCEPT ![t] = Zero]
  /\ UNCHANGED <<limited, req, month, job, snapshot, spent, cleared>>

ChangePlan(t) ==
  /\ Live(t)
  /\ limited' = [limited EXCEPT ![t] = ~@]
  /\ base' = [base EXCEPT ![t] = used[t]]
  /\ UNCHANGED <<phase, used, req, month, job, snapshot, spent, cleared>>

-----------------------------------------------------------------------------
Next ==
  \/ \E r \in Req : \/ RecordUsage(r) \/ Lose(r)
                    \/ \E t \in Tenant, n \in Amount : Guard(r, t, n)
  \/ \E j \in Capture : Read(j) \/ Write(j) \/ CaptureFails(j)
  \/ NewMonth \/ ManualCapture \/ Reset \/ ResetFails
  \/ \E t \in Tenant : \/ Switch(t) \/ Erase(t) \/ ChangePlan(t)
                       \/ \E b \in BOOLEAN : Register(t, b)

Spec == Init /\ [][Next]_vars

-----------------------------------------------------------------------------
(***************************************************************************)
(* Properties.                                                             *)
(***************************************************************************)

\* Every variable has its type.
TypeOK ==
  /\ phase \in [Tenant -> Lifecycle!TenantPhase]
  /\ limited \in [Tenant -> BOOLEAN]
  /\ used \in [Tenant -> Usage]
  /\ req \in [Req -> Record \cup {None}]
  /\ month \in Month
  /\ job \in [Capture -> Job]
  /\ snapshot \in [Tenant -> [Month -> Usage \cup {None}]]
  /\ base \in [Tenant -> Usage]
  /\ spent \in [Tenant -> [Month -> Usage]]
  /\ cleared \subseteq Month

Larger(a, b) == IF a < b THEN b ELSE a

\* The guard reads before other records write, so a limit can be passed; but
\* by no more than the records that were in flight: a tenant on the plan free
\* uses less than its limit (or what it had used when it came to the plan)
\* and one largest record per request slot.
OvershootBounded ==
  \A t \in Tenant, k \in Kind :
    limited[t] =>
      used[t][k] <= Larger(base[t][k], MaxUsage[k] - 1)
                      + Largest[k] * Cardinality(Req)

\* Once the job of this month has cleared the counters, what is held against
\* a tenant is usage of this month only: also for tenants that were deleted
\* then and restored later, and for records that were in flight.
QuotaIsMonthly ==
  month \in cleared =>
    \A t \in Tenant, k \in Kind : used[t][k] <= spent[t][month][k]

\* A snapshot never shows usage that did not happen: the one of a period is at
\* most the usage of its month and of the month before, if the job of that
\* month cleared the counters.
SnapshotBounded ==
  \A t \in Tenant, m \in Month \ {0} :
    m - 1 \in cleared /\ snapshot[t][m] # None =>
      \A k \in Kind : snapshot[t][m][k] <= spent[t][m - 1][k] + spent[t][m][k]

\* analytics.controller.ts: the snapshot of a period shows the usage of that
\* month.
SnapshotOfItsMonth ==
  \A t \in Tenant, m \in Month :
    snapshot[t][m] # None =>
      \A k \in Kind : snapshot[t][m][k] <= spent[t][m][k]
=============================================================================
