------------------------------- MODULE Grants -------------------------------
(***************************************************************************)
(* How packages/runtime-core/src/task-controller.ts meters the capability  *)
(* grants of the policy (capabilityCheck in packages/policy-core): a grant *)
(* is chosen and reserved in memory when a task is started, drawn in the   *)
(* database once the adapter may have done the work, and drawn by recovery *)
(* for a task that was cut off. The circuit breaker may refuse a started   *)
(* task before its adapter is called.                                      *)
(*                                                                         *)
(* A step is one write transaction of one process with the computation up  *)
(* to its next `await`. Every task matches every grant, in the order of    *)
(* the policy's list, and all of them aim at one target. What the adapter  *)
(* did is abstracted to whether it may have done the work; keys, receipts  *)
(* and certificates are TaskController's. All draws fall within one day.   *)
(***************************************************************************)
EXTENDS Naturals, FiniteSets, FiniteSetsExt

CONSTANTS
  Procs,       \* processes (runtimes) sharing one database
  Tasks,       \* the tasks planned in it
  Mutations,   \* tasks whose operation changes something; the rest are reads
  GrantCount,  \* the grants are 1..GrantCount, in the order of the policy
  MaxOps,      \* grant.maxOperations
  DailyMax,    \* grant.provider.dailyMax
  Amount,      \* the amount each task declares it spends
  Threshold,   \* circuitBreaker.threshold
  Nobody, Gone,  \* a row's owner: none, or the id of a process that is gone
  MaxCrashes,  \* bound: process crashes in a behaviour
  MaxFaults    \* bound: writes that fail in a behaviour

GrantIds == 1..GrantCount
NoGrant == 0

ASSUME GrantAssumption ==
  /\ Mutations \subseteq Tasks
  /\ GrantCount \in Nat \ {0}
  /\ MaxOps \in [GrantIds -> Nat \ {0}]
  /\ DailyMax \in [GrantIds -> Nat]
  /\ Amount \in [Tasks -> Nat]
  /\ Threshold \in Nat \ {0}
  /\ Nobody \notin Procs /\ Gone \notin Procs /\ Nobody # Gone
  /\ MaxCrashes \in Nat /\ MaxFaults \in Nat

VARIABLES
  row,       \* tasks: status and owner of each task
  uses,      \* capability_usage: the tasks that drew each grant
  serving,   \* processes past their startup recovery
  reserved,  \* per process and grant: draws held in memory
  job,       \* what each process is doing with each task
  breaker,   \* per process: consecutive failures, and whether it has cooled
  under,     \* history: the tasks whose effect may have gone out on each grant
  crashes, faults

memory == <<serving, reserved, job, breaker>>
vars == <<row, uses, memory, under, crashes, faults>>

Status == {"planned", "running", "parked", "settled", "policy_blocked"}
Stages == {"idle", "starting", "attempting", "calling", "returned",
           "catch_draw", "catch_park", "catch_fail",
           "recovering", "recover_save"}
Idle == [pc |-> "idle", grant |-> NoGrant]

At(p, t, stage) == job[p][t].pc = stage
GoTo(p, t, stage) == job' = [job EXCEPT ![p][t].pc = stage]
Finish(p, t) == job' = [job EXCEPT ![p][t] = Idle]
SetStatus(t, status) == row' = [row EXCEPT ![t].status = status]
Fault == faults < MaxFaults /\ faults' = faults + 1

Init ==
  /\ row = [t \in Tasks |-> [status |-> "planned", owner |-> Nobody]]
  /\ uses = [g \in GrantIds |-> {}]
  /\ serving = {}
  /\ reserved = [p \in Procs |-> [g \in GrantIds |-> {}]]
  /\ job = [p \in Procs |-> [t \in Tasks |-> Idle]]
  /\ breaker = [p \in Procs |-> [count |-> 0, cooled |-> FALSE]]
  /\ under = [g \in GrantIds |-> {}]
  /\ crashes = 0 /\ faults = 0

-----------------------------------------------------------------------------
(* Which grant pays.                                                       *)

Spent(ts) == MapThenSumSet(LAMBDA t : Amount[t], ts)

\* capabilityUsage: the draws on record and those held here, each counted as
\* often as it stands in either.
UsageOfRecord(p, g) ==  \* variant: what is held is not counted
  [operations |-> Cardinality(uses[g]), amount |-> Spent(uses[g])]
Usage(p, g) ==
  [operations |-> Cardinality(uses[g]) + Cardinality(reserved[p][g]),
   amount     |-> Spent(uses[g]) + Spent(reserved[p][g])]

\* meteringRefusal: whether a grant of which `used` is spent can pay for t.
CanPay(g, t, used) ==
  /\ used.operations < MaxOps[g]
  /\ used.amount + Amount[t] <= DailyMax[g]

\* capabilityCheck: the first grant in order that can pay, or none.
First(gs) == IF gs = {} THEN NoGrant ELSE Min(gs)
Granted(p, t) == First({g \in GrantIds : CanPay(g, t, Usage(p, g))})
\* drawGrant asks as if nothing were drawn.
GrantedUnspent(t) ==
  First({g \in GrantIds : CanPay(g, t, [operations |-> 0, amount |-> 0])})

Draw(g, t) == uses' = [uses EXCEPT ![g] = @ \union {t}]
HoldById(p, g, t) ==  \* variant: what is held is not named by its task
  reserved' = [reserved EXCEPT ![p][g] = @ \union {g}]
Hold(p, g, t) == reserved' = [reserved EXCEPT ![p][g] = @ \union {t}]
Release(p, t) ==
  reserved' = [reserved EXCEPT ![p][job[p][t].grant] = @ \ {t}]
HasUse(t) == \E g \in GrantIds : t \in uses[g]

\* drawGrant: charges a task that has drawn nothing yet, and lets go of what is
\* held for it here.
DrawGrant(p, t) ==
  /\ IF HasUse(t) \/ GrantedUnspent(t) = NoGrant
     THEN UNCHANGED uses ELSE Draw(GrantedUnspent(t), t)
  /\ reserved' = [reserved EXCEPT ![p] = [g \in GrantIds |-> @[g] \ {t}]]

-----------------------------------------------------------------------------
(* execute.                                                                *)

\* A process serves once its startup pass has recovered every interrupted task
\* it may claim.
Recovered(p) ==
  \A t \in Tasks :
    row[t].status = "running" => row[t].owner \notin {Nobody, Gone, p}
Serve(p) ==
  /\ p \notin serving
  /\ Recovered(p)
  /\ serving' = serving \union {p}
  /\ UNCHANGED <<row, uses, reserved, job, breaker, under, crashes, faults>>

\* The policy is evaluated again and denies: no grant can pay.
Block(p, t) ==
  /\ p \in serving /\ At(p, t, "idle")
  /\ row[t].status = "planned"
  /\ Granted(p, t) = NoGrant
  /\ SetStatus(t, "policy_blocked")
  /\ UNCHANGED <<uses, memory, under, crashes, faults>>

\* A grant can pay, and is reserved in the same turn, before the start write.
Reserve(p, t) ==
  /\ p \in serving /\ At(p, t, "idle")
  /\ row[t].status = "planned"
  /\ Granted(p, t) # NoGrant
  /\ Hold(p, Granted(p, t), t)
  /\ job' = [job EXCEPT ![p][t] = [pc |-> "starting", grant |-> Granted(p, t)]]
  /\ UNCHANGED <<row, uses, serving, breaker, under, crashes, faults>>

\* The start write: a compare-and-set. Refused, the reservation is let go.
Start(p, t) ==
  /\ At(p, t, "starting")
  /\ IF row[t].status = "planned"
     THEN /\ row' = [row EXCEPT ![t] = [status |-> "running", owner |-> p]]
          /\ GoTo(p, t, "attempting")
          /\ UNCHANGED reserved
     ELSE /\ Finish(p, t)
          /\ Release(p, t)
          /\ UNCHANGED row
  /\ UNCHANGED <<uses, serving, breaker, under, crashes, faults>>

\* Its COMMIT failed after the callback ran: the task never started.
StartFailsHolding(p, t) ==  \* variant: the reservation is forgotten there
  /\ At(p, t, "starting")
  /\ Fault
  /\ Finish(p, t)
  /\ UNCHANGED <<row, uses, serving, reserved, breaker, under, crashes>>
StartFails(p, t) ==
  /\ At(p, t, "starting")
  /\ Fault
  /\ Finish(p, t)
  /\ Release(p, t)
  /\ UNCHANGED <<row, uses, serving, breaker, under, crashes>>

\* CircuitBreaker.check: open until it has cooled.
Open(p) == breaker[p].count = Threshold /\ ~breaker[p].cooled
RecordFailure(p) ==
  breaker' = [breaker EXCEPT ![p] =
                [count  |-> IF @.count = Threshold THEN Threshold ELSE @.count + 1,
                 cooled |-> FALSE]]
RecordSuccess(p) ==
  breaker' = [breaker EXCEPT ![p] = [count |-> 0, cooled |-> FALSE]]
CoolDown(p) ==
  /\ Open(p)
  /\ breaker' = [breaker EXCEPT ![p].cooled = TRUE]
  /\ UNCHANGED <<row, uses, serving, reserved, job, under, crashes, faults>>

\* Refused by the breaker, or thrown before the adapter was called (aborted, or
\* the attempt's own save failed): nothing went out, the reservation is let go.
NotCalled(p, t) ==
  /\ At(p, t, "attempting")
  /\ IF Open(p) THEN UNCHANGED breaker
     ELSE RecordFailure(p) \/ UNCHANGED breaker
  /\ GoTo(p, t, "catch_fail")
  /\ Release(p, t)
  /\ UNCHANGED <<row, uses, serving, under, crashes, faults>>

\* The adapter is called: from here its effect may go out.
Call(p, t) ==
  /\ At(p, t, "attempting") /\ ~Open(p)
  /\ under' = [under EXCEPT ![job[p][t].grant] = @ \union {t}]
  /\ GoTo(p, t, "calling")
  /\ UNCHANGED <<row, uses, serving, reserved, breaker, crashes, faults>>

\* It returns, and what it reported is verified.
Returns(p, t, success) ==
  /\ At(p, t, "calling")
  /\ IF success THEN RecordSuccess(p) ELSE RecordFailure(p)
  /\ GoTo(p, t, "returned")
  /\ UNCHANGED <<row, uses, serving, reserved, under, crashes, faults>>

\* It throws: an outcome-unknown error, or one that says nothing went out. A
\* cancelled task is no evidence about the target.
ThrowsUnknown(p, t) ==
  /\ At(p, t, "calling")
  /\ RecordFailure(p) \/ UNCHANGED breaker
  /\ GoTo(p, t, "catch_draw")
  /\ UNCHANGED <<row, uses, serving, reserved, under, crashes, faults>>
ThrowsNotSent(p, t) ==
  /\ At(p, t, "calling")
  /\ RecordFailure(p) \/ UNCHANGED breaker
  /\ under' = [under EXCEPT ![job[p][t].grant] =
                 IF t \in uses[job[p][t].grant] THEN @ ELSE @ \ {t}]
  /\ GoTo(p, t, "catch_fail")
  /\ Release(p, t)
  /\ UNCHANGED <<row, uses, serving, crashes, faults>>

\* The final write: the draw and the outcome at once, then the release.
Conclude(p, t) ==
  /\ At(p, t, "returned")
  /\ Draw(job[p][t].grant, t)
  /\ SetStatus(t, "settled")
  /\ Finish(p, t)
  /\ Release(p, t)
  /\ UNCHANGED <<serving, breaker, under, crashes, faults>>

\* Any write after the adapter returned fails.
ReturnedFails(p, t) ==
  /\ At(p, t, "returned")
  /\ Fault
  /\ GoTo(p, t, "catch_draw")
  /\ UNCHANGED <<row, uses, serving, reserved, breaker, under, crashes>>

\* The catch of execute: paid for first, then the outcome.
CatchDraw(p, t) ==
  /\ At(p, t, "catch_draw")
  /\ Draw(job[p][t].grant, t)
  /\ Release(p, t)
  /\ GoTo(p, t, IF t \in Mutations THEN "catch_park" ELSE "catch_fail")
  /\ UNCHANGED <<row, serving, breaker, under, crashes, faults>>
CatchSave(p, t) ==
  /\ job[p][t].pc \in {"catch_park", "catch_fail"}
  /\ SetStatus(t, IF At(p, t, "catch_park") THEN "parked" ELSE "settled")
  /\ Finish(p, t)
  /\ UNCHANGED <<uses, serving, reserved, breaker, under, crashes, faults>>

\* A write of the catch fails: the row is left running, and where the draw was
\* the write that failed the reservation is kept.
CatchFails(p, t) ==
  /\ job[p][t].pc \in {"catch_draw", "catch_park", "catch_fail"}
  /\ Fault
  /\ Finish(p, t)
  /\ UNCHANGED <<row, uses, serving, reserved, breaker, under, crashes>>

-----------------------------------------------------------------------------
(* Recovery and reconciliation.                                            *)

\* claimInterruptedTask.
Claim(p, t) ==
  /\ At(p, t, "idle")
  /\ row[t].status = "running" /\ row[t].owner \in {Nobody, Gone, p}
  /\ row' = [row EXCEPT ![t].owner = p]
  /\ GoTo(p, t, "recovering")
  /\ UNCHANGED <<uses, serving, reserved, breaker, under, crashes, faults>>

\* resolveAsVerified or settleCommitted: drawn and settled in one write.
RecoverSettled(p, t) ==
  /\ At(p, t, "recovering")
  /\ DrawGrant(p, t)
  /\ SetStatus(t, "settled")
  /\ Finish(p, t)
  /\ UNCHANGED <<serving, breaker, under, crashes, faults>>

\* Otherwise paid for first; then a read is ready to run again, and a change
\* parked.
RecoverDraw(p, t) ==
  /\ At(p, t, "recovering")
  /\ DrawGrant(p, t)
  /\ GoTo(p, t, "recover_save")
  /\ UNCHANGED <<row, serving, breaker, under, crashes, faults>>
RecoverSave(p, t) ==
  /\ At(p, t, "recover_save")
  /\ SetStatus(t, IF t \in Mutations THEN "parked" ELSE "planned")
  /\ Finish(p, t)
  /\ UNCHANGED <<uses, serving, reserved, breaker, under, crashes, faults>>

\* The recovery throws: releaseTaskClaim, which may itself fail. A startup pass
\* that meets it leaves the process not serving.
RecoverFails(p, t) ==
  /\ job[p][t].pc \in {"recovering", "recover_save"}
  /\ Fault
  /\ \E o \in {Nobody, p} : row' = [row EXCEPT ![t].owner = o]
  /\ Finish(p, t)
  /\ UNCHANGED <<uses, serving, reserved, breaker, under, crashes>>

\* reconcile: the provider answers that it happened, or that it did not; a draw
\* stands either way.
Reconcile(p, t, happened) ==
  /\ p \in serving /\ At(p, t, "idle")
  /\ row[t].status = "parked"
  /\ SetStatus(t, "settled")
  /\ IF happened THEN DrawGrant(p, t) ELSE UNCHANGED <<uses, reserved>>
  /\ UNCHANGED <<serving, job, breaker, under, crashes, faults>>

\* A process ends and a new one, with an owner id of its own, takes its place.
Crash(p) ==
  /\ crashes < MaxCrashes
  /\ crashes' = crashes + 1
  /\ serving' = serving \ {p}
  /\ reserved' = [reserved EXCEPT ![p] = [g \in GrantIds |-> {}]]
  /\ job' = [job EXCEPT ![p] = [t \in Tasks |-> Idle]]
  /\ breaker' = [breaker EXCEPT ![p] = [count |-> 0, cooled |-> FALSE]]
  /\ row' = [t \in Tasks |-> IF row[t].owner = p
                               THEN [row[t] EXCEPT !.owner = Gone] ELSE row[t]]
  /\ UNCHANGED <<uses, under, faults>>

-----------------------------------------------------------------------------
Execute(p, t) ==
  \/ Start(p, t) \/ NotCalled(p, t) \/ Call(p, t)
  \/ \E success \in BOOLEAN : Returns(p, t, success)
  \/ ThrowsUnknown(p, t) \/ ThrowsNotSent(p, t) \/ Conclude(p, t)
  \/ CatchDraw(p, t) \/ CatchSave(p, t)

Recover(p, t) ==
  \/ Claim(p, t) \/ RecoverSettled(p, t)
  \/ RecoverDraw(p, t) \/ RecoverSave(p, t)

Fails(p, t) ==
  \/ StartFails(p, t) \/ ReturnedFails(p, t)
  \/ CatchFails(p, t) \/ RecoverFails(p, t)

Next ==
  \E p \in Procs :
    \/ Serve(p) \/ CoolDown(p) \/ Crash(p)
    \/ \E t \in Tasks :
         \/ Block(p, t) \/ Reserve(p, t) \/ Execute(p, t)
         \/ Recover(p, t) \/ Fails(p, t)
         \/ \E happened \in BOOLEAN : Reconcile(p, t, happened)

Spec == Init /\ [][Next]_vars

\* A started task goes on and its adapter call ends; the startup pass and the
\* sweep recover what they may claim. Starting a task is never owed.
Fairness ==
  \A p \in Procs :
    /\ WF_vars(Serve(p))
    /\ \A t \in Tasks : WF_vars(Execute(p, t)) /\ WF_vars(Recover(p, t))
FairSpec == Spec /\ Fairness

-----------------------------------------------------------------------------
(* Properties.                                                             *)

\* Every variable keeps its type.
TypeOK ==
  /\ row \in [Tasks -> [status : Status, owner : Procs \union {Nobody, Gone}]]
  /\ uses \in [GrantIds -> SUBSET Tasks]
  /\ serving \subseteq Procs
  /\ reserved \in [Procs -> [GrantIds -> SUBSET Tasks]]
  /\ job \in [Procs -> [Tasks -> [pc : Stages, grant : GrantIds \union {NoGrant}]]]
  /\ breaker \in [Procs -> [count : 0..Threshold, cooled : BOOLEAN]]
  /\ under \in [GrantIds -> SUBSET Tasks]
  /\ crashes \in Nat /\ faults \in Nat

\* Counting an effect that did not happen is preferred to a grant funding more
\* than it says (execute's draw): with one process and one grant, the tasks
\* whose effect may have gone out never exceed the grant's operations, nor what
\* they declare its daily limit, whatever runs at once, crashes or fails.
FundsNoMore ==
  \A g \in GrantIds :
    /\ Cardinality(under[g]) <= MaxOps[g]
    /\ Spent(under[g]) <= DailyMax[g]

\* docs/CAPABILITIES.md: a grant is drawn down whenever the adapter may have
\* done the work. A task at rest whose effect may have gone out is on record.
PaidAtRest ==
  \A t \in Tasks :
    row[t].status # "running" /\ (\E g \in GrantIds : t \in under[g]) => HasUse(t)

\* Both, as a run checks them.
GrantsFundNoMore == FundsNoMore /\ PaidAtRest

\* A draw held in memory is let go once it is on record or the effect is known
\* not to have run; one whose draw failed to write, once recovery wrote it. A
\* grant is never eaten up by what a process forgot to let go of.
HeldIsLetGo ==
  \A p \in Procs, t \in Tasks, g \in GrantIds :
    t \in reserved[p][g] ~> t \notin reserved[p][g]
=============================================================================
