------------------------- MODULE WorkflowController -------------------------
(***************************************************************************)
(* One workflow run in packages/runtime-core/src/workflow-controller.ts:   *)
(* advances under a lease that can lapse and be taken over, a saga's       *)
(* unwind, recovery of what a dead advance left, and the operator's pause, *)
(* resume and cancel, by several processes sharing the database.           *)
(*                                                                         *)
(* Its nodes are operation steps and compensations, each with one task     *)
(* under its idempotency key: a challenge asked again after it expired is  *)
(* the same task here, and what TaskController does with a task is taken   *)
(* as its states.  A run of synchronous code between two awaits is split   *)
(* wherever another process could act on what it has read, and is taken to *)
(* be shorter than a lease.  Not here: the other kinds of node             *)
(* (WorkflowNodes), runs as earlier versions left them (repairLegacy), and *)
(* a certificate that fails to be written.  "paused" is suspended too.     *)
(***************************************************************************)
EXTENDS Naturals, FiniteSets

CONSTANTS
  Procs,          \* processes sharing the database
  Steps,          \* operation nodes
  Undos,          \* compensation nodes
  Target,         \* the step each compensation undoes
  Rank,           \* place of each compensation in the definition
  DependsOn,      \* the steps each step waits for
  NeedsApproval,  \* nodes whose task waits for a person
  Direct,         \* nodes whose tasks callers also execute themselves
  Nobody, Gone,   \* no owner, and an owner whose process is gone
  MaxCrashes, MaxLapses, MaxControls  \* bounds on these in a behaviour

Nodes == Steps \union Undos
Role == {"advance", "recovery", "control"}

ASSUME WorkflowAssumption ==
  /\ Steps # {} /\ Steps \intersect Undos = {}
  /\ IsFiniteSet(Undos)
  /\ Target \in [Undos -> Steps]
  /\ Rank \in [Undos -> Nat]
  /\ \A u, v \in Undos : Rank[u] = Rank[v] => u = v
  /\ DependsOn \in [Steps -> SUBSET Steps]
  /\ NeedsApproval \subseteq Nodes /\ Direct \subseteq Nodes
  /\ Nobody \notin Procs /\ Gone \notin Procs /\ Nobody # Gone
  /\ \A p \in Procs, role \in Role : <<p, role>> \notin {Nobody, Gone}
  /\ MaxCrashes \in Nat /\ MaxLapses \in Nat /\ MaxControls \in Nat

VARIABLES
  run,       \* workflow_runs: the projection and its version
  lease,     \* workflow_leases: its owner, and whether it has not expired
  task,      \* the task under each node's key ("approved": decided in time)
  holder,    \* the process each running task belongs to
  adv,       \* the advance each process has in flight (in memory)
  sync,      \* its recovery or operator control, one synchronous block
  happened,  \* the world: nodes whose effect took place
  sends,     \* history: how often each node's adapter was called
  crashes, lapses, controls

db    == <<run, lease, task, holder>>
world == <<happened, sends>>
bounds == <<crashes, lapses, controls>>
vars  == <<db, adv, sync, world, bounds>>

Unstarted == {"planned", "awaiting", "approved"}
TaskStatus == Unstarted \union
  {"none", "running", "verified_success", "partial", "failed", "cancelled",
   "recovery_required"}
\* "in_flight" is recovery_required with the error task_still_in_flight.
Unknown == {"recovery_required", "in_flight"}
Done == {"verified_complete", "skipped", "compensated"}
NodeStatus == Unknown \union Done \union
  {"pending", "awaiting_approval", "failed", "cancelled"}
Ended == {"verified_complete", "cancelled"}
Recoverable == {"planned", "running", "awaiting_approval", "recovery_required"}
Abandonable == Recoverable \union {"failed"}
RunStatus == Ended \union Abandonable \union {"paused"}

Run == [status : RunStatus, version : Nat, node : [Nodes -> NodeStatus]]
Lease == [owner : (Procs \X Role) \union {Nobody, Gone}, fresh : BOOLEAN]
NoLease == [owner |-> Nobody, fresh |-> FALSE]

Started == [status |-> "planned", version |-> 1,
            node |-> [n \in Nodes |-> "pending"]]
\* An advance: what it read, where each node of its wave is, the states it will
\* record, and the compensations left to its unwind.
Advance == [pc   : {"idle", "recover", "wave", "undo", "commit",
                    "cancel", "release"},
            cur  : Run,
            at   : [Nodes -> {"no", "todo", "starting", "running"}],
            res  : [Nodes -> NodeStatus \union {"none"}],
            left : SUBSET Undos]
IdleAdvance == [pc |-> "idle", cur |-> Started,
                at |-> [n \in Nodes |-> "no"],
                res |-> [n \in Nodes |-> "none"], left |-> {}]
Leased(p) == adv[p].pc \in {"wave", "undo", "commit", "cancel", "release"}

\* A block of synchronous code: the version recovery listed, then the lease it
\* (or an operator's control) took, whether that lease stays expired, and the
\* challenges to cancel.
Sync == [pc : {"idle", "listed", "releasing"}, version : Nat,
         role : Role, keep : BOOLEAN, sweep : SUBSET Nodes]
IdleSync == [pc |-> "idle", version |-> 0, role |-> "control", keep |-> FALSE,
             sweep |-> {}]
Free(p) == sync[p].pc = "idle"

Init ==
  /\ run = Started
  /\ lease = NoLease
  /\ task = [n \in Nodes |-> "none"]
  /\ holder = [n \in Nodes |-> Nobody]
  /\ adv = [p \in Procs |-> IdleAdvance]
  /\ sync = [p \in Procs |-> IdleSync]
  /\ happened = {}
  /\ sends = [n \in Nodes |-> 0]
  /\ crashes = 0 /\ lapses = 0 /\ controls = 0

-----------------------------------------------------------------------------
(* What the run's state says.                                              *)

\* nodeStateForTask and recoveredNodeState of a node with one task.
AsTheTask(n, previous) ==  \* variant: a node takes its task's state as it is
  IF task[n] = "none" THEN previous ELSE task[n]
NodeState(n, previous) ==
  IF task[n] = "none" THEN previous
  ELSE IF task[n] = "planned" THEN "pending"
  ELSE IF task[n] \in {"awaiting", "approved"} THEN "awaiting_approval"
  ELSE IF task[n] = "running" THEN "in_flight"
  ELSE IF task[n] = "partial" THEN "failed"
  ELSE IF task[n] # "verified_success" THEN task[n]
  ELSE IF n \in Undos THEN "compensated" ELSE "verified_complete"

Stalled(node) ==
  \E u \in Undos : node[u] \in Unknown \union {"failed", "cancelled"}
UnknownOutcome(node) == \E s \in Steps : node[s] \in Unknown

DeriveStatus(node) ==
  IF Stalled(node) \/ UnknownOutcome(node) THEN "recovery_required"
  ELSE IF \E s \in Steps : node[s] \in {"failed", "cancelled"} THEN "failed"
  ELSE IF \E s \in Steps : node[s] = "awaiting_approval" THEN "awaiting_approval"
  ELSE IF \A s \in Steps : node[s] \in Done THEN "verified_complete"
  ELSE "running"

\* settleStatus: a finished run's unused compensations are skipped.
SettledNodes(node) ==
  IF DeriveStatus(node) # "verified_complete" THEN node
  ELSE [n \in Nodes |-> IF n \in Undos /\ node[n] = "pending"
                        THEN "skipped" ELSE node[n]]

\* transition: a new version when anything changed.
Moved(r, status, node) ==
  IF status = r.status /\ node = r.node THEN r
  ELSE [status |-> status, version |-> r.version + 1, node |-> node]
Settle(r, node) == Moved(r, DeriveStatus(SettledNodes(node)), SettledNodes(node))

\* After the transition to failed, the forward steps' challenges.
ToSweep(before, after) ==
  IF after.status = "failed" /\ before.status # "failed" THEN Steps ELSE {}

\* resettleParked: parked nodes whose tasks have settled since.
Resettled(r) ==
  LET moved == {n \in Nodes : r.node[n] \in Unknown /\ task[n] # "running"
                                /\ NodeState(n, r.node[n]) \notin Unknown}
  IN IF moved = {} THEN r
     ELSE Settle(r, [n \in Nodes |-> IF n \in moved
                                     THEN NodeState(n, r.node[n]) ELSE r.node[n]])

\* recoverRun: every node read again; a failed run's compensations only.
RecoverNodes(r) ==
  [n \in Nodes |-> IF r.status = "failed" /\ n \in Steps THEN r.node[n]
                   ELSE NodeState(n, r.node[n])]
RecoverRun(r) ==
  IF r.status = "planned" /\ RecoverNodes(r) = r.node THEN r
  ELSE Settle(r, RecoverNodes(r))

TargetDone(u, stateOf) == stateOf[Target[u]] = "verified_complete"
Rollback(r) ==
  IF r.status # "failed" THEN {}
  ELSE {u \in Undos : r.node[u] \in {"pending", "awaiting_approval"}
                        /\ TargetDone(u, r.node)}
HasFailure(r) ==
  \E s \in Steps :
    \/ r.node[s] \in {"failed", "cancelled"}
    \/ r.node[s] \in Unknown /\ task[s] \in {"partial", "failed", "cancelled"}
Awaiting(r) == {s \in Steps : r.node[s] = "awaiting_approval"}
Ready(r) == {s \in Steps : r.node[s] = "pending"
                             /\ \A d \in DependsOn[s] : r.node[d] \in Done}
ParkedSettled(r) ==
  \E s \in Awaiting(r) : task[s] \notin Unstarted \union {"verified_success"}
Failing(r) ==
  /\ ParkedSettled(r)
  /\ \E s \in Awaiting(r) : NodeState(s, r.node[s]) \in {"failed", "cancelled"}

-----------------------------------------------------------------------------
(* advance.                                                                *)

Owns(p, role) == lease.owner = <<p, role>>
\* takeWorkflowLease is not refused.
Takeable(p, role) == lease = NoLease \/ Owns(p, role) \/ ~lease.fresh
Hold(p, role) == lease' = [owner |-> <<p, role>>, fresh |-> TRUE]
Release(p, role) == lease' = IF Owns(p, role) THEN NoLease ELSE lease
SetAdv(p, a) == adv' = [adv EXCEPT ![p] = a]

\* The wave an advance runs on the run it read: its unwind, the parked steps
\* alone (one of which has settled), or the waiting and the ready ones. With
\* none the run is settled as it stands, and so already is.
Wave(cur) ==
  LET b == [IdleAdvance EXCEPT !.cur = cur]
      wave == IF ParkedSettled(cur) THEN Awaiting(cur)
              ELSE Awaiting(cur) \union Ready(cur)
  IN IF Stalled(cur.node) \/ (Rollback(cur) = {} /\ (HasFailure(cur) \/ wave = {}))
     THEN [b EXCEPT !.pc = "release"]
     ELSE IF Rollback(cur) # {}
     THEN [b EXCEPT !.pc = "undo", !.left = Rollback(cur)]
     ELSE IF Failing(cur)
     THEN [b EXCEPT !.pc = "wave",
                    !.res = [n \in Nodes |-> IF n \in Awaiting(cur)
                               THEN NodeState(n, cur.node[n]) ELSE "none"]]
     ELSE [b EXCEPT !.pc = "wave",
                    !.at = [n \in Nodes |-> IF n \in wave THEN "todo" ELSE "no"]]

\* acquireWorkflowLease and the start of advanceOnce: the run is read, its
\* parked steps read again, and the wave chosen (after the sweep, where one of
\* them failed the run).
Acquire(p) ==
  /\ Hold(p, "advance")
  /\ IF run.status \in Ended \union {"paused"}
     THEN /\ SetAdv(p, [IdleAdvance EXCEPT !.pc = "release", !.cur = run])
          /\ UNCHANGED run
     ELSE /\ run' = Resettled(run)
          /\ SetAdv(p, IF ToSweep(run, run') = {} THEN Wave(run')
                       ELSE [IdleAdvance EXCEPT !.pc = "cancel", !.cur = run'])

\* leasedAdvance, to its first await: refused on a halted run; an expired lease
\* of somebody else's has the run recovered first; else the lease is taken.
Abandoned(p) ==
  /\ lease # NoLease /\ ~Owns(p, "advance") /\ ~lease.fresh
  /\ run.status \in Abandonable
Begin(p) ==
  /\ adv[p].pc = "idle" /\ Free(p)
  /\ run.status # "paused"
  /\ IF Abandoned(p)
     THEN /\ SetAdv(p, [IdleAdvance EXCEPT !.pc = "recover"])
          /\ UNCHANGED <<run, lease>>
     ELSE Takeable(p, "advance") /\ Acquire(p)
  /\ UNCHANGED <<task, holder, sync, world, bounds>>

\* After its own recovery pass (ListRun): a lease still there is somebody's.
Recovered(p) ==
  /\ adv[p].pc = "recover" /\ Free(p)
  /\ IF lease = NoLease THEN Acquire(p)
     ELSE /\ SetAdv(p, IdleAdvance)
          /\ UNCHANGED <<run, lease>>
  /\ UNCHANGED <<task, holder, sync, world, bounds>>

\* The renewal timer.
Renew(p) ==
  /\ Leased(p) /\ Owns(p, "advance") /\ ~lease.fresh
  /\ lease' = [lease EXCEPT !.fresh = TRUE]
  /\ UNCHANGED <<run, task, holder, adv, sync, world, bounds>>

\* A node's task ends its part of the wave. An unwind goes on only past one
\* that is undone.
Result(a, n, state) ==
  [a EXCEPT !.at[n] = "no", !.res[n] = state,
            !.left = IF n \in Undos /\ state # "compensated" THEN {} ELSE @]
\* It is refused: the advance records what the others did, and no state for it.
Refuse(a, n) == [a EXCEPT !.at[n] = "no", !.left = {}]

\* runTask, up to its first await: the lease is renewed, the task under the
\* node's key taken up or planned, and its execute called if it may start.
StillLeasedUnchecked(p) == TRUE  \* variant: no renewal before a step
StillLeased(p) == Owns(p, "advance")
Plan(n) == IF n \in NeedsApproval THEN "awaiting" ELSE "planned"
PlanAgain(n) ==  \* variant: only a committed task is taken up
  IF task[n] # "verified_success" THEN Plan(n) ELSE task[n]
TakenUp(n) == IF task[n] = "none" THEN Plan(n) ELSE task[n]

TakeUp(p, n) ==
  /\ adv[p].at[n] = "todo" /\ Free(p)
  /\ IF ~StillLeased(p)
     THEN /\ SetAdv(p, Refuse(adv[p], n))
          /\ UNCHANGED <<lease, task>>
     ELSE /\ Hold(p, "advance")
          /\ task' = [task EXCEPT ![n] = TakenUp(n)]
          /\ SetAdv(p, IF task'[n] \in {"planned", "approved"}
                       THEN IF run.status = "paused" THEN Refuse(adv[p], n)
                            ELSE [adv[p] EXCEPT !.at[n] = "starting"]
                       ELSE Result(adv[p], n, NodeState(n, "pending")'))
  /\ UNCHANGED <<run, holder, sync, world, bounds>>

\* execute's start write: a compare-and-set on the task's status.
Start(p, n) ==
  /\ task' = [task EXCEPT ![n] = "running"]
  /\ holder' = [holder EXCEPT ![n] = p]
  /\ sends' = [sends EXCEPT ![n] = @ + 1]
StartStep(p, n) ==
  /\ adv[p].at[n] = "starting" /\ Free(p)
  /\ IF task[n] \in Unstarted
     THEN /\ Start(p, n)
          /\ SetAdv(p, [adv[p] EXCEPT !.at[n] = "running"])
     ELSE /\ SetAdv(p, Refuse(adv[p], n))
          /\ UNCHANGED <<task, holder, sends>>
  /\ UNCHANGED <<run, lease, sync, happened, bounds>>

\* The task ends, as TaskController ends it; the advance it belongs to goes on.
Outcomes(n) ==
  {"recovery_required"} \union
  (IF n \in happened THEN {"verified_success", "partial"}
                       ELSE {"failed", "cancelled"})
TaskEnds(p, n) ==
  /\ task[n] = "running" /\ holder[n] = p /\ Free(p)
  /\ \E outcome \in Outcomes(n) : task' = [task EXCEPT ![n] = outcome]
  /\ holder' = [holder EXCEPT ![n] = Nobody]
  /\ adv' = IF adv[p].at[n] # "running" THEN adv
            ELSE [adv EXCEPT ![p] = Result(@, n, NodeState(n, "pending")')]
  /\ UNCHANGED <<run, lease, sync, world, bounds>>

\* The state of a node once this advance's results are in.
After(a) == [n \in Nodes |-> IF a.res[n] # "none" THEN a.res[n] ELSE a.cur.node[n]]
Idling(a) == \A n \in Nodes : a.at[n] = "no"

\* Every sibling has settled: a forward step that failed or was denied starts
\* the unwind, unless a step's outcome is unknown.
UnwindAnyway(a) == \E s \in Steps : a.res[s] \in {"failed", "cancelled"}  \* variant
Unwinds(a) ==
  /\ ~UnknownOutcome(After(a))
  /\ \E s \in Steps : a.res[s] \in {"failed", "cancelled"}
WaveEnds(p) ==
  /\ adv[p].pc = "wave" /\ Idling(adv[p]) /\ Free(p)
  /\ SetAdv(p, IF Unwinds(adv[p])
               THEN [adv[p] EXCEPT !.pc = "undo",
                       !.left = {u \in Undos : adv[p].cur.node[u] = "pending"}]
               ELSE [adv[p] EXCEPT !.pc = "commit"])
  /\ UNCHANGED <<db, sync, world, bounds>>

\* The next compensation, newest step first; none once the run has moved on.
Oldest(left) == CHOOSE u \in left : \A v \in left : Rank[u] <= Rank[v]  \* variant
Newest(left) == CHOOSE u \in left : \A v \in left : Rank[v] <= Rank[u]
UndoNext(p) ==
  /\ adv[p].pc = "undo" /\ Idling(adv[p]) /\ Free(p)
  /\ LET a == adv[p]
         u == Newest(a.left)
     IN SetAdv(p,
          IF a.left = {} THEN [a EXCEPT !.pc = "commit"]
          ELSE IF run.version # a.cur.version THEN [a EXCEPT !.left = {}]
          ELSE IF TargetDone(u, After(a))
          THEN [a EXCEPT !.left = @ \ {u}, !.at[u] = "todo"]
          ELSE [a EXCEPT !.left = @ \ {u}, !.res[u] = "skipped"])
  /\ UNCHANGED <<db, sync, world, bounds>>

\* The lease is renewed once more and the wave committed, if the run is still
\* at the version that was read.
Current(p) == run.version = adv[p].cur.version
Commit(p) ==
  /\ adv[p].pc = "commit" /\ Free(p)
  /\ IF StillLeased(p) /\ Current(p)
     THEN /\ run' = Settle(adv[p].cur, After(adv[p]))
          /\ Hold(p, "advance")
          /\ SetAdv(p, [adv[p] EXCEPT
               !.pc = IF ToSweep(run, run') = {} THEN "release" ELSE "cancel"])
     ELSE /\ SetAdv(p, [adv[p] EXCEPT !.pc = "release"])
          /\ lease' = IF StillLeased(p) THEN [lease EXCEPT !.fresh = TRUE] ELSE lease
          /\ UNCHANGED run
  /\ UNCHANGED <<task, holder, sync, world, bounds>>

\* cancelChallenges: each by compare-and-set. Only Acquire's sweep is of a run
\* that was read as failed.
Cancelled(nodes) ==
  task' = [n \in Nodes |-> IF n \in nodes /\ task[n] \in Unstarted
                           THEN "cancelled" ELSE task[n]]
CancelForward(p) ==
  /\ adv[p].pc = "cancel" /\ Free(p)
  /\ Cancelled(Steps)
  /\ SetAdv(p, IF adv[p].cur.status = "failed" THEN Wave(adv[p].cur)
               ELSE [adv[p] EXCEPT !.pc = "release"])
  /\ UNCHANGED <<run, lease, holder, sync, world, bounds>>

ReleaseAdvance(p) ==
  /\ adv[p].pc = "release" /\ Free(p)
  /\ Release(p, "advance")
  /\ SetAdv(p, IdleAdvance)
  /\ UNCHANGED <<run, task, holder, sync, world, bounds>>

-----------------------------------------------------------------------------
(* Recovery and the operator.                                              *)

\* recoverInterrupted of a task whose process is gone, or that this process no
\* longer runs.
RecoverTask(p, n) ==
  /\ task[n] = "running" /\ holder[n] = Gone /\ Free(p)
  /\ \E outcome \in {"recovery_required"} \union
                    (IF n \in happened THEN {"verified_success"} ELSE {}) :
       task' = [task EXCEPT ![n] = outcome]
  /\ holder' = [holder EXCEPT ![n] = Nobody]
  /\ UNCHANGED <<run, lease, adv, sync, world, bounds>>

\* repairRuns, up to the lease: a run with no task running. The sweep reads
\* only those with an expired lease; a start reads every recoverable one.
ListedWhileRunning(abandonedOnly) ==  \* variant: the sweep too passes over failed runs
  /\ run.status \in Recoverable
  /\ abandonedOnly => lease # NoLease /\ ~lease.fresh
Listed(abandonedOnly) ==
  IF abandonedOnly
  THEN lease # NoLease /\ ~lease.fresh /\ run.status \in Abandonable
  ELSE run.status \in Recoverable
ListRun(p, abandonedOnly) ==
  /\ Free(p) /\ ~Leased(p)
  /\ Listed(abandonedOnly)
  /\ \A n \in Nodes : task[n] # "running"
  /\ sync' = [sync EXCEPT ![p] = [IdleSync EXCEPT !.pc = "listed",
                                    !.version = run.version, !.role = "recovery"]]
  /\ UNCHANGED <<db, adv, world, bounds>>

\* What a block does once it has the run's lease; a lease it replaced is left
\* expired, unless a repair made the run straight.
UnderLease(p, role, after, repaired, sweep) ==
  /\ Hold(p, role)
  /\ run' = after
  /\ sync' = [sync EXCEPT ![p] =
       [IdleSync EXCEPT !.pc = "releasing", !.role = role,
          !.keep = lease # NoLease /\ ~repaired, !.sweep = sweep]]
  /\ UNCHANGED <<task, holder, adv, world, crashes, lapses>>

\* takeWorkflowLease and recoverRun, unless the run moved since the listing.
Unmoved(p) == run.version = sync[p].version
RepairRun(p) ==
  /\ sync[p].pc = "listed"
  /\ IF Takeable(p, "recovery")
     THEN /\ LET after == IF Unmoved(p) THEN RecoverRun(run) ELSE run
             IN UnderLease(p, "recovery", after, Unmoved(p), ToSweep(run, after))
          /\ UNCHANGED controls
     ELSE /\ sync' = [sync EXCEPT ![p] = IdleSync]
          /\ UNCHANGED <<db, adv, world, bounds>>

KeepsLease(p) == sync[p].keep
ReleaseSync(p) ==
  /\ sync[p].pc = "releasing"
  /\ Cancelled(sync[p].sweep)
  /\ IF KeepsLease(p)
     THEN lease' = IF Owns(p, sync[p].role) THEN [lease EXCEPT !.fresh = FALSE]
                                            ELSE lease
     ELSE Release(p, sync[p].role)
  /\ sync' = [sync EXCEPT ![p] = IdleSync]
  /\ UNCHANGED <<run, holder, adv, world, bounds>>

\* underLease: refused while an advance holds the run. `controls` is the bound.
Control(p) ==
  /\ Free(p) /\ controls < MaxControls
  /\ Takeable(p, "control")
  /\ controls' = controls + 1

Pause(p) ==
  /\ Control(p)
  /\ run.status \notin Ended \union {"failed", "paused"}
  /\ UnderLease(p, "control", Moved(run, "paused", run.node), FALSE, {})

Resume(p) ==
  /\ Control(p)
  /\ run.status = "paused"
  /\ LET after == Moved(run, DeriveStatus(run.node), run.node)
     IN UnderLease(p, "control", after, FALSE, ToSweep(run, after))

\* A control that does not apply (a pause of an ended run, a resume of one that
\* is not paused) has taken the lease by then all the same.
Refused(p) == Control(p) /\ UnderLease(p, "control", run, FALSE, {})

\* cancel: the steps as their tasks read, those not begun cancelled; again on a
\* cancelled run, the steps in flight that have ended, which settleStopped does
\* too once the tasks this process told to stop have.
CancelledNodes ==
  LET node == IF run.status = "cancelled"
              THEN [n \in Nodes |-> IF run.node[n] = "in_flight" /\ task[n] # "running"
                                    THEN NodeState(n, run.node[n]) ELSE run.node[n]]
              ELSE RecoverNodes(run)
      stopped == {n \in Nodes : /\ node[n] \in {"pending", "awaiting_approval"}
                                /\ run.status = "cancelled" => node[n] # run.node[n]}
  IN [n \in Nodes |-> IF n \in stopped THEN "cancelled" ELSE node[n]]
Cancel(p) ==
  /\ Control(p)
  /\ run.status # "verified_complete"
  /\ UnderLease(p, "control", Moved(run, "cancelled", CancelledNodes), FALSE, Nodes)

\* melra_execute, an operator's decision and a deny, on a node's task.
Execute(p, n) ==
  /\ n \in Direct /\ Free(p) /\ run.status # "paused"
  /\ task[n] \in {"planned", "approved"}
  /\ Start(p, n)
  /\ UNCHANGED <<run, lease, adv, sync, happened, bounds>>
Approve(n) ==
  /\ task[n] = "awaiting"
  /\ task' = [task EXCEPT ![n] = "approved"]
  /\ UNCHANGED <<run, lease, holder, adv, sync, world, bounds>>
Deny(n) ==
  /\ task[n] \in Unstarted
  /\ task' = [task EXCEPT ![n] = "cancelled"]
  /\ UNCHANGED <<run, lease, holder, adv, sync, world, bounds>>
\* reconcile of a parked task.
Reconcile(n) ==
  /\ task[n] = "recovery_required"
  /\ task' = [task EXCEPT ![n] = IF n \in happened THEN "verified_success"
                                                   ELSE "failed"]
  /\ UNCHANGED <<run, lease, holder, adv, sync, world, bounds>>

-----------------------------------------------------------------------------
(* The world.                                                              *)

Happens(n) ==
  /\ task[n] \in {"running", "recovery_required"} /\ n \notin happened
  /\ happened' = happened \union {n}
  /\ UNCHANGED <<db, adv, sync, sends, bounds>>

\* A lease runs out: its holder is gone, or stalled past its renewals.
Lapse ==
  /\ lease.fresh
  /\ IF lease.owner = Gone THEN UNCHANGED lapses
     ELSE lapses < MaxLapses /\ lapses' = lapses + 1
  /\ lease' = [lease EXCEPT !.fresh = FALSE]
  /\ UNCHANGED <<run, task, holder, adv, sync, world, crashes, controls>>

Crash(p) ==
  /\ crashes < MaxCrashes
  /\ crashes' = crashes + 1
  /\ adv' = [adv EXCEPT ![p] = IdleAdvance]
  /\ sync' = [sync EXCEPT ![p] = IdleSync]
  /\ holder' = [n \in Nodes |-> IF holder[n] = p THEN Gone ELSE holder[n]]
  /\ lease' = IF \E role \in Role : Owns(p, role)
              THEN [lease EXCEPT !.owner = Gone] ELSE lease
  /\ UNCHANGED <<run, task, world, lapses, controls>>

-----------------------------------------------------------------------------
Advances(p) ==
  \/ Recovered(p) \/ WaveEnds(p) \/ UndoNext(p) \/ Commit(p)
  \/ CancelForward(p) \/ ReleaseAdvance(p)
  \/ \E n \in Nodes : TakeUp(p, n) \/ StartStep(p, n) \/ TaskEnds(p, n)
Sweeps(p) ==
  \/ ListRun(p, TRUE) \/ RepairRun(p) \/ ReleaseSync(p)
  \/ \E n \in Nodes : RecoverTask(p, n)
Operator(p) == Pause(p) \/ Resume(p) \/ Refused(p) \/ Cancel(p)

Next ==
  \/ \E p \in Procs :
       \/ Begin(p) \/ Advances(p) \/ Renew(p)
       \/ Sweeps(p) \/ ListRun(p, FALSE)
       \/ Operator(p) \/ Crash(p)
       \/ \E n \in Nodes : Execute(p, n)
  \/ \E n \in Nodes : Approve(n) \/ Deny(n) \/ Reconcile(n) \/ Happens(n)
  \/ Lapse

Spec == Init /\ [][Next]_vars

\* An advance that was started goes on and its adapters end (every budget
\* aborts them), each live process sweeps every 30 s, and an unrenewed lease
\* runs out. Starting an advance, a person's answer, a crash and a stall are
\* never owed.
Fairness ==
  /\ \A p \in Procs : WF_vars(Advances(p)) /\ WF_vars(Sweeps(p))
  /\ \A p \in Procs, n \in Nodes : WF_vars(TaskEnds(p, n))
  /\ WF_vars(Lapse)
FairSpec == Spec /\ Fairness

-----------------------------------------------------------------------------
(* Properties.                                                             *)

\* Every variable keeps its type.
TypeOK ==
  /\ run \in Run
  /\ lease \in Lease
  /\ task \in [Nodes -> TaskStatus]
  /\ holder \in [Nodes -> Procs \union {Nobody, Gone}]
  /\ adv \in [Procs -> Advance]
  /\ sync \in [Procs -> Sync]
  /\ happened \subseteq Nodes
  /\ sends \in [Nodes -> Nat]
  /\ crashes \in Nat /\ lapses \in Nat /\ controls \in Nat

\* No node's adapter is called twice, whatever advances, recoveries and direct
\* executes race over its task: each finds the task under the node's key and
\* starts it by compare-and-set.
AtMostOnce == \A n \in Nodes : sends[n] <= 1

\* An advance commits itself to executing a node's task.
TookUp(p, n) == adv[p].at[n] = "todo" /\ adv'[p].at[n] = "starting"
\* An advance starts a node only on the run it read: nothing else has moved the
\* run since, and it is neither paused, finished nor cancelled. What guards this is
\* not the version (checked at the commit only) but the lease, renewed before
\* every step.
TakenUpOnCurrentRun ==
  [][\A p \in Procs, n \in Nodes :
       TookUp(p, n) => /\ run.version = adv[p].cur.version
                       /\ run.status \notin Ended \union {"paused"}]_vars

\* No compensation starts while a forward step's task is running or its outcome
\* unknown (docs/ARCHITECTURE.md, "Neither unwind starts while...").
NoUnwindPastUnknown ==
  [][\A p \in Procs, u \in Undos :
       TookUp(p, u) =>
         \A s \in Steps : task[s] \notin {"running", "recovery_required"}]_vars

\* A compensation is called only once those of the later steps have succeeded, so
\* that an unwind which stops half-way leaves no step standing on an undone one.
NewestFirst ==
  \A u, v \in Undos :
    sends[u] > 0 /\ Rank[v] > Rank[u] /\ task[Target[v]] = "verified_success"
      => task[v] = "verified_success"

\* A failed run with nothing left to offer, and nobody at work on it, has undone
\* every step that succeeded and has a compensation.
FailedIsUndone ==
  /\ run.status = "failed" /\ Rollback(run) = {}
  /\ \A p \in Procs : ~Leased(p) /\ Free(p)
  => \A u \in Undos : task[Target[u]] = "verified_success" => task[u] = "verified_success"

\* A run reported verified_complete has every step verified, and none undone.
CompleteMeansDone ==
  run.status = "verified_complete" =>
    /\ \A s \in Steps : task[s] = "verified_success"
    /\ \A u \in Undos : sends[u] = 0

\* A completed or cancelled run keeps that status, though advances that read it
\* earlier, recoveries and controls are still to write.
EndedStays ==
  [][run.status \in Ended => run'.status = run.status]_vars

\* No forward step starts once any compensation has been called.
NoStepAfterUnwind ==
  [][\A p \in Procs, s \in Steps :
       TookUp(p, s) => \A u \in Undos : sends[u] = 0]_vars

\* Where nothing crashed, a cancelled run at rest has no task left that could be
\* started, an advance's own included.
CancelledLeavesNoChallenge ==
  /\ run.status = "cancelled" /\ crashes = 0 /\ \A p \in Procs : Free(p)
  => \A n \in Nodes : task[n] \notin Unstarted

\* A run whose lease has expired under a dead or stalled holder is repaired or taken
\* over: its lease does not stay expired, with nobody advancing it, for ever.
AbandonedEnds ==
  lease # NoLease /\ ~lease.fresh /\ run.status \in Abandonable ~>
    \/ lease = NoLease \/ run.status \notin Abandonable
    \/ \E p \in Procs : Owns(p, "advance")

\* What a failed run undoes it undoes newest first and wholly, and a run that says
\* it is complete is, with nothing undone.
UnwoundOrWhole == NewestFirst /\ FailedIsUndone /\ CompleteMeansDone

\* Undoing starts after every forward step, and none starts after it.
UnwindIsApart == NoUnwindPastUnknown /\ NoStepAfterUnwind

\* Two processes over one run send a step once, and leave a cancelled run nothing
\* that could still start.
OnceAndThenNothing == AtMostOnce /\ CancelledLeavesNoChallenge

\* Nothing is started on a run that has moved on, and an ended run has not.
RunIsCurrent == TakenUpOnCurrentRun /\ EndedStays
=============================================================================
