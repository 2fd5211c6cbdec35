--------------------------- MODULE WorkflowNodes ---------------------------
(***************************************************************************)
(* One composite node of a run (packages/runtime-core/src/                 *)
(* workflow-controller.ts): a condition, a parallel node or a bounded loop, *)
(* whose steps are tasks found again by their idempotency keys.  An advance *)
(* can lose its commit to a pause, or die, after running some of them; the  *)
(* next advance, and recovery, then decide from the tasks it left.          *)
(*                                                                         *)
(* A key is <<lane, step>>.  The lanes of a condition are its two branches  *)
(* (1 is whenTrue), those of a parallel node its branches, those of a loop  *)
(* its iterations.  Each key has at most one task that counts.              *)
(***************************************************************************)
EXTENDS Integers, FiniteSets

CONSTANTS Shapes,       \* [kind, lanes : Seq(Nat), until : BOOLEAN] of each node tried
          Gated,        \* keys whose task waits for an approval
          MaxLosses,    \* advances that lose their commit
          MaxCrashes    \* processes that die under an advance

VARIABLES node,      \* the node, one of Shapes
          task,      \* status of the task under each key, "none" when there is none
          committed, \* keys with an idempotency commit
          happened,  \* keys whose effect happened, whoever knows it
          orphan,    \* keys whose task's process died under it
          rec,       \* the node's state on the run
          adv,       \* the advance at work on the node
          told,      \* the last answer `until` gave after each iteration
          fresh,     \* nothing changed since an advance committed rec
          losses, crashes

nodeVars == <<task, committed, happened, orphan>>
vars == <<node, nodeVars, rec, adv, told, fresh, losses, crashes>>

AllLanes == 1..3
AllKeys == AllLanes \X (1..2)
Lanes == DOMAIN node.lanes
KeysOf(l) == IF l \in Lanes THEN {<<l, i>> : i \in 1..node.lanes[l]} ELSE {}
Keys == UNION {KeysOf(l) : l \in Lanes}
First(S) == CHOOSE k \in S : \A j \in S : k[1] < j[1] \/ (k[1] = j[1] /\ k[2] <= j[2])
Body == node.lanes[1]

Unstarted == {"planned", "awaiting"}
InFlight == {"running", "applied", "verifying"}
NoEffect == {"failed", "cancelled"}
TaskStatus == {"none", "success", "unknown"} \union Unstarted \union InFlight \union NoEffect

NotCounted == -1   \* iterations left out of a node's state
Pending == [status |-> "pending", ids |-> {}, iterations |-> NotCounted, error |-> "none"]
Idle == [pc |-> "idle", lane |-> 0, phase |-> [l \in AllLanes |-> "off"],
         at |-> [l \in AllLanes |-> 1], seen |-> [k \in AllKeys |-> "none"],
         result |-> Pending]

Init ==
  /\ node \in Shapes
  /\ task = [k \in AllKeys |-> "none"]
  /\ committed = {} /\ happened = {} /\ orphan = {}
  /\ rec = Pending /\ adv = Idle
  /\ told = [l \in AllLanes |-> "none"]
  /\ fresh = FALSE /\ losses = 0 /\ crashes = 0

----------------------------------------------------------------------------
\* What a node's state says of its tasks.

\* a node's status from one task of its
NodeStatus(s) ==
  CASE s = "success" -> "verified_complete"
    [] s \in {"none", "planned"} -> "pending"
    [] s = "awaiting" -> "awaiting_approval"
    [] s \in InFlight \union {"unknown"} -> "recovery_required"
    [] OTHER -> s

\* the worst of several, an unknown outcome above a failure
Ranked == <<"recovery_required", "failed", "cancelled", "awaiting_approval",
            "pending", "verified_complete">>
Worst(reads) ==
  Ranked[CHOOSE i \in DOMAIN Ranked :
    Ranked[i] \in reads /\ \A j \in 1..(i - 1) : Ranked[j] \notin reads]

Found(S) == {k \in S : task[k] # "none"}
RecoveredNodeState(S, previous) ==
  IF S = {} THEN previous
  ELSE [status     |-> Worst({NodeStatus(task[k]) : k \in S}),
        ids        |-> S,
        iterations |-> IF node.kind = "loop" /\ \A k \in S : task[k] = "success"
                       THEN (Cardinality(S) + Body - 1) \div Body ELSE NotCounted,
        error      |-> "none"]

\* tasks under these keys whose outcome is unknown or still unsettled
Unsettled(S) == {k \in S : task[k] \in InFlight \union {"unknown"}}

\* challenges under these keys cancelled, as read back
Cancelled(S) == [k \in AllKeys |-> IF k \in S /\ task[k] \in Unstarted
                                   THEN "cancelled" ELSE task[k]]

Committed(l) == KeysOf(l) \intersect committed # {}
Other(l) == 3 - l
CommittedOnly(l) == KeysOf(Other(l)) \intersect committed  \* variant: a task at work is passed over
\* what stands in the branch not taken
Conflicting(l) ==
  {k \in KeysOf(Other(l)) : k \in committed \/ task[k] \notin {"none"} \union Unstarted \union NoEffect}
BranchConflict(l) ==
  [Pending EXCEPT !.status = "recovery_required", !.ids = Conflicting(l), !.error = "conflict"]

----------------------------------------------------------------------------
\* Recovery: a node's state read again from the tasks under its keys.

\* the branch a condition took: 0 when nothing decided it
Chosen(r) ==
  CASE Committed(1) -> 1
    [] ~Committed(1) /\ Committed(2) -> 2
    [] OTHER ->
         IF r.status = "verified_complete" /\ r.ids = {}
         THEN IF node.lanes[1] = 0 THEN 1 ELSE 2
         ELSE IF r.error = "conflict" \/ r.ids = {} THEN 0 ELSE First(r.ids)[1]

Undecided(r) ==
  LET cleared == r.error = "conflict" /\ \A k \in r.ids : task[k] \in NoEffect IN
  IF r.error = "conflict" /\ ~cleared THEN r
  ELSE IF Unsettled(Keys) # {} THEN RecoveredNodeState(Unsettled(Keys), r)
  ELSE IF cleared THEN Pending ELSE r

SequenceFinished(S) ==
  IF node.kind = "condition"
  THEN \E l \in Lanes : KeysOf(l) # {} /\ KeysOf(l) \subseteq S
  ELSE S = Keys

FinishedShort(r, S) ==
  /\ r.status = "verified_complete" /\ r.ids = S
  /\ \/ node.kind = "loop" /\ node.until /\ S # {} /\ Cardinality(S) % Body = 0
     \/ node.kind = "condition" /\ S = {}

Downgraded(state, r, S) ==
  IF state.status = "verified_complete" /\ ~SequenceFinished(S) /\ ~FinishedShort(r, state.ids)
  THEN [Pending EXCEPT !.ids = state.ids,
          !.iterations = IF node.kind = "loop" THEN Cardinality(state.ids) \div Body ELSE NotCounted]
  ELSE state

Counted(state) ==
  IF node.kind = "loop" /\ state.iterations = NotCounted /\ state.ids # {}
  THEN [state EXCEPT !.iterations = (Cardinality(state.ids) - 1) \div Body] ELSE state

FromTasks(r, S) == Counted(Downgraded(RecoveredNodeState(S, r), r, S))

RecoveredNode(r) ==
  IF node.kind # "condition" THEN FromTasks(r, Found(Keys))
  ELSE IF Chosen(r) = 0 THEN Undecided(r)
  ELSE IF Conflicting(Chosen(r)) # {} THEN BranchConflict(Chosen(r))
  ELSE FromTasks(r, Found(KeysOf(Chosen(r))))

\* a branch not taken has its challenges cancelled as it is read
TasksRead(r) ==
  IF node.kind = "condition" /\ Chosen(r) # 0 THEN Cancelled(KeysOf(Other(Chosen(r)))) ELSE task

----------------------------------------------------------------------------
\* The advance: which lanes run.

\* the advance as it now stands; `fresh` notes whether its result says how its
\* tasks read, with none changed while a check was asked
SetAdv(a) ==
  /\ adv' = a
  /\ fresh' = \/ a.pc = "ask"
              \/ /\ a.pc = "commit" /\ (adv.pc = "ask" => fresh)
                 /\ \A k \in Keys : a.seen[k] # "none" => a.seen[k] = NodeStatus(task'[k])
Resolve(result) == [adv EXCEPT !.pc = "commit", !.result = result]
Running(a, l) == [a EXCEPT !.pc = "run", !.phase[l] = "take"]
LaneState(a, status, S) ==
  [Pending EXCEPT !.status = status, !.ids = S,
     !.iterations = IF node.kind = "loop" THEN a.lane ELSE NotCounted]

\* an earlier advance's lost commit went on to this iteration
WentOn(l) == l \in Lanes /\ task[<<l, 1>>] # "none"

\* the loop goes on to iteration n + 1, or is finished after the last
IterateFrom(a, n, S) ==
  IF n + 1 \in Lanes THEN Running([a EXCEPT !.lane = n], n + 1)
  ELSE [a EXCEPT !.pc = "commit", !.lane = n,
                 !.result = LaneState([a EXCEPT !.lane = n], "verified_complete", S)]

ParkedSettled == rec.status = "awaiting_approval" /\
  \E k \in rec.ids : task[k] \notin Unstarted \union {"success"}
Failing(r) == r.status \in {"failed", "cancelled"}

\* The choice settled: the other branch is abandoned, and this one runs.
\* `settles` says whether this advance looks at the other branch at all.
TakeBranch(l, settles) ==
  IF settles /\ Conflicting(l) # {}
  THEN task' = Cancelled(KeysOf(Other(l))) /\ SetAdv(Resolve(BranchConflict(l)))
  ELSE /\ task' = IF settles THEN Cancelled(KeysOf(Other(l))) ELSE task
       /\ SetAdv(IF KeysOf(l) = {}
                 THEN Resolve([Pending EXCEPT !.status = "verified_complete"])
                 ELSE Running([adv EXCEPT !.lane = l], l))

BeginCondition ==
  LET known == IF Committed(1) THEN 1 ELSE IF Committed(2) THEN 2
               ELSE IF rec.ids # {} THEN First(rec.ids)[1] ELSE 0
  IN IF known = 0
     THEN UNCHANGED task /\ SetAdv([adv EXCEPT !.pc = "ask"])
     ELSE TakeBranch(known, Committed(Other(known)) \/ rec.ids = {} \/ ~(rec.ids \subseteq KeysOf(known)))

BeginLoop ==
  LET n == IF rec.iterations = NotCounted THEN 0 ELSE rec.iterations
      asks == n > 0 /\ Cardinality(rec.ids) = n * Body /\ node.until /\ ~WentOn(n + 1)
  IN /\ UNCHANGED task
     /\ SetAdv(IF asks THEN [adv EXCEPT !.pc = "ask", !.lane = n] ELSE IterateFrom(adv, n, rec.ids))

Begin ==
  /\ adv.pc = "idle" /\ rec.status \in {"pending", "awaiting_approval"}
  /\ IF ParkedSettled /\ Failing(RecoveredNode(rec))
     THEN task' = TasksRead(rec) /\ SetAdv(Resolve(RecoveredNode(rec)))
     ELSE CASE node.kind = "condition" -> BeginCondition
            [] node.kind = "loop" -> BeginLoop
            [] OTHER -> /\ UNCHANGED task
                        /\ SetAdv([adv EXCEPT !.pc = "run",
                                    !.phase = [l \in AllLanes |-> IF l \in Lanes THEN "take" ELSE "off"]])
  /\ UNCHANGED <<node, committed, happened, orphan, rec, told, losses, crashes>>

\* A check's answer.  One it could not ask decides nothing: the node waits.
\* One the kernel refuses to ask fails a condition and is a loop's "no".
Waiting(status) ==
  LET state == IF node.kind = "loop" THEN LaneState(adv, "pending", Found(Keys)) ELSE rec
  IN [state EXCEPT !.status = IF status = "failed" THEN "failed" ELSE @, !.error = "check"]

Unanswered(answer) ==
  LET left == IF node.kind = "condition" THEN Unsettled(Keys) ELSE {} IN
  /\ UNCHANGED <<task, told>>
  /\ SetAdv(Resolve(IF left # {} THEN RecoveredNodeState(left, rec)
                    ELSE Waiting(IF answer = "refused" THEN "failed" ELSE "waiting")))

Answered(answer) ==
  IF node.kind = "condition"
  THEN TakeBranch(IF answer = "yes" THEN 1 ELSE 2, TRUE) /\ UNCHANGED told
  ELSE /\ UNCHANGED task
       /\ told' = [told EXCEPT ![adv.lane] = IF answer = "yes" THEN "yes" ELSE "no"]
       /\ SetAdv(IF answer = "yes"
                 THEN Resolve(LaneState(adv, "verified_complete", {k \in Keys : k[1] <= adv.lane}))
                 ELSE IterateFrom(adv, adv.lane, Found(Keys)))

Ask ==
  /\ adv.pc = "ask"
  /\ \E answer \in {"yes", "no", "unanswered", "refused"} :
       IF answer = "unanswered" \/ (answer = "refused" /\ node.kind = "condition")
       THEN Unanswered(answer) ELSE Answered(answer)
  /\ UNCHANGED <<node, committed, happened, orphan, rec, losses, crashes>>

----------------------------------------------------------------------------
\* The advance: one step of a lane.

Key(l) == <<l, adv.at[l]>>
At(l, phase) == adv.pc = "run" /\ adv.phase[l] = phase
Unmoved == UNCHANGED <<node, rec, told, losses, crashes>>

\* The node's state once every lane has ended, each read up to the first
\* step that is not complete; a refused lane's tasks are read again by key.
ReadsOf(a, l) ==
  IF a.phase[l] = "refused"
  THEN LET upTo == {<<l, i>> : i \in {i \in 1..node.lanes[l] :
                     \A j \in 1..(i - 1) : task[<<l, j>>] = "success"}}
       IN [k \in upTo |-> NodeStatus(task[k])]
  ELSE [k \in {k \in KeysOf(l) : a.seen[k] # "none"} |-> a.seen[k]]

Aggregate(a) ==
  LET reads == [l \in Lanes |-> ReadsOf(a, l)]
      named == UNION {{k \in DOMAIN reads[l] : task[k] # "none"} : l \in Lanes}
  IN [Pending EXCEPT !.status = Worst(UNION {{reads[l][k] : k \in DOMAIN reads[l]} : l \in Lanes}),
                     !.ids = named]

AllEnded(a) == \A l \in Lanes : a.phase[l] \in {"end", "refused"}
LaneEnds(a) ==
  IF node.kind = "parallel"
  THEN IF AllEnded(a) THEN [a EXCEPT !.pc = "commit", !.result = Aggregate(a)] ELSE a
  ELSE \* a sequence: the lane's last read is the node's
       LET ended == {l \in Lanes : a.phase[l] = "end"}
           lane  == CHOOSE l \in ended : TRUE
           named == {k \in KeysOf(lane) : a.seen[k] # "none"}
           kept  == IF node.kind = "loop" THEN {k \in Keys : k[1] < lane} \union rec.ids ELSE {}
           state == LaneState([a EXCEPT !.lane = lane - 1],
                              Worst({a.seen[k] : k \in named}), named \union kept)
       IN [a EXCEPT !.pc = "commit", !.result = state]

\* a loop's iteration is whole: `until` is asked unless a later one has run
IterationEnds(a, l) ==
  LET b == [a EXCEPT !.phase[l] = "off", !.lane = l] IN
  IF node.until /\ l + 1 \in Lanes /\ ~WentOn(l + 1) THEN [b EXCEPT !.pc = "ask"]
  ELSE IterateFrom(b, l, {k \in Keys : k[1] <= l})

\* the step's task as it reads now, and on to the next step when it is complete
ReadStep(l) ==
  LET read == NodeStatus(task[Key(l)])
      a == [adv EXCEPT !.seen[Key(l)] = read, !.phase[l] = "take", !.at[l] = @ + 1]
  IN IF read # "verified_complete"
     THEN LaneEnds([adv EXCEPT !.seen[Key(l)] = read, !.phase[l] = "end"])
     ELSE IF adv.at[l] < node.lanes[l] THEN a
     ELSE IF node.kind = "loop" THEN IterationEnds(a, l)
     ELSE LaneEnds([a EXCEPT !.phase[l] = "end"])

\* a key that holds a task is taken up, one that holds none is planned
Plan(l) ==
  /\ At(l, "take") /\ task[Key(l)] = "none"
  /\ task' = [task EXCEPT ![Key(l)] = IF Key(l) \in Gated THEN "awaiting" ELSE "planned"]
  /\ SetAdv([adv EXCEPT !.phase[l] = "ready"])
  /\ UNCHANGED <<committed, happened, orphan>> /\ Unmoved

Execute(l) ==
  /\ \E phase \in {"take", "ready"} : At(l, phase)
  /\ task[Key(l)] \in Unstarted
  /\ task' = [task EXCEPT ![Key(l)] = "running"]
  /\ SetAdv([adv EXCEPT !.phase[l] = "doing"])
  /\ UNCHANGED <<committed, happened, orphan>> /\ Unmoved

\* nobody answered its challenge, or its task is not one to run, or it ended
Read(l) ==
  /\ \/ \E phase \in {"take", "ready"} : At(l, phase) /\ task[Key(l)] \notin {"none", "planned"}
     \/ At(l, "doing") /\ task[Key(l)] \notin InFlight
  /\ UNCHANGED nodeVars /\ Unmoved
  /\ SetAdv(ReadStep(l))

\* A step refused (a wrong phrase, the approval cap): a sequence's node is not
\* recorded; a parallel node waits for its other branches.
Refuse(l) ==
  /\ \E phase \in {"take", "ready"} : At(l, phase) /\ task[Key(l)] \in {"none", "awaiting"}
  /\ UNCHANGED nodeVars /\ Unmoved
  /\ SetAdv(IF node.kind = "parallel" THEN LaneEnds([adv EXCEPT !.phase[l] = "refused"]) ELSE Idle)

Commit ==
  /\ adv.pc = "commit"
  /\ rec' = adv.result
  /\ adv' = Idle
  /\ UNCHANGED <<node, nodeVars, told, fresh, losses, crashes>>

\* the run moved on under it (an operator's pause): nothing it did is recorded
Lose ==
  /\ adv.pc = "commit" /\ losses < MaxLosses
  /\ losses' = losses + 1
  /\ UNCHANGED <<node, nodeVars, rec, told, crashes>>
  /\ SetAdv(Idle)

----------------------------------------------------------------------------
\* The tasks, and who else moves them.

Settles(k, status) ==
  /\ task' = [task EXCEPT ![k] = status] /\ fresh' = FALSE
  /\ UNCHANGED <<node, orphan, rec, adv, told, losses, crashes>>

\* a task's effect, its commit and its end, while its process lives
Happens(k) == /\ task[k] = "running" /\ k \notin orphan
              /\ happened' = happened \union {k} /\ UNCHANGED committed /\ Settles(k, "applied")
CommitKey(k) == /\ task[k] = "applied" /\ k \notin orphan
                /\ committed' = committed \union {k} /\ UNCHANGED happened /\ Settles(k, "verifying")
Ends(k) ==
  /\ k \notin orphan /\ UNCHANGED <<committed, happened>>
  /\ \/ task[k] = "running" /\ \E s \in {"failed", "unknown"} : Settles(k, s)
     \/ task[k] = "applied" /\ Settles(k, "unknown")
     \/ task[k] = "verifying" /\ \E s \in {"success", "failed"} : Settles(k, s)

\* task recovery settles what a dead process left
RecoverTask(k) ==
  /\ k \in orphan /\ orphan' = orphan \ {k} /\ fresh' = FALSE
  /\ \E s \in IF task[k] = "verifying" THEN {"success", "failed"} ELSE {"unknown"} :
       task' = [task EXCEPT ![k] = s]
  /\ UNCHANGED <<node, committed, happened, rec, adv, told, losses, crashes>>

\* reconciliation finds whether it was applied
Reconcile(k) ==
  /\ task[k] = "unknown" /\ UNCHANGED happened
  /\ \/ /\ k \in happened /\ committed' = committed \union {k}
        /\ \E s \in {"success", "failed"} : Settles(k, s)
     \/ k \notin happened /\ UNCHANGED committed /\ Settles(k, "failed")

\* an operator approves a challenge elsewhere, and it runs there; or denies it
Approve(k) == task[k] = "awaiting" /\ UNCHANGED <<committed, happened>> /\ Settles(k, "running")
Deny(k) == task[k] = "awaiting" /\ UNCHANGED <<committed, happened>> /\ Settles(k, "cancelled")

\* the process dies under its advance
Crash ==
  /\ adv.pc # "idle" /\ crashes < MaxCrashes
  /\ crashes' = crashes + 1
  /\ orphan' = orphan \union {Key(l) : l \in {l \in Lanes : At(l, "doing") /\ task[Key(l)] \in InFlight}}
  /\ UNCHANGED <<node, task, committed, happened, rec, told, losses>>
  /\ SetAdv(Idle)

\* a start's recovery, and an advance's look at a parked run: the node is read
\* again once none of its tasks is running
Recover ==
  /\ adv.pc = "idle" /\ \A k \in Keys : task[k] \notin InFlight
  /\ rec' = RecoveredNode(rec) /\ task' = TasksRead(rec)
  /\ fresh' = (fresh /\ task' = task)
  /\ UNCHANGED <<node, committed, happened, orphan, adv, told, losses, crashes>>

\* a run that failed cancels its open challenges
RunFails ==
  /\ adv.pc = "idle" /\ Failing(rec)
  /\ task' = Cancelled(Keys) /\ task' # task /\ fresh' = FALSE
  /\ UNCHANGED <<node, committed, happened, orphan, rec, adv, told, losses, crashes>>

Next ==
  \/ Begin \/ Ask \/ Commit \/ Lose \/ Crash \/ Recover \/ RunFails
  \/ \E l \in Lanes : Plan(l) \/ Execute(l) \/ Read(l) \/ Refuse(l)
  \/ \E k \in Keys : \/ Happens(k) \/ CommitKey(k) \/ Ends(k) \/ RecoverTask(k)
                     \/ Reconcile(k) \/ Approve(k) \/ Deny(k)

Spec == Init /\ [][Next]_vars

----------------------------------------------------------------------------
TypeOK ==
  /\ node \in Shapes
  /\ task \in [AllKeys -> TaskStatus]
  /\ committed \subseteq happened /\ happened \subseteq Keys /\ orphan \subseteq Keys
  /\ rec.ids \subseteq Keys
  /\ rec.status \in {Ranked[i] : i \in DOMAIN Ranked}
  /\ rec.iterations \in NotCounted..Cardinality(Lanes)
  /\ told \in [AllLanes -> {"none", "no", "yes"}]

\* A condition is decided once: however many advances lost their commit and
\* whatever its predicate answered each of them, effects happen in one branch.
OneBranchHappens ==
  node.kind = "condition" =>
    \A j, k \in happened : j[1] = k[1]

\* A node recorded complete has all its steps verified, and no effect of its
\* is one the record does not name.
CompleteIsWhole ==
  rec.status = "verified_complete" =>
    /\ \A k \in rec.ids : task[k] = "success"
    /\ happened \subseteq rec.ids
    /\ node.kind = "parallel" => rec.ids = Keys
    /\ node.kind = "condition" => \E l \in Lanes : rec.ids = KeysOf(l)
    /\ node.kind = "loop" => /\ rec.ids = {k \in Keys : k[1] <= rec.iterations}
                             /\ rec.iterations \in Lanes

\* A loop goes on after an iteration only where `until` said no of it, and is
\* complete before its last iteration only where it said yes; an iteration that
\* has run is never asked about again.
LoopDoesAsTold ==
  node.kind = "loop" /\ node.until =>
    /\ \A k \in Keys : task[k] # "none" /\ k[1] > 1 => told[k[1] - 1] = "no"
    /\ rec.status = "verified_complete" /\ rec.iterations + 1 \in Lanes => told[rec.iterations] = "yes"

\* A node is recorded failed or denied, so that its run unwinds, only with the
\* outcome of every step it ran known (an approver elsewhere apart).
FailsKnowingAll ==
  Failing(rec) => \A k \in Keys \ Gated : task[k] \notin InFlight \union {"unknown"}

\* A restart with nothing new to learn reads a node as its advance recorded it.
RestartReadsTheSame ==
  fresh /\ adv.pc = "idle" => LET r == RecoveredNode(rec) IN
    r.status = rec.status /\ r.ids = rec.ids /\ r.iterations = rec.iterations
============================================================================
