----------------------- MODULE WorkflowUnwind_proofs -----------------------
(***************************************************************************)
(* Theorems about how a run ends and is undone, for every set of           *)
(* processes, steps and compensations and every bound.                     *)
(*                                                                         *)
(* However advances race, crash, lapse and are taken over: a run that says *)
(* it is complete is, no step starts once a compensation was, and a        *)
(* cancelled run leaves nothing to start (TInv).  Where callers leave a    *)
(* run's tasks to its advances and no live process stalls past its lease,  *)
(* or there is only one: an unwind waits for every outcome, goes newest    *)
(* first and undoes all that succeeded (UInv).                             *)
(***************************************************************************)
EXTENDS WorkflowController_proofs, FiniteSetTheorems, WellFoundedInduction

\* Statuses of a task that ended without success, and will not have any.
Dead == {"partial", "failed", "cancelled"}
Begun == \E u \in Undos : task[u] # "none"
Cause(node) == \E s \in Steps : node[s] \in {"failed", "cancelled"}
Skips(node) == \E u \in Undos : node[u] = "skipped"

\* What a node's recorded state says of its task.
Backed(n, state) ==
  /\ state = "verified_complete" => n \in Steps /\ task[n] = "verified_success"
  /\ state = "compensated" => n \in Undos /\ task[n] = "verified_success"
  /\ state = "skipped" => n \in Undos
  /\ state \in {"failed", "cancelled"} => task[n] \in Dead
  /\ n \in Undos /\ task[n] = "none" => state \in {"pending", "skipped"}

\* A wave is of steps, an unwind of compensations; a run read as failed has a
\* step that did.
Apart(a) ==
  /\ a.pc = "wave" => \A u \in Undos : a.at[u] = "no" /\ a.res[u] = "none"
  /\ a.pc = "undo" => \A s \in Steps : a.at[s] = "no"
  /\ a.pc = "cancel" /\ a.cur.status = "failed" => Cause(a.cur.node)
ApartOK ==
  /\ \A p \in Procs : Apart(adv[p])
  /\ \A p \in Procs : sync[p].pc = "releasing" => sync[p].role # "advance"

\* The run's status is what its nodes say, and they say what their tasks say.
Told(r) ==
  r.status # "cancelled" =>
    /\ \A n \in Nodes : Backed(n, r.node[n])
    /\ r.status = "failed" <=> DeriveStatus(r.node) = "failed"
    /\ r.status = "verified_complete" <=> Reads(r.node)
    /\ r.status # "verified_complete" /\ Skips(r.node) => Cause(r.node)

\* So does what an advance that owns the lease is to record: a wave has nothing
\* undone, and an unwind has its cause.
Calm(a) ==
  ~Begun /\ (a.cur.status # "verified_complete" => ~Skips(After(a)))
AdvTold(a) ==
  /\ a.pc \in {"wave", "undo", "commit"} => \A n \in Nodes : Backed(n, After(a)[n])
  /\ a.pc = "wave" => Calm(a)
  /\ a.pc = "undo" => Cause(After(a))
  /\ a.pc = "commit" => Calm(a) \/ Cause(After(a))
AdvancesTold == \A p \in Procs : Owns(p, "advance") => AdvTold(adv[p])

\* The lease is free, or about to be by who has written the run as it is: what
\* was begun to be undone has its cause recorded.
AtRest ==
  \/ lease.owner = Nobody
  \/ \E p \in Procs : Owns(p, "advance") /\ adv[p].pc \in {"cancel", "release"}
  \/ \E p \in Procs : /\ sync[p].pc = "releasing"
                      /\ Owns(p, sync[p].role) /\ ~sync[p].keep
Recorded == AtRest /\ run.status # "cancelled" /\ Begun => Cause(run.node)
BegunDead == Begun => \E s \in Steps : task[s] \in Dead

\* Nothing of a cancelled run can start, or its cancel is still to see to it.
Sweeping(p) == sync[p].pc = "releasing" /\ sync[p].sweep = Nodes
CancelOK ==
  run.status = "cancelled" /\ crashes = 0 =>
    \/ \A n \in Nodes : task[n] \notin Unstarted
    \/ \E p \in Procs : Sweeping(p)

TInv == ApartOK /\ Told(run) /\ AdvancesTold /\ Recorded /\ BegunDead /\ CancelOK

-----------------------------------------------------------------------------
(* Tasks only go on.                                                       *)

Later(before, after) ==
  \/ after = before
  \/ before = "none" /\ after \in {"planned", "awaiting"}
  \/ before \in Unstarted /\ after \in {"approved", "running", "cancelled"}
  \/ /\ before = "running"
     /\ after \in {"recovery_required", "verified_success", "partial", "failed",
                   "cancelled"}
  \/ before = "recovery_required" /\ after \in {"verified_success", "failed"}
GoOn == \A n \in Nodes : Later(task[n], task'[n])
NoneBegins == \A n \in Nodes : task'[n] = "none" <=> task[n] = "none"

LEMMA NodeSets ==
  /\ \A s \in Steps : s \in Nodes /\ s \notin Undos
  /\ \A u \in Undos : u \in Nodes /\ u \notin Steps
BY WorkflowAssumption DEF Nodes

LEMMA BackedGoesOn ==
  ASSUME NEW n \in Nodes, NEW state, Later(task[n], task'[n]), Backed(n, state)
  PROVE  Backed(n, state)'
BY DEF Backed, Later, Dead, Unstarted

LEMMA DeadGoesOn ==
  ASSUME GoOn, NEW n \in Nodes, task[n] \in Dead
  PROVE  task'[n] \in Dead
BY DEF GoOn, Later, Dead, Unstarted

LEMMA BegunGoesOn ==
  ASSUME NoneBegins
  PROVE  Begun' = Begun
BY NodeSets DEF NoneBegins, Begun

\* A node reads from its task what its task says.
LEMMA NodeStateBacked ==
  ASSUME TypeOK, NEW n \in Nodes, NEW previous, Backed(n, previous)
  PROVE  Backed(n, NodeState(n, previous))
<1>1. task[n] \in TaskStatus /\ (n \in Steps \/ n \in Undos)
  BY DEF TypeOK, Nodes
<1>. QED  BY <1>1, NodeSets DEF Backed, NodeState, TaskStatus, Unstarted, Dead

LEMMA NodeStateTaken ==
  ASSUME NEW n \in Nodes, task[n] \in TaskStatus, task[n] # "none"
  PROVE  Backed(n, NodeState(n, "pending")) /\ NodeState(n, "pending") # "skipped"
<1>1. n \in Steps \/ n \in Undos
  BY DEF Nodes
<1>. QED  BY <1>1, NodeSets DEF Backed, NodeState, TaskStatus, Unstarted, Dead

-----------------------------------------------------------------------------
(* What a run's nodes say.                                                 *)

LEMMA FailedFacts ==
  ASSUME NEW node, DeriveStatus(node) = "failed"
  PROVE  Cause(node) /\ ~Stalled(node) /\ ~UnknownOutcome(node)
BY DEF DeriveStatus, Cause

LEMMA CauseFacts ==
  ASSUME NEW node, Cause(node)
  PROVE  ~Reads(node) /\ SettledNodes(node) = node
BY DEF Cause, Reads, DeriveStatus, SettledNodes, Done

\* A complete run has nothing begun to be undone.
LEMMA CompleteFacts ==
  ASSUME BegunDead, NEW node, Reads(node), \A n \in Nodes : Backed(n, node[n])
  PROVE  ~Begun /\ \A s \in Steps : task[s] = "verified_success"
<1>1. \A s \in Steps : node[s] = "verified_complete"
  BY ReadsFacts, NodeSets DEF Backed, Done
<1>. QED  BY <1>1, NodeSets DEF Backed, BegunDead, Dead

\* Settling the nodes says what they say.
LEMMA SettledTold ==
  ASSUME NEW node \in [Nodes -> NodeStatus], BegunDead,
         \A n \in Nodes : Backed(n, node[n]), Skips(node) => Cause(node) \/ Reads(node)
  PROVE  /\ \A n \in Nodes : Backed(n, SettledNodes(node)[n])
         /\ Cause(node) => SettledNodes(node) = node
         /\ ~Reads(SettledNodes(node)) /\ Skips(SettledNodes(node))
              => Cause(SettledNodes(node))
         /\ ~Reads(node) => SettledNodes(node) = node
         /\ Reads(node) => Reads(SettledNodes(node))
<1>1. CASE Reads(node)
  <2>1. \A n \in Nodes : \/ SettledNodes(node)[n] = node[n]
                         \/ n \in Undos /\ SettledNodes(node)[n] = "skipped"
    BY DEF SettledNodes
  <2>. QED  BY <1>1, <2>1, CompleteSettles, CauseFacts, NodeSets DEF Backed
<1>2. CASE ~Reads(node)
  BY <1>2 DEF SettledNodes, Reads
<1>. QED  BY <1>1, <1>2

LEMMA SettleTold ==
  ASSUME NEW r \in Run, NEW node \in [Nodes -> NodeStatus], BegunDead,
         \A n \in Nodes : Backed(n, node[n]), Skips(node) => Cause(node) \/ Reads(node)
  PROVE  /\ Settle(r, node) \in Run /\ Told(Settle(r, node))
         /\ Settle(r, node).node = SettledNodes(node)
         /\ Settle(r, node).status # "cancelled"
         /\ Cause(node) => Cause(Settle(r, node).node)
<1>1. SettledNodes(node) \in [Nodes -> NodeStatus]
  BY SettledNodesType
<1>2. /\ Settle(r, node) \in Run /\ Settle(r, node).status \notin {"cancelled", "paused"}
      /\ Settle(r, node).status = DeriveStatus(SettledNodes(node))
  BY SettleFacts
<1>3. Settle(r, node).node = SettledNodes(node)
  BY <1>1, DeriveStatusType, MovedFacts DEF Settle
<1>4. Told(Settle(r, node))
  BY <1>2, <1>3, SettledTold DEF Told, Reads
<1>. QED  BY <1>2, <1>3, <1>4, SettledTold

-----------------------------------------------------------------------------
(* What a wave starts from.                                                *)

LEMMA WaveTold ==
  ASSUME TypeOK, NEW cur \in Run, cur.status # "cancelled", Told(cur),
         Begun => Cause(cur.node)
  PROVE  /\ Apart(Wave(cur)) /\ AdvTold(Wave(cur))
         /\ Wave(cur).pc \in {"release", "undo", "wave"}
         /\ Cause(cur.node) => Wave(cur).pc \in {"release", "undo"}
<1> DEFINE b == [IdleAdvance EXCEPT !.cur = cur]
           wave == IF ParkedSettled(cur) THEN Awaiting(cur)
                   ELSE Awaiting(cur) \union Ready(cur)
           stop == [b EXCEPT !.pc = "release"]
           undo == [b EXCEPT !.pc = "undo", !.left = Rollback(cur)]
           read == [n \in Nodes |-> IF n \in Awaiting(cur)
                                    THEN NodeState(n, cur.node[n]) ELSE "none"]
           fail == [b EXCEPT !.pc = "wave", !.res = read]
           todo == [n \in Nodes |-> IF n \in wave THEN "todo" ELSE "no"]
           go   == [b EXCEPT !.pc = "wave", !.at = todo]
<1>1. /\ b \in Advance /\ b.cur = cur
      /\ \A n \in Nodes : b.at[n] = "no" /\ b.res[n] = "none"
  BY IdleAdvanceFacts DEF Advance, Idling
<1>2. cur.node \in [Nodes -> NodeStatus] /\ "none" \notin NodeStatus
  BY DEF Run, NodeStatus, Unknown, Done
<1>3. wave \subseteq Steps /\ Awaiting(cur) \subseteq Steps
  BY DEF Awaiting, Ready
<1>4. /\ stop.pc = "release"
      /\ undo.pc = "undo" /\ undo.cur = cur /\ undo.at = b.at /\ undo.res = b.res
      /\ fail.pc = "wave" /\ fail.cur = cur /\ fail.at = b.at /\ fail.res = read
      /\ go.pc = "wave" /\ go.cur = cur /\ go.at = todo /\ go.res = b.res
  BY <1>1 DEF Advance
<1> HIDE DEF stop, undo, fail, go, b, wave
<1>5. /\ \A n \in Nodes : Backed(n, cur.node[n])
      /\ cur.status = "failed" => Cause(cur.node)
      /\ cur.status # "verified_complete" /\ Skips(cur.node) => Cause(cur.node)
  BY FailedFacts DEF Told
<1>6. \A n \in Nodes : After(undo)[n] = cur.node[n] /\ After(go)[n] = cur.node[n]
  BY <1>1, <1>4 DEF After
<1>7. \A n \in Nodes : Backed(n, After(fail)[n]) /\ (n \in Undos => After(fail)[n] = cur.node[n])
  <2>1. \A n \in Nodes : After(fail)[n] = IF n \in Awaiting(cur)
                                          THEN NodeState(n, cur.node[n]) ELSE cur.node[n]
    BY <1>2, <1>4, NodeStateType DEF After
  <2>2. \A n \in Nodes : Backed(n, NodeState(n, cur.node[n]))
    BY <1>5, NodeStateBacked
  <2>. QED  BY <1>3, <1>5, <2>1, <2>2, NodeSets
<1>8. Apart(stop) /\ AdvTold(stop)
  BY <1>4 DEF Apart, AdvTold
<1>9. Rollback(cur) # {} => Apart(undo) /\ AdvTold(undo)
  <2>. SUFFICES ASSUME Rollback(cur) # {} PROVE Apart(undo) /\ AdvTold(undo)
    OBVIOUS
  <2>1. Cause(cur.node)
    BY <1>5 DEF Rollback
  <2>2. Cause(After(undo))
    BY <1>6, <2>1, NodeSets DEF Cause
  <2>. QED  BY <1>1, <1>4, <1>5, <1>6, <2>2, NodeSets DEF Apart, AdvTold
<1>10. ASSUME ~Cause(cur.node) PROVE Apart(fail) /\ AdvTold(fail) /\ Apart(go) /\ AdvTold(go)
  <2>1. ~Begun /\ (cur.status # "verified_complete" => ~Skips(cur.node))
    BY <1>5, <1>10
  <2>2. Calm(fail) /\ Calm(go)
    BY <1>4, <1>6, <1>7, <2>1, NodeSets DEF Calm, Skips
  <2>3. Apart(fail) /\ Apart(go)
    BY <1>1, <1>3, <1>4, NodeSets DEF Apart
  <2>. QED  BY <1>4, <1>5, <1>6, <1>7, <2>2, <2>3 DEF AdvTold
<1>11. \/ Wave(cur) = stop
       \/ Wave(cur) = undo /\ Rollback(cur) # {}
       \/ (Wave(cur) = fail \/ Wave(cur) = go) /\ Rollback(cur) = {} /\ ~HasFailure(cur)
  BY DEF Wave, stop, undo, fail, go, b, wave
<1>12. ~HasFailure(cur) => ~Cause(cur.node)
  BY DEF HasFailure, Cause
<1> HIDE DEF read, todo
<1>. QED  BY <1>4, <1>8, <1>9, <1>10, <1>11, <1>12

-----------------------------------------------------------------------------
(* What keeps the parts of the invariant.                                  *)

LEMMA AdvToldGoesOn ==
  ASSUME NEW a, AdvTold(a), GoOn, Begun' => Begun
  PROVE  AdvTold(a)'
<1>1. \A n \in Nodes : Backed(n, After(a)[n]) => Backed(n, After(a)[n])'
  BY BackedGoesOn DEF GoOn, After
<1>. QED  BY <1>1 DEF AdvTold, Calm, After

LEMMA RunToldGoesOn ==
  ASSUME Told(run), UNCHANGED run, GoOn
  PROVE  Told(run)'
<1>1. \A n \in Nodes : Backed(n, run.node[n]) => Backed(n, run.node[n])'
  BY BackedGoesOn DEF GoOn
<1>. QED  BY <1>1 DEF Told

LEMMA RestStands ==
  ASSUME UNCHANGED sync, lease'.owner = lease.owner, AtRest',
         \A q \in Procs : adv'[q].pc \in {"cancel", "release"} /\ Owns(q, "advance")
                            => adv[q].pc \in {"cancel", "release"}
  PROVE  AtRest
BY DEF AtRest, Owns

LEMMA BegunDeadGoesOn ==
  ASSUME BegunDead, GoOn, Begun' => Begun
  PROVE  BegunDead'
<1>1. \A s \in Steps : task[s] \in Dead => task'[s] \in Dead
  BY DeadGoesOn, NodeSets
<1>. QED  BY <1>1 DEF BegunDead

\* Steps that write neither the run nor a block, and keep the lease's owner.
LEMMA TInvFrame ==
  ASSUME TInv, GoOn, UNCHANGED <<run, sync, crashes>>, lease'.owner = lease.owner,
         Begun' => Begun,
         \A n \in Nodes : task'[n] \in Unstarted => task[n] \in Unstarted,
         \A q \in Procs :
           \/ adv'[q] = adv[q]
           \/ /\ Apart(adv[q])'
              /\ Owns(q, "advance") =>
                   /\ AdvTold(adv[q])'
                   /\ adv'[q].pc \in {"cancel", "release"} =>
                        adv[q].pc \in {"cancel", "release"}
  PROVE  TInv'
<1>1. ApartOK'
  BY DEF TInv, ApartOK, Apart
<1>2. Told(run)'
  BY RunToldGoesOn DEF TInv
<1>3. AdvancesTold'
  <2>. SUFFICES ASSUME NEW q \in Procs, Owns(q, "advance")' PROVE AdvTold(adv[q])'
    BY DEF AdvancesTold
  <2>1. Owns(q, "advance")
    BY DEF Owns
  <2>2. AdvTold(adv[q]) /\ (adv'[q] = adv[q] => AdvTold(adv[q])')
    BY <2>1, AdvToldGoesOn DEF TInv, AdvancesTold
  <2>. QED  BY <2>1, <2>2
<1>4. AtRest' => AtRest
  BY RestStands
<1>5. Recorded'
  BY <1>4 DEF TInv, Recorded
<1>6. BegunDead'
  BY BegunDeadGoesOn DEF TInv
<1>7. CancelOK'
  BY DEF TInv, CancelOK, Sweeping
<1>. QED  BY <1>1, <1>2, <1>3, <1>5, <1>6, <1>7 DEF TInv

LEMMA NoChange ==
  ASSUME UNCHANGED task
  PROVE  GoOn /\ Begun' = Begun /\ \A r : Told(r) => Told(r)'
<1>1. GoOn /\ Begun' = Begun
  BY DEF GoOn, Later, Begun
<1>2. \A n, state : Backed(n, state) => Backed(n, state)'
  BY DEF Backed
<1>. QED  BY <1>1, <1>2 DEF Told

\* A write of the run under a lease.
LEMMA TInvWrite ==
  ASSUME TInv, NEW p \in Procs, NEW role \in Role, UNCHANGED task,
         lease'.owner = <<p, role>>, ApartOK', Told(run)', Recorded', CancelOK',
         role = "advance" => AdvTold(adv[p])'
  PROVE  TInv'
<1>1. BegunDead'
  BY NoChange, BegunDeadGoesOn DEF TInv
<1>2. AdvancesTold'
  BY DEF AdvancesTold, Owns
<1>. QED  BY <1>1, <1>2 DEF TInv

LEMMA ResettledTold ==
  ASSUME TypeOK, Told(run), BegunDead, run.status \notin Ended \union {"paused"}
  PROVE  /\ Told(Resettled(run))
         /\ Cause(run.node) => Cause(Resettled(run).node)
<1> DEFINE moved == {n \in Nodes : run.node[n] \in Unknown /\ task[n] # "running"
                                     /\ NodeState(n, run.node[n]) \notin Unknown}
           node == [n \in Nodes |-> IF n \in moved THEN NodeState(n, run.node[n])
                                    ELSE run.node[n]]
<1>1. run \in Run /\ run.node \in [Nodes -> NodeStatus]
  BY DEF TypeOK, Run
<1>2. node \in [Nodes -> NodeStatus]
  BY <1>1, NodeStateType
<1>3. \A n \in Nodes : Backed(n, run.node[n])
  BY DEF Told, Ended
<1>4. \A n \in Nodes : Backed(n, node[n])
  BY <1>3, NodeStateBacked
<1>5. Cause(run.node) => Cause(node)
  BY NodeSets DEF Cause, Unknown
<1>6. Skips(node) => Cause(node)
  <2>. SUFFICES ASSUME NEW u \in Undos, node[u] = "skipped" PROVE Cause(node)
    BY DEF Skips
  <2>1. u \notin moved
    BY NodeSets DEF NodeState, Unknown, TypeOK, TaskStatus, Unstarted
  <2>2. Skips(run.node)
    BY <2>1, NodeSets DEF Skips
  <2>. QED  BY <1>5, <2>2 DEF Told, Ended
<1>7. Resettled(run) = run \/ Resettled(run) = Settle(run, node)
  BY DEF Resettled
<1> HIDE DEF node
<1>. QED  BY <1>1, <1>2, <1>4, <1>5, <1>6, <1>7, SettleTold

LEMMA RecoverTold ==
  ASSUME TypeOK, CompleteOK, Told(run), BegunDead, run.status \notin Ended
  PROVE  /\ Told(RecoverRun(run)) /\ RecoverRun(run).status # "cancelled"
         /\ Begun => Cause(RecoverRun(run).node)
<1> DEFINE node == RecoverNodes(run)
<1>1. run \in Run /\ run.node \in [Nodes -> NodeStatus]
  BY DEF TypeOK, Run
<1>2. node \in [Nodes -> NodeStatus]
  BY RecoverFacts
<1>3. \A n \in Nodes : Backed(n, run.node[n])
  BY DEF Told, Ended
<1>4. \A n \in Nodes : node[n] = run.node[n] \/ node[n] = NodeState(n, run.node[n])
  BY DEF RecoverNodes
<1>5. \A n \in Nodes : Backed(n, node[n])
  BY <1>3, <1>4, NodeStateBacked
<1>6. ASSUME NEW s \in Steps, task[s] \in Dead, run.status # "failed" PROVE Cause(node)
  <2>1. node[s] = NodeState(s, run.node[s])
    BY <1>6, NodeSets DEF RecoverNodes
  <2>. QED  BY <1>6, <2>1 DEF Cause, NodeState, Dead
<1>7. run.status = "failed" => Cause(run.node) /\ Cause(node)
  <2>. SUFFICES ASSUME run.status = "failed" PROVE Cause(run.node) /\ Cause(node)
    OBVIOUS
  <2>1. Cause(run.node)
    BY FailedFacts DEF Told
  <2>2. \A s \in Steps : node[s] = run.node[s]
    BY NodeSets DEF RecoverNodes
  <2>. QED  BY <2>1, <2>2 DEF Cause
<1>8. Begun => Cause(node)
  BY <1>6, <1>7 DEF BegunDead
<1>9. Skips(node) => Cause(node)
  <2>. SUFFICES ASSUME NEW u \in Undos, node[u] = "skipped" PROVE Cause(node)
    BY DEF Skips
  <2>1. run.node[u] = "skipped"
    BY <1>4, NodeSets DEF NodeState, TypeOK, TaskStatus, Unstarted
  <2>2. Cause(run.node)
    BY <2>1 DEF Told, Ended, Skips
  <2>3. PICK s \in Steps : run.node[s] \in {"failed", "cancelled"}
    BY <2>2 DEF Cause
  <2>4. task[s] \in Dead
    BY <1>3, <2>3, NodeSets DEF Backed
  <2>. QED  BY <1>6, <1>7, <2>4
<1>10. RecoverRun(run) = Settle(run, node) \/ (RecoverRun(run) = run /\ node = run.node)
  BY DEF RecoverRun
<1> HIDE DEF node
<1>. QED  BY <1>1, <1>2, <1>5, <1>8, <1>9, <1>10, SettleTold DEF Ended

-----------------------------------------------------------------------------
(* Each action keeps the invariant.                                        *)

LEMMA AcquireTold ==
  ASSUME IInv, TInv, NEW p \in Procs, Acquire(p),
         UNCHANGED <<task, holder, sync, world, bounds>>,
         Begun /\ run.status # "cancelled" => Cause(run.node)
  PROVE  TInv'
<1> DEFINE r == Resettled(run)
           halt == [IdleAdvance EXCEPT !.pc = "release", !.cur = run]
           sweep == [IdleAdvance EXCEPT !.pc = "cancel", !.cur = r]
<1>1. /\ TypeOK /\ CompleteOK /\ run \in Run /\ Told(run) /\ BegunDead
      /\ Begun' = Begun /\ UNCHANGED <<task, crashes>>
  BY NoChange DEF IInv, TypeOK, TInv, bounds
<1>2. lease'.owner = <<p, "advance">> /\ "advance" \in Role
  BY DEF Acquire, Hold, Role
<1>3. \E a \in Advance :
        /\ SetAdv(p, a) /\ Apart(a) /\ AdvTold(a)
        /\ Told(run)' /\ (Begun /\ run'.status # "cancelled" => Cause(run.node)')
        /\ run'.status = "cancelled" => run' = run
  <2>1. CASE run.status \in Ended \union {"paused"}
    <3>1. SetAdv(p, halt) /\ run' = run
      BY <2>1 DEF Acquire
    <3>2. halt \in Advance /\ halt.pc = "release"
      BY <1>1, IdleAdvanceFacts DEF Advance
    <3>3. Apart(halt) /\ AdvTold(halt)
      BY <3>2 DEF Apart, AdvTold
    <3>4. Told(run)' /\ (Begun /\ run'.status # "cancelled" => Cause(run.node)')
      BY <1>1, <3>1, NoChange DEF Cause
    <3> HIDE DEF halt
    <3>. QED  BY <3>1, <3>2, <3>3, <3>4
  <2>2. CASE run.status \notin Ended \union {"paused"}
    <3>1. /\ r \in Run /\ r.status \notin {"cancelled", "paused"}
          /\ r.status = "verified_complete" => Reads(r.node)
          /\ Told(r) /\ (Begun => Cause(r.node))
      BY <1>1, <2>2, ResettledFacts, ResettledTold DEF Ended
    <3>2. run' = r /\ SetAdv(p, IF ToSweep(run, r) = {} THEN Wave(r) ELSE sweep)
      BY <2>2 DEF Acquire
    <3> HIDE DEF r
    <3>3. sweep \in Advance /\ sweep.pc = "cancel" /\ sweep.cur = r
      BY <3>1, IdleAdvanceFacts DEF Advance
    <3>4. ToSweep(run, r) # {} => r.status = "failed"
      BY DEF ToSweep
    <3>5. r.status = "failed" => Cause(r.node)
      BY <3>1, FailedFacts DEF Told
    <3>6. ToSweep(run, r) # {} => Apart(sweep) /\ AdvTold(sweep)
      BY <3>3, <3>4, <3>5 DEF Apart, AdvTold
    <3>7. Wave(r) \in Advance /\ Apart(Wave(r)) /\ AdvTold(Wave(r))
      BY <1>1, <3>1, WaveFacts, WaveTold
    <3> HIDE DEF sweep
    <3>8. Told(run)' /\ (Begun => Cause(run.node)')
      BY <1>1, <3>1, <3>2, NoChange DEF Cause
    <3>. QED  BY <3>1, <3>2, <3>3, <3>6, <3>7, <3>8
  <2>. QED  BY <2>1, <2>2
<1>4. PICK a \in Advance :
        /\ SetAdv(p, a) /\ Apart(a) /\ AdvTold(a)
        /\ Told(run)' /\ (Begun /\ run'.status # "cancelled" => Cause(run.node)')
        /\ run'.status = "cancelled" => run' = run
  BY <1>3
<1>5. adv'[p] = a /\ \A q \in Procs \ {p} : adv'[q] = adv[q]
  BY <1>1, <1>4, SetAdvFacts
<1>6. ApartOK'
  BY <1>4, <1>5 DEF TInv, ApartOK, Apart
<1>7. AdvTold(adv[p])'
  BY <1>1, <1>4, <1>5, NoChange, AdvToldGoesOn
<1>8. Recorded'
  BY <1>1, <1>4 DEF Recorded
<1>9. CancelOK'
  BY <1>1, <1>4 DEF TInv, CancelOK, Sweeping
<1>. QED  BY <1>1, <1>2, <1>4, <1>6, <1>7, <1>8, <1>9, TInvWrite

LEMMA BeginTold ==
  ASSUME IInv, TInv, NEW p \in Procs, Begin(p) \/ Recovered(p)
  PROVE  TInv'
<1>1. UNCHANGED <<task, holder, sync, world, bounds>>
  BY DEF Begin, Recovered
<1>2. CASE Acquire(p)
  <2>1. ~Owns(p, "advance")
    BY DEF Begin, Recovered, IInv, AdvancesOK, AdvOK
  <2>2. lease = NoLease \/ run.status \in Ended
    <3>1. lease' # lease
      BY <1>2, <2>1 DEF Acquire, Hold, Owns
    <3>2. CASE Begin(p)
      <4>1. ~Abandoned(p) /\ Takeable(p, "advance") /\ run.status # "paused"
        BY <3>1, <3>2 DEF Begin
      <4>2. run.status \in RunStatus
        BY DEF IInv, TypeOK, Run
      <4>. QED  BY <2>1, <4>1, <4>2 DEF Abandoned, Takeable, RunStatus
    <3>. QED  BY <3>1, <3>2 DEF Recovered
  <2>3. lease = NoLease => AtRest
    BY NoLeaseFacts DEF AtRest
  <2>4. run.status = "verified_complete" => ~Begun
    BY CompleteFacts DEF TInv, Told
  <2>5. Begun /\ run.status # "cancelled" => Cause(run.node)
    BY <2>2, <2>3, <2>4 DEF TInv, Recorded, Ended
  <2>. QED  BY <1>1, <1>2, <2>5, AcquireTold
<1> DEFINE go == [IdleAdvance EXCEPT !.pc = "recover"]
<1>3. CASE ~Acquire(p)
  <2>1. go \in Advance /\ go.pc = "recover"
    BY IdleAdvanceFacts DEF Advance
  <2>2. SetAdv(p, go) \/ SetAdv(p, IdleAdvance)
    BY <1>3 DEF Begin, Recovered
  <2> HIDE DEF go
  <2>3. PICK a \in Advance : SetAdv(p, a) /\ a.pc \in {"recover", "idle"}
    BY <2>1, <2>2, IdleAdvanceFacts
  <2>4. adv'[p] = a /\ \A q \in Procs \ {p} : adv'[q] = adv[q]
    BY <2>3, SetAdvFacts DEF IInv
  <2>5. Apart(adv[p])' /\ AdvTold(adv[p])'
    BY <2>3, <2>4 DEF Apart, AdvTold
  <2>6. UNCHANGED <<run, lease>>
    BY <1>3 DEF Begin, Recovered
  <2>. QED  BY <1>1, <2>3, <2>4, <2>5, <2>6, NoChange, TInvFrame DEF bounds
<1>. QED  BY <1>2, <1>3

\* One node's part of a wave moves on.
Moves(a, b, n) ==
  /\ a.pc = b.pc /\ a.cur = b.cur
  /\ \A m \in Nodes \ {n} : a.at[m] = b.at[m] /\ a.res[m] = b.res[m]

LEMMA ResultMoves ==
  ASSUME NEW b \in Advance, NEW n \in Nodes, NEW state \in NodeStatus
  PROVE  /\ Result(b, n, state) \in Advance /\ Moves(Result(b, n, state), b, n)
         /\ Result(b, n, state).res[n] = state /\ Result(b, n, state).at[n] = "no"
         /\ Result(b, n, state).left =
              IF n \in Undos /\ state # "compensated" THEN {} ELSE b.left
BY DEF Advance, Result, Moves

LEMMA RefuseMoves ==
  ASSUME NEW b \in Advance, NEW n \in Nodes
  PROVE  /\ Refuse(b, n) \in Advance /\ Moves(Refuse(b, n), b, n)
         /\ Refuse(b, n).res[n] = b.res[n] /\ Refuse(b, n).at[n] = "no"
         /\ Refuse(b, n).left = {}
BY DEF Advance, Refuse, Moves

Put(b, n, at) == [b EXCEPT !.at[n] = at]
LEMMA PutMoves ==
  ASSUME NEW b \in Advance, NEW n \in Nodes, NEW at \in {"todo", "starting", "running"}
  PROVE  /\ Put(b, n, at) \in Advance /\ Moves(Put(b, n, at), b, n)
         /\ Put(b, n, at).res[n] = b.res[n] /\ Put(b, n, at).at[n] = at
         /\ Put(b, n, at).left = b.left
BY DEF Advance, Put, Moves

LEMMA AtWork ==
  ASSUME IInv, TInv, NEW p \in Procs, NEW n \in Nodes, adv[p].at[n] # "no"
  PROVE  /\ adv[p] \in Advance /\ adv[p].pc \in {"wave", "undo"}
         /\ adv[p].pc = "wave" => n \in Steps
         /\ adv[p].pc = "undo" => n \in Undos
         /\ Owns(p, "advance") => /\ adv[p].cur = run /\ AdvTold(adv[p])
                                  /\ run.status \notin {"cancelled", "paused", "verified_complete"}
<1>1. adv[p] \in Advance /\ AdvOK(adv[p], run, Owns(p, "advance")) /\ Apart(adv[p])
  BY DEF IInv, TypeOK, AdvancesOK, TInv, ApartOK
<1>2. adv[p].pc \in {"wave", "undo"} /\ (n \in Steps \/ n \in Undos)
  BY <1>1 DEF AdvOK, Idling, Nodes
<1>. QED  BY <1>1, <1>2 DEF Apart, AdvOK, Working, Idling, TInv, AdvancesTold

LEMMA ApartMoves ==
  ASSUME NEW b, NEW a, NEW n \in Nodes, Apart(b), Moves(a, b, n), b.pc \in {"wave", "undo"},
         b.pc = "wave" => n \in Steps, b.pc = "undo" => n \in Undos
  PROVE  Apart(a)
BY NodeSets DEF Apart, Moves

LEMMA ToldMoves ==
  ASSUME NEW b, NEW a, NEW n \in Nodes, AdvTold(b), Moves(a, b, n), GoOn,
         b.pc \in {"wave", "undo"},
         b.pc = "wave" => n \in Steps /\ (Begun' => Begun), b.pc = "undo" => n \in Undos,
         a.res[n] = b.res[n] \/ (a.res[n] # "none" /\ Backed(n, a.res[n])')
  PROVE  AdvTold(a)'
<1>1. a.pc = b.pc /\ a.cur = b.cur
  BY DEF Moves
<1>2. \A m \in Nodes \ {n} : After(a)[m] = After(b)[m]
  BY DEF Moves, After
<1>3. After(a)[n] = After(b)[n] \/ Backed(n, After(a)[n])'
  BY <1>1 DEF After
<1>4. \A m \in Nodes : Backed(m, After(b)[m])'
  BY BackedGoesOn DEF AdvTold, GoOn
<1>5. \A m \in Nodes : Backed(m, After(a)[m])'
  BY <1>2, <1>3, <1>4
<1>6. b.pc = "wave" => Calm(a)'
  BY <1>1, <1>2, NodeSets DEF AdvTold, Calm, Skips
<1>7. b.pc = "undo" => Cause(After(a))
  BY <1>1, <1>2, NodeSets DEF AdvTold, Cause
<1>. QED  BY <1>1, <1>5, <1>6, <1>7 DEF AdvTold, Cause

\* While its owner is at work the run is not at rest.
LEMMA NotAtRest ==
  ASSUME ApartOK', NEW p \in Procs, Owns(p, "advance")',
         adv'[p].pc \notin {"cancel", "release"}
  PROVE  ~AtRest'
BY WorkflowAssumption DEF AtRest, ApartOK, Owns, Role

LEMMA TakeUpTold ==
  ASSUME IInv, IInv', TInv, NEW p \in Procs, NEW n \in Nodes, TakeUp(p, n)
  PROVE  TInv'
<1> DEFINE b == adv[p]
<1>1. /\ UNCHANGED <<run, holder, sync, world, bounds>> /\ b.at[n] = "todo" /\ b \in Advance
      /\ b.pc \in {"wave", "undo"}
      /\ b.pc = "wave" => n \in Steps
      /\ b.pc = "undo" => n \in Undos
      /\ Apart(b)
  BY AtWork DEF TakeUp, TInv, ApartOK
<1>2. CASE ~StillLeased(p)
  <2>1. SetAdv(p, Refuse(b, n)) /\ UNCHANGED <<lease, task>>
    BY <1>2 DEF TakeUp
  <2>2. Refuse(b, n) \in Advance /\ Moves(Refuse(b, n), b, n)
    BY <1>1, RefuseMoves
  <2>3. adv'[p] = Refuse(b, n) /\ \A q \in Procs \ {p} : adv'[q] = adv[q]
    BY <2>1, <2>2, SetAdvFacts DEF IInv
  <2>4. Apart(adv[p])'
    BY <1>1, <2>2, <2>3, ApartMoves DEF Apart
  <2>. QED  BY <1>1, <1>2, <2>1, <2>3, <2>4, NoChange, TInvFrame DEF StillLeased, bounds
<1>3. CASE StillLeased(p)
  <2>1. /\ lease' = [owner |-> <<p, "advance">>, fresh |-> TRUE]
        /\ task' = [task EXCEPT ![n] = TakenUp(n)]
        /\ Owns(p, "advance") /\ Owns(p, "advance")'
    BY <1>3 DEF TakeUp, StillLeased, Hold, Owns
  <2>2. /\ task \in [Nodes -> TaskStatus] /\ task' \in [Nodes -> TaskStatus]
        /\ task'[n] # "none"
        /\ \A m \in Nodes : task'[m] # task[m] =>
             m = n /\ task[m] = "none" /\ task'[m] \in {"planned", "awaiting"}
    BY <2>1 DEF IInv, TypeOK, TakenUp, Plan
  <2>3. GoOn
    BY <2>2 DEF GoOn, Later
  <2>4. n \in Steps => Begun' = Begun
    BY <2>2, NodeSets DEF Begun
  <2>5. PICK state \in NodeStatus :
          state = NodeState(n, "pending")' /\ state # "none" /\ Backed(n, state)'
    <3>1. task'[n] \in TaskStatus /\ (n \in Steps \/ n \in Undos)
      BY <2>2 DEF Nodes
    <3>2. NodeState(n, "pending")' \in NodeStatus
      BY <3>1 DEF NodeState, NodeStatus, TaskStatus, Unstarted, Unknown, Done
    <3>3. PICK state \in NodeStatus : state = NodeState(n, "pending")'
      BY <3>2
    <3>4. state # "none"
      BY DEF NodeStatus, Unknown, Done
    <3>5. Backed(n, state)'
      BY <2>2, <3>1, <3>3, NodeSets DEF Backed, NodeState, TaskStatus, Unstarted, Dead
    <3>. QED  BY <3>3, <3>4, <3>5
  <2>6. \/ SetAdv(p, Refuse(b, n))
        \/ SetAdv(p, Put(b, n, "starting"))
        \/ SetAdv(p, Result(b, n, state))
    BY <1>3, <2>5 DEF TakeUp, Put
  <2>7. /\ b.cur = run /\ AdvTold(b)
        /\ run.status \notin {"cancelled", "paused", "verified_complete"}
    BY <1>1, <2>1, AtWork
  <2>8. PICK a \in Advance :
          /\ SetAdv(p, a) /\ Moves(a, b, n)
          /\ a.res[n] = b.res[n] \/ a.res[n] = state
    <3>1. /\ Result(b, n, state) \in Advance /\ Moves(Result(b, n, state), b, n)
          /\ Result(b, n, state).res[n] = state
      BY <1>1, ResultMoves
    <3>2. /\ Refuse(b, n) \in Advance /\ Moves(Refuse(b, n), b, n)
          /\ Refuse(b, n).res[n] = b.res[n]
      BY <1>1, RefuseMoves
    <3>3. /\ Put(b, n, "starting") \in Advance /\ Moves(Put(b, n, "starting"), b, n)
          /\ Put(b, n, "starting").res[n] = b.res[n]
      BY <1>1, PutMoves
    <3>. QED  BY <2>6, <3>1, <3>2, <3>3
  <2> HIDE DEF b
  <2>9. adv'[p] = a /\ \A q \in Procs \ {p} : adv'[q] = adv[q]
    BY <2>8, SetAdvFacts DEF IInv
  <2>10. a.res[n] = b.res[n] \/ (a.res[n] # "none" /\ Backed(n, a.res[n])')
    BY <2>5, <2>8
  <2>11. AdvTold(adv[p])'
    <3>1. AdvTold(a)'
      BY <1>1, <2>3, <2>4, <2>7, <2>8, <2>10, ToldMoves
    <3>. QED  BY <2>9, <3>1
  <2>12. ApartOK'
    <3>1. Apart(a)
      BY <1>1, <2>8, ApartMoves
    <3>. QED  BY <1>1, <2>9, <3>1 DEF TInv, ApartOK, Apart
  <2>13. AdvancesTold'
    BY <2>1, <2>11 DEF AdvancesTold, Owns
  <2>14. ~AtRest'
    <3>1. adv'[p].pc \notin {"cancel", "release"}
      BY <1>1, <2>8, <2>9 DEF Moves
    <3>. QED  BY <2>1, <2>12, <3>1, NotAtRest
  <2>15. BegunDead'
    <3>1. CASE n \in Steps
      BY <2>3, <2>4, <3>1, BegunDeadGoesOn DEF TInv
    <3>2. CASE n \in Undos
      <4>1. PICK s \in Steps : After(b)[s] \in {"failed", "cancelled"}
        BY <1>1, <2>7, <3>2, NodeSets DEF AdvTold, Cause
      <4>2. task[s] \in Dead
        BY <1>1, <2>7, <4>1, NodeSets DEF AdvTold, Backed
      <4>. QED  BY <2>3, <4>2, DeadGoesOn, NodeSets DEF BegunDead
    <3>. QED  BY <3>1, <3>2 DEF Nodes
  <2>16. Told(run)'
    BY <1>1, <2>3, RunToldGoesOn DEF TInv
  <2>. QED
    BY <1>1, <2>7, <2>12, <2>13, <2>14, <2>15, <2>16 DEF TInv, Recorded, CancelOK
<1>. QED  BY <1>2, <1>3

\* Tasks that end, settle, are approved or denied: none begins.
LEMMA TaskGoesOn ==
  ASSUME TypeOK, NEW n \in Nodes, NEW status, task' = [task EXCEPT ![n] = status],
         task[n] # "none", Later(task[n], status),
         status \in Unstarted => task[n] \in Unstarted
  PROVE  /\ GoOn /\ Begun' = Begun
         /\ \A m \in Nodes : task'[m] \in Unstarted => task[m] \in Unstarted
<1>1. \A m \in Nodes : task'[m] = IF m = n THEN status ELSE task[m]
  BY DEF TypeOK
<1>2. status # "none"
  BY DEF Later, Unstarted
<1>3. NoneBegins
  BY <1>1, <1>2 DEF NoneBegins
<1>. QED  BY <1>1, <1>3, BegunGoesOn DEF GoOn, Later

LEMMA StartStepTold ==
  ASSUME IInv, TInv, NEW p \in Procs, NEW n \in Nodes, StartStep(p, n)
  PROVE  TInv'
<1> DEFINE b == adv[p]
<1>1. /\ UNCHANGED <<run, lease, sync, happened, bounds>> /\ b.at[n] = "starting" /\ b \in Advance
      /\ b.pc \in {"wave", "undo"} /\ Apart(b)
      /\ b.pc = "wave" => n \in Steps
      /\ b.pc = "undo" => n \in Undos
      /\ Owns(p, "advance") => AdvTold(b)
  BY AtWork DEF StartStep, TInv, ApartOK
<1>2. /\ GoOn /\ Begun' = Begun
      /\ \A m \in Nodes : task'[m] \in Unstarted => task[m] \in Unstarted
  <2>1. CASE task[n] \in Unstarted
    <3>1. task' = [task EXCEPT ![n] = "running"] /\ task[n] # "none"
      BY <2>1 DEF StartStep, Start, Unstarted
    <3>. QED  BY <2>1, <3>1, TaskGoesOn DEF IInv, Later
  <2>2. CASE task[n] \notin Unstarted
    BY <2>2, NoChange DEF StartStep
  <2>. QED  BY <2>1, <2>2
<1>3. PICK a \in Advance : SetAdv(p, a) /\ Moves(a, b, n) /\ a.res[n] = b.res[n]
  <2>1. SetAdv(p, Put(b, n, "running")) \/ SetAdv(p, Refuse(b, n))
    BY DEF StartStep, Put
  <2>2. /\ Put(b, n, "running") \in Advance /\ Moves(Put(b, n, "running"), b, n)
        /\ Put(b, n, "running").res[n] = b.res[n]
    BY <1>1, PutMoves
  <2>3. /\ Refuse(b, n) \in Advance /\ Moves(Refuse(b, n), b, n)
        /\ Refuse(b, n).res[n] = b.res[n]
    BY <1>1, RefuseMoves
  <2>. QED  BY <2>1, <2>2, <2>3
<1> HIDE DEF b
<1>4. adv'[p] = a /\ \A q \in Procs \ {p} : adv'[q] = adv[q]
  BY <1>3, SetAdvFacts DEF IInv
<1>5. Apart(a)
  BY <1>1, <1>3, ApartMoves
<1>6. Owns(p, "advance") => AdvTold(a)'
  BY <1>1, <1>2, <1>3, ToldMoves
<1>7. Apart(adv[p])' /\ (Owns(p, "advance") => AdvTold(adv[p])')
  BY <1>4, <1>5, <1>6 DEF Apart
<1>8. adv'[p].pc \notin {"cancel", "release"}
  BY <1>1, <1>3, <1>4 DEF Moves
<1>. QED  BY <1>1, <1>2, <1>4, <1>7, <1>8, TInvFrame DEF bounds

LEMMA TaskEndsTold ==
  ASSUME IInv, IInv', TInv, NEW p \in Procs, NEW n \in Nodes, TaskEnds(p, n)
  PROVE  TInv'
<1> DEFINE b == adv[p]
<1>1. UNCHANGED <<run, lease, sync, world, bounds>>
  BY DEF TaskEnds
<1>2. PICK outcome \in Outcomes(n) :
        task[n] = "running" /\ task' = [task EXCEPT ![n] = outcome]
  BY DEF TaskEnds
<1>3. outcome \in {"recovery_required", "verified_success", "partial", "failed", "cancelled"}
  BY DEF Outcomes
<1>4. /\ GoOn /\ Begun' = Begun
      /\ \A m \in Nodes : task'[m] \in Unstarted => task[m] \in Unstarted
  BY <1>2, <1>3, TaskGoesOn DEF IInv, Later, Unstarted
<1>5. task'[n] = outcome
  BY <1>2 DEF IInv, TypeOK
<1>6. CASE b.at[n] # "running"
  <2>1. adv' = adv
    BY <1>6 DEF TaskEnds
  <2>. QED  BY <1>1, <1>4, <2>1, TInvFrame DEF bounds
<1>7. CASE b.at[n] = "running"
  <2>1. /\ b \in Advance /\ b.pc \in {"wave", "undo"} /\ Apart(b)
        /\ b.pc = "wave" => n \in Steps
        /\ b.pc = "undo" => n \in Undos
        /\ Owns(p, "advance") => AdvTold(b)
    BY <1>7, AtWork DEF TInv, ApartOK
  <2>2. PICK state \in NodeStatus :
          state = NodeState(n, "pending")' /\ state # "none" /\ Backed(n, state)'
    <3>1. n \in Steps \/ n \in Undos
      BY DEF Nodes
    <3>2. NodeState(n, "pending")' \in NodeStatus
      BY <1>3, <1>5 DEF NodeState, NodeStatus, Unstarted, Unknown, Done
    <3>3. PICK state \in NodeStatus : state = NodeState(n, "pending")'
      BY <3>2
    <3>4. state # "none"
      BY DEF NodeStatus, Unknown, Done
    <3>5. Backed(n, state)'
      BY <1>3, <1>5, <3>1, <3>3, NodeSets DEF Backed, NodeState, Unstarted, Dead
    <3>. QED  BY <3>3, <3>4, <3>5
  <2>3. adv' = [adv EXCEPT ![p] = Result(b, n, state)]
    BY <1>7, <2>2 DEF TaskEnds
  <2>4. /\ Result(b, n, state) \in Advance /\ Moves(Result(b, n, state), b, n)
        /\ Result(b, n, state).res[n] = state
    BY <2>1, ResultMoves
  <2> HIDE DEF b
  <2>5. PICK a \in Advance : /\ adv' = [adv EXCEPT ![p] = a]
                             /\ Moves(a, b, n) /\ a.res[n] = state
    BY <2>3, <2>4
  <2>6. adv'[p] = a /\ \A q \in Procs \ {p} : adv'[q] = adv[q]
    BY <2>5 DEF IInv, TypeOK
  <2>7. Apart(a)
    BY <2>1, <2>5, ApartMoves
  <2>8. Owns(p, "advance") => AdvTold(a)'
    BY <1>4, <2>1, <2>2, <2>5, ToldMoves
  <2>9. Apart(adv[p])' /\ (Owns(p, "advance") => AdvTold(adv[p])')
    BY <2>6, <2>7, <2>8 DEF Apart
  <2>10. adv'[p].pc \notin {"cancel", "release"}
    BY <2>1, <2>5, <2>6 DEF Moves
  <2>. QED  BY <1>1, <1>4, <2>6, <2>9, <2>10, TInvFrame DEF bounds
<1>. QED  BY <1>6, <1>7

LEMMA TaskStepsTold ==
  ASSUME IInv, TInv, NEW n \in Nodes,
         \/ \E p \in Procs : RecoverTask(p, n) \/ Execute(p, n)
         \/ Approve(n) \/ Deny(n) \/ Reconcile(n) \/ Happens(n)
  PROVE  TInv'
<1>1. UNCHANGED <<run, lease, adv, sync, crashes>>
  BY DEF RecoverTask, Execute, Approve, Deny, Reconcile, Happens, db, bounds
<1>2. CASE Happens(n)
  BY <1>1, <1>2, NoChange, TInvFrame DEF Happens, db
<1>3. CASE ~Happens(n)
  <2>1. PICK status :
          /\ task' = [task EXCEPT ![n] = status] /\ Later(task[n], status)
          /\ task[n] # "none" /\ (status \in Unstarted => task[n] \in Unstarted)
    <3>1. ASSUME NEW p \in Procs, RecoverTask(p, n) \/ Execute(p, n)
          PROVE  \E status :
                   /\ task' = [task EXCEPT ![n] = status] /\ Later(task[n], status)
                   /\ task[n] # "none" /\ (status \in Unstarted => task[n] \in Unstarted)
      BY <3>1 DEF RecoverTask, Execute, Start, Later, Unstarted
    <3>2. CASE Approve(n) \/ Deny(n) \/ Reconcile(n)
      BY <3>2 DEF Approve, Deny, Reconcile, Later, Unstarted
    <3>. QED  BY <1>3, <3>1, <3>2
  <2>2. /\ GoOn /\ Begun' = Begun
        /\ \A m \in Nodes : task'[m] \in Unstarted => task[m] \in Unstarted
    BY <2>1, TaskGoesOn DEF IInv
  <2>. QED  BY <1>1, <2>2, TInvFrame
<1>. QED  BY <1>2, <1>3

LEMMA WaveEndsTold ==
  ASSUME IInv, TInv, NEW p \in Procs, WaveEnds(p)
  PROVE  TInv'
<1> DEFINE b == adv[p]
           undo == [b EXCEPT !.pc = "undo",
                      !.left = {u \in Undos : b.cur.node[u] = "pending"}]
           commit == [b EXCEPT !.pc = "commit"]
<1>1. /\ b \in Advance /\ b.pc = "wave" /\ Idling(b)
      /\ UNCHANGED <<run, lease, task, sync, world, bounds>>
      /\ Owns(p, "advance") => AdvTold(b)
  BY DEF WaveEnds, IInv, TypeOK, db, TInv, AdvancesTold
<1>2. /\ undo \in Advance /\ undo.pc = "undo" /\ undo.at = b.at /\ After(undo) = After(b)
      /\ commit \in Advance /\ commit.pc = "commit" /\ commit.cur = b.cur
      /\ After(commit) = After(b)
  BY <1>1 DEF Advance, After
<1>3. SetAdv(p, IF Unwinds(b) THEN undo ELSE commit)
  BY DEF WaveEnds
<1>4. Unwinds(b) => Cause(After(b))
  BY <1>1, NodeSets DEF Unwinds, Cause, After
<1> HIDE DEF undo, commit
<1>5. Apart(undo) /\ Apart(commit)
  BY <1>1, <1>2, NodeSets DEF Apart, Idling
<1>6. AdvTold(b) => AdvTold(commit) /\ (Unwinds(b) => AdvTold(undo))
  BY <1>1, <1>2, <1>4 DEF AdvTold, Calm
<1>7. PICK a \in Advance : /\ SetAdv(p, a) /\ Apart(a) /\ (AdvTold(b) => AdvTold(a))
                           /\ a.pc \notin {"cancel", "release"}
  BY <1>2, <1>3, <1>5, <1>6
<1> HIDE DEF b
<1>8. adv'[p] = a /\ \A q \in Procs \ {p} : adv'[q] = adv[q]
  BY <1>7, SetAdvFacts DEF IInv
<1>9. Apart(adv[p])' /\ (Owns(p, "advance") => AdvTold(adv[p])')
  BY <1>1, <1>7, <1>8, NoChange, AdvToldGoesOn DEF Apart
<1>. QED  BY <1>1, <1>7, <1>8, <1>9, NoChange, TInvFrame DEF bounds

-----------------------------------------------------------------------------
(* The unwind and the commit.                                              *)

\* The compensation an unwind turns to next is one of those left, and none left is
\* of a later step.
LEMMA NewestFacts ==
  ASSUME NEW left \in SUBSET Undos, left # {}
  PROVE  Newest(left) \in left /\ \A v \in left : Rank[v] <= Rank[Newest(left)]
<1> DEFINE Above(u) == {w \in left : Rank[w] > Rank[u]}
           T == {Above(u) : u \in left}
<1>1. IsFiniteSet(left) /\ \A u \in left : Rank[u] \in Nat
  BY WorkflowAssumption, FS_Subset
<1>2. T \subseteq FiniteSubsetsOf(left) /\ T # {}
  <2>1. \A u \in left : Above(u) \in SUBSET left
    OBVIOUS
  <2>2. T \subseteq SUBSET left /\ T # {}
    BY <2>1
  <2>3. FiniteSubsetsOf(left) = SUBSET left
    BY <1>1, FS_FiniteSubsetsOfFinite
  <2>. QED  BY <2>2, <2>3
<1>3. \E x \in T : \A y \in T : <<y, x>> \notin StrictSubsetOrdering(left)
  <2>1. IsWellFoundedOn(StrictSubsetOrdering(left), FiniteSubsetsOf(left))
    BY FS_StrictSubsetOrderingWellFounded
  <2> HIDE DEF T
  <2>. QED  BY <1>2, <2>1, WFMin
<1>4. PICK u \in left : \A y \in T : <<y, Above(u)>> \notin StrictSubsetOrdering(left)
  BY <1>3
<1>5. ASSUME NEW v \in left, Rank[v] > Rank[u]
      PROVE  FALSE
  <2>1. Above(v) \subseteq Above(u) /\ v \in Above(u) /\ v \notin Above(v)
    BY <1>1, <1>5
  <2>2. Above(v) \in T /\ Above(v) \in SUBSET left /\ Above(u) \in SUBSET left
    OBVIOUS
  <2>3. <<Above(v), Above(u)>> \in StrictSubsetOrdering(left)
    <3> HIDE DEF Above
    <3>. QED  BY <2>1, <2>2 DEF StrictSubsetOrdering
  <2>. QED  BY <1>4, <2>2, <2>3
<1>6. \A v \in left : Rank[v] <= Rank[u]
  BY <1>1, <1>5
<1>. QED  BY <1>6 DEF Newest

\* A run with a failed step runs no wave.
LEMMA FailingWave ==
  ASSUME NEW cur \in Run, Cause(cur.node)
  PROVE  Wave(cur).pc \in {"release", "undo"} /\ Apart(Wave(cur))
<1> DEFINE b == [IdleAdvance EXCEPT !.cur = cur]
           stop == [b EXCEPT !.pc = "release"]
           undo == [b EXCEPT !.pc = "undo", !.left = Rollback(cur)]
<1>1. b \in Advance /\ \A n \in Nodes : b.at[n] = "no"
  BY IdleAdvanceFacts DEF Advance, Idling
<1>2. stop.pc = "release" /\ undo.pc = "undo" /\ undo.at = b.at
  BY <1>1 DEF Advance
<1>3. HasFailure(cur)
  BY DEF HasFailure, Cause
<1>4. Wave(cur) = stop \/ Wave(cur) = undo
  BY <1>3 DEF Wave
<1> HIDE DEF b, stop, undo
<1>5. Apart(stop) /\ Apart(undo)
  BY <1>1, <1>2, NodeSets DEF Apart
<1>. QED  BY <1>2, <1>4, <1>5

LEMMA UndoNextTold ==
  ASSUME IInv, TInv, NEW p \in Procs, UndoNext(p)
  PROVE  TInv'
<1> DEFINE b == adv[p]
           u == Newest(b.left)
           commit == [b EXCEPT !.pc = "commit"]
           stop == [b EXCEPT !.left = {}]
           undo == [b EXCEPT !.left = @ \ {u}, !.at[u] = "todo"]
           skip == [b EXCEPT !.left = @ \ {u}, !.res[u] = "skipped"]
<1>1. /\ b \in Advance /\ b.pc = "undo" /\ Idling(b) /\ Apart(b)
      /\ UNCHANGED <<run, lease, task, sync, world, bounds>>
      /\ Owns(p, "advance") => AdvTold(b)
  BY DEF UndoNext, IInv, TypeOK, db, TInv, AdvancesTold, ApartOK
<1>2. b.left # {} => u \in Undos
  BY <1>1, NewestFacts DEF Advance
<1>3. "skipped" \in NodeStatus
  BY DEF NodeStatus, Done
<1> HIDE DEF u
<1>4. /\ commit \in Advance /\ commit.pc = "commit" /\ commit.at = b.at
      /\ commit.cur = b.cur /\ After(commit) = After(b)
  BY <1>1 DEF Advance, After
<1>5. /\ stop \in Advance /\ stop.pc = "undo" /\ stop.at = b.at
      /\ stop.cur = b.cur /\ After(stop) = After(b)
  BY <1>1 DEF Advance, After
<1>6. /\ undo \in Advance /\ undo.pc = "undo" /\ undo.cur = b.cur
      /\ undo.res = b.res /\ \A n \in Nodes : n # u => undo.at[n] = b.at[n]
  BY <1>1 DEF Advance
<1>7. After(undo) = After(b)
  BY <1>6 DEF After
<1>8. /\ skip \in Advance /\ skip.pc = "undo" /\ skip.cur = b.cur /\ skip.at = b.at
      /\ u \in Nodes => skip.res[u] = "skipped"
      /\ \A n \in Nodes : n # u => skip.res[n] = b.res[n]
  BY <1>1, <1>3 DEF Advance
<1>9. SetAdv(p, IF b.left = {} THEN commit
                ELSE IF run.version # b.cur.version THEN stop
                ELSE IF TargetDone(u, After(b)) THEN undo ELSE skip)
  BY DEF UndoNext, u
<1> HIDE DEF commit, stop, undo, skip
<1>10. /\ Apart(commit) /\ AdvTold(b) => AdvTold(commit)
       /\ Apart(stop) /\ AdvTold(b) => AdvTold(stop)
  BY <1>1, <1>4, <1>5 DEF Apart, AdvTold
<1>11. Apart(commit) /\ Apart(stop)
  BY <1>1, <1>4, <1>5 DEF Apart
<1>12. u \in Undos => Apart(undo) /\ Apart(skip)
  BY <1>1, <1>6, <1>8, NodeSets DEF Apart
<1>13. AdvTold(b) => AdvTold(undo)
  BY <1>1, <1>6, <1>7 DEF AdvTold
<1>14. AdvTold(b) /\ u \in Undos => AdvTold(skip)
  <2>. SUFFICES ASSUME AdvTold(b), u \in Undos PROVE AdvTold(skip)
    OBVIOUS
  <2>1. /\ \A n \in Nodes : n # u => After(skip)[n] = After(b)[n]
        /\ After(skip)[u] = "skipped" /\ u \in Nodes
    BY <1>8, NodeSets DEF After
  <2>2. Backed(u, "skipped")
    BY DEF Backed
  <2>. QED  BY <1>1, <1>8, <2>1, <2>2, NodeSets DEF AdvTold, Cause
<1>15. PICK a \in Advance : /\ SetAdv(p, a) /\ Apart(a) /\ (AdvTold(b) => AdvTold(a))
                            /\ a.pc \notin {"cancel", "release"}
  BY <1>2, <1>4, <1>5, <1>6, <1>8, <1>9, <1>10, <1>11, <1>12, <1>13, <1>14
<1> HIDE DEF b
<1>16. adv'[p] = a /\ \A q \in Procs \ {p} : adv'[q] = adv[q]
  BY <1>15, SetAdvFacts DEF IInv
<1>17. Apart(adv[p])' /\ (Owns(p, "advance") => AdvTold(adv[p])')
  BY <1>1, <1>15, <1>16, NoChange, AdvToldGoesOn DEF Apart
<1>. QED  BY <1>1, <1>15, <1>16, <1>17, NoChange, TInvFrame DEF bounds

LEMMA CommitTold ==
  ASSUME IInv, IInv', TInv, NEW p \in Procs, Commit(p)
  PROVE  TInv'
<1> DEFINE b == adv[p]
           release == [b EXCEPT !.pc = "release"]
           cancel == [b EXCEPT !.pc = "cancel"]
<1>1. /\ b \in Advance /\ b.pc = "commit" /\ AdvOK(b, run, Owns(p, "advance"))
      /\ UNCHANGED <<task, sync, crashes>>
      /\ Owns(p, "advance") => AdvTold(b) /\ b.cur = run
  BY DEF Commit, IInv, TypeOK, bounds, TInv, AdvancesTold, AdvancesOK, AdvOK, Working
<1>2. /\ release \in Advance /\ release.pc = "release"
      /\ cancel \in Advance /\ cancel.pc = "cancel" /\ cancel.cur = b.cur
  BY <1>1 DEF Advance
<1>3. CASE ~StillLeased(p)
  <2>1. SetAdv(p, release) /\ UNCHANGED <<run, lease>>
    BY <1>3 DEF Commit
  <2> HIDE DEF release
  <2>2. adv'[p] = release /\ \A q \in Procs \ {p} : adv'[q] = adv[q]
    BY <1>2, <2>1, SetAdvFacts DEF IInv
  <2>3. Apart(adv[p])'
    BY <1>2, <2>2 DEF Apart
  <2>. QED  BY <1>1, <1>3, <2>1, <2>2, <2>3, NoChange, TInvFrame DEF StillLeased
<1>4. CASE StillLeased(p)
  <2>1. /\ b.cur = run /\ AdvTold(b) /\ Current(p)
        /\ run.status \notin {"cancelled", "paused"}
        /\ run.status = "verified_complete" => \A n \in Nodes : b.res[n] = "none"
    BY <1>1, <1>4 DEF StillLeased, Current, AdvOK
  <2>2. /\ run' = Settle(run, After(b)) /\ lease'.owner = <<p, "advance">>
        /\ SetAdv(p, IF ToSweep(run, run') = {} THEN release ELSE cancel)
    BY <1>4, <2>1 DEF Commit, Hold
  <2>3. run \in Run /\ run.node \in [Nodes -> NodeStatus]
    BY DEF IInv, TypeOK, Run
  <2>4. After(b) \in [Nodes -> NodeStatus]
    BY <1>1, <2>1, <2>3 DEF After, Advance
  <2>5. \A n \in Nodes : Backed(n, After(b)[n])
    BY <1>1, <2>1 DEF AdvTold
  <2>6. Skips(After(b)) => Cause(After(b)) \/ Reads(After(b))
    <3>1. CASE run.status = "verified_complete"
      <4>1. After(b) = run.node
        BY <2>1, <2>3, <3>1 DEF After
      <4>. QED  BY <3>1, <4>1 DEF TInv, Told
    <3>2. CASE run.status # "verified_complete"
      BY <1>1, <2>1, <3>2 DEF AdvTold, Calm
    <3>. QED  BY <3>1, <3>2
  <2>7. Begun => Cause(After(b))
    BY <1>1, <2>1 DEF AdvTold, Calm
  <2>8. /\ Told(run') /\ run'.status # "cancelled"
        /\ Begun => Cause(run'.node)
    BY <2>2, <2>3, <2>4, <2>5, <2>6, <2>7, SettleTold DEF TInv
  <2>9. Told(run)' /\ (Begun => Cause(run.node))'
    BY <1>1, <2>8, NoChange DEF Cause
  <2>10. ToSweep(run, run') # {} => b.cur.status # "failed"
    BY <2>1 DEF ToSweep
  <2> HIDE DEF release, cancel, b
  <2>11. PICK a \in Advance : SetAdv(p, a) /\ Apart(a) /\ AdvTold(a)
    BY <1>2, <2>2, <2>10 DEF Apart, AdvTold
  <2>12. adv'[p] = a /\ \A q \in Procs \ {p} : adv'[q] = adv[q]
    BY <2>11, SetAdvFacts DEF IInv
  <2>13. ApartOK'
    BY <1>1, <2>11, <2>12 DEF TInv, ApartOK, Apart
  <2>14. AdvTold(adv[p])'
    BY <1>1, <2>11, <2>12, NoChange, AdvToldGoesOn
  <2>15. Recorded' /\ CancelOK'
    BY <2>8, <2>9 DEF Recorded, CancelOK
  <2>. QED  BY <1>1, <2>2, <2>9, <2>13, <2>14, <2>15, TInvWrite DEF Role
<1>. QED  BY <1>3, <1>4

LEMMA SweepGoesOn ==
  ASSUME TypeOK, NEW nodes, Cancelled(nodes)
  PROVE  /\ GoOn /\ Begun' = Begun
         /\ \A n \in Nodes : task'[n] \in Unstarted => task[n] \in Unstarted /\ n \notin nodes
<1>1. \A n \in Nodes : task'[n] = IF n \in nodes /\ task[n] \in Unstarted
                                  THEN "cancelled" ELSE task[n]
  BY DEF Cancelled
<1>2. NoneBegins
  BY <1>1 DEF NoneBegins, Unstarted
<1>. QED  BY <1>1, <1>2, BegunGoesOn DEF GoOn, Later, Unstarted

LEMMA CancelForwardTold ==
  ASSUME IInv, TInv, NEW p \in Procs, CancelForward(p)
  PROVE  TInv'
<1> DEFINE b == adv[p]
           release == [b EXCEPT !.pc = "release"]
<1>1. /\ b \in Advance /\ b.pc = "cancel" /\ b.cur \in Run /\ Apart(b)
      /\ UNCHANGED <<run, lease, holder, sync, world, bounds>>
      /\ Cancelled(Steps) /\ TypeOK
  BY DEF CancelForward, IInv, TypeOK, TInv, ApartOK, Advance
<1>2. release \in Advance /\ release.pc = "release"
  BY <1>1 DEF Advance
<1>3. /\ GoOn /\ Begun' = Begun
      /\ \A n \in Nodes : task'[n] \in Unstarted => task[n] \in Unstarted
  BY <1>1, SweepGoesOn
<1>4. ASSUME b.cur.status = "failed"
      PROVE  /\ Wave(b.cur) \in Advance /\ Wave(b.cur).pc \in {"release", "undo"}
             /\ Owns(p, "advance") => AdvTold(Wave(b.cur))
             /\ Apart(Wave(b.cur))
  <2>1. Cause(b.cur.node)
    BY <1>1, <1>4 DEF Apart
  <2>2. Wave(b.cur) \in Advance
    BY <1>1, <1>4, WaveFacts
  <2>3. Wave(b.cur).pc \in {"release", "undo"} /\ Apart(Wave(b.cur))
    BY <1>1, <1>4, <2>1, FailingWave
  <2>4. ASSUME Owns(p, "advance") PROVE AdvTold(Wave(b.cur))
    <3>1. b.cur = run
      BY <1>1, <1>4, <2>4 DEF IInv, AdvancesOK, AdvOK, Working
    <3>. QED  BY <1>1, <1>4, <2>1, <3>1, WaveTold DEF TInv
  <2>. QED  BY <2>2, <2>3, <2>4
<1>5. SetAdv(p, IF b.cur.status = "failed" THEN Wave(b.cur) ELSE release)
  BY DEF CancelForward
<1>6. Apart(release) /\ AdvTold(release)
  BY <1>2 DEF Apart, AdvTold
<1> HIDE DEF release
<1>7. PICK a \in Advance : /\ SetAdv(p, a) /\ Apart(a)
                           /\ Owns(p, "advance") => AdvTold(a)
  BY <1>2, <1>4, <1>5, <1>6
<1>8. adv'[p] = a /\ \A q \in Procs \ {p} : adv'[q] = adv[q]
  BY <1>7, SetAdvFacts DEF IInv
<1>9. Apart(adv[p])' /\ (Owns(p, "advance") => AdvTold(adv[p])')
  BY <1>3, <1>7, <1>8, AdvToldGoesOn DEF Apart
<1>. QED  BY <1>1, <1>3, <1>8, <1>9, TInvFrame DEF bounds

-----------------------------------------------------------------------------
(* Leases, recovery, the operator and crashes.                             *)

LEMMA ReleaseAdvanceTold ==
  ASSUME IInv, TInv, NEW p \in Procs, ReleaseAdvance(p)
  PROVE  TInv'
<1>1. /\ UNCHANGED <<run, task, sync, crashes>> /\ adv[p].pc = "release"
      /\ SetAdv(p, IdleAdvance)
      /\ lease' = IF Owns(p, "advance") THEN NoLease ELSE lease
  BY DEF ReleaseAdvance, Release, bounds
<1>2. adv'[p] = IdleAdvance /\ \A q \in Procs \ {p} : adv'[q] = adv[q]
  BY <1>1, IdleAdvanceFacts, SetAdvFacts DEF IInv
<1>3. Apart(adv[p])' /\ AdvTold(adv[p])'
  BY <1>2, IdleAdvanceFacts DEF Apart, AdvTold
<1>4. CASE Owns(p, "advance")
  <2>1. lease'.owner = Nobody /\ AtRest
    BY <1>1, <1>4, NoLeaseFacts DEF AtRest
  <2>2. ApartOK'
    BY <1>1, <1>2, <1>3 DEF TInv, ApartOK, Apart
  <2>3. Told(run)' /\ Recorded' /\ BegunDead'
    BY <1>1, <2>1, NoChange, BegunDeadGoesOn DEF TInv, Recorded, Cause
  <2>4. AdvancesTold'
    BY <2>1, WorkflowAssumption DEF AdvancesTold, Owns, Role
  <2>5. CancelOK'
    BY <1>1 DEF TInv, CancelOK, Sweeping
  <2>. QED  BY <2>2, <2>3, <2>4, <2>5 DEF TInv
<1>5. CASE ~Owns(p, "advance")
  BY <1>1, <1>2, <1>3, <1>5, NoChange, TInvFrame
<1>. QED  BY <1>4, <1>5

LEMMA FreshTold ==
  ASSUME IInv, TInv, Lapse \/ \E p \in Procs : Renew(p)
  PROVE  TInv'
<1>1. UNCHANGED <<run, task, adv, sync, crashes>>
  BY DEF Lapse, Renew, bounds
<1>2. lease'.owner = lease.owner
  BY DEF Lapse, Renew, IInv, TypeOK, Lease
<1>. QED  BY <1>1, <1>2, NoChange, TInvFrame

\* A block that has no lease yet.
LEMMA BlockTold ==
  ASSUME IInv, TInv, NEW p \in Procs, NEW block, sync[p].pc # "releasing",
         block.pc # "releasing", sync' = [sync EXCEPT ![p] = block],
         UNCHANGED <<run, lease, task, adv, crashes>>
  PROVE  TInv'
<1>1. sync'[p] = block /\ \A q \in Procs \ {p} : sync'[q] = sync[q]
  BY DEF IInv, TypeOK
<1>2. ApartOK'
  BY <1>1 DEF TInv, ApartOK, Apart
<1>3. AtRest' => AtRest
  BY <1>1 DEF AtRest, Owns
<1>4. Told(run)' /\ Recorded' /\ BegunDead'
  BY <1>3, NoChange, BegunDeadGoesOn DEF TInv, Recorded, Cause
<1>5. AdvancesTold'
  <2>1. \A q \in Procs : AdvTold(adv[q]) => AdvTold(adv[q])'
    BY NoChange, AdvToldGoesOn
  <2>. QED  BY <2>1 DEF TInv, AdvancesTold, Owns
<1>6. CancelOK'
  BY <1>1 DEF TInv, CancelOK, Sweeping
<1>. QED  BY <1>2, <1>4, <1>5, <1>6 DEF TInv

LEMMA ListRunTold ==
  ASSUME IInv, TInv, NEW p \in Procs, NEW abandonedOnly \in BOOLEAN,
         ListRun(p, abandonedOnly)
  PROVE  TInv'
<1> DEFINE block == [IdleSync EXCEPT !.pc = "listed", !.version = run.version,
                                     !.role = "recovery"]
<1>1. /\ UNCHANGED <<run, lease, task, adv, crashes>> /\ sync[p].pc # "releasing"
      /\ sync' = [sync EXCEPT ![p] = block] /\ block.pc = "listed"
  BY DEF ListRun, Free, db, bounds, IdleSync
<1> HIDE DEF block
<1>. QED  BY <1>1, BlockTold

\* A lease taken over from another is kept as expired; a free one is of a run
\* that was at rest.
LEMMA UnderLeaseTold ==
  ASSUME IInv, TInv, NEW p \in Procs, NEW role \in Role \ {"advance"}, NEW after \in Run,
         NEW repaired, NEW sweep \in SUBSET Nodes,
         UnderLease(p, role, after, repaired, sweep), sync[p].pc # "releasing",
         Told(after),
         Begun /\ after.status # "cancelled" =>
           Cause(after.node) \/ (lease # NoLease /\ ~repaired),
         after.status = "cancelled" => run.status = "cancelled" \/ sweep = Nodes
  PROVE  TInv'
<1> DEFINE block == [IdleSync EXCEPT !.pc = "releasing", !.role = role,
                       !.keep = lease # NoLease /\ ~repaired, !.sweep = sweep]
<1>1. /\ run' = after /\ sync' = [sync EXCEPT ![p] = block]
      /\ UNCHANGED <<task, adv, crashes>>
      /\ lease' = [owner |-> <<p, role>>, fresh |-> TRUE]
  BY DEF UnderLease, Hold
<1>2. /\ block.pc = "releasing" /\ block.role = role /\ block.sweep = sweep
      /\ block.keep = (lease # NoLease /\ ~repaired)
  BY DEF IdleSync
<1> HIDE DEF block
<1>3. sync'[p] = block /\ \A q \in Procs \ {p} : sync'[q] = sync[q]
  BY <1>1 DEF IInv, TypeOK
<1>4. lease'.owner = <<p, role>> /\ \A q \in Procs : ~Owns(q, "advance")'
  BY <1>1 DEF Owns
<1>5. ApartOK'
  BY <1>1, <1>2, <1>3 DEF TInv, ApartOK, Apart
<1>6. AtRest' => ~(lease # NoLease /\ ~repaired)
  <2>. SUFFICES ASSUME AtRest' PROVE ~block.keep
    BY <1>2
  <2>1. lease'.owner # Nobody
    BY <1>4, WorkflowAssumption
  <2>2. PICK q \in Procs : sync'[q].pc = "releasing" /\ Owns(q, sync[q].role)' /\ ~sync'[q].keep
    BY <1>4, <2>1 DEF AtRest
  <2>3. q = p
    BY <1>4, <2>2 DEF Owns
  <2>. QED  BY <1>3, <2>2, <2>3
<1>7. Told(run)' /\ Recorded' /\ BegunDead'
  BY <1>1, <1>6, NoChange, BegunDeadGoesOn DEF TInv, Recorded, Cause
<1>8. AdvancesTold'
  BY <1>4 DEF AdvancesTold
<1>9. CancelOK'
  <2>. SUFFICES ASSUME run'.status = "cancelled", crashes' = 0,
                       ~\A n \in Nodes : task'[n] \notin Unstarted
                PROVE  \E q \in Procs : Sweeping(q)'
    BY DEF CancelOK
  <2>1. CASE sweep = Nodes
    BY <1>2, <1>3, <2>1 DEF Sweeping
  <2>2. CASE run.status = "cancelled"
    <3>1. PICK q \in Procs : Sweeping(q)
      BY <1>1, <2>2 DEF TInv, CancelOK
    <3>. QED  BY <1>3, <3>1 DEF Sweeping
  <2>. QED  BY <1>1, <2>1, <2>2
<1>. QED  BY <1>5, <1>7, <1>8, <1>9 DEF TInv

LEMMA RepairRunTold ==
  ASSUME IInv, TInv, NEW p \in Procs, RepairRun(p)
  PROVE  TInv'
<1>1. CASE Takeable(p, "recovery")
  <2> DEFINE after == IF Unmoved(p) THEN RecoverRun(run) ELSE run
  <2>1. /\ UnderLease(p, "recovery", after, Unmoved(p), ToSweep(run, after))
        /\ sync[p].pc = "listed"
    BY <1>1 DEF RepairRun
  <2>2. after \in Run /\ ToSweep(run, after) \in SUBSET Nodes
    BY RecoverFacts DEF IInv, TypeOK, ToSweep, Nodes
  <2>3. ASSUME Unmoved(p)
        PROVE  Told(after) /\ after.status # "cancelled" /\ (Begun => Cause(after.node))
    <3>1. run.status \notin Ended
      BY <2>1, <2>3 DEF IInv, ListedOK, Unmoved, Abandonable, Recoverable, Ended
    <3>. QED  BY <2>3, <3>1, RecoverTold DEF IInv, TInv
  <2>4. ~Unmoved(p) => after = run /\ Told(after)
    BY DEF TInv
  <2>5. lease = NoLease => AtRest
    BY NoLeaseFacts DEF AtRest
  <2>6. Begun /\ after.status # "cancelled" =>
          Cause(after.node) \/ (lease # NoLease /\ ~Unmoved(p))
    BY <2>3, <2>4, <2>5 DEF TInv, Recorded
  <2>7. after.status = "cancelled" => run.status = "cancelled"
    BY <2>3, <2>4
  <2> HIDE DEF after
  <2>. QED  BY <2>1, <2>2, <2>3, <2>4, <2>6, <2>7, UnderLeaseTold DEF Role
<1>2. CASE ~Takeable(p, "recovery")
  <2>1. /\ sync' = [sync EXCEPT ![p] = IdleSync] /\ sync[p].pc # "releasing"
        /\ UNCHANGED <<run, lease, task, adv, crashes>>
    BY <1>2 DEF RepairRun, db, bounds
  <2>. QED  BY <2>1, IdleSyncFacts, BlockTold
<1>. QED  BY <1>1, <1>2

LEMMA ReleaseSyncFacts ==
  ASSUME IInv, NEW p \in Procs, ReleaseSync(p)
  PROVE  /\ UNCHANGED <<run, adv, crashes>> /\ sync[p].pc = "releasing"
         /\ sync'[p] = IdleSync /\ \A q \in Procs \ {p} : sync'[q] = sync[q]
         /\ GoOn /\ Begun' = Begun
         /\ \A n \in Nodes : task'[n] \in Unstarted =>
                               task[n] \in Unstarted /\ n \notin sync[p].sweep
         /\ lease' = lease \/ Owns(p, sync[p].role)
         /\ \/ lease'.owner = lease.owner
            \/ lease'.owner = Nobody /\ ~sync[p].keep /\ Owns(p, sync[p].role)
         /\ AtRest' => AtRest
<1>1. /\ UNCHANGED <<run, holder, adv, world, bounds>> /\ sync[p].pc = "releasing"
      /\ sync' = [sync EXCEPT ![p] = IdleSync]
      /\ Cancelled(sync[p].sweep)
      /\ lease' = IF sync[p].keep
                  THEN IF Owns(p, sync[p].role) THEN [lease EXCEPT !.fresh = FALSE] ELSE lease
                  ELSE IF Owns(p, sync[p].role) THEN NoLease ELSE lease
  BY DEF ReleaseSync, Release, KeepsLease
<1>2. /\ GoOn /\ Begun' = Begun
      /\ \A n \in Nodes : task'[n] \in Unstarted =>
                            task[n] \in Unstarted /\ n \notin sync[p].sweep
  BY <1>1, SweepGoesOn DEF IInv
<1>3. sync'[p] = IdleSync /\ \A q \in Procs \ {p} : sync'[q] = sync[q]
  BY <1>1 DEF IInv, TypeOK
<1>4. \/ lease'.owner = lease.owner
      \/ lease'.owner = Nobody /\ ~sync[p].keep /\ Owns(p, sync[p].role)
  BY <1>1, NoLeaseFacts DEF IInv, TypeOK, Lease
<1>5. AtRest' => AtRest
  BY <1>1, <1>3, <1>4, IdleSyncFacts DEF AtRest, Owns
<1>. QED  BY <1>1, <1>2, <1>3, <1>4, <1>5 DEF bounds

LEMMA ReleaseSyncTold ==
  ASSUME IInv, TInv, NEW p \in Procs, ReleaseSync(p)
  PROVE  TInv'
<1>1. /\ UNCHANGED <<run, adv, crashes>> /\ sync[p].pc = "releasing"
      /\ sync'[p] = IdleSync /\ \A q \in Procs \ {p} : sync'[q] = sync[q]
      /\ GoOn /\ Begun' = Begun /\ (AtRest' => AtRest)
      /\ \A n \in Nodes : task'[n] \in Unstarted =>
                            task[n] \in Unstarted /\ n \notin sync[p].sweep
      /\ lease'.owner = lease.owner \/ lease'.owner = Nobody
  BY ReleaseSyncFacts
<1>2. ApartOK'
  BY <1>1, IdleSyncFacts DEF TInv, ApartOK, Apart
<1>3. Told(run)' /\ Recorded' /\ BegunDead'
  BY <1>1, RunToldGoesOn, BegunDeadGoesOn DEF TInv, Recorded, Cause
<1>4. AdvancesTold'
  <2>1. \A q \in Procs : AdvTold(adv[q]) => AdvTold(adv[q])'
    BY <1>1, AdvToldGoesOn
  <2>2. \A q \in Procs : Owns(q, "advance")' => Owns(q, "advance")
    BY <1>1, WorkflowAssumption DEF Owns, Role
  <2>. QED  BY <2>1, <2>2 DEF TInv, AdvancesTold
<1>5. CancelOK'
  <2>. SUFFICES ASSUME run'.status = "cancelled", crashes' = 0,
                       NEW n \in Nodes, task'[n] \in Unstarted
                PROVE  \E q \in Procs : Sweeping(q)'
    BY DEF CancelOK
  <2>1. PICK q \in Procs : Sweeping(q)
    BY <1>1 DEF TInv, CancelOK
  <2>2. q # p
    BY <1>1, <2>1 DEF Sweeping
  <2>. QED  BY <1>1, <2>1, <2>2 DEF Sweeping
<1>. QED  BY <1>2, <1>3, <1>4, <1>5 DEF TInv

LEMMA CancelledNodesType ==
  ASSUME TypeOK, CompleteOK
  PROVE  CancelledNodes \in [Nodes -> NodeStatus]
<1>1. run.node \in [Nodes -> NodeStatus] /\ RecoverNodes(run) \in [Nodes -> NodeStatus]
  BY RecoverFacts DEF TypeOK, Run
<1>2. \A n \in Nodes : NodeState(n, run.node[n]) \in NodeStatus
  BY <1>1, NodeStateType
<1>3. "cancelled" \in NodeStatus
  BY DEF NodeStatus
<1>. QED  BY <1>1, <1>2, <1>3 DEF CancelledNodes

LEMMA ControlTold ==
  ASSUME IInv, TInv, NEW p \in Procs, Operator(p)
  PROVE  TInv'
<1>1. /\ run \in Run /\ run.node \in [Nodes -> NodeStatus] /\ sync[p].pc # "releasing"
      /\ "control" \in Role \ {"advance"} /\ Told(run)
  <2>1. Control(p)
    BY DEF Operator, Pause, Resume, Refused, Cancel
  <2>. QED  BY <2>1 DEF Control, Free, IInv, TypeOK, Run, Role, TInv
<1>2. /\ {"paused", "cancelled", DeriveStatus(run.node)} \subseteq RunStatus
      /\ DeriveStatus(run.node) \notin {"cancelled", "paused"}
  <2>1. DeriveStatus(run.node) \in RunStatus \ {"cancelled", "paused"}
    BY DEF DeriveStatus, RunStatus, Abandonable, Recoverable, Ended
  <2>. QED  BY <2>1 DEF RunStatus, Ended
<1>3. \A status \in RunStatus, node \in [Nodes -> NodeStatus] :
        /\ Moved(run, status, node) \in Run
        /\ Moved(run, status, node).status = status
        /\ Moved(run, status, node).node = node
  BY <1>1, MovedFacts
<1>4. run.status # "cancelled" /\ Begun => Cause(run.node) \/ (lease # NoLease /\ ~FALSE)
  <2>1. lease = NoLease => AtRest
    BY NoLeaseFacts DEF AtRest
  <2>. QED  BY <2>1 DEF TInv, Recorded
<1>5. CASE Pause(p) \/ Resume(p)
  <2>1. PICK status \in {"paused", DeriveStatus(run.node)} :
          /\ status = "paused" => run.status \notin Ended \union {"failed"}
          /\ status # "paused" => run.status = "paused"
          /\ \E sweep \in SUBSET Nodes :
               UnderLease(p, "control", Moved(run, status, run.node), FALSE, sweep)
    <3>1. Pause(p) => /\ run.status \notin Ended \union {"failed"}
                      /\ UnderLease(p, "control", Moved(run, "paused", run.node), FALSE, {})
      BY DEF Pause
    <3>2. CASE Resume(p)
      <4>1. run.status = "paused"
        BY <3>2 DEF Resume
      <4>2. \A after : ToSweep(run, after) \in SUBSET Nodes
        BY DEF ToSweep, Nodes
      <4>. QED  BY <1>2, <3>2, <4>1, <4>2 DEF Resume
    <3>3. {} \in SUBSET Nodes
      OBVIOUS
    <3>. QED  BY <1>5, <3>1, <3>2, <3>3
  <2> DEFINE after == Moved(run, status, run.node)
  <2>2. after \in Run /\ after.status = status /\ after.node = run.node
    BY <1>1, <1>2, <1>3
  <2>3. run.status # "cancelled"
    BY <2>1 DEF Ended
  <2>4. Told(after)
    BY <1>1, <2>1, <2>2, <2>3 DEF Told, Ended, Reads
  <2>5. PICK sweep \in SUBSET Nodes : UnderLease(p, "control", after, FALSE, sweep)
    BY <2>1
  <2>6. after.status # "cancelled"
    BY <1>2, <2>2
  <2> HIDE DEF after
  <2>. QED  BY <1>1, <1>4, <2>2, <2>3, <2>4, <2>5, <2>6, UnderLeaseTold
<1>6. CASE Cancel(p)
  <2> DEFINE after == Moved(run, "cancelled", CancelledNodes)
  <2>1. UnderLease(p, "control", after, FALSE, Nodes)
    BY <1>6 DEF Cancel
  <2>2. after \in Run /\ after.status = "cancelled"
    <3>1. CancelledNodes \in [Nodes -> NodeStatus]
      BY CancelledNodesType DEF IInv
    <3>. QED  BY <1>2, <1>3, <3>1
  <2> HIDE DEF after
  <2>. QED  BY <1>1, <2>1, <2>2, UnderLeaseTold DEF Told
<1>7. CASE Refused(p)
  <2>1. UnderLease(p, "control", run, FALSE, {}) /\ {} \in SUBSET Nodes
    BY <1>7 DEF Refused
  <2>. QED  BY <1>1, <1>4, <2>1, UnderLeaseTold
<1>. QED  BY <1>5, <1>6, <1>7 DEF Operator

\* A crash leaves no lease to the process that died, and no run at rest.
LEMMA CrashFacts ==
  ASSUME IInv, NEW p \in Procs, Crash(p)
  PROVE  /\ crashes' # 0 /\ UNCHANGED <<run, task>>
         /\ adv'[p] = IdleAdvance /\ \A q \in Procs \ {p} : adv'[q] = adv[q]
         /\ sync'[p] = IdleSync /\ \A q \in Procs \ {p} : sync'[q] = sync[q]
         /\ \A q \in Procs, role \in Role : Owns(q, role)' => q # p /\ Owns(q, role)
         /\ \A q \in Procs \ {p}, role \in Role : Owns(q, role) => lease' = lease
         /\ AtRest' => AtRest
<1>1. /\ crashes' # 0 /\ UNCHANGED <<run, task>>
      /\ adv' = [adv EXCEPT ![p] = IdleAdvance]
      /\ sync' = [sync EXCEPT ![p] = IdleSync]
      /\ lease' = IF \E role \in Role : Owns(p, role)
                  THEN [lease EXCEPT !.owner = Gone] ELSE lease
  BY DEF Crash, IInv, TypeOK
<1>2. /\ adv'[p] = IdleAdvance /\ \A q \in Procs \ {p} : adv'[q] = adv[q]
      /\ sync'[p] = IdleSync /\ \A q \in Procs \ {p} : sync'[q] = sync[q]
  BY <1>1 DEF IInv, TypeOK
<1>3. /\ \A role \in Role : lease'.owner # <<p, role>>
      /\ lease'.owner = lease.owner \/ lease'.owner = Gone
  BY <1>1, WorkflowAssumption DEF Owns, IInv, TypeOK, Lease
<1>4. \A q \in Procs, role \in Role : Owns(q, role)' => q # p /\ Owns(q, role)
  BY <1>3, WorkflowAssumption DEF Owns
<1>5. \A q \in Procs \ {p}, role \in Role : Owns(q, role) => lease' = lease
  BY <1>1 DEF Owns
<1>6. AtRest' => AtRest
  <2>. SUFFICES ASSUME AtRest' PROVE AtRest
    OBVIOUS
  <2>1. CASE lease'.owner = Nobody
    BY <1>3, <2>1, WorkflowAssumption DEF AtRest
  <2>2. ASSUME NEW q \in Procs, Owns(q, "advance")', adv'[q].pc \in {"cancel", "release"}
        PROVE  AtRest
    BY <1>2, <1>4, <2>2 DEF AtRest, Role
  <2>3. ASSUME NEW q \in Procs, sync'[q].pc = "releasing", Owns(q, sync[q].role)',
               ~sync'[q].keep
        PROVE  AtRest
    <3>1. sync'[q].role \in Role
      BY <1>1, IdleSyncFacts DEF IInv, TypeOK, Sync
    <3>2. q # p /\ sync'[q] = sync[q]
      BY <1>2, <2>3, IdleSyncFacts
    <3>3. Owns(q, sync[q].role)
      BY <1>4, <2>3, <3>1, <3>2 DEF Owns
    <3>. QED  BY <2>3, <3>2, <3>3 DEF AtRest
  <2>. QED  BY <2>1, <2>2, <2>3 DEF AtRest
<1>. QED  BY <1>1, <1>2, <1>4, <1>5, <1>6

LEMMA CrashTold ==
  ASSUME IInv, TInv, NEW p \in Procs, Crash(p)
  PROVE  TInv'
<1>1. /\ crashes' # 0 /\ UNCHANGED <<run, task>> /\ (AtRest' => AtRest)
      /\ adv'[p] = IdleAdvance /\ \A q \in Procs \ {p} : adv'[q] = adv[q]
      /\ sync'[p] = IdleSync /\ \A q \in Procs \ {p} : sync'[q] = sync[q]
      /\ \A q \in Procs : Owns(q, "advance")' => Owns(q, "advance")
  BY CrashFacts DEF Role
<1>2. ApartOK'
  BY <1>1, IdleAdvanceFacts, IdleSyncFacts DEF TInv, ApartOK, Apart
<1>3. Told(run)' /\ Recorded' /\ BegunDead'
  BY <1>1, NoChange, BegunDeadGoesOn DEF TInv, Recorded, Cause
<1>4. AdvancesTold'
  <2>1. \A q \in Procs : AdvTold(adv[q]) => AdvTold(adv[q])'
    <3>. SUFFICES ASSUME NEW q \in Procs, AdvTold(adv[q]) PROVE AdvTold(adv[q])'
      OBVIOUS
    <3>1. CASE q = p
      BY <1>1, <3>1, IdleAdvanceFacts DEF AdvTold
    <3>2. CASE q # p
      BY <1>1, <3>2, NoChange, AdvToldGoesOn
    <3>. QED  BY <3>1, <3>2
  <2>. QED  BY <1>1, <2>1 DEF TInv, AdvancesTold
<1>5. CancelOK'
  BY <1>1 DEF CancelOK
<1>. QED  BY <1>2, <1>3, <1>4, <1>5 DEF TInv

-----------------------------------------------------------------------------
(* The invariant, and what follows from it.                                *)

LEMMA InitTInv == Init => TInv
<1>. SUFFICES ASSUME Init PROVE TInv
  OBVIOUS
<1>1. /\ run.status = "planned" /\ \A n \in Nodes : run.node[n] = "pending"
      /\ \A n \in Nodes : task[n] = "none"
      /\ \A p \in Procs : adv[p] = IdleAdvance /\ sync[p] = IdleSync
      /\ lease.owner = Nobody
  BY NoLeaseFacts DEF Init, Started
<1>2. ApartOK
  BY <1>1, IdleAdvanceFacts, IdleSyncFacts DEF ApartOK, Apart
<1>3. /\ \A n \in Nodes : Backed(n, run.node[n])
      /\ ~Skips(run.node) /\ ~Cause(run.node)
  BY <1>1, NodeSets DEF Backed, Skips, Cause
<1>4. DeriveStatus(run.node) # "failed" /\ ~Reads(run.node)
  <2>1. PICK s \in Steps : run.node[s] = "pending"
    BY <1>1, NodeSets, WorkflowAssumption
  <2>. QED  BY <1>3, <2>1, FailedFacts, ReadsFacts DEF Done
<1>5. Told(run)
  BY <1>1, <1>3, <1>4 DEF Told
<1>6. AdvancesTold
  BY <1>1, WorkflowAssumption DEF AdvancesTold, Owns, Role
<1>7. ~Begun
  BY <1>1, NodeSets DEF Begun
<1>8. CancelOK
  BY <1>1 DEF CancelOK
<1>. QED  BY <1>2, <1>5, <1>6, <1>7, <1>8 DEF TInv, Recorded, BegunDead

LEMMA NextTInv == IInv /\ IInv' /\ TInv /\ [Next]_vars => TInv'
<1>. SUFFICES ASSUME IInv, IInv', TInv, [Next]_vars PROVE TInv'
  OBVIOUS
<1>1. ASSUME NEW p \in Procs, Begin(p) \/ Recovered(p) PROVE TInv'
  BY <1>1, BeginTold
<1>2. ASSUME NEW p \in Procs, NEW n \in Nodes,
             TakeUp(p, n) \/ StartStep(p, n) \/ TaskEnds(p, n)
      PROVE  TInv'
  BY <1>2, TakeUpTold, StartStepTold, TaskEndsTold
<1>3. ASSUME NEW p \in Procs,
             \/ WaveEnds(p) \/ UndoNext(p) \/ Commit(p)
             \/ CancelForward(p) \/ ReleaseAdvance(p)
      PROVE  TInv'
  BY <1>3, WaveEndsTold, UndoNextTold, CommitTold, CancelForwardTold, ReleaseAdvanceTold
<1>4. ASSUME NEW p \in Procs, NEW abandonedOnly \in BOOLEAN,
             ListRun(p, abandonedOnly) \/ RepairRun(p) \/ ReleaseSync(p)
      PROVE  TInv'
  BY <1>4, ListRunTold, RepairRunTold, ReleaseSyncTold
<1>5. ASSUME NEW p \in Procs, Operator(p) \/ Crash(p) PROVE TInv'
  BY <1>5, ControlTold, CrashTold DEF Operator
<1>6. ASSUME NEW n \in Nodes,
             \/ \E p \in Procs : RecoverTask(p, n) \/ Execute(p, n)
             \/ Approve(n) \/ Deny(n) \/ Reconcile(n) \/ Happens(n)
      PROVE  TInv'
  BY <1>6, TaskStepsTold
<1>7. Lapse \/ (\E p \in Procs : Renew(p)) => TInv'
  BY FreshTold
<1>8. CASE UNCHANGED vars
  BY <1>8, NoChange, TInvFrame DEF vars, db, bounds
<1>. QED  BY <1>1, <1>2, <1>3, <1>4, <1>5, <1>6, <1>7, <1>8 DEF Next, Advances, Sweeps

\* What a run records is backed by its tasks, and what an advance is to record by
\* its lease: the inductive invariant of the theorems below.
THEOREM RecordsAreBacked == Spec => [](IInv /\ TInv)
<1>1. Init => IInv /\ TInv
  BY InitIInv, InitTInv
<1>2. (IInv /\ TInv) /\ [Next]_vars => (IInv /\ TInv)'
  BY NextIInv, NextTInv
<1>. QED  BY <1>1, <1>2, PTL DEF Spec

\* A run reported verified_complete has every step verified and none undone, with
\* whatever else may still be at work on it.
THEOREM CompleteRunsAreDone == Spec => []CompleteMeansDone
<1>1. IInv /\ TInv => CompleteMeansDone
  <2>. SUFFICES ASSUME IInv, TInv, run.status = "verified_complete"
                PROVE  /\ \A s \in Steps : task[s] = "verified_success"
                       /\ \A u \in Undos : sends[u] = 0
    BY DEF CompleteMeansDone
  <2>1. ~Begun /\ \A s \in Steps : task[s] = "verified_success"
    BY CompleteFacts DEF TInv, Told
  <2>. QED  BY <2>1, NodeSets DEF Begun, IInv, SentOK
<1>. QED  BY <1>1, RecordsAreBacked, PTL

\* No forward step starts once any compensation has been called, though the unwind
\* be another advance's, or one that died.
THEOREM NoStepFollowsAnUnwind == Spec => NoStepAfterUnwind
<1>1. ASSUME IInv, TInv, [Next]_vars, NEW p \in Procs, NEW s \in Steps, TookUp(p, s),
             NEW u \in Undos
      PROVE  sends[u] = 0
  <2>1. s \in Nodes /\ s \notin Undos /\ u \in Nodes
    BY NodeSets
  <2>2. Owns(p, "advance") /\ adv[p].at[s] # "no"
    BY <1>1, <2>1, TookUpByTakeUp DEF StillLeased, TookUp
  <2>3. adv[p].pc = "wave" /\ AdvTold(adv[p])
    BY <1>1, <2>1, <2>2, AtWork
  <2>4. task[u] = "none"
    BY <2>3 DEF AdvTold, Calm, Begun
  <2>. QED  BY <1>1, <2>1, <2>4 DEF IInv, SentOK
<1>2. IInv /\ TInv /\ [Next]_vars =>
        [\A p \in Procs, s \in Steps : TookUp(p, s) => \A u \in Undos : sends[u] = 0]_vars
  BY <1>1
<1>. QED  BY <1>2, RecordsAreBacked, PTL DEF Spec, NoStepAfterUnwind

\* Whatever processes race over a run, no node's adapter is called twice, and a
\* cancelled run at rest, where nothing crashed, has nothing left that could start.
THEOREM OnceThenNothing == Spec => []OnceAndThenNothing
<1>1. TInv => CancelledLeavesNoChallenge
  BY DEF TInv, CancelOK, Sweeping, CancelledLeavesNoChallenge, Free
<1>2. IInv => AtMostOnce
  BY DEF IInv, SentOK, AtMostOnce
<1>. QED  BY <1>1, <1>2, RecordsAreBacked, PTL DEF OnceAndThenNothing

-----------------------------------------------------------------------------
(* Where no process stalls.                                                *)

\* Callers leave the run's tasks to its advances, and no lease of a live process
\* lapses beside another.
Alone == MaxLapses = 0 \/ \A p, q \in Procs : p = q
Quiet == Direct = {} /\ Alone

\* An advance keeps its lease, none is at work on a run at rest, and recovery does
\* not run beside its own process's advance.
StaysOurs ==
  MaxLapses = 0 => \A p \in Procs : Leased(p) => Owns(p, "advance") /\ lease.fresh
RestOK ==
  AtRest => \A p \in Procs : Leased(p) =>
              Owns(p, "advance") /\ adv[p].pc \in {"cancel", "release"}
NotListed == \A p \in Procs : Leased(p) => sync[p].pc # "listed"
LInv == Quiet /\ StaysOurs /\ RestOK /\ NotListed
NoneLeased == \A q \in Procs : ~Leased(q)

LEMMA OwnerAlone ==
  ASSUME LInv, NEW p \in Procs, NEW q \in Procs, Owns(p, "advance"), Leased(q)
  PROVE  q = p
BY DEF LInv, Quiet, Alone, StaysOurs, Owns

LEMMA NotLeasedIdles ==
  ASSUME IInv, NEW p \in Procs, ~Leased(p)
  PROVE  \A n \in Nodes : adv[p].at[n] = "no"
BY DEF IInv, AdvancesOK, AdvOK, Leased, Idling

LEMMA FreeIsUnowned ==
  ASSUME lease = NoLease
  PROVE  AtRest /\ \A q \in Procs, role \in Role : ~Owns(q, role)
BY NoLeaseFacts, WorkflowAssumption DEF AtRest, Owns

\* Who takes a run up, to advance or to recover it, finds nobody at work on it.
LEMMA AcquireAlone ==
  ASSUME IInv, LInv, NEW p \in Procs, Begin(p) \/ Recovered(p), Acquire(p)
  PROVE  /\ NoneLeased
         /\ lease = NoLease \/ run.status \in Ended
<1>1. ~Owns(p, "advance") /\ adv[p].pc \in {"idle", "recover"}
  BY DEF Begin, Recovered, IInv, AdvancesOK, AdvOK
<1>2. lease' # lease
  BY <1>1 DEF Acquire, Hold, Owns
<1>3. lease = NoLease \/ (~lease.fresh /\ run.status \in Ended)
  <2>1. CASE Begin(p)
    <3>1. ~Abandoned(p) /\ Takeable(p, "advance") /\ run.status # "paused"
      BY <1>2, <2>1 DEF Begin
    <3>2. run.status \in RunStatus
      BY DEF IInv, TypeOK, Run
    <3>. QED  BY <1>1, <3>1, <3>2 DEF Abandoned, Takeable, RunStatus
  <2>. QED  BY <1>2, <2>1 DEF Recovered
<1>4. ASSUME NEW q \in Procs, Leased(q) PROVE FALSE
  <2>1. CASE MaxLapses = 0
    <3>1. Owns(q, "advance") /\ lease.fresh
      BY <1>4, <2>1 DEF LInv, StaysOurs
    <3>. QED  BY <1>3, <3>1, FreeIsUnowned DEF Role
  <2>2. CASE \A x, y \in Procs : x = y
    BY <1>1, <1>4, <2>2 DEF Leased
  <2>. QED  BY <2>1, <2>2 DEF LInv, Quiet, Alone
<1>. QED  BY <1>3, <1>4 DEF NoneLeased

LEMMA RepairAlone ==
  ASSUME LInv, NEW p \in Procs, Takeable(p, "recovery"), sync[p].pc = "listed"
  PROVE  NoneLeased
<1>. SUFFICES ASSUME NEW q \in Procs, Leased(q) PROVE FALSE
  BY DEF NoneLeased
<1>1. CASE MaxLapses = 0
  <2>1. Owns(q, "advance") /\ lease.fresh
    BY <1>1 DEF LInv, StaysOurs
  <2>. QED  BY <2>1, FreeIsUnowned DEF Takeable, Owns, Role
<1>2. CASE \A x, y \in Procs : x = y
  BY <1>2 DEF LInv, NotListed
<1>. QED  BY <1>1, <1>2 DEF LInv, Quiet, Alone

\* An operator takes a run from an advance only if that one has stalled.
LEMMA ControlAlone ==
  ASSUME LInv, NEW p \in Procs, Control(p)
  PROVE  /\ lease = NoLease => NoneLeased
         /\ MaxLapses = 0 => NoneLeased
<1>1. lease = NoLease => NoneLeased
  BY FreeIsUnowned DEF LInv, RestOK, NoneLeased, Role
<1>2. ASSUME MaxLapses = 0, NEW q \in Procs, Leased(q) PROVE FALSE
  <2>1. Owns(q, "advance") /\ lease.fresh
    BY <1>2 DEF LInv, StaysOurs
  <2>. QED  BY <2>1, FreeIsUnowned DEF Control, Takeable, Owns, Role
<1>. QED  BY <1>1, <1>2 DEF NoneLeased

LEMMA LInvFrame ==
  ASSUME LInv, ApartOK', UNCHANGED sync, lease'.owner = lease.owner,
         lease.fresh => lease'.fresh,
         \A q \in Procs :
           \/ adv'[q].pc = adv[q].pc
           \/ adv'[q].pc \in {"idle", "recover"}
  PROVE  LInv'
<1>1. \A q \in Procs : (Leased(q)' => Leased(q)) /\ Owns(q, "advance")' = Owns(q, "advance")
  BY DEF Leased, Owns
<1>2. StaysOurs'
  BY <1>1 DEF LInv, StaysOurs
<1>3. NotListed'
  BY <1>1 DEF LInv, NotListed
<1>4. AtRest' => AtRest
  BY DEF AtRest, Owns
<1>5. RestOK'
  BY <1>1, <1>4 DEF LInv, RestOK, Leased
<1>. QED  BY <1>2, <1>3, <1>5 DEF LInv, Quiet, Alone

\* Once nobody is at work, whoever is afterwards owns the lease.
LEMMA LInvTaken ==
  ASSUME LInv, NoneLeased, UNCHANGED sync, NEW p \in Procs, ApartOK', sync[p].pc # "listed",
         lease' = [owner |-> <<p, "advance">>, fresh |-> TRUE],
         \A q \in Procs \ {p} : adv'[q] = adv[q]
  PROVE  LInv'
<1>1. \A q \in Procs : Leased(q)' => q = p
  BY DEF NoneLeased, Leased
<1>2. Owns(p, "advance")' /\ lease'.fresh
  BY DEF Owns
<1>3. StaysOurs' /\ NotListed'
  BY <1>1, <1>2 DEF StaysOurs, NotListed
<1>4. RestOK'
  BY <1>1, <1>2, NotAtRest DEF RestOK
<1>. QED  BY <1>3, <1>4 DEF LInv, Quiet, Alone

LEMMA LInvIdle ==
  ASSUME Quiet, \A q \in Procs : ~Leased(q)'
  PROVE  LInv'
BY DEF LInv, StaysOurs, RestOK, NotListed, Quiet, Alone

\* A step of an advance that keeps its lease, if it has it.
LEMMA LInvStep ==
  ASSUME LInv, ApartOK', NEW p \in Procs, Leased(p), UNCHANGED sync,
         lease'.owner = lease.owner, lease.fresh => lease'.fresh,
         \A q \in Procs \ {p} : adv'[q] = adv[q]
  PROVE  LInv'
<1>1. /\ \A q \in Procs : Leased(q)' => Leased(q)
      /\ \A q \in Procs : Owns(q, "advance")' = Owns(q, "advance")
  BY DEF Leased, Owns
<1>2. StaysOurs' /\ NotListed'
  BY <1>1 DEF LInv, StaysOurs, NotListed
<1>3. CASE Owns(p, "advance")
  <2>1. \A q \in Procs : Leased(q)' => q = p
    BY <1>1, <1>3, OwnerAlone
  <2>2. AtRest' => Owns(p, "advance")' /\ adv'[p].pc \in {"cancel", "release"}
    BY <1>1, <1>3, NotAtRest
  <2>. QED  BY <1>2, <2>1, <2>2 DEF LInv, RestOK, Quiet, Alone
<1>4. CASE ~Owns(p, "advance")
  <2>1. ~AtRest
    BY <1>4 DEF LInv, RestOK
  <2>2. AtRest' => AtRest
    BY <1>4 DEF AtRest, Owns
  <2>. QED  BY <1>2, <2>1, <2>2 DEF LInv, RestOK, Quiet, Alone
<1>. QED  BY <1>3, <1>4

LEMMA LInvBlock ==
  ASSUME IInv, LInv, NEW p \in Procs, NEW block, sync' = [sync EXCEPT ![p] = block],
         block.pc # "releasing", block.pc = "listed" => ~Leased(p), UNCHANGED <<lease, adv>>
  PROVE  LInv'
<1>1. sync'[p] = block /\ \A q \in Procs \ {p} : sync'[q] = sync[q]
  BY DEF IInv, TypeOK
<1>2. \A q \in Procs : Leased(q)' = Leased(q) /\ Owns(q, "advance")' = Owns(q, "advance")
  BY DEF Leased, Owns
<1>3. AtRest' => AtRest
  BY <1>1 DEF AtRest, Owns
<1>4. StaysOurs' /\ NotListed' /\ RestOK'
  BY <1>1, <1>2, <1>3 DEF LInv, StaysOurs, NotListed, RestOK
<1>. QED  BY <1>4 DEF LInv, Quiet, Alone

LEMMA BeginAlone ==
  ASSUME IInv, TInv', LInv, NEW p \in Procs, Begin(p) \/ Recovered(p)
  PROVE  LInv'
<1>1. /\ UNCHANGED sync /\ sync[p].pc # "listed" /\ ApartOK'
      /\ adv[p].pc \in {"idle", "recover"}
  BY DEF Begin, Recovered, Free, TInv
<1>2. \A q \in Procs \ {p} : adv'[q] = adv[q]
  <2>1. PICK a : SetAdv(p, a)
    <3>1. Acquire(p) \/ \E a : SetAdv(p, a)
      BY DEF Begin, Recovered
    <3>. QED  BY <3>1 DEF Acquire
  <2>. QED  BY <2>1 DEF SetAdv, IInv, TypeOK
<1>3. CASE Acquire(p)
  <2>1. NoneLeased
    BY <1>3, AcquireAlone
  <2>. QED  BY <1>1, <1>2, <1>3, <2>1, LInvTaken DEF Acquire, Hold
<1> DEFINE go == [IdleAdvance EXCEPT !.pc = "recover"]
<1>4. CASE ~Acquire(p)
  <2>1. go \in Advance /\ go.pc = "recover"
    BY IdleAdvanceFacts DEF Advance
  <2>2. (SetAdv(p, go) \/ SetAdv(p, IdleAdvance)) /\ UNCHANGED lease
    BY <1>4 DEF Begin, Recovered
  <2> HIDE DEF go
  <2>3. adv'[p].pc \in {"recover", "idle"}
    BY <2>1, <2>2, IdleAdvanceFacts, SetAdvFacts DEF IInv
  <2>. QED  BY <1>1, <1>2, <2>2, <2>3, LInvFrame
<1>. QED  BY <1>3, <1>4

LEMMA AdvancesAlone ==
  ASSUME IInv, TInv', LInv, NEW p \in Procs,
         \/ WaveEnds(p) \/ UndoNext(p) \/ Commit(p) \/ CancelForward(p)
         \/ \E n \in Nodes : TakeUp(p, n) \/ StartStep(p, n)
  PROVE  LInv'
<1>1. Leased(p) /\ UNCHANGED sync /\ ApartOK'
  <2>1. ASSUME NEW n \in Nodes, adv[p].at[n] # "no"
        PROVE  Leased(p)
    BY <2>1, NotLeasedIdles
  <2>. QED
    BY <2>1 DEF WaveEnds, UndoNext, Commit, CancelForward, TakeUp, StartStep, Leased, TInv
<1>2. \A q \in Procs \ {p} : adv'[q] = adv[q]
  <2>1. \E a : SetAdv(p, a)
    BY DEF WaveEnds, UndoNext, Commit, CancelForward, TakeUp, StartStep
  <2>. QED  BY <2>1 DEF SetAdv, IInv, TypeOK
<1>3. lease'.owner = lease.owner /\ (lease.fresh => lease'.fresh)
  <2>1. \/ UNCHANGED lease
        \/ Owns(p, "advance") /\ lease' = [owner |-> <<p, "advance">>, fresh |-> TRUE]
        \/ Owns(p, "advance") /\ lease' = [lease EXCEPT !.fresh = TRUE]
    BY DEF WaveEnds, UndoNext, Commit, CancelForward, TakeUp, StartStep, db, StillLeased, Hold
  <2>. QED  BY <2>1 DEF Owns, IInv, TypeOK, Lease
<1>. QED  BY <1>1, <1>2, <1>3, LInvStep

LEMMA TasksAlone ==
  ASSUME IInv, TInv', LInv, NEW n \in Nodes,
         \/ \E p \in Procs : TaskEnds(p, n) \/ RecoverTask(p, n) \/ Execute(p, n)
         \/ Approve(n) \/ Deny(n) \/ Reconcile(n) \/ Happens(n)
  PROVE  LInv'
<1>1. UNCHANGED <<lease, sync>> /\ ApartOK'
  BY DEF TaskEnds, RecoverTask, Execute, Approve, Deny, Reconcile, Happens, db, TInv
<1>2. \A q \in Procs : adv'[q].pc = adv[q].pc
  <2>1. UNCHANGED adv \/ \E p \in Procs : \E state : adv' = [adv EXCEPT ![p] = Result(@, n, state)]
    BY DEF TaskEnds, RecoverTask, Execute, Approve, Deny, Reconcile, Happens
  <2>2. ASSUME NEW p \in Procs, NEW state PROVE Result(adv[p], n, state).pc = adv[p].pc
    BY DEF Result, IInv, TypeOK, Advance
  <2>. QED  BY <2>1, <2>2 DEF IInv, TypeOK
<1>. QED  BY <1>1, <1>2, LInvFrame

LEMMA ReleaseAlone ==
  ASSUME IInv, TInv', LInv, NEW p \in Procs, ReleaseAdvance(p)
  PROVE  LInv'
<1>1. /\ UNCHANGED sync /\ ApartOK' /\ adv'[p] = IdleAdvance
      /\ \A q \in Procs \ {p} : adv'[q] = adv[q]
      /\ ~Owns(p, "advance") => UNCHANGED lease
  <2>1. SetAdv(p, IdleAdvance)
    BY DEF ReleaseAdvance
  <2>. QED  BY <2>1, IdleAdvanceFacts, SetAdvFacts DEF ReleaseAdvance, Release, IInv, TInv
<1>2. CASE Owns(p, "advance")
  <2>1. \A q \in Procs : ~Leased(q)'
    BY <1>1, <1>2, OwnerAlone, IdleAdvanceFacts DEF Leased
  <2>. QED  BY <2>1, LInvIdle DEF LInv
<1>3. CASE ~Owns(p, "advance")
  BY <1>1, <1>3, IdleAdvanceFacts, LInvFrame
<1>. QED  BY <1>2, <1>3

LEMMA FreshAlone ==
  ASSUME IInv, TInv', LInv, Lapse \/ \E p \in Procs : Renew(p)
  PROVE  LInv'
<1>1. UNCHANGED <<adv, sync>> /\ lease'.owner = lease.owner
  BY DEF Lapse, Renew, IInv, TypeOK, Lease
<1>2. CASE lease.fresh => lease'.fresh
  BY <1>1, <1>2, LInvFrame DEF TInv
<1>3. CASE ~(lease.fresh => lease'.fresh)
  <2>1. Lapse
    BY <1>3 DEF Renew, IInv, TypeOK, Lease
  <2>2. MaxLapses = 0 => lease.owner = Gone
    BY <2>1 DEF Lapse, IInv, TypeOK
  <2>3. MaxLapses = 0 => \A q \in Procs : ~Leased(q)
    BY <2>2, WorkflowAssumption DEF LInv, StaysOurs, Owns, Role
  <2>4. \A q \in Procs : Leased(q)' = Leased(q) /\ Owns(q, "advance")' = Owns(q, "advance")
    BY <1>1 DEF Leased, Owns
  <2>5. AtRest' => AtRest
    BY <1>1 DEF AtRest, Owns
  <2>. QED  BY <1>1, <2>3, <2>4, <2>5 DEF LInv, StaysOurs, RestOK, NotListed, Quiet, Alone
<1>. QED  BY <1>2, <1>3

LEMMA ListAlone ==
  ASSUME IInv, LInv, NEW p \in Procs, NEW abandonedOnly \in BOOLEAN,
         ListRun(p, abandonedOnly)
  PROVE  LInv'
<1> DEFINE block == [IdleSync EXCEPT !.pc = "listed", !.version = run.version,
                                     !.role = "recovery"]
<1>1. /\ UNCHANGED <<lease, adv>> /\ ~Leased(p)
      /\ sync' = [sync EXCEPT ![p] = block] /\ block.pc = "listed"
  BY DEF ListRun, db, IdleSync
<1> HIDE DEF block
<1>. QED  BY <1>1, LInvBlock

LEMMA UnderLeaseAlone ==
  ASSUME IInv, LInv, NEW p \in Procs, NEW role \in Role \ {"advance"}, NEW after,
         NEW repaired, NEW sweep, UnderLease(p, role, after, repaired, sweep),
         NoneLeased \/ (MaxLapses # 0 /\ lease # NoLease /\ ~repaired)
  PROVE  LInv'
<1> DEFINE block == [IdleSync EXCEPT !.pc = "releasing", !.role = role,
                       !.keep = lease # NoLease /\ ~repaired, !.sweep = sweep]
<1>1. /\ UNCHANGED adv /\ sync' = [sync EXCEPT ![p] = block]
      /\ lease'.owner = <<p, role>>
  BY DEF UnderLease, Hold
<1>2. block.pc = "releasing" /\ (lease # NoLease /\ ~repaired => block.keep)
  BY DEF IdleSync
<1> HIDE DEF block
<1>3. sync'[p] = block /\ \A q \in Procs \ {p} : sync'[q] = sync[q]
  BY <1>1 DEF IInv, TypeOK
<1>4. \A q \in Procs : Leased(q)' = Leased(q)
  BY <1>1 DEF Leased
<1>5. CASE NoneLeased
  BY <1>4, <1>5, LInvIdle DEF NoneLeased, LInv
<1>6. CASE MaxLapses # 0 /\ lease # NoLease /\ ~repaired
  <2>1. StaysOurs' /\ NotListed'
    BY <1>2, <1>3, <1>4, <1>6 DEF LInv, StaysOurs, NotListed
  <2>2. ~AtRest'
    <3>. SUFFICES ASSUME AtRest' PROVE FALSE
      OBVIOUS
    <3>1. lease'.owner # Nobody
      BY <1>1, WorkflowAssumption
    <3>2. PICK q \in Procs : sync'[q].pc = "releasing" /\ Owns(q, sync[q].role)' /\ ~sync'[q].keep
      BY <1>1, <3>1 DEF AtRest, Owns
    <3>3. q = p
      BY <1>1, <3>2 DEF Owns
    <3>. QED  BY <1>2, <1>3, <1>6, <3>2, <3>3
  <2>. QED  BY <2>1, <2>2 DEF LInv, RestOK, Quiet, Alone
<1>. QED  BY <1>5, <1>6

LEMMA RepairIsAlone ==
  ASSUME IInv, LInv, NEW p \in Procs, RepairRun(p)
  PROVE  LInv'
<1>1. CASE Takeable(p, "recovery")
  <2>1. NoneLeased
    BY <1>1, RepairAlone DEF RepairRun
  <2>2. PICK after, sweep : UnderLease(p, "recovery", after, Unmoved(p), sweep)
    BY <1>1 DEF RepairRun
  <2>. QED  BY <2>1, <2>2, UnderLeaseAlone DEF Role
<1>2. CASE ~Takeable(p, "recovery")
  <2>1. sync' = [sync EXCEPT ![p] = IdleSync] /\ UNCHANGED <<lease, adv>>
    BY <1>2 DEF RepairRun, db
  <2>. QED  BY <2>1, IdleSyncFacts, LInvBlock
<1>. QED  BY <1>1, <1>2

LEMMA OperatorAlone ==
  ASSUME IInv, LInv, NEW p \in Procs, Operator(p)
  PROVE  LInv'
<1>1. Control(p) /\ \E after, sweep : UnderLease(p, "control", after, FALSE, sweep)
  BY DEF Operator, Pause, Resume, Refused, Cancel
<1>2. PICK after, sweep : UnderLease(p, "control", after, FALSE, sweep)
  BY <1>1
<1>3. NoneLeased \/ (MaxLapses # 0 /\ lease # NoLease)
  BY <1>1, ControlAlone
<1>. QED  BY <1>2, <1>3, UnderLeaseAlone DEF Role

LEMMA ReleaseSyncAlone ==
  ASSUME IInv, TInv, LInv, NEW p \in Procs, ReleaseSync(p)
  PROVE  LInv'
<1>1. /\ UNCHANGED adv /\ sync[p].pc = "releasing" /\ (AtRest' => AtRest)
      /\ sync'[p] = IdleSync /\ \A q \in Procs \ {p} : sync'[q] = sync[q]
      /\ lease' = lease \/ Owns(p, sync[p].role)
  BY ReleaseSyncFacts
<1>2. sync[p].role # "advance"
  BY <1>1 DEF TInv, ApartOK
<1>3. /\ \A q \in Procs : Leased(q)' = Leased(q)
      /\ \A q \in Procs : Owns(q, "advance") => lease' = lease
  BY <1>1, <1>2 DEF Leased, Owns
<1>4. StaysOurs' /\ NotListed' /\ RestOK'
  BY <1>1, <1>3, IdleSyncFacts DEF LInv, StaysOurs, NotListed, RestOK, Owns
<1>. QED  BY <1>4 DEF LInv, Quiet, Alone

LEMMA CrashAlone ==
  ASSUME IInv, LInv, NEW p \in Procs, Crash(p)
  PROVE  LInv'
<1>1. /\ adv'[p] = IdleAdvance /\ \A q \in Procs \ {p} : adv'[q] = adv[q]
      /\ sync'[p] = IdleSync /\ \A q \in Procs \ {p} : sync'[q] = sync[q]
      /\ \A q \in Procs \ {p} : Owns(q, "advance") => lease' = lease
      /\ AtRest' => AtRest
  BY CrashFacts DEF Role
<1>2. ~Leased(p)' /\ \A q \in Procs \ {p} : Leased(q)' = Leased(q)
  BY <1>1, IdleAdvanceFacts DEF Leased
<1>3. StaysOurs' /\ NotListed' /\ RestOK'
  BY <1>1, <1>2 DEF LInv, StaysOurs, NotListed, RestOK, Owns
<1>. QED  BY <1>3 DEF LInv, Quiet, Alone

LEMMA NextLInv == IInv /\ TInv /\ TInv' /\ LInv /\ [Next]_vars => LInv'
<1>. SUFFICES ASSUME IInv, TInv, TInv', LInv, [Next]_vars PROVE LInv'
  OBVIOUS
<1>1. ASSUME NEW p \in Procs,
             \/ Begin(p) \/ Recovered(p) \/ ReleaseAdvance(p)
             \/ WaveEnds(p) \/ UndoNext(p) \/ Commit(p) \/ CancelForward(p)
             \/ \E n \in Nodes : TakeUp(p, n) \/ StartStep(p, n)
      PROVE  LInv'
  BY <1>1, BeginAlone, AdvancesAlone, ReleaseAlone
<1>2. ASSUME NEW p \in Procs, NEW abandonedOnly \in BOOLEAN,
             \/ ListRun(p, abandonedOnly) \/ RepairRun(p) \/ ReleaseSync(p)
             \/ Operator(p) \/ Crash(p)
      PROVE  LInv'
  BY <1>2, ListAlone, RepairIsAlone, ReleaseSyncAlone, OperatorAlone, CrashAlone
<1>3. ASSUME NEW n \in Nodes,
             \/ \E p \in Procs : TaskEnds(p, n) \/ RecoverTask(p, n) \/ Execute(p, n)
             \/ Approve(n) \/ Deny(n) \/ Reconcile(n) \/ Happens(n)
      PROVE  LInv'
  BY <1>3, TasksAlone
<1>4. Lapse \/ (\E p \in Procs : Renew(p)) => LInv'
  BY FreshAlone
<1>5. CASE UNCHANGED vars
  BY <1>5, LInvFrame DEF vars, db, TInv
<1>. QED  BY <1>1, <1>2, <1>3, <1>4, <1>5 DEF Next, Advances, Sweeps

-----------------------------------------------------------------------------
(* What is known when an unwind starts.                                    *)

Unsettled == {"running", "recovery_required"}

\* A state recorded of a step admits how its task may still end, and how it did.
Knows(s, state) ==
  /\ task[s] \in Unsettled => state \in Unknown
  /\ task[s] = "verified_success" => state \in Unknown \union {"verified_complete"}
SkippedRight(node) ==
  \A u \in Undos : node[u] = "skipped" => task[Target[u]] # "verified_success"

Undone(u) == task[Target[u]] = "verified_success" => task[u] = "verified_success"
NewerUndone(u) == \A v \in Undos : Rank[v] > Rank[u] => Undone(v)

\* From the first sign of an unwind no step is in flight, its outcome is known and
\* it stays as it ended.
Undoing(a) == a.pc = "undo" \/ (a.pc = "commit" /\ \E u \in Undos : a.res[u] # "none")
Unwinding ==
  \/ Begun \/ run.status = "failed"
  \/ run.status \notin Ended /\ Skips(run.node)
  \/ \E p \in Procs : Owns(p, "advance") /\ Undoing(adv[p])
Frozen ==
  \A s \in Steps : task[s] \notin Unsettled /\ \A p \in Procs : adv[p].at[s] = "no"
FrozenOK == Unwinding => Frozen

\* What an advance that owns the lease is to record, and an unwind's order.
LeftOK(a) ==
  \A u \in Undos : u \in a.left \/ a.at[u] # "no" \/ a.left = {} \/ Undone(u)
AdvKnows(a) ==
  /\ a.pc \in {"wave", "undo", "commit"} =>
       /\ \A s \in Steps : a.at[s] = "running" \/ Knows(s, After(a)[s])
       /\ a.cur.status # "verified_complete" => SkippedRight(After(a))
  /\ a.pc = "undo" =>
       /\ ~UnknownOutcome(After(a)) /\ LeftOK(a)
       /\ \A u \in Undos : a.at[u] = "todo" => NewerUndone(u)
AdvancesKnow == \A p \in Procs : Owns(p, "advance") => AdvKnows(adv[p])

\* What a failed run, or one at rest, has recorded.
RunKnows ==
  /\ run.status = "failed" \/ (AtRest /\ run.status \notin Ended) =>
       \A s \in Steps : Knows(s, run.node[s])
  /\ run.status \notin Ended => SkippedRight(run.node)
OrderOK == \A u \in Undos : task[u] # "none" => NewerUndone(u)

KInv == FrozenOK /\ AdvancesKnow /\ RunKnows /\ OrderOK
UInv == LInv /\ KInv

-----------------------------------------------------------------------------
(* Only an advance that has taken a step up starts it.                     *)

Onward(n) ==
  /\ task'[n] \in Unsettled => task[n] \in Unsettled
  /\ task'[n] = "verified_success" => task[n] \in Unsettled \union {"verified_success"}
Steady == \A s \in Steps : Onward(s)

LEMMA WriteGoesOn ==
  ASSUME TypeOK, NEW n \in Nodes, NEW status, task' = [task EXCEPT ![n] = status],
         Later(task[n], status)
  PROVE  GoOn /\ \A m \in Nodes : m # n => task'[m] = task[m]
BY DEF TypeOK, GoOn, Later

LEMMA OnwardUnlessStarted ==
  ASSUME NEW n \in Nodes, Later(task[n], task'[n]),
         task[n] \in Unstarted => task'[n] # "running"
  PROVE  Onward(n)
BY DEF Onward, Later, Unsettled, Unstarted

LEMMA TaskWays ==
  ASSUME IInv, Direct = {}, [Next]_vars
  PROVE  /\ GoOn
         /\ Steady \/ \E p \in Procs, s \in Steps : StartStep(p, s)
         /\ \A n \in Nodes : task[n] = "none" /\ task'[n] # "none" =>
              \E p \in Procs : TakeUp(p, n)
<1> DEFINE Begins(n) == task[n] = "none" /\ task'[n] # "none"
           Starts(n) == task[n] \in Unstarted /\ task'[n] = "running"
<1>1. ASSUME UNCHANGED task
      PROVE  GoOn /\ \A n \in Nodes : ~Begins(n) /\ ~Starts(n)
  BY <1>1, NoChange DEF Unstarted
<1>2. ASSUME NEW p \in Procs, NEW n \in Nodes, TakeUp(p, n), ~UNCHANGED task
      PROVE  GoOn /\ \A m \in Nodes : ~Starts(m) /\ (Begins(m) => TakeUp(p, m))
  <2>1. task' = [task EXCEPT ![n] = TakenUp(n)]
    BY <1>2 DEF TakeUp
  <2>2. Later(task[n], TakenUp(n)) /\ task' \in [Nodes -> TaskStatus \union {TakenUp(n)}]
    BY <2>1 DEF Later, TakenUp, Plan, IInv, TypeOK
  <2>3. GoOn /\ \A m \in Nodes : m # n => task'[m] = task[m]
    BY <2>1, <2>2, WriteGoesOn DEF IInv
  <2>4. ~Starts(n)
    BY <2>1 DEF IInv, TypeOK, TakenUp, Plan, Unstarted
  <2>. QED  BY <1>2, <2>3, <2>4 DEF Unstarted
<1>3. ASSUME NEW p \in Procs, NEW n \in Nodes, StartStep(p, n), ~UNCHANGED task
      PROVE  GoOn /\ \A m \in Nodes : ~Begins(m) /\ (Starts(m) => StartStep(p, m))
  <2>1. task[n] \in Unstarted /\ task' = [task EXCEPT ![n] = "running"]
    BY <1>3 DEF StartStep, Start
  <2>2. GoOn /\ \A m \in Nodes : m # n => task'[m] = task[m]
    BY <2>1, WriteGoesOn DEF IInv, Later
  <2>. QED  BY <1>3, <2>1, <2>2 DEF Unstarted
<1>4. ASSUME NEW n \in Nodes,
             \/ \E p \in Procs : TaskEnds(p, n) \/ RecoverTask(p, n)
             \/ Approve(n) \/ Deny(n) \/ Reconcile(n)
      PROVE  GoOn /\ \A m \in Nodes : ~Begins(m) /\ ~Starts(m)
  <2>1. PICK status : /\ task' = [task EXCEPT ![n] = status] /\ Later(task[n], status)
                      /\ task[n] # "none" /\ (task[n] \in Unstarted => status # "running")
    <3>1. ASSUME NEW p \in Procs, TaskEnds(p, n) \/ RecoverTask(p, n)
          PROVE  \E status :
                   /\ task' = [task EXCEPT ![n] = status] /\ Later(task[n], status)
                   /\ task[n] # "none" /\ (task[n] \in Unstarted => status # "running")
      <4>1. PICK status \in {"recovery_required", "verified_success", "partial", "failed",
                             "cancelled"} :
              task[n] = "running" /\ task' = [task EXCEPT ![n] = status]
        BY <3>1 DEF TaskEnds, RecoverTask, Outcomes
      <4>. QED  BY <4>1 DEF Later
    <3>2. CASE Approve(n) \/ Deny(n) \/ Reconcile(n)
      BY <3>2 DEF Approve, Deny, Reconcile, Later, Unstarted
    <3>. QED  BY <1>4, <3>1, <3>2
  <2>2. GoOn /\ \A m \in Nodes : m # n => task'[m] = task[m]
    BY <2>1, WriteGoesOn DEF IInv
  <2>3. task'[n] = status
    BY <2>1 DEF IInv, TypeOK
  <2>. QED  BY <2>1, <2>2, <2>3 DEF Unstarted
<1>5. ASSUME NEW p \in Procs, CancelForward(p) \/ ReleaseSync(p)
      PROVE  GoOn /\ \A m \in Nodes : ~Begins(m) /\ ~Starts(m)
  <2>1. PICK nodes : Cancelled(nodes)
    BY <1>5 DEF CancelForward, ReleaseSync
  <2>. QED  BY <2>1, SweepGoesOn DEF IInv, Cancelled, Unstarted
<1>6. ASSUME NEW p \in Procs,
             \/ Begin(p) \/ Recovered(p) \/ WaveEnds(p) \/ UndoNext(p) \/ Commit(p)
             \/ ReleaseAdvance(p) \/ Renew(p) \/ RepairRun(p) \/ Operator(p) \/ Crash(p)
             \/ \E b \in BOOLEAN : ListRun(p, b)
      PROVE  UNCHANGED task
  BY <1>6 DEF Begin, Recovered, WaveEnds, UndoNext, Commit, ReleaseAdvance, Renew, RepairRun,
              Operator, Pause, Resume, Refused, Cancel, UnderLease, Crash, ListRun, db
<1>7. Lapse \/ (\E n \in Nodes : Happens(n)) \/ UNCHANGED vars => UNCHANGED task
  BY DEF Lapse, Happens, vars, db
<1>8. ~\E p \in Procs, n \in Nodes : Execute(p, n)
  BY DEF Execute
<1>9. /\ GoOn
      /\ \A n \in Nodes : /\ Begins(n) => \E p \in Procs : TakeUp(p, n)
                          /\ Starts(n) => \E p \in Procs : StartStep(p, n)
  <2> HIDE DEF Begins, Starts
  <2>1. CASE UNCHANGED task
    BY <1>1, <2>1
  <2>2. CASE ~UNCHANGED task
    <3>1. \/ \E p \in Procs, n \in Nodes : TakeUp(p, n) \/ StartStep(p, n)
          \/ \E n \in Nodes : \/ \E p \in Procs : TaskEnds(p, n) \/ RecoverTask(p, n)
                              \/ Approve(n) \/ Deny(n) \/ Reconcile(n)
          \/ \E p \in Procs : CancelForward(p) \/ ReleaseSync(p)
      BY <1>6, <1>7, <1>8, <2>2 DEF Next, Advances, Sweeps
    <3>. QED  BY <1>2, <1>3, <1>4, <1>5, <2>2, <3>1
  <2>. QED  BY <2>1, <2>2
<1>10. Steady \/ \E p \in Procs, s \in Steps : StartStep(p, s)
  BY <1>9, OnwardUnlessStarted, NodeSets DEF Steady, GoOn
<1>. QED  BY <1>9, <1>10

-----------------------------------------------------------------------------
(* What is known stays so.                                                 *)

LEMMA KnowsStays ==
  ASSUME NEW s, NEW state, Onward(s), Knows(s, state)
  PROVE  Knows(s, state)'
BY DEF Onward, Knows, Unsettled

LEMMA NodeStateKnows ==
  ASSUME TypeOK, NEW s \in Steps, NEW previous
  PROVE  Knows(s, NodeState(s, previous))
<1>1. task[s] \in TaskStatus /\ s \notin Undos
  BY NodeSets DEF TypeOK
<1>. QED  BY <1>1 DEF Knows, NodeState, Unsettled, Unknown, TaskStatus, Unstarted

LEMMA UndoneStays ==
  ASSUME Frozen, GoOn, Steady
  PROVE  /\ \A s \in Steps : task'[s] = "verified_success" => task[s] = "verified_success"
         /\ \A u \in Undos : Undone(u) => Undone(u)'
         /\ \A u \in Undos : NewerUndone(u) => NewerUndone(u)'
         /\ \A node : SkippedRight(node) => SkippedRight(node)'
<1>1. \A s \in Steps : task'[s] = "verified_success" => task[s] = "verified_success"
  BY DEF Frozen, Steady, Onward
<1>2. \A u \in Undos : Target[u] \in Steps
  BY WorkflowAssumption
<1>3. \A u \in Undos : task[u] = "verified_success" => task'[u] = "verified_success"
  BY NodeSets DEF GoOn, Later, Unstarted
<1>4. \A u \in Undos : Undone(u) => Undone(u)'
  BY <1>1, <1>2, <1>3 DEF Undone
<1>. QED  BY <1>1, <1>2, <1>4 DEF NewerUndone, SkippedRight

LEMMA FrozenStays ==
  ASSUME Frozen, Steady,
         \A q \in Procs, s \in Steps : adv'[q].at[s] # "no" => adv[q].at[s] # "no"
  PROVE  Frozen'
BY DEF Frozen, Steady, Onward

\* An owner that undoes or has skipped a compensation is a sign of an unwind.
LEMMA OwnerFrozen ==
  ASSUME IInv, TInv, FrozenOK, NEW p \in Procs, Owns(p, "advance"),
         \/ adv[p].pc = "undo"
         \/ /\ adv[p].pc \in {"wave", "undo", "commit"} /\ Skips(After(adv[p]))
            /\ adv[p].cur.status # "verified_complete"
  PROVE  Frozen
<1> DEFINE b == adv[p]
<1>1. CASE b.pc = "undo"
  BY <1>1 DEF FrozenOK, Unwinding, Undoing
<1>2. CASE b.pc = "wave"
  BY <1>2 DEF TInv, AdvancesTold, AdvTold, Calm
<1>3. CASE b.pc = "commit"
  <2>1. PICK u \in Undos : After(b)[u] = "skipped"
    BY <1>3 DEF Skips
  <2>2. CASE b.res[u] # "none"
    BY <1>3, <2>2 DEF FrozenOK, Unwinding, Undoing
  <2>3. CASE b.res[u] = "none"
    <3>1. run.node[u] = "skipped" /\ b.cur = run
      BY <1>3, <2>1, <2>3, NodeSets DEF After, IInv, AdvancesOK, AdvOK, Working
    <3>2. run.status \notin Ended
      BY <1>3, <3>1 DEF IInv, AdvancesOK, AdvOK, Ended
    <3>. QED  BY <3>1, <3>2 DEF FrozenOK, Unwinding, Skips
  <2>. QED  BY <2>2, <2>3
<1>. QED  BY <1>1, <1>2, <1>3

LEMMA AdvKnowsOn ==
  ASSUME NEW a, AdvKnows(a), GoOn, Steady,
         (\/ a.pc = "undo"
          \/ /\ a.pc \in {"wave", "undo", "commit"} /\ Skips(After(a))
             /\ a.cur.status # "verified_complete") => Frozen
  PROVE  AdvKnows(a)'
<1>1. \A s \in Steps : Knows(s, After(a)[s]) => Knows(s, After(a)[s])'
  BY KnowsStays DEF Steady, After
<1>2. SkippedRight(After(a)) => ~Skips(After(a)) \/ ~Frozen \/ SkippedRight(After(a))'
  BY UndoneStays DEF After, SkippedRight
<1>3. ~Skips(After(a)) => SkippedRight(After(a))'
  BY DEF Skips, SkippedRight, After
<1>4. a.pc \in {"wave", "undo", "commit"} /\ a.cur.status # "verified_complete"
        => SkippedRight(After(a))'
  BY <1>2, <1>3 DEF AdvKnows
<1>5. a.pc = "undo" =>
        LeftOK(a)' /\ \A u \in Undos : a.at[u] = "todo" => NewerUndone(u)'
  BY UndoneStays DEF AdvKnows, LeftOK
<1>. QED  BY <1>1, <1>4, <1>5 DEF AdvKnows, UnknownOutcome, After

LEMMA AdvKnowsStays ==
  ASSUME IInv, TInv, FrozenOK, AdvancesKnow, GoOn, Steady, NEW p \in Procs,
         Owns(p, "advance")
  PROVE  AdvKnows(adv[p])' \/ adv'[p] # adv[p]
<1>1. PICK a : a = adv[p]
  OBVIOUS
<1>2. AdvKnows(a)'
  BY <1>1, OwnerFrozen, AdvKnowsOn DEF AdvancesKnow
<1>. QED  BY <1>1, <1>2

\* Steps of a run that stays as it is recorded, by which none starts.
LEMMA KInvFrame ==
  ASSUME IInv, TInv, KInv, GoOn, Steady, UNCHANGED run, AtRest' => AtRest,
         Unwinding' => Frozen',
         \A q \in Procs : Owns(q, "advance")' =>
           Owns(q, "advance") /\ (adv'[q] = adv[q] \/ AdvKnows(adv[q])'),
         \A u \in Undos : task'[u] # "none" => task[u] # "none" \/ (Frozen /\ NewerUndone(u))
  PROVE  KInv'
<1>1. FrozenOK'
  BY DEF FrozenOK
<1>2. AdvancesKnow'
  BY AdvKnowsStays DEF KInv, AdvancesKnow
<1>3. RunKnows'
  <2>1. \A s \in Steps : Knows(s, run.node[s]) => Knows(s, run.node[s])'
    BY KnowsStays DEF Steady
  <2>2. SkippedRight(run.node) /\ run.status \notin Ended => SkippedRight(run.node)'
    <3>1. CASE Skips(run.node) /\ run.status \notin Ended
      BY <3>1, UndoneStays DEF KInv, FrozenOK, Unwinding, SkippedRight
    <3>2. CASE ~Skips(run.node)
      BY <3>2 DEF Skips, SkippedRight
    <3>. QED  BY <3>1, <3>2
  <2>. QED  BY <2>1, <2>2 DEF KInv, RunKnows
<1>4. OrderOK'
  <2>. SUFFICES ASSUME NEW u \in Undos, task'[u] # "none" PROVE NewerUndone(u)'
    BY DEF OrderOK
  <2>1. Frozen /\ NewerUndone(u)
    BY DEF KInv, OrderOK, FrozenOK, Unwinding, Begun
  <2>. QED  BY <2>1, UndoneStays
<1>. QED  BY <1>1, <1>2, <1>3, <1>4 DEF KInv

\* The same where the signs of an unwind are what they were.
LEMMA KInvStill ==
  ASSUME IInv, TInv, KInv, GoOn, Steady, UNCHANGED run, AtRest' => AtRest,
         \A u \in Undos : task'[u] # "none" => task[u] # "none" \/ (Frozen /\ NewerUndone(u)),
         \A q \in Procs, s \in Steps : adv'[q].at[s] # "no" => adv[q].at[s] # "no",
         \A q \in Procs : Owns(q, "advance")' =>
           /\ Owns(q, "advance") /\ (adv'[q] = adv[q] \/ AdvKnows(adv[q])')
           /\ Undoing(adv'[q]) => Undoing(adv[q])
  PROVE  KInv'
<1>1. Begun' => Begun \/ Frozen
  BY DEF Begun
<1>2. Unwinding' => Frozen
  BY <1>1 DEF Unwinding, KInv, FrozenOK, Undoing
<1>3. Unwinding' => Frozen'
  BY <1>2, FrozenStays
<1>. QED  BY <1>3, KInvFrame

-----------------------------------------------------------------------------
(* Tasks.                                                                  *)

\* One node's part of a wave, or of an unwind, moves on.
LEMMA WaveMoves ==
  ASSUME NEW b, NEW a, NEW s \in Steps, b.pc = "wave", Calm(b), AdvKnows(b), Moves(a, b, s),
         \A r \in Steps \ {s} : Onward(r),
         \/ a.at[s] = "running"
         \/ a.res[s] # "none" /\ a.res[s] # "skipped" /\ Knows(s, a.res[s])'
         \/ b.at[s] # "running" /\ a.res[s] = b.res[s] /\ Onward(s)
  PROVE  AdvKnows(a)'
<1>1. a.pc = "wave" /\ a.cur = b.cur
  BY DEF Moves
<1>2. \A r \in Nodes \ {s} : After(a)[r] = After(b)[r] /\ a.at[r] = b.at[r]
  BY DEF Moves, After
<1>3. \A r \in Steps \ {s} : a.at[r] = "running" \/ Knows(r, After(a)[r])'
  BY <1>2, KnowsStays, NodeSets DEF AdvKnows
<1>4. a.at[s] = "running" \/ Knows(s, After(a)[s])'
  <2>1. CASE a.at[s] = "running"
    BY <2>1
  <2>2. CASE a.res[s] # "none" /\ Knows(s, a.res[s])'
    BY <2>2, NodeSets DEF After
  <2>3. CASE b.at[s] # "running" /\ a.res[s] = b.res[s] /\ Onward(s)
    <3>1. After(a)[s] = After(b)[s] /\ Knows(s, After(b)[s])
      BY <1>1, <2>3, NodeSets DEF After, AdvKnows
    <3>. QED  BY <2>3, <3>1, KnowsStays
  <2>. QED  BY <2>1, <2>2, <2>3
<1>5. a.cur.status # "verified_complete" => ~Skips(After(a))
  BY <1>1, <1>2, NodeSets DEF Calm, Skips
<1>. QED  BY <1>1, <1>3, <1>4, <1>5 DEF AdvKnows, SkippedRight, Skips, After

LEMMA UndoMoves ==
  ASSUME NEW b, NEW a, NEW u \in Undos, b.pc = "undo", AdvKnows(b), Moves(a, b, u),
         Frozen, GoOn, Steady, a.at[u] # "todo", a.left = b.left \/ a.left = {},
         a.res[u] = b.res[u] \/ a.res[u] \notin {"none", "skipped"},
         \/ a.at[u] # "no" \/ a.left = {}
         \/ u \in Nodes /\ task'[u] = "verified_success"
  PROVE  AdvKnows(a)'
<1>1. a.pc = "undo" /\ a.cur = b.cur
  BY DEF Moves
<1>2. \A n \in Nodes \ {u} : After(a)[n] = After(b)[n] /\ a.at[n] = b.at[n]
  BY DEF Moves, After
<1>3. \A s \in Steps : a.at[s] = "running" \/ Knows(s, After(a)[s])'
  BY <1>2, KnowsStays, NodeSets DEF AdvKnows, Steady
<1>4. ~UnknownOutcome(After(a))
  BY <1>2, NodeSets DEF AdvKnows, UnknownOutcome
<1>5. a.cur.status # "verified_complete" => SkippedRight(After(a))'
  <2>. SUFFICES ASSUME a.cur.status # "verified_complete",
                       NEW v \in Undos, After(a)[v] = "skipped"
                PROVE  task'[Target[v]] # "verified_success"
    BY DEF SkippedRight, After
  <2>1. After(b)[v] = "skipped"
    BY <1>1, <1>2, NodeSets DEF After
  <2>2. task[Target[v]] # "verified_success" /\ Target[v] \in Steps
    BY <1>1, <2>1, WorkflowAssumption DEF AdvKnows, SkippedRight
  <2>. QED  BY <2>2, UndoneStays
<1>6. LeftOK(a)'
  <2>. SUFFICES ASSUME NEW v \in Undos, v \notin a.left, a.at[v] = "no", a.left # {}
                PROVE  Undone(v)'
    BY DEF LeftOK
  <2>1. CASE v = u
    BY <2>1 DEF Undone
  <2>2. CASE v # u
    <3>1. Undone(v)
      BY <1>2, <2>2, NodeSets DEF AdvKnows, LeftOK
    <3>. QED  BY <3>1, UndoneStays
  <2>. QED  BY <2>1, <2>2
<1>7. \A v \in Undos : a.at[v] = "todo" => NewerUndone(v)'
  BY <1>2, UndoneStays, NodeSets DEF AdvKnows
<1>. QED  BY <1>1, <1>3, <1>4, <1>5, <1>6, <1>7 DEF AdvKnows, UnknownOutcome, After

LEMMA TakeUpKnows ==
  ASSUME IInv, TInv, UInv, NEW p \in Procs, NEW n \in Nodes, TakeUp(p, n), GoOn, Steady,
         AtRest' => AtRest
  PROVE  KInv'
<1> DEFINE b == adv[p]
<1>1. /\ UNCHANGED <<run, holder, sync, world, bounds>> /\ b.at[n] = "todo" /\ b \in Advance
      /\ b.pc \in {"wave", "undo"}
      /\ b.pc = "wave" => n \in Steps
      /\ b.pc = "undo" => n \in Undos
  BY AtWork DEF TakeUp
<1>2. \A q \in Procs : Owns(q, "advance")' = Owns(q, "advance")
  BY DEF TakeUp, StillLeased, Hold, Owns
<1>3. \A u \in Undos : task'[u] # "none" => task[u] # "none" \/ (Frozen /\ NewerUndone(u))
  <2>. SUFFICES ASSUME NEW u \in Undos, task'[u] # "none", task[u] = "none"
                PROVE  Frozen /\ NewerUndone(u)
    OBVIOUS
  <2>1. u = n /\ StillLeased(p)
    BY NodeSets DEF TakeUp, IInv, TypeOK
  <2>2. Owns(p, "advance") /\ b.pc = "undo"
    BY <1>1, <2>1, NodeSets DEF StillLeased
  <2>. QED  BY <1>1, <2>1, <2>2, OwnerFrozen DEF UInv, KInv, AdvancesKnow, AdvKnows
<1>4. PICK a \in Advance :
        /\ SetAdv(p, a) /\ Moves(a, b, n) /\ a.at[n] \in {"no", "starting"}
        /\ a.left = b.left \/ a.left = {}
        /\ \/ a = Refuse(b, n) \/ a = Put(b, n, "starting")
           \/ a = Result(b, n, NodeState(n, "pending")') /\ StillLeased(p)
  <2>1. PICK state \in NodeStatus \union {"none"} :
          state = NodeState(n, "pending")' /\ (StillLeased(p) => state # "none")
    <3>1. ASSUME StillLeased(p) PROVE task'[n] \in TaskStatus
      BY <3>1 DEF TakeUp, IInv, TypeOK, TakenUp, Plan, TaskStatus, Unstarted
    <3>2. CASE StillLeased(p)
      <4>1. NodeState(n, "pending")' \in NodeStatus
        BY <3>1, <3>2 DEF NodeState, NodeStatus, TaskStatus, Unstarted, Unknown, Done
      <4>. QED  BY <4>1 DEF NodeStatus, Unknown, Done
    <3>3. CASE ~StillLeased(p)
      <4>1. UNCHANGED task
        BY <3>3 DEF TakeUp
      <4>2. NodeState(n, "pending")' \in NodeStatus
        BY <4>1 DEF NodeState, NodeStatus, TaskStatus, Unstarted, Unknown, Done, IInv, TypeOK
      <4>. QED  BY <3>3, <4>2
    <3>. QED  BY <3>2, <3>3
  <2>2. \/ SetAdv(p, Refuse(b, n))
        \/ SetAdv(p, Put(b, n, "starting"))
        \/ SetAdv(p, Result(b, n, state)) /\ StillLeased(p)
    BY <2>1 DEF TakeUp, Put
  <2>3. /\ Refuse(b, n) \in Advance /\ Moves(Refuse(b, n), b, n)
        /\ Refuse(b, n).at[n] = "no" /\ Refuse(b, n).left = {}
    BY <1>1, RefuseMoves
  <2>4. /\ Put(b, n, "starting") \in Advance /\ Moves(Put(b, n, "starting"), b, n)
        /\ Put(b, n, "starting").at[n] = "starting" /\ Put(b, n, "starting").left = b.left
    BY <1>1, PutMoves
  <2>5. state \in NodeStatus =>
          /\ Result(b, n, state) \in Advance /\ Moves(Result(b, n, state), b, n)
          /\ Result(b, n, state).at[n] = "no"
          /\ Result(b, n, state).left = b.left \/ Result(b, n, state).left = {}
    BY <1>1, ResultMoves
  <2> HIDE DEF b
  <2>. QED  BY <2>1, <2>2, <2>3, <2>4, <2>5
<1>5. adv'[p] = a /\ \A q \in Procs \ {p} : adv'[q] = adv[q]
  BY <1>4, SetAdvFacts DEF IInv
<1>6. ASSUME Owns(p, "advance") PROVE AdvKnows(a)'
  <2>1. AdvKnows(b) /\ AdvTold(b)
    BY <1>6 DEF UInv, KInv, AdvancesKnow, TInv, AdvancesTold
  <2>2. ASSUME a = Result(b, n, NodeState(n, "pending")'), StillLeased(p)
        PROVE  /\ a.res[n] \notin {"none", "skipped"}
               /\ n \in Steps => Knows(n, a.res[n])'
               /\ n \in Undos => a.left = {} \/ task'[n] = "verified_success"
    <3>1. task'[n] \in TaskStatus /\ task'[n] # "none"
      BY <2>2 DEF TakeUp, IInv, TypeOK, TakenUp, Plan, TaskStatus, Unstarted
    <3>2. PICK state \in NodeStatus : state = NodeState(n, "pending")'
      <4>1. NodeState(n, "pending")' \in NodeStatus
        BY <3>1 DEF NodeState, NodeStatus, TaskStatus, Unstarted, Unknown, Done
      <4>. QED  BY <4>1
    <3>3. state \notin {"none", "skipped"}
      BY <3>1, <3>2 DEF NodeState, TaskStatus, Unstarted
    <3>4. n \in Steps => Knows(n, state)'
      BY <3>1, <3>2, NodeSets
      DEF Knows, NodeState, Unsettled, Unknown, TaskStatus, Unstarted
    <3>5. state = "compensated" => task'[n] = "verified_success"
      BY <3>1, <3>2 DEF NodeState, TaskStatus, Unstarted
    <3>6. a.res[n] = state /\ a.left = IF n \in Undos /\ state # "compensated" THEN {} ELSE b.left
      BY <1>1, <2>2, <3>2, ResultMoves
    <3>. QED  BY <3>3, <3>4, <3>5, <3>6
  <2>3. a = Refuse(b, n) => a.res[n] = b.res[n] /\ a.left = {}
    BY <1>1, RefuseMoves
  <2>4. a = Put(b, n, "starting") => a.res[n] = b.res[n] /\ a.at[n] = "starting"
    BY <1>1, PutMoves
  <2>5. CASE b.pc = "wave"
    <3>1. n \in Steps /\ Calm(b) /\ \A s \in Steps : Onward(s)
      BY <1>1, <2>1, <2>5 DEF AdvTold, Steady
    <3> HIDE DEF b
    <3>. QED  BY <1>1, <1>4, <2>1, <2>2, <2>3, <2>4, <2>5, <3>1, WaveMoves
  <2>6. CASE b.pc = "undo"
    <3>1. n \in Undos /\ Frozen
      BY <1>1, <1>6, <2>6, OwnerFrozen DEF UInv, KInv
    <3>2. a.res[n] = b.res[n] \/ a.res[n] \notin {"none", "skipped"}
      BY <1>4, <2>2, <2>3, <2>4
    <3>3. a.at[n] # "no" \/ a.left = {} \/ (n \in Nodes /\ task'[n] = "verified_success")
      BY <1>4, <2>2, <2>3, <2>4, <3>1
    <3> HIDE DEF b
    <3>. QED  BY <1>4, <2>1, <2>6, <3>1, <3>2, <3>3, UndoMoves
  <2>. QED  BY <1>1, <2>5, <2>6
<1> HIDE DEF b
<1>7. Owns(p, "advance") => AdvKnows(adv[p])'
  BY <1>5, <1>6
<1>8. \A q \in Procs, s \in Steps : adv'[q].at[s] # "no" => adv[q].at[s] # "no"
  BY <1>1, <1>4, <1>5, NodeSets DEF Moves, b
<1>9. Undoing(adv'[p]) => Undoing(adv[p])
  BY <1>1, <1>4, <1>5 DEF Moves, Undoing, b
<1>. QED  BY <1>1, <1>2, <1>3, <1>5, <1>7, <1>8, <1>9, KInvStill DEF UInv

\* The task of a node an advance has started is called, or refused.
LEMMA StartMoves ==
  ASSUME IInv, TInv, NEW p \in Procs, NEW n \in Nodes, StartStep(p, n)
  PROVE  /\ UNCHANGED <<run, lease, sync>> /\ adv[p] \in Advance
         /\ \A q \in Procs \ {p} : adv'[q] = adv[q]
         /\ Moves(adv'[p], adv[p], n) /\ adv'[p].res[n] = adv[p].res[n]
         /\ adv[p].at[n] = "starting"
         /\ \/ /\ task[n] \in Unstarted /\ task' = [task EXCEPT ![n] = "running"]
               /\ adv'[p].at[n] = "running" /\ adv'[p].left = adv[p].left
            \/ UNCHANGED task /\ adv'[p].at[n] = "no" /\ adv'[p].left = {}
<1> DEFINE b == adv[p]
<1>1. UNCHANGED <<run, lease, sync>> /\ b.at[n] = "starting" /\ b \in Advance
  BY AtWork DEF StartStep
<1>2. /\ Put(b, n, "running") \in Advance /\ Moves(Put(b, n, "running"), b, n)
      /\ Put(b, n, "running").res[n] = b.res[n]
      /\ Put(b, n, "running").at[n] = "running" /\ Put(b, n, "running").left = b.left
  BY <1>1, PutMoves
<1>3. /\ Refuse(b, n) \in Advance /\ Moves(Refuse(b, n), b, n)
      /\ Refuse(b, n).res[n] = b.res[n]
      /\ Refuse(b, n).at[n] = "no" /\ Refuse(b, n).left = {}
  BY <1>1, RefuseMoves
<1>4. \/ /\ task[n] \in Unstarted /\ task' = [task EXCEPT ![n] = "running"]
         /\ SetAdv(p, Put(b, n, "running"))
      \/ UNCHANGED task /\ SetAdv(p, Refuse(b, n))
  BY DEF StartStep, Start, Put
<1> HIDE DEF b
<1>5. PICK a \in Advance : SetAdv(p, a) /\ a \in {Put(b, n, "running"), Refuse(b, n)}
  BY <1>2, <1>3, <1>4
<1>6. adv'[p] = a /\ \A q \in Procs \ {p} : adv'[q] = adv[q]
  BY <1>5, SetAdvFacts DEF IInv
<1>7. CASE task[n] \in Unstarted /\ task' = [task EXCEPT ![n] = "running"]
           /\ SetAdv(p, Put(b, n, "running"))
  <2>1. adv'[p] = Put(b, n, "running")
    BY <1>2, <1>7, SetAdvFacts DEF IInv
  <2>. QED  BY <1>1, <1>2, <1>6, <1>7, <2>1 DEF b
<1>8. CASE UNCHANGED task /\ SetAdv(p, Refuse(b, n))
  <2>1. adv'[p] = Refuse(b, n)
    BY <1>3, <1>8, SetAdvFacts DEF IInv
  <2>. QED  BY <1>1, <1>3, <1>6, <1>8, <2>1 DEF b
<1>. QED  BY <1>4, <1>7, <1>8

LEMMA StartStepKnows ==
  ASSUME IInv, TInv, UInv, NEW p \in Procs, NEW n \in Nodes, StartStep(p, n), GoOn,
         AtRest' => AtRest, Steady \/ (n \in Steps /\ ~UNCHANGED task)
  PROVE  KInv'
<1> DEFINE b == adv[p]
<1>0. PICK a : a = adv'[p]
  OBVIOUS
<1>1. /\ UNCHANGED <<run, lease, sync>> /\ b.at[n] = "starting" /\ b.pc \in {"wave", "undo"}
      /\ b.pc = "wave" => n \in Steps
      /\ b.pc = "undo" => n \in Undos
      /\ \A q \in Procs \ {p} : adv'[q] = adv[q]
      /\ Moves(a, b, n) /\ a.res[n] = b.res[n] /\ a.at[n] \in {"running", "no"}
      /\ a.left = b.left \/ a.left = {}
      /\ a.at[n] = "running" \/ a.left = {}
      /\ \A m \in Nodes : m # n => task'[m] = task[m]
      /\ task'[n] # "none" => task[n] # "none"
      /\ a.at[n] # "running" => Onward(n)
  BY <1>0, StartMoves, AtWork DEF IInv, TypeOK, Unstarted, Onward, Unsettled
<1>2. \A q \in Procs : Owns(q, "advance")' = Owns(q, "advance")
  BY <1>1 DEF Owns
<1>3. \A r \in Steps \ {n} : Onward(r)
  BY <1>1, NodeSets DEF Onward, Unsettled
<1>4. ASSUME Owns(p, "advance") PROVE AdvKnows(adv[p])'
  <2>1. AdvKnows(b) /\ AdvTold(b)
    BY <1>4 DEF UInv, KInv, AdvancesKnow, TInv, AdvancesTold
  <2>2. CASE b.pc = "wave"
    <3>1. n \in Steps /\ Calm(b)
      BY <1>1, <2>1, <2>2 DEF AdvTold
    <3> HIDE DEF b
    <3>2. AdvKnows(a)'
      BY <1>1, <1>3, <2>1, <2>2, <3>1, WaveMoves
    <3>. QED  BY <1>0, <3>2
  <2>3. CASE b.pc = "undo"
    <3>1. n \in Undos /\ Frozen /\ Steady
      BY <1>1, <1>3, <1>4, <2>3, OwnerFrozen, NodeSets DEF UInv, KInv, Steady
    <3> HIDE DEF b
    <3>2. AdvKnows(a)'
      BY <1>1, <2>1, <2>3, <3>1, UndoMoves
    <3>. QED  BY <1>0, <3>2
  <2>. QED  BY <1>1, <2>2, <2>3
<1>5. CASE Steady
  <2>1. \A q \in Procs, s \in Steps : adv'[q].at[s] # "no" => adv[q].at[s] # "no"
    BY <1>0, <1>1, NodeSets DEF Moves
  <2>2. Undoing(adv'[p]) => Undoing(adv[p])
    BY <1>0, <1>1 DEF Moves, Undoing
  <2>3. \A u \in Undos : task'[u] # "none" => task[u] # "none"
    BY <1>1, NodeSets
  <2>. QED  BY <1>1, <1>2, <1>4, <1>5, <2>1, <2>2, <2>3, KInvStill DEF UInv
<1>6. CASE n \in Steps /\ ~UNCHANGED task
  <2>1. ~Frozen /\ ~Unwinding
    BY <1>1, <1>6 DEF Frozen, UInv, KInv, FrozenOK
  <2>2. \A u \in Undos : task'[u] = task[u]
    BY <1>1, <1>6, NodeSets
  <2>3. ~Unwinding'
    <3>1. Undoing(adv'[p]) => Undoing(adv[p])
      BY <1>0, <1>1 DEF Moves, Undoing
    <3>2. \A q \in Procs : Undoing(adv'[q]) /\ Owns(q, "advance")'
                             => Undoing(adv[q]) /\ Owns(q, "advance")
      BY <1>1, <1>2, <3>1
    <3>. QED  BY <1>1, <2>1, <2>2, <3>2 DEF Unwinding, Begun, Skips, Undoing
  <2>4. FrozenOK' /\ OrderOK'
    BY <2>3 DEF FrozenOK, OrderOK, Unwinding, Begun
  <2>5. ~AtRest
    <3>1. Leased(p)
      BY <1>1 DEF Leased
    <3>. QED  BY <1>1, <3>1 DEF UInv, LInv, RestOK
  <2>6. RunKnows'
    BY <1>1, <2>3, <2>5 DEF RunKnows, Unwinding, SkippedRight, Skips
  <2>7. AdvancesKnow'
    <3>. SUFFICES ASSUME NEW q \in Procs, Owns(q, "advance")' PROVE AdvKnows(adv[q])'
      BY DEF AdvancesKnow
    <3>1. Leased(p)
      BY <1>1 DEF Leased
    <3>2. q = p
      BY <1>2, <3>1, OwnerAlone DEF UInv
    <3>. QED  BY <1>2, <1>4, <3>2
  <2>. QED  BY <2>4, <2>6, <2>7 DEF KInv
<1>. QED  BY <1>5, <1>6

LEMMA TaskEndsKnows ==
  ASSUME IInv, TInv, UInv, NEW p \in Procs, NEW n \in Nodes, TaskEnds(p, n), GoOn, Steady,
         AtRest' => AtRest
  PROVE  KInv'
<1> DEFINE b == adv[p]
<1>1. UNCHANGED <<run, lease, sync>>
  BY DEF TaskEnds
<1>2. PICK outcome \in {"recovery_required", "verified_success", "partial", "failed",
                        "cancelled"} :
        task[n] = "running" /\ task' = [task EXCEPT ![n] = outcome]
  BY DEF TaskEnds, Outcomes
<1>3. task'[n] = outcome /\ \A m \in Nodes : m # n => task'[m] = task[m]
  BY <1>2 DEF IInv, TypeOK
<1>4. \A u \in Undos : task'[u] # "none" => task[u] # "none"
  BY <1>2, <1>3, NodeSets
<1>5. \A q \in Procs : Owns(q, "advance")' = Owns(q, "advance")
  BY <1>1 DEF Owns
<1>6. CASE b.at[n] # "running"
  <2>1. adv' = adv
    BY <1>6 DEF TaskEnds
  <2>. QED  BY <1>1, <1>4, <1>5, <2>1, KInvStill DEF UInv
<1>7. CASE b.at[n] = "running"
  <2>1. /\ b \in Advance /\ b.pc \in {"wave", "undo"}
        /\ b.pc = "wave" => n \in Steps
        /\ b.pc = "undo" => n \in Undos
    BY <1>7, AtWork
  <2>2. PICK state \in NodeStatus : state = NodeState(n, "pending")'
    <3>1. NodeState(n, "pending")' \in NodeStatus
      BY <1>3 DEF NodeState, NodeStatus, Unstarted, Unknown, Done
    <3>. QED  BY <3>1
  <2>3. /\ state \notin {"none", "skipped"}
        /\ n \in Steps => Knows(n, state)'
        /\ state = "compensated" => task'[n] = "verified_success"
    BY <1>3, <2>2, NodeSets DEF Knows, NodeState, Unsettled, Unknown, Unstarted
  <2>4. adv' = [adv EXCEPT ![p] = Result(b, n, state)]
    BY <1>7, <2>2 DEF TaskEnds
  <2>5. /\ Result(b, n, state) \in Advance /\ Moves(Result(b, n, state), b, n)
        /\ Result(b, n, state).res[n] = state /\ Result(b, n, state).at[n] = "no"
        /\ Result(b, n, state).left = IF n \in Undos /\ state # "compensated" THEN {} ELSE b.left
    BY <2>1, ResultMoves
  <2> HIDE DEF b
  <2>6. PICK a \in Advance :
          /\ adv' = [adv EXCEPT ![p] = a] /\ Moves(a, b, n) /\ a.res[n] = state
          /\ a.at[n] = "no"
          /\ a.left = IF n \in Undos /\ state # "compensated" THEN {} ELSE b.left
    BY <2>4, <2>5
  <2>7. adv'[p] = a /\ \A q \in Procs \ {p} : adv'[q] = adv[q]
    BY <2>6 DEF IInv, TypeOK
  <2>8. ASSUME Owns(p, "advance") PROVE AdvKnows(adv[p])'
    <3>1. AdvKnows(b) /\ AdvTold(b)
      BY <2>8 DEF UInv, KInv, AdvancesKnow, TInv, AdvancesTold, b
    <3>2. CASE b.pc = "wave"
      <4>1. n \in Steps /\ Calm(b) /\ \A s \in Steps : Onward(s)
        BY <2>1, <3>1, <3>2 DEF AdvTold, Steady
      <4>2. AdvKnows(a)'
        BY <2>3, <2>6, <3>1, <3>2, <4>1, WaveMoves
      <4>. QED  BY <2>7, <4>2
    <3>3. CASE b.pc = "undo"
      <4>1. n \in Undos /\ Frozen
        BY <2>1, <2>8, <3>3, OwnerFrozen DEF UInv, KInv, b
      <4>2. AdvKnows(a)'
        BY <2>3, <2>6, <3>1, <3>3, <4>1, UndoMoves
      <4>. QED  BY <2>7, <4>2
    <3>. QED  BY <2>1, <3>2, <3>3
  <2>9. \A q \in Procs, s \in Steps : adv'[q].at[s] # "no" => adv[q].at[s] # "no"
    BY <2>6, <2>7, NodeSets DEF Moves, b
  <2>10. Undoing(adv'[p]) => Undoing(adv[p])
    BY <2>1, <2>6, <2>7 DEF Moves, Undoing, b
  <2>. QED  BY <1>1, <1>4, <1>5, <2>7, <2>8, <2>9, <2>10, KInvStill DEF UInv
<1>. QED  BY <1>6, <1>7

\* Steps that leave the run and every advance as they are.
LEMMA StillKnows ==
  ASSUME IInv, TInv, UInv, UNCHANGED <<run, adv>>, GoOn, Steady, AtRest' => AtRest,
         \A q \in Procs : Owns(q, "advance")' => Owns(q, "advance"),
         \A u \in Undos : task'[u] # "none" => task[u] # "none"
  PROVE  KInv'
BY KInvStill DEF UInv

-----------------------------------------------------------------------------
(* The course of an advance.                                               *)

\* What a failed run does not offer to undo is undone, or need not be.
LEMMA UndoneUnlessLeft ==
  ASSUME NEW r \in Run, r.status = "failed", Told(r), SkippedRight(r.node),
         \A s \in Steps : Knows(s, r.node[s])
  PROVE  \A u \in Undos : u \in Rollback(r) \/ Undone(u)
<1>. SUFFICES ASSUME NEW u \in Undos, u \notin Rollback(r),
                     task[Target[u]] = "verified_success"
              PROVE  task[u] = "verified_success"
  BY DEF Undone
<1>1. ~Stalled(r.node) /\ ~UnknownOutcome(r.node)
  BY FailedFacts DEF Told
<1>2. Target[u] \in Steps /\ r.node[Target[u]] = "verified_complete"
  BY <1>1, WorkflowAssumption DEF Knows, UnknownOutcome
<1>3. r.node[u] \notin {"pending", "awaiting_approval"} /\ r.node[u] \in NodeStatus
  BY <1>2, NodeSets DEF Rollback, TargetDone, Run
<1>4. r.node[u] \in Done
  BY <1>1, <1>3 DEF NodeStatus, Stalled
<1>5. r.node[u] # "skipped"
  BY DEF SkippedRight
<1>. QED  BY <1>4, <1>5, NodeSets DEF Done, Told, Backed

LEMMA WaveKnows ==
  ASSUME TypeOK, NEW cur \in Run, cur.status # "cancelled", Told(cur),
         cur.status # "verified_complete" => SkippedRight(cur.node),
         \A s \in Steps : Knows(s, cur.node[s])
  PROVE  AdvKnows(Wave(cur))
<1> DEFINE b == [IdleAdvance EXCEPT !.cur = cur]
           wave == IF ParkedSettled(cur) THEN Awaiting(cur)
                   ELSE Awaiting(cur) \union Ready(cur)
           stop == [b EXCEPT !.pc = "release"]
           undo == [b EXCEPT !.pc = "undo", !.left = Rollback(cur)]
           read == [n \in Nodes |-> IF n \in Awaiting(cur)
                                    THEN NodeState(n, cur.node[n]) ELSE "none"]
           fail == [b EXCEPT !.pc = "wave", !.res = read]
           todo == [n \in Nodes |-> IF n \in wave THEN "todo" ELSE "no"]
           go   == [b EXCEPT !.pc = "wave", !.at = todo]
<1>1. /\ b \in Advance /\ b.cur = cur
      /\ \A n \in Nodes : b.at[n] = "no" /\ b.res[n] = "none"
  BY IdleAdvanceFacts DEF Advance, Idling
<1>2. cur.node \in [Nodes -> NodeStatus] /\ "none" \notin NodeStatus
  BY DEF Run, NodeStatus, Unknown, Done
<1>3. Awaiting(cur) \subseteq Steps
  BY DEF Awaiting
<1>4. /\ stop.pc = "release"
      /\ undo.pc = "undo" /\ undo.cur = cur /\ undo.at = b.at /\ undo.res = b.res
      /\ undo.left = Rollback(cur)
      /\ fail.pc = "wave" /\ fail.cur = cur /\ fail.at = b.at /\ fail.res = read
      /\ go.pc = "wave" /\ go.cur = cur /\ go.at = todo /\ go.res = b.res
  BY <1>1 DEF Advance
<1> HIDE DEF stop, undo, fail, go, b, wave
<1>5. \A n \in Nodes : /\ After(undo)[n] = cur.node[n] /\ After(go)[n] = cur.node[n]
                       /\ After(fail)[n] = IF n \in Awaiting(cur)
                                           THEN NodeState(n, cur.node[n]) ELSE cur.node[n]
  BY <1>1, <1>2, <1>4, NodeStateType DEF After
<1>6. AdvKnows(stop)
  BY <1>4 DEF AdvKnows
<1>7. AdvKnows(go)
  BY <1>4, <1>5, NodeSets DEF AdvKnows, SkippedRight
<1>8. AdvKnows(fail)
  <2>1. \A s \in Steps : Knows(s, After(fail)[s])
    BY <1>5, NodeStateKnows, NodeSets
  <2>. QED  BY <1>3, <1>4, <1>5, <2>1, NodeSets DEF AdvKnows, SkippedRight
<1>9. Rollback(cur) # {} => AdvKnows(undo)
  <2>. SUFFICES ASSUME Rollback(cur) # {} PROVE AdvKnows(undo)
    OBVIOUS
  <2>1. cur.status = "failed"
    BY DEF Rollback
  <2>2. LeftOK(undo)
    BY <1>4, <2>1, UndoneUnlessLeft DEF LeftOK
  <2>3. ~UnknownOutcome(After(undo))
    BY <1>5, <2>1, FailedFacts, NodeSets DEF Told, UnknownOutcome
  <2>. QED  BY <1>1, <1>4, <1>5, <2>2, <2>3, NodeSets DEF AdvKnows, SkippedRight
<1>10. \/ Wave(cur) = stop
       \/ Wave(cur) = undo /\ Rollback(cur) # {}
       \/ Wave(cur) = fail
       \/ Wave(cur) = go
  BY DEF Wave, stop, undo, fail, go, b, wave
<1>. QED  BY <1>6, <1>7, <1>8, <1>9, <1>10

\* While its owner is at work no other advance has a node in hand.
LEMMA OthersIdle ==
  ASSUME IInv, LInv, NEW p \in Procs, NEW q \in Procs, Owns(p, "advance"), q # p
  PROVE  \A n \in Nodes : adv[q].at[n] = "no"
BY OwnerAlone, NotLeasedIdles

LEMMA WaveEndsKnows ==
  ASSUME IInv, TInv, UInv, NEW p \in Procs, WaveEnds(p), GoOn, Steady, AtRest' => AtRest
  PROVE  KInv'
<1> DEFINE b == adv[p]
           undo == [b EXCEPT !.pc = "undo",
                      !.left = {u \in Undos : b.cur.node[u] = "pending"}]
           commit == [b EXCEPT !.pc = "commit"]
<1>1. /\ b \in Advance /\ b.pc = "wave" /\ Idling(b) /\ Apart(b)
      /\ UNCHANGED <<run, lease, task>>
  BY DEF WaveEnds, IInv, TypeOK, db, TInv, ApartOK
<1>2. /\ undo \in Advance /\ undo.pc = "undo" /\ undo.at = b.at /\ undo.cur = b.cur
      /\ After(undo) = After(b) /\ undo.left = {u \in Undos : b.cur.node[u] = "pending"}
      /\ commit \in Advance /\ commit.pc = "commit" /\ commit.cur = b.cur
      /\ commit.at = b.at /\ commit.res = b.res /\ After(commit) = After(b)
  BY <1>1 DEF Advance, After
<1>3. SetAdv(p, IF Unwinds(b) THEN undo ELSE commit)
  BY DEF WaveEnds
<1>4. /\ \A q \in Procs : Owns(q, "advance")' = Owns(q, "advance")
      /\ \A u \in Undos : task'[u] = task[u]
  BY <1>1 DEF Owns
<1>5. Owns(p, "advance") => /\ AdvKnows(b) /\ AdvTold(b)
                            /\ \A s \in Steps : Knows(s, After(b)[s])
  <2>1. \A s \in Steps : b.at[s] = "no"
    BY <1>1, NodeSets DEF Idling
  <2>. QED  BY <1>1, <2>1 DEF UInv, KInv, AdvancesKnow, AdvKnows, TInv, AdvancesTold
<1>6. CASE Unwinds(b) /\ Owns(p, "advance")
  <2>1. ~UnknownOutcome(After(b))
    BY <1>6 DEF Unwinds
  <2>2. Frozen
    <3>1. \A s \in Steps : task[s] \notin Unsettled
      BY <1>5, <1>6, <2>1 DEF Knows, UnknownOutcome
    <3>2. \A q \in Procs, s \in Steps : adv[q].at[s] = "no"
      BY <1>1, <1>6, OthersIdle, NodeSets DEF Idling, UInv
    <3>. QED  BY <3>1, <3>2 DEF Frozen
  <2>3. \A u \in Undos : b.cur.node[u] = "pending"
    <3>. SUFFICES ASSUME NEW u \in Undos PROVE b.cur.node[u] = "pending"
      OBVIOUS
    <3>1. After(b)[u] = b.cur.node[u] /\ task[u] = "none"
      BY <1>1, <1>5, <1>6, NodeSets DEF After, Apart, AdvTold, Calm, Begun
    <3>2. b.cur.status # "verified_complete"
      <4>1. PICK s \in Steps : b.res[s] # "none"
        BY <1>6 DEF Unwinds
      <4>. QED  BY <1>1, <4>1, NodeSets DEF IInv, AdvancesOK, AdvOK
    <3>3. After(b)[u] # "skipped"
      BY <1>1, <1>5, <1>6, <3>2 DEF AdvTold, Calm, Skips
    <3>4. Backed(u, After(b)[u])
      BY <1>1, <1>5, <1>6, NodeSets DEF AdvTold
    <3>. QED  BY <3>1, <3>3, <3>4, NodeSets DEF Backed
  <2> HIDE DEF undo, commit, b
  <2>4. PICK a \in Advance : a = undo
    BY <1>2
  <2>5. AdvKnows(a)
    BY <1>1, <1>2, <1>5, <1>6, <2>1, <2>3, <2>4, NodeSets DEF AdvKnows, LeftOK, Idling
  <2>6. AdvKnows(a)'
    BY <2>2, <2>5, AdvKnowsOn
  <2>7. adv'[p] = a /\ \A q \in Procs \ {p} : adv'[q] = adv[q]
    BY <1>2, <1>3, <1>6, <2>4, SetAdvFacts DEF IInv
  <2>8. \A q \in Procs : adv'[q].at = adv[q].at
    BY <1>2, <2>4, <2>7 DEF b
  <2>9. Frozen'
    BY <2>2, <2>8, FrozenStays
  <2>10. AdvKnows(adv[p])'
    BY <2>6, <2>7
  <2>. QED  BY <1>1, <1>4, <2>7, <2>9, <2>10, KInvFrame DEF UInv
<1>7. CASE ~Unwinds(b) \/ ~Owns(p, "advance")
  <2> HIDE DEF undo, commit, b
  <2>1. PICK a \in Advance : /\ SetAdv(p, a) /\ a.at = b.at
                             /\ Owns(p, "advance") => a = commit
    BY <1>2, <1>3, <1>7
  <2>2. adv'[p] = a /\ \A q \in Procs \ {p} : adv'[q] = adv[q]
    BY <2>1, SetAdvFacts DEF IInv
  <2>3. Owns(p, "advance") =>
          /\ AdvKnows(a) /\ After(a) = After(b)
          /\ a.pc = "commit" /\ a.cur = b.cur /\ a.res = b.res
    BY <1>1, <1>2, <1>5, <2>1 DEF AdvKnows
  <2>4. Owns(p, "advance") => AdvKnows(adv[p])'
    <3>1. Owns(p, "advance") => ~Skips(After(b)) \/ b.cur.status = "verified_complete"
      BY <1>1, <1>5 DEF AdvTold, Calm
    <3>2. Owns(p, "advance") => AdvKnows(a)'
      BY <2>3, <3>1, AdvKnowsOn
    <3>. QED  BY <2>2, <3>2
  <2>5. Owns(p, "advance") => ~Undoing(adv'[p])
    <3>1. \A u \in Undos : b.res[u] = "none"
      BY <1>1 DEF Apart
    <3>. QED  BY <2>1, <2>2, <2>3, <3>1 DEF Undoing
  <2>6. \A q \in Procs, s \in Steps : adv'[q].at[s] # "no" => adv[q].at[s] # "no"
    BY <2>1, <2>2 DEF b
  <2>7. \A q \in Procs : Owns(q, "advance")' =>
           /\ Owns(q, "advance") /\ (adv'[q] = adv[q] \/ AdvKnows(adv[q])')
           /\ Undoing(adv'[q]) => Undoing(adv[q])
    BY <1>4, <2>2, <2>4, <2>5
  <2>. QED  BY <1>1, <1>4, <2>6, <2>7, KInvStill DEF UInv
<1>. QED  BY <1>6, <1>7

LEMMA UndoNextKnows ==
  ASSUME IInv, TInv, UInv, NEW p \in Procs, UndoNext(p), GoOn, Steady, AtRest' => AtRest
  PROVE  KInv'
<1> DEFINE b == adv[p]
           u == Newest(b.left)
           commit == [b EXCEPT !.pc = "commit"]
           stop == [b EXCEPT !.left = {}]
           undo == [b EXCEPT !.left = @ \ {u}, !.at[u] = "todo"]
           skip == [b EXCEPT !.left = @ \ {u}, !.res[u] = "skipped"]
<1>1. /\ b \in Advance /\ b.pc = "undo" /\ Idling(b)
      /\ UNCHANGED <<run, lease, task, sync>>
  BY DEF UndoNext, IInv, TypeOK, db
<1>2. b.left # {} => u \in Undos /\ u \in b.left /\ \A v \in b.left : Rank[v] <= Rank[u]
  BY <1>1, NewestFacts DEF Advance
<1>3. "skipped" \in NodeStatus
  BY DEF NodeStatus, Done
<1> HIDE DEF u
<1>4. /\ commit \in Advance /\ commit.pc = "commit" /\ commit.at = b.at
      /\ commit.cur = b.cur /\ After(commit) = After(b)
  BY <1>1 DEF Advance, After
<1>5. /\ stop \in Advance /\ stop.pc = "undo" /\ stop.at = b.at
      /\ stop.cur = b.cur /\ After(stop) = After(b) /\ stop.left = {}
  BY <1>1 DEF Advance, After
<1>6. /\ undo \in Advance /\ undo.pc = "undo" /\ undo.cur = b.cur
      /\ undo.res = b.res /\ \A n \in Nodes : n # u => undo.at[n] = b.at[n]
      /\ u \in Nodes => undo.at[u] = "todo"
      /\ undo.left = b.left \ {u}
  BY <1>1 DEF Advance
<1>7. After(undo) = After(b)
  BY <1>6 DEF After
<1>8. /\ skip \in Advance /\ skip.pc = "undo" /\ skip.cur = b.cur /\ skip.at = b.at
      /\ u \in Nodes => skip.res[u] = "skipped"
      /\ \A n \in Nodes : n # u => skip.res[n] = b.res[n]
      /\ skip.left = b.left \ {u}
  BY <1>1, <1>3 DEF Advance
<1>9. SetAdv(p, IF b.left = {} THEN commit
                ELSE IF run.version # b.cur.version THEN stop
                ELSE IF TargetDone(u, After(b)) THEN undo ELSE skip)
  BY DEF UndoNext, u
<1> HIDE DEF commit, stop, undo, skip
<1>10. AdvKnows(b) => AdvKnows(commit) /\ AdvKnows(stop)
  BY <1>1, <1>4, <1>5 DEF AdvKnows, LeftOK
<1>11. AdvKnows(b) /\ b.left # {} => AdvKnows(undo)
  <2>. SUFFICES ASSUME AdvKnows(b), b.left # {} PROVE AdvKnows(undo)
    OBVIOUS
  <2>1. LeftOK(undo)
    BY <1>1, <1>2, <1>6, NodeSets DEF AdvKnows, LeftOK
  <2>2. NewerUndone(u)
    <3>. SUFFICES ASSUME NEW v \in Undos, Rank[v] > Rank[u] PROVE Undone(v)
      BY DEF NewerUndone
    <3>1. v \notin b.left
      BY <1>2, WorkflowAssumption
    <3>. QED  BY <1>1, <3>1, NodeSets DEF AdvKnows, LeftOK, Idling
  <2>3. \A v \in Undos : undo.at[v] = "todo" => NewerUndone(v)
    BY <1>1, <1>6, <2>2, NodeSets DEF Idling
  <2>4. \A s \in Steps : undo.at[s] = b.at[s]
    BY <1>2, <1>6, NodeSets
  <2>. QED  BY <1>1, <1>6, <1>7, <2>1, <2>3, <2>4 DEF AdvKnows
<1>12. AdvKnows(b) /\ b.left # {} /\ ~TargetDone(u, After(b)) => AdvKnows(skip)
  <2>. SUFFICES ASSUME AdvKnows(b), b.left # {}, ~TargetDone(u, After(b))
                PROVE  AdvKnows(skip)
    OBVIOUS
  <2>1. /\ u \in Undos /\ u \in Nodes /\ u \notin Steps /\ Target[u] \in Steps
        /\ \A n \in Nodes : n # u => After(skip)[n] = After(b)[n]
        /\ After(skip)[u] = "skipped"
    BY <1>2, <1>8, NodeSets, WorkflowAssumption DEF After
  <2>2. task[Target[u]] # "verified_success"
    <3>1. Knows(Target[u], After(b)[Target[u]])
      BY <1>1, <2>1, NodeSets DEF AdvKnows, Idling
    <3>. QED  BY <1>1, <2>1, <3>1 DEF Knows, AdvKnows, UnknownOutcome, TargetDone
  <2>3. LeftOK(skip)
    BY <1>1, <1>8, <2>2 DEF AdvKnows, LeftOK, Undone
  <2>4. \A s \in Steps : After(skip)[s] = After(b)[s]
    BY <2>1, NodeSets
  <2>5. SkippedRight(After(b)) => SkippedRight(After(skip))
    BY <2>1, <2>2, NodeSets DEF SkippedRight
  <2>. QED  BY <1>1, <1>8, <2>3, <2>4, <2>5 DEF AdvKnows, UnknownOutcome
<1>13. PICK a \in Advance : /\ SetAdv(p, a) /\ (AdvKnows(b) => AdvKnows(a))
                            /\ a.pc = "undo" \/ a = commit
                            /\ \A s \in Steps : a.at[s] = b.at[s]
  <2>1. \A s \in Steps : b.left # {} => undo.at[s] = b.at[s]
    BY <1>2, <1>6, NodeSets
  <2>. QED  BY <1>4, <1>5, <1>6, <1>8, <1>9, <1>10, <1>11, <1>12, <2>1
<1>14. adv'[p] = a /\ \A q \in Procs \ {p} : adv'[q] = adv[q]
  BY <1>13, SetAdvFacts DEF IInv
<1>15. Owns(p, "advance") => AdvKnows(adv[p])'
  <2>1. Owns(p, "advance") => Frozen /\ AdvKnows(a)
    BY <1>1, <1>13, OwnerFrozen DEF UInv, KInv, AdvancesKnow
  <2>2. Owns(p, "advance") => AdvKnows(a)'
    BY <2>1, AdvKnowsOn
  <2>. QED  BY <1>14, <2>2
<1>16. \A q \in Procs : Owns(q, "advance")' = Owns(q, "advance")
  BY <1>1 DEF Owns
<1>17. Undoing(adv[p])
  BY <1>1 DEF Undoing
<1>18. \A q \in Procs, s \in Steps : adv'[q].at[s] # "no" => adv[q].at[s] # "no"
  BY <1>13, <1>14 DEF b
<1>19. \A v \in Undos : task'[v] = task[v]
  BY <1>1
<1>. QED  BY <1>1, <1>14, <1>15, <1>16, <1>17, <1>18, <1>19, KInvStill DEF UInv

LEMMA CancelForwardKnows ==
  ASSUME IInv, TInv, UInv, NEW p \in Procs, CancelForward(p), GoOn, Steady,
         AtRest' => AtRest
  PROVE  KInv'
<1> DEFINE b == adv[p]
           release == [b EXCEPT !.pc = "release"]
<1>1. /\ b \in Advance /\ b.pc = "cancel" /\ b.cur \in Run /\ Apart(b) /\ Idling(b)
      /\ UNCHANGED <<run, lease, sync>> /\ TypeOK
      /\ \A u \in Undos : task'[u] = task[u]
      /\ SetAdv(p, IF b.cur.status = "failed" THEN Wave(b.cur) ELSE release)
  BY NodeSets
  DEF CancelForward, Cancelled, IInv, TypeOK, TInv, ApartOK, Advance, AdvancesOK, AdvOK
<1>2. release \in Advance /\ release.pc = "release" /\ release.at = b.at
  BY <1>1 DEF Advance
<1>3. \A q \in Procs : Owns(q, "advance")' = Owns(q, "advance")
  BY <1>1 DEF Owns
<1> HIDE DEF release
<1>4. CASE b.cur.status = "failed"
  <2>1. /\ Wave(b.cur) \in Advance /\ Wave(b.cur).pc \in {"release", "undo"}
        /\ Apart(Wave(b.cur)) /\ AdvOK(Wave(b.cur), b.cur, TRUE)
    <3>1. Cause(b.cur.node)
      BY <1>1, <1>4 DEF Apart
    <3>. QED  BY <1>1, <1>4, <3>1, WaveFacts, FailingWave
  <2>2. Owns(p, "advance") => Frozen /\ AdvKnows(Wave(b.cur))
    <3>. SUFFICES ASSUME Owns(p, "advance") PROVE Frozen /\ AdvKnows(Wave(b.cur))
      OBVIOUS
    <3>1. b.cur = run
      BY <1>1, <1>4 DEF IInv, AdvancesOK, AdvOK, Working
    <3>2. Frozen
      BY <1>4, <3>1 DEF UInv, KInv, FrozenOK, Unwinding
    <3>3. SkippedRight(run.node) /\ \A s \in Steps : Knows(s, run.node[s])
      BY <1>4, <3>1 DEF UInv, KInv, RunKnows, Ended
    <3>. QED  BY <1>1, <1>4, <3>1, <3>2, <3>3, WaveKnows DEF TInv
  <2>3. PICK a \in Advance : a = Wave(b.cur)
    BY <2>1
  <2>4. \A s \in Steps : a.at[s] = "no"
    BY <2>1, <2>3, NodeSets DEF Apart, AdvOK, Idling
  <2>5. adv'[p] = a /\ \A q \in Procs \ {p} : adv'[q] = adv[q]
    BY <1>1, <1>4, <2>3, SetAdvFacts
  <2>6. Owns(p, "advance") => AdvKnows(a)'
    BY <2>2, <2>3, AdvKnowsOn
  <2>7. Owns(p, "advance") => AdvKnows(adv[p])'
    BY <2>5, <2>6
  <2>8. \A q \in Procs, s \in Steps : adv'[q].at[s] # "no" => adv[q].at[s] # "no"
    BY <2>4, <2>5
  <2>9. CASE Owns(p, "advance")
    <3>1. Frozen'
      BY <2>2, <2>8, <2>9, FrozenStays
    <3>. QED  BY <1>1, <1>3, <2>5, <2>7, <3>1, KInvFrame DEF UInv
  <2>10. CASE ~Owns(p, "advance")
    BY <1>1, <1>3, <2>5, <2>8, <2>10, KInvStill DEF UInv
  <2>. QED  BY <2>9, <2>10
<1>5. CASE b.cur.status # "failed"
  <2>1. adv'[p] = release /\ \A q \in Procs \ {p} : adv'[q] = adv[q]
    BY <1>1, <1>2, <1>5, SetAdvFacts
  <2>2. AdvKnows(adv[p])' /\ ~Undoing(adv'[p])
    BY <1>2, <2>1 DEF AdvKnows, Undoing
  <2>3. \A q \in Procs, s \in Steps : adv'[q].at[s] # "no" => adv[q].at[s] # "no"
    BY <1>2, <2>1
  <2>. QED  BY <1>1, <1>3, <2>1, <2>2, <2>3, KInvStill DEF UInv
<1>. QED  BY <1>4, <1>5

LEMMA ReleaseAdvanceKnows ==
  ASSUME IInv, TInv, UInv, NEW p \in Procs, ReleaseAdvance(p), GoOn, Steady
  PROVE  KInv'
<1>1. /\ UNCHANGED <<run, task, sync>> /\ adv[p].pc = "release"
      /\ SetAdv(p, IdleAdvance)
      /\ lease' = IF Owns(p, "advance") THEN NoLease ELSE lease
  BY DEF ReleaseAdvance, Release
<1>2. adv'[p] = IdleAdvance /\ \A q \in Procs \ {p} : adv'[q] = adv[q]
  BY <1>1, IdleAdvanceFacts, SetAdvFacts DEF IInv
<1>3. AdvKnows(adv[p])' /\ ~Undoing(adv'[p]) /\ \A s \in Steps : adv'[p].at[s] = "no"
  BY <1>2, IdleAdvanceFacts, NodeSets DEF AdvKnows, Undoing, Idling
<1>4. \A q \in Procs : Owns(q, "advance")' => Owns(q, "advance")
  BY <1>1, NoLeaseFacts, WorkflowAssumption DEF Owns, Role
<1>5. AtRest' => AtRest
  <2>1. CASE Owns(p, "advance")
    BY <1>1, <2>1 DEF AtRest
  <2>2. CASE ~Owns(p, "advance")
    BY <1>1, <1>2, <2>2, RestStands
  <2>. QED  BY <2>1, <2>2
<1>. QED  BY <1>1, <1>2, <1>3, <1>4, <1>5, KInvStill DEF UInv

-----------------------------------------------------------------------------
(* The run is written.                                                     *)

LEMMA KInvWrite ==
  ASSUME KInv, UNCHANGED task, Unwinding' => Frozen',
         \A q \in Procs : Owns(q, "advance")' => AdvKnows(adv[q])',
         run'.status \notin Ended => SkippedRight(run'.node),
         run'.status = "failed" \/ (AtRest' /\ run'.status \notin Ended) =>
           \A s \in Steps : Knows(s, run'.node[s])
  PROVE  KInv'
<1>1. FrozenOK' /\ AdvancesKnow'
  BY DEF FrozenOK, AdvancesKnow
<1>2. RunKnows'
  BY DEF RunKnows, SkippedRight, Knows
<1>3. OrderOK'
  BY DEF KInv, OrderOK, NewerUndone, Undone
<1>. QED  BY <1>1, <1>2, <1>3 DEF KInv

LEMMA SettleKnows ==
  ASSUME NEW r \in Run, NEW node \in [Nodes -> NodeStatus]
  PROVE  /\ \A s \in Steps : Settle(r, node).node[s] = node[s]
         /\ Settle(r, node).status \notin Ended => Settle(r, node).node = node
         /\ Reads(node) => Settle(r, node).status = "verified_complete"
<1>1. SettledNodes(node) \in [Nodes -> NodeStatus]
  BY SettledNodesType
<1>2. DeriveStatus(SettledNodes(node)) \in RunStatus
  BY DeriveStatusType
<1>3. /\ Settle(r, node).node = SettledNodes(node)
      /\ Settle(r, node).status = DeriveStatus(SettledNodes(node))
  BY <1>1, <1>2, MovedFacts DEF Settle
<1>4. \A s \in Steps : SettledNodes(node)[s] = node[s]
  BY NodeSets DEF SettledNodes
<1>5. Reads(node) => DeriveStatus(SettledNodes(node)) = "verified_complete"
  BY CompleteSettles DEF Reads
<1>6. ~Reads(node) => SettledNodes(node) = node
  BY DEF SettledNodes, Reads
<1>. QED  BY <1>3, <1>4, <1>5, <1>6 DEF Ended

LEMMA NotSkippedByTask ==
  ASSUME TypeOK, NEW n \in Nodes, NEW previous, NodeState(n, previous) = "skipped"
  PROVE  previous = "skipped"
BY DEF NodeState, TypeOK, TaskStatus, Unstarted

LEMMA ResettledKnows ==
  ASSUME TypeOK, run.status \notin Ended, SkippedRight(run.node),
         \A s \in Steps : Knows(s, run.node[s])
  PROVE  /\ \A s \in Steps : Knows(s, Resettled(run).node[s])
         /\ Resettled(run).status \notin Ended =>
              /\ SkippedRight(Resettled(run).node)
              /\ Skips(Resettled(run).node) => Skips(run.node)
<1> DEFINE moved == {n \in Nodes : run.node[n] \in Unknown /\ task[n] # "running"
                                     /\ NodeState(n, run.node[n]) \notin Unknown}
           node == [n \in Nodes |-> IF n \in moved THEN NodeState(n, run.node[n])
                                    ELSE run.node[n]]
<1>1. run \in Run /\ run.node \in [Nodes -> NodeStatus]
  BY DEF TypeOK, Run
<1>2. node \in [Nodes -> NodeStatus]
  BY <1>1, NodeStateType
<1>3. \A s \in Steps : Knows(s, node[s])
  BY NodeStateKnows, NodeSets
<1>4. \A n \in Nodes : node[n] = "skipped" => run.node[n] = "skipped"
  BY NotSkippedByTask
<1>5. SkippedRight(node) /\ (Skips(node) => Skips(run.node))
  BY <1>4, NodeSets DEF SkippedRight, Skips
<1>6. Resettled(run) = run \/ Resettled(run) = Settle(run, node)
  BY DEF Resettled
<1> HIDE DEF node
<1>. QED  BY <1>1, <1>2, <1>3, <1>5, <1>6, SettleKnows

LEMMA RecoverKnows ==
  ASSUME TypeOK, CompleteOK, run.status \notin Ended, RunKnows
  PROVE  /\ \A s \in Steps : Knows(s, RecoverRun(run).node[s])
         /\ RecoverRun(run).status \notin Ended =>
              /\ SkippedRight(RecoverRun(run).node)
              /\ Skips(RecoverRun(run).node) => Skips(run.node)
<1> DEFINE node == RecoverNodes(run)
<1>1. run \in Run /\ run.node \in [Nodes -> NodeStatus]
  BY DEF TypeOK, Run
<1>2. node \in [Nodes -> NodeStatus]
  BY RecoverFacts
<1>3. \A s \in Steps : Knows(s, node[s])
  BY NodeStateKnows, NodeSets DEF RecoverNodes, RunKnows
<1>4. \A n \in Nodes : node[n] = "skipped" => run.node[n] = "skipped"
  BY NotSkippedByTask DEF RecoverNodes
<1>5. SkippedRight(node) /\ (Skips(node) => Skips(run.node))
  BY <1>4, NodeSets DEF SkippedRight, Skips, RunKnows
<1>6. RecoverRun(run) = Settle(run, node) \/ (RecoverRun(run) = run /\ node = run.node)
  BY DEF RecoverRun
<1> HIDE DEF node
<1>. QED  BY <1>1, <1>2, <1>3, <1>5, <1>6, SettleKnows

\* A run recorded failed, by whoever knows its steps, has none in flight.
LEMMA FailedSettles ==
  ASSUME NEW r, r.status = "failed", Told(r), \A s \in Steps : Knows(s, r.node[s])
  PROVE  \A s \in Steps : task[s] \notin Unsettled
BY FailedFacts DEF Told, Knows, UnknownOutcome

LEMMA UnderLeaseKnows ==
  ASSUME IInv, TInv, UInv, NEW p \in Procs, NEW role \in Role \ {"advance"}, NEW after,
         NEW repaired, NEW sweep, UnderLease(p, role, after, repaired, sweep),
         sync[p].pc # "releasing",
         after.status \notin Ended =>
           SkippedRight(after.node) /\ (Skips(after.node) => Unwinding),
         after.status = "failed" \/ ((lease = NoLease \/ repaired) /\ after.status \notin Ended)
           => \A s \in Steps : Knows(s, after.node[s]),
         after.status = "failed" => Frozen
  PROVE  KInv'
<1> DEFINE block == [IdleSync EXCEPT !.pc = "releasing", !.role = role,
                       !.keep = lease # NoLease /\ ~repaired, !.sweep = sweep]
<1>1. /\ run' = after /\ UNCHANGED <<task, adv>> /\ lease' = [owner |-> <<p, role>>, fresh |-> TRUE]
      /\ sync' = [sync EXCEPT ![p] = block]
  BY DEF UnderLease, Hold
<1>2. block.keep = (lease # NoLease /\ ~repaired)
  BY DEF IdleSync
<1> HIDE DEF block
<1>3. sync'[p] = block /\ \A q \in Procs \ {p} : sync'[q] = sync[q]
  BY <1>1 DEF IInv, TypeOK
<1>4. \A q \in Procs, any \in Role : Owns(q, any)' => q = p /\ any = role
  BY <1>1 DEF Owns
<1>5. \A q \in Procs : ~Owns(q, "advance")'
  BY <1>4 DEF Role
<1>6. AtRest' => lease = NoLease \/ repaired
  <2>1. lease'.owner # Nobody
    BY <1>1, WorkflowAssumption
  <2>2. ASSUME NEW q \in Procs, sync'[q].pc = "releasing", Owns(q, sync[q].role)', ~sync'[q].keep
        PROVE  lease = NoLease \/ repaired
    <3>1. q = p
      BY <1>1, <2>2 DEF Owns
    <3>. QED  BY <1>2, <1>3, <2>2, <3>1
  <2>3. AtRest' => \/ lease'.owner = Nobody
                   \/ \E q \in Procs : Owns(q, "advance")'
                   \/ \E q \in Procs : /\ sync'[q].pc = "releasing"
                                       /\ Owns(q, sync[q].role)' /\ ~sync'[q].keep
    BY DEF AtRest, Owns
  <2>. QED  BY <1>5, <2>1, <2>2, <2>3
<1>7. Frozen' = Frozen
  BY <1>1 DEF Frozen
<1>8. Unwinding' => Frozen
  BY <1>1, <1>5 DEF Unwinding, Begun, UInv, KInv, FrozenOK
<1>. QED  BY <1>1, <1>5, <1>6, <1>7, <1>8, KInvWrite DEF UInv

LEMMA AcquireKnows ==
  ASSUME IInv, TInv, UInv, NEW p \in Procs, Begin(p) \/ Recovered(p), Acquire(p)
  PROVE  KInv'
<1> DEFINE r == Resettled(run)
           halt == [IdleAdvance EXCEPT !.pc = "release", !.cur = run]
           sweep == [IdleAdvance EXCEPT !.pc = "cancel", !.cur = r]
<1>1. /\ TypeOK /\ CompleteOK /\ run \in Run /\ Told(run) /\ BegunDead /\ RunKnows
      /\ UNCHANGED task /\ Begun' = Begun /\ LInv /\ FrozenOK
  BY NoChange DEF Begin, Recovered, IInv, TypeOK, TInv, UInv, KInv
<1>2. /\ NoneLeased
      /\ lease = NoLease \/ run.status \in Ended
  BY <1>1, AcquireAlone
<1>3. \A q \in Procs : Owns(q, "advance")' <=> q = p
  BY DEF Acquire, Hold, Owns
<1>4. \A q \in Procs, s \in Steps : adv[q].at[s] = "no"
  BY <1>2, NotLeasedIdles, NodeSets DEF NoneLeased
<1>5. run.status \notin Ended => \A s \in Steps : Knows(s, run.node[s])
  BY <1>1, <1>2, FreeIsUnowned DEF RunKnows
<1>6. CASE run.status \in Ended \union {"paused"}
  <2>1. SetAdv(p, halt) /\ run' = run
    BY <1>6 DEF Acquire
  <2>2. halt \in Advance /\ halt.pc = "release" /\ halt.at = IdleAdvance.at
    BY <1>1, IdleAdvanceFacts DEF Advance
  <2> HIDE DEF halt
  <2>3. adv'[p] = halt /\ \A q \in Procs \ {p} : adv'[q] = adv[q]
    BY <1>1, <2>1, <2>2, SetAdvFacts
  <2>4. \A q \in Procs, s \in Steps : adv'[q].at[s] = "no"
    BY <1>4, <2>2, <2>3, IdleAdvanceFacts, NodeSets DEF Idling
  <2>5. AdvKnows(adv[p])' /\ ~Undoing(adv'[p])
    BY <2>2, <2>3 DEF AdvKnows, Undoing
  <2>6. Unwinding' => Frozen
    BY <1>1, <1>3, <2>1, <2>5 DEF Unwinding, FrozenOK
  <2>7. Unwinding' => Frozen'
    BY <1>1, <2>4, <2>6 DEF Frozen
  <2>8. run.status \notin Ended => SkippedRight(run.node)
    BY <1>1 DEF RunKnows
  <2>9. run.status # "failed"
    BY <1>6 DEF Ended
  <2>. QED  BY <1>1, <1>3, <1>5, <2>1, <2>5, <2>7, <2>8, <2>9, KInvWrite DEF UInv
<1>7. CASE run.status \notin Ended \union {"paused"}
  <2>1. /\ r \in Run /\ r.status \notin {"cancelled", "paused"}
        /\ r.status = "verified_complete" => Reads(r.node)
        /\ Told(r) /\ (Cause(run.node) => Cause(r.node))
    BY <1>1, <1>7, ResettledFacts, ResettledTold
  <2>2. /\ \A s \in Steps : Knows(s, r.node[s])
        /\ r.status # "verified_complete" =>
             /\ SkippedRight(r.node)
             /\ Skips(r.node) => Skips(run.node)
    <3>1. SkippedRight(run.node)
      BY <1>1, <1>7 DEF RunKnows
    <3>. QED  BY <1>1, <1>5, <1>7, <2>1, <3>1, ResettledKnows DEF Ended
  <2>3. run' = r /\ SetAdv(p, IF ToSweep(run, r) = {} THEN Wave(r) ELSE sweep)
    BY <1>7 DEF Acquire
  <2>4. (Begun \/ Skips(run.node)) => Cause(run.node)
    <3>1. Begun => Cause(run.node)
      BY <1>1, <1>2, <1>7, FreeIsUnowned DEF TInv, Recorded, Ended
    <3>. QED  BY <1>1, <1>7, <3>1 DEF Told, Ended
  <2> HIDE DEF r
  <2>5. sweep \in Advance /\ sweep.pc = "cancel" /\ sweep.at = IdleAdvance.at
    BY <2>1, IdleAdvanceFacts DEF Advance
  <2>6. /\ Wave(r) \in Advance /\ Wave(r).pc \in {"release", "undo", "wave"}
        /\ AdvOK(Wave(r), r, TRUE) /\ Apart(Wave(r))
        /\ Cause(r.node) => Wave(r).pc \in {"release", "undo"}
        /\ AdvKnows(Wave(r))
    BY <1>1, <2>1, <2>2, <2>4, WaveFacts, WaveTold, WaveKnows
  <2>7. Wave(r).pc = "undo" => r.status = "failed"
    <3>1. Rollback(r) # {} => r.status = "failed"
      BY DEF Rollback
    <3>2. \/ Wave(r).pc # "undo"
          \/ Rollback(r) # {}
      BY IdleAdvanceFacts DEF Wave, Advance
    <3>. QED  BY <3>1, <3>2
  <2> HIDE DEF sweep
  <2>8. PICK a \in Advance : /\ SetAdv(p, a) /\ AdvKnows(a)
                             /\ a.pc = "undo" => r.status = "failed"
                             /\ a.pc # "commit"
                             /\ Cause(r.node) => \A s \in Steps : a.at[s] = "no"
    <3>1. CASE ToSweep(run, r) = {}
      <4>1. Cause(r.node) => \A s \in Steps : Wave(r).at[s] = "no"
        BY <2>6, NodeSets DEF Apart, AdvOK, Idling
      <4>. QED  BY <2>3, <2>6, <2>7, <3>1, <4>1
    <3>2. CASE ToSweep(run, r) # {}
      <4>1. AdvKnows(sweep)
        BY <2>5 DEF AdvKnows
      <4>2. \A s \in Steps : sweep.at[s] = "no"
        BY <2>5, IdleAdvanceFacts, NodeSets DEF Idling
      <4>. QED  BY <2>3, <2>5, <3>2, <4>1, <4>2
    <3>. QED  BY <3>1, <3>2
  <2>9. adv'[p] = a /\ \A q \in Procs \ {p} : adv'[q] = adv[q]
    BY <1>1, <2>8, SetAdvFacts
  <2>10. AdvKnows(adv[p])'
    BY <1>1, <2>8, <2>9
    DEF AdvKnows, Knows, After, SkippedRight, UnknownOutcome, LeftOK, Undone, NewerUndone
  <2>11. r.status = "failed" => Cause(r.node) /\ \A s \in Steps : task[s] \notin Unsettled
    BY <2>1, <2>2, FailedFacts, FailedSettles DEF Told
  <2>12. Unwinding' => Cause(r.node) /\ \A s \in Steps : task[s] \notin Unsettled
    <3>1. Begun \/ Skips(run.node) => \A s \in Steps : task[s] \notin Unsettled
      BY <1>1, <1>7 DEF FrozenOK, Unwinding, Frozen
    <3>2. Unwinding' => \/ Begun \/ r.status = "failed"
                        \/ r.status \notin Ended /\ Skips(r.node)
                        \/ Undoing(a)
      BY <1>1, <1>3, <2>3, <2>9 DEF Unwinding
    <3>3. Undoing(a) => r.status = "failed"
      BY <2>8 DEF Undoing
    <3>. QED  BY <2>1, <2>2, <2>4, <2>11, <3>1, <3>2, <3>3 DEF Ended
  <2>13. Unwinding' => Frozen'
    <3>1. Unwinding' => \A q \in Procs, s \in Steps : adv'[q].at[s] = "no"
      BY <1>4, <2>8, <2>9, <2>12
    <3>. QED  BY <1>1, <2>12, <3>1 DEF Frozen
  <2>14. run'.status \notin Ended => SkippedRight(run'.node)
    BY <2>2, <2>3 DEF Ended
  <2>. QED  BY <1>1, <1>3, <2>2, <2>3, <2>10, <2>13, <2>14, KInvWrite DEF UInv
<1>. QED  BY <1>6, <1>7

LEMMA BeginKnows ==
  ASSUME IInv, TInv, UInv, NEW p \in Procs, Begin(p) \/ Recovered(p), GoOn, Steady
  PROVE  KInv'
<1> DEFINE go == [IdleAdvance EXCEPT !.pc = "recover"]
<1>1. CASE ~Acquire(p)
  <2>1. go \in Advance /\ go.pc = "recover" /\ go.at = IdleAdvance.at
    BY IdleAdvanceFacts DEF Advance
  <2>2. /\ SetAdv(p, go) \/ SetAdv(p, IdleAdvance)
        /\ UNCHANGED <<run, lease, task, sync>>
    BY <1>1 DEF Begin, Recovered
  <2> HIDE DEF go
  <2>3. PICK a \in Advance : /\ SetAdv(p, a) /\ a.pc \in {"idle", "recover"}
                             /\ \A s \in Steps : a.at[s] = "no"
    BY <2>1, <2>2, IdleAdvanceFacts, NodeSets DEF Idling
  <2>4. adv'[p] = a /\ \A q \in Procs \ {p} : adv'[q] = adv[q]
    BY <2>3, SetAdvFacts DEF IInv
  <2>5. AdvKnows(adv[p])' /\ ~Undoing(adv'[p])
    BY <2>3, <2>4 DEF AdvKnows, Undoing
  <2>6. AtRest' => AtRest
    BY <2>2, <2>3, <2>4, RestStands
  <2>7. \A q \in Procs : Owns(q, "advance")' = Owns(q, "advance")
    BY <2>2 DEF Owns
  <2>8. \A q \in Procs, s \in Steps : adv'[q].at[s] # "no" => adv[q].at[s] # "no"
    BY <2>3, <2>4
  <2>. QED  BY <2>2, <2>4, <2>5, <2>6, <2>7, <2>8, KInvStill DEF UInv
<1>. QED  BY <1>1, AcquireKnows

LEMMA CommitKnows ==
  ASSUME IInv, TInv, UInv, NEW p \in Procs, Commit(p), GoOn, Steady
  PROVE  KInv'
<1> DEFINE b == adv[p]
           release == [b EXCEPT !.pc = "release"]
           cancel == [b EXCEPT !.pc = "cancel"]
<1>1. /\ b \in Advance /\ b.pc = "commit" /\ b.cur \in Run /\ Idling(b)
      /\ UNCHANGED <<task, sync>> /\ TypeOK
  BY DEF Commit, IInv, TypeOK, Advance, AdvancesOK, AdvOK
<1>2. /\ release \in Advance /\ release.pc = "release" /\ release.at = b.at
      /\ cancel \in Advance /\ cancel.pc = "cancel" /\ cancel.at = b.at
  BY <1>1 DEF Advance
<1>3. SetAdv(p, release) \/ SetAdv(p, cancel)
  BY DEF Commit
<1> HIDE DEF release, cancel
<1>4. PICK a \in Advance : /\ SetAdv(p, a) /\ a.at = b.at
                           /\ a.pc \in {"release", "cancel"}
  BY <1>2, <1>3
<1>5. adv'[p] = a /\ \A q \in Procs \ {p} : adv'[q] = adv[q]
  BY <1>1, <1>4, SetAdvFacts
<1>6. AdvKnows(adv[p])' /\ ~Undoing(adv'[p])
  BY <1>4, <1>5 DEF AdvKnows, Undoing
<1>7. \A q \in Procs, s \in Steps : adv'[q].at[s] # "no" => adv[q].at[s] # "no"
  BY <1>4, <1>5
<1>8. CASE ~Owns(p, "advance")
  <2>1. UNCHANGED <<run, lease>>
    BY <1>8 DEF Commit, StillLeased
  <2>2. AtRest' => AtRest
    BY <1>1, <1>5, <1>8, <2>1, RestStands
  <2>3. \A q \in Procs : Owns(q, "advance")' = Owns(q, "advance")
    BY <2>1 DEF Owns
  <2>. QED  BY <1>1, <1>5, <1>6, <1>7, <1>8, <2>1, <2>2, <2>3, KInvStill DEF UInv
<1>9. CASE Owns(p, "advance")
  <2>1. /\ b.cur = run /\ b.cur.status # "cancelled"
        /\ b.cur.status = "verified_complete" => \A n \in Nodes : b.res[n] = "none"
    BY <1>1, <1>9 DEF IInv, AdvancesOK, AdvOK, Working
  <2>2. /\ run' = Settle(run, After(b)) /\ lease' = [owner |-> <<p, "advance">>, fresh |-> TRUE]
    BY <1>9, <2>1 DEF Commit, StillLeased, Current, Hold
  <2>3. \A q \in Procs : Owns(q, "advance")' <=> q = p
    BY <2>2 DEF Owns
  <2>4. After(b) \in [Nodes -> NodeStatus]
    BY <1>1 DEF After, Advance, Run
  <2>5. AdvKnows(b) /\ FrozenOK
    BY <1>9 DEF UInv, KInv, AdvancesKnow
  <2>6. \A s \in Steps : Knows(s, After(b)[s])
    BY <1>1, <2>5, NodeSets DEF AdvKnows, Idling
  <2>7. b.cur.status = "verified_complete" => run'.status = "verified_complete"
    <3>. SUFFICES ASSUME b.cur.status = "verified_complete"
                  PROVE  run'.status = "verified_complete"
      OBVIOUS
    <3>1. run.node \in [Nodes -> NodeStatus] /\ Reads(run.node)
      BY <1>1, <2>1 DEF IInv, CompleteOK, TypeOK, Run
    <3>2. After(b) = run.node
      BY <2>1, <3>1 DEF After
    <3>. QED  BY <1>1, <2>1, <2>2, <2>4, <3>1, <3>2, SettleKnows
  <2>8. /\ \A s \in Steps : Knows(s, run'.node[s])
        /\ run'.status \notin Ended => run'.node = After(b) /\ b.cur.status # "verified_complete"
    BY <1>1, <2>1, <2>2, <2>4, <2>6, <2>7, SettleKnows DEF Ended
  <2>9. run'.status \notin Ended => SkippedRight(run'.node)
    BY <1>1, <2>5, <2>8 DEF AdvKnows
  <2>10. run'.status = "failed" => \A s \in Steps : task[s] \notin Unsettled
    <3>. SUFFICES ASSUME run'.status = "failed" PROVE \A s \in Steps : task[s] \notin Unsettled
      OBVIOUS
    <3>1. run'.node = After(b)
      BY <2>8 DEF Ended
    <3>2. DeriveStatus(SettledNodes(After(b))) = "failed"
      BY <2>1, <2>2, <2>4, SettleFacts DEF IInv, TypeOK
    <3>3. ~UnknownOutcome(After(b))
      <4>1. \A s \in Steps : SettledNodes(After(b))[s] = After(b)[s]
        BY NodeSets DEF SettledNodes
      <4>. QED  BY <3>2, <4>1, FailedFacts DEF UnknownOutcome
    <3>. QED  BY <2>6, <3>3 DEF Knows, UnknownOutcome
  <2>11. run'.status \notin Ended /\ Skips(run'.node) => Frozen
    BY <1>1, <1>9, <2>5, <2>8, OwnerFrozen
  <2>12. Unwinding' => \A s \in Steps : task[s] \notin Unsettled
    <3>1. Unwinding' => \/ Begun \/ run'.status = "failed"
                        \/ run'.status \notin Ended /\ Skips(run'.node)
      BY <1>1, <1>6, <2>3, NoChange DEF Unwinding
    <3>. QED  BY <2>5, <2>10, <2>11, <3>1 DEF FrozenOK, Unwinding, Frozen
  <2>13. \A q \in Procs, s \in Steps : adv'[q].at[s] = "no"
    <3>1. \A s \in Steps : b.at[s] = "no"
      BY <1>1, NodeSets DEF Idling
    <3>2. \A q \in Procs \ {p}, s \in Steps : adv[q].at[s] = "no"
      BY <1>9, OthersIdle, NodeSets DEF UInv
    <3>. QED  BY <1>4, <1>5, <3>1, <3>2
  <2>14. Unwinding' => Frozen'
    BY <1>1, <2>12, <2>13 DEF Frozen
  <2>. QED  BY <1>1, <1>6, <2>3, <2>8, <2>9, <2>14, KInvWrite DEF UInv
<1>. QED  BY <1>8, <1>9

LEMMA RepairRunKnows ==
  ASSUME IInv, TInv, UInv, NEW p \in Procs, RepairRun(p), GoOn, Steady
  PROVE  KInv'
<1>1. sync[p].pc = "listed" /\ sync[p].pc # "releasing"
  BY DEF RepairRun
<1>2. CASE Takeable(p, "recovery")
  <2> DEFINE after == IF Unmoved(p) THEN RecoverRun(run) ELSE run
  <2>1. UnderLease(p, "recovery", after, Unmoved(p), ToSweep(run, after))
    BY <1>2 DEF RepairRun
  <2>2. NoneLeased
    BY <1>1, <1>2, RepairAlone DEF UInv
  <2>3. \A q \in Procs, s \in Steps : adv[q].at[s] = "no"
    BY <2>2, NotLeasedIdles, NodeSets DEF NoneLeased
  <2>4. /\ TypeOK /\ CompleteOK /\ Told(run) /\ BegunDead /\ RunKnows /\ FrozenOK
    BY DEF IInv, TInv, UInv, KInv
  <2>5. Unmoved(p) => run.status \notin Ended
    BY <1>1 DEF Unmoved, IInv, ListedOK, Abandonable, Recoverable, Ended
  <2>6. Told(after) /\ (Unmoved(p) \/ after = run)
    BY <2>4, <2>5, RecoverTold
  <2>7. after.status \notin Ended =>
          SkippedRight(after.node) /\ (Skips(after.node) => Unwinding)
    <3>1. CASE Unmoved(p)
      BY <2>4, <2>5, <3>1, RecoverKnows DEF Unwinding
    <3>2. CASE ~Unmoved(p)
      BY <2>4, <3>2 DEF RunKnows, Unwinding
    <3>. QED  BY <3>1, <3>2
  <2>8. after.status = "failed" \/ ((lease = NoLease \/ Unmoved(p)) /\ after.status \notin Ended)
          => \A s \in Steps : Knows(s, after.node[s])
    <3>1. CASE Unmoved(p)
      BY <2>4, <2>5, <3>1, RecoverKnows
    <3>2. CASE ~Unmoved(p)
      BY <2>4, <3>2, FreeIsUnowned DEF RunKnows
    <3>. QED  BY <3>1, <3>2
  <2> HIDE DEF after
  <2>9. after.status = "failed" => Frozen
    BY <2>3, <2>6, <2>8, FailedSettles DEF Frozen
  <2>. QED  BY <1>1, <2>1, <2>7, <2>8, <2>9, UnderLeaseKnows DEF Role
<1>3. CASE ~Takeable(p, "recovery")
  <2>1. sync' = [sync EXCEPT ![p] = IdleSync] /\ UNCHANGED <<run, lease, task, adv>>
    BY <1>3 DEF RepairRun, db
  <2>2. sync'[p] = IdleSync /\ \A q \in Procs \ {p} : sync'[q] = sync[q]
    BY <2>1 DEF IInv, TypeOK
  <2>3. AtRest' => AtRest
    BY <2>1, <2>2, IdleSyncFacts DEF AtRest, Owns
  <2>4. \A q \in Procs : Owns(q, "advance")' = Owns(q, "advance")
    BY <2>1 DEF Owns
  <2>5. \A u \in Undos : task'[u] = task[u]
    BY <2>1
  <2>. QED  BY <2>1, <2>3, <2>4, <2>5, StillKnows
<1>. QED  BY <1>2, <1>3

LEMMA ListRunKnows ==
  ASSUME IInv, TInv, UInv, NEW p \in Procs, NEW abandonedOnly \in BOOLEAN,
         ListRun(p, abandonedOnly), GoOn, Steady
  PROVE  KInv'
<1> DEFINE block == [IdleSync EXCEPT !.pc = "listed", !.version = run.version,
                                     !.role = "recovery"]
<1>1. sync' = [sync EXCEPT ![p] = block] /\ UNCHANGED <<run, lease, task, adv>>
  BY DEF ListRun, db
<1>2. block.pc = "listed"
  BY DEF IdleSync
<1> HIDE DEF block
<1>3. sync'[p] = block /\ \A q \in Procs \ {p} : sync'[q] = sync[q]
  BY <1>1 DEF IInv, TypeOK
<1>4. AtRest' => AtRest
  BY <1>1, <1>2, <1>3 DEF AtRest, Owns
<1>5. \A q \in Procs : Owns(q, "advance")' = Owns(q, "advance")
  BY <1>1 DEF Owns
<1>6. \A u \in Undos : task'[u] = task[u]
  BY <1>1
<1>. QED  BY <1>1, <1>4, <1>5, <1>6, StillKnows

LEMMA OperatorKnows ==
  ASSUME IInv, TInv, UInv, NEW p \in Procs, Operator(p)
  PROVE  KInv'
<1>1. /\ run \in Run /\ Told(run) /\ RunKnows /\ FrozenOK
      /\ lease = NoLease => AtRest
  BY FreeIsUnowned DEF IInv, TypeOK, TInv, UInv, KInv
<1>2. sync[p].pc # "releasing"
  BY DEF Operator, Pause, Resume, Refused, Cancel, Control, Free
<1>3. CASE Cancel(p)
  <2> DEFINE after == Moved(run, "cancelled", CancelledNodes)
  <2>1. UnderLease(p, "control", after, FALSE, Nodes)
    BY <1>3 DEF Cancel
  <2>2. after.status = "cancelled"
    <3>1. CancelledNodes \in [Nodes -> NodeStatus]
      BY CancelledNodesType DEF IInv
    <3>. QED  BY <1>1, <3>1, MovedFacts DEF RunStatus, Ended
  <2> HIDE DEF after
  <2>. QED  BY <1>2, <2>1, <2>2, UnderLeaseKnows DEF Role, Ended
<1>4. CASE Pause(p) \/ Resume(p)
  <2>1. PICK status \in RunStatus \ {"failed"} : \E swept :
          /\ UnderLease(p, "control", Moved(run, status, run.node), FALSE, swept)
          /\ run.status \notin Ended
    <3>1. CASE Pause(p)
      BY <3>1 DEF Pause, RunStatus, Ended
    <3>2. CASE Resume(p)
      <4>1. run.status = "paused" /\ DeriveStatus(run.node) # "failed"
        BY <1>1, <3>2 DEF Resume, Told
      <4>. QED  BY <3>2, <4>1, DeriveStatusType DEF Resume, Ended
    <3>. QED  BY <1>4, <3>1, <3>2
  <2>5. PICK sweep :
          /\ UnderLease(p, "control", Moved(run, status, run.node), FALSE, sweep)
          /\ run.status \notin Ended
    BY <2>1
  <2> DEFINE after == Moved(run, status, run.node)
  <2>2. after.status = status /\ after.node = run.node
    BY <1>1, MovedFacts DEF Run
  <2> HIDE DEF after
  <2>3. /\ SkippedRight(run.node) /\ (Skips(run.node) => Unwinding)
        /\ lease = NoLease => \A s \in Steps : Knows(s, run.node[s])
    BY <1>1, <2>5 DEF RunKnows, Unwinding
  <2>4. UnderLease(p, "control", after, FALSE, sweep)
    BY <2>5 DEF after
  <2>. QED  BY <1>2, <2>5, <2>2, <2>3, <2>4, UnderLeaseKnows DEF Role
<1>5. CASE Refused(p)
  <2>1. UnderLease(p, "control", run, FALSE, {})
    BY <1>5 DEF Refused
  <2>2. run.status \notin Ended => SkippedRight(run.node) /\ (Skips(run.node) => Unwinding)
    BY <1>1 DEF RunKnows, Unwinding
  <2>3. run.status = "failed" \/ (lease = NoLease /\ run.status \notin Ended)
          => \A s \in Steps : Knows(s, run.node[s])
    BY <1>1 DEF RunKnows
  <2>4. run.status = "failed" => Frozen
    BY <1>1 DEF FrozenOK, Unwinding
  <2>. QED  BY <1>2, <2>1, <2>2, <2>3, <2>4, UnderLeaseKnows DEF Role
<1>. QED  BY <1>3, <1>4, <1>5 DEF Operator

LEMMA ReleaseSyncKnows ==
  ASSUME IInv, TInv, UInv, NEW p \in Procs, ReleaseSync(p), GoOn, Steady
  PROVE  KInv'
<1>1. /\ UNCHANGED <<run, adv>> /\ (AtRest' => AtRest)
      /\ lease'.owner = lease.owner \/ lease'.owner = Nobody
  BY ReleaseSyncFacts
<1>2. \A q \in Procs : Owns(q, "advance")' => Owns(q, "advance")
  BY <1>1, WorkflowAssumption DEF Owns, Role
<1>3. \A u \in Undos : task'[u] # "none" => task[u] # "none"
  BY NodeSets DEF ReleaseSync, Cancelled, Unstarted
<1>. QED  BY <1>1, <1>2, <1>3, StillKnows

LEMMA CrashKnows ==
  ASSUME IInv, TInv, UInv, NEW p \in Procs, Crash(p), GoOn, Steady
  PROVE  KInv'
<1>1. /\ UNCHANGED <<run, task>> /\ (AtRest' => AtRest)
      /\ adv'[p] = IdleAdvance /\ \A q \in Procs \ {p} : adv'[q] = adv[q]
      /\ \A q \in Procs : Owns(q, "advance")' => q # p /\ Owns(q, "advance")
  BY CrashFacts DEF Role
<1>2. \A q \in Procs, s \in Steps : adv'[q].at[s] # "no" => adv[q].at[s] # "no"
  BY <1>1, IdleAdvanceFacts, NodeSets DEF Idling
<1>3. \A u \in Undos : task'[u] = task[u]
  BY <1>1
<1>. QED  BY <1>1, <1>2, <1>3, KInvStill DEF UInv

LEMMA FreshKnows ==
  ASSUME IInv, TInv, UInv, Lapse \/ \E p \in Procs : Renew(p), GoOn, Steady
  PROVE  KInv'
<1>1. UNCHANGED <<run, task, adv, sync>> /\ lease'.owner = lease.owner
  BY DEF Lapse, Renew, IInv, TypeOK, Lease
<1>2. AtRest' => AtRest
  BY <1>1, RestStands
<1>3. \A q \in Procs : Owns(q, "advance")' = Owns(q, "advance")
  BY <1>1 DEF Owns
<1>4. \A u \in Undos : task'[u] = task[u]
  BY <1>1
<1>. QED  BY <1>1, <1>2, <1>3, <1>4, StillKnows

LEMMA TasksKnow ==
  ASSUME IInv, TInv, UInv, NEW n \in Nodes,
         \/ \E p \in Procs : RecoverTask(p, n) \/ Execute(p, n)
         \/ Approve(n) \/ Deny(n) \/ Reconcile(n) \/ Happens(n),
         GoOn, Steady, \A m \in Nodes : task'[m] # "none" => task[m] # "none"
  PROVE  KInv'
<1>1. UNCHANGED <<run, lease, adv, sync>>
  BY DEF RecoverTask, Execute, Approve, Deny, Reconcile, Happens, db
<1>2. AtRest' => AtRest
  BY <1>1, RestStands
<1>3. \A q \in Procs : Owns(q, "advance")' = Owns(q, "advance")
  BY <1>1 DEF Owns
<1>. QED  BY <1>1, <1>2, <1>3, NodeSets, StillKnows

\* An advance at work is not at rest once it has moved on.
LEMMA WorkRests ==
  ASSUME IInv, TInv, NEW p \in Procs,
         \/ WaveEnds(p) \/ UndoNext(p) \/ CancelForward(p)
         \/ \E n \in Nodes : TakeUp(p, n) \/ StartStep(p, n) \/ TaskEnds(p, n)
  PROVE  AtRest' => AtRest
<1>1. UNCHANGED sync /\ lease'.owner = lease.owner
  <2>1. UNCHANGED lease \/ (Owns(p, "advance") /\ Hold(p, "advance"))
    BY DEF WaveEnds, UndoNext, CancelForward, TakeUp, StartStep, TaskEnds, db, StillLeased
  <2>2. UNCHANGED sync
    BY DEF WaveEnds, UndoNext, CancelForward, TakeUp, StartStep, TaskEnds
  <2>. QED  BY <2>1, <2>2 DEF Hold, Owns
<1>2. \A q \in Procs : adv'[q].pc \in {"cancel", "release"} => adv[q].pc \in {"cancel", "release"}
  <2>1. CASE WaveEnds(p) \/ UndoNext(p)
    <3>1. PICK a : SetAdv(p, a) /\ a.pc \in {"undo", "commit"}
      <4>1. adv[p] \in Advance
        BY DEF IInv, TypeOK
      <4> DEFINE commit == [adv[p] EXCEPT !.pc = "commit"]
                 undo == [adv[p] EXCEPT !.pc = "undo", !.left =
                            {u \in Undos : adv[p].cur.node[u] = "pending"}]
                 u == Newest(adv[p].left)
                 stop == [adv[p] EXCEPT !.left = {}]
                 todo == [adv[p] EXCEPT !.left = @ \ {u}, !.at[u] = "todo"]
                 skip == [adv[p] EXCEPT !.left = @ \ {u}, !.res[u] = "skipped"]
      <4>2. /\ commit.pc = "commit" /\ undo.pc = "undo"
            /\ \A a \in {stop, todo, skip} : a.pc = adv[p].pc
        BY <4>1 DEF Advance
      <4>3. CASE WaveEnds(p)
        <5>1. SetAdv(p, undo) \/ SetAdv(p, commit)
          BY <4>3 DEF WaveEnds
        <5> HIDE DEF undo, commit, stop, todo, skip
        <5>. QED  BY <4>2, <5>1
      <4>4. CASE UndoNext(p)
        <5>1. /\ SetAdv(p, commit) \/ SetAdv(p, stop) \/ SetAdv(p, todo) \/ SetAdv(p, skip)
              /\ adv[p].pc = "undo"
          BY <4>4 DEF UndoNext
        <5> HIDE DEF undo, commit, stop, todo, skip
        <5>. QED  BY <4>2, <5>1
      <4>. QED  BY <2>1, <4>3, <4>4
    <3>. QED  BY <3>1 DEF SetAdv, IInv, TypeOK
  <2>2. CASE CancelForward(p)
    BY <2>2 DEF CancelForward, SetAdv, IInv, TypeOK
  <2>3. CASE \E n \in Nodes : TakeUp(p, n) \/ StartStep(p, n) \/ TaskEnds(p, n)
    <3>1. PICK n \in Nodes : TakeUp(p, n) \/ StartStep(p, n) \/ TaskEnds(p, n)
      BY <2>3
    <3>2. \A at, state : /\ Result(adv[p], n, state).pc = adv[p].pc
                         /\ Refuse(adv[p], n).pc = adv[p].pc
                         /\ [adv[p] EXCEPT !.at[n] = at].pc = adv[p].pc
      BY DEF Result, Refuse, IInv, TypeOK, Advance
    <3>3. \/ UNCHANGED adv
          \/ \E state : adv' = [adv EXCEPT ![p] = Result(@, n, state)]
          \/ adv' = [adv EXCEPT ![p] = Refuse(@, n)]
          \/ \E at : adv' = [adv EXCEPT ![p] = [adv[p] EXCEPT !.at[n] = at]]
      BY <3>1 DEF TakeUp, StartStep, TaskEnds, SetAdv
    <3>. QED  BY <3>2, <3>3 DEF IInv, TypeOK
  <2>. QED  BY <2>1, <2>2, <2>3
<1>. QED  BY <1>1, <1>2, RestStands

LEMMA NextKInv == IInv /\ TInv /\ UInv /\ [Next]_vars => KInv'
<1>. SUFFICES ASSUME IInv, TInv, UInv, [Next]_vars PROVE KInv'
  OBVIOUS
<1>1. /\ GoOn
      /\ Steady \/ \E p \in Procs, s \in Steps : StartStep(p, s)
      /\ \A n \in Nodes : task[n] = "none" /\ task'[n] # "none" =>
           \E p \in Procs : TakeUp(p, n)
  BY TaskWays DEF UInv, LInv, Quiet
<1>2. CASE \E p \in Procs, n \in Nodes : StartStep(p, n)
  <2>1. CASE Steady
    <3>1. PICK p \in Procs, n \in Nodes : StartStep(p, n)
      BY <1>2
    <3>2. AtRest' => AtRest
      BY <3>1, WorkRests
    <3>. QED  BY <1>1, <2>1, <3>1, <3>2, StartStepKnows
  <2>2. CASE ~Steady
    <3>1. PICK p \in Procs, s \in Steps : StartStep(p, s)
      BY <1>1, <2>2
    <3>2. s \in Nodes /\ ~UNCHANGED task
      BY <2>2, NodeSets DEF Steady, Onward
    <3>3. AtRest' => AtRest
      BY <3>1, <3>2, WorkRests
    <3>. QED  BY <1>1, <3>1, <3>2, <3>3, StartStepKnows
  <2>. QED  BY <2>1, <2>2
<1>3. CASE \E p \in Procs, n \in Nodes : TakeUp(p, n)
  <2>1. PICK p \in Procs, n \in Nodes : TakeUp(p, n)
    BY <1>3
  <2>2. AtRest' => AtRest
    BY <2>1, WorkRests
  <2>3. CASE Steady
    BY <1>1, <2>1, <2>2, <2>3, TakeUpKnows
  <2>4. CASE ~Steady
    BY <1>1, <1>2, <2>4, NodeSets
  <2>. QED  BY <2>3, <2>4
<1>4. CASE /\ ~\E p \in Procs, n \in Nodes : StartStep(p, n)
           /\ ~\E p \in Procs, n \in Nodes : TakeUp(p, n)
  <2>1. Steady /\ \A n \in Nodes : task'[n] # "none" => task[n] # "none"
    BY <1>1, <1>4, NodeSets
  <2>2. ASSUME NEW p \in Procs,
               \/ WaveEnds(p) \/ UndoNext(p) \/ CancelForward(p)
               \/ \E n \in Nodes : TaskEnds(p, n)
        PROVE  KInv'
    <3>1. AtRest' => AtRest
      BY <2>2, WorkRests
    <3>2. (\E n \in Nodes : TaskEnds(p, n)) => KInv'
      BY <1>1, <2>1, <3>1, TaskEndsKnows
    <3>3. WaveEnds(p) => KInv'
      BY <1>1, <2>1, <3>1, WaveEndsKnows
    <3>4. UndoNext(p) => KInv'
      BY <1>1, <2>1, <3>1, UndoNextKnows
    <3>5. CancelForward(p) => KInv'
      BY <1>1, <2>1, <3>1, CancelForwardKnows
    <3>. QED  BY <2>2, <3>2, <3>3, <3>4, <3>5
  <2>3. ASSUME NEW p \in Procs,
               Begin(p) \/ Recovered(p) \/ Commit(p) \/ ReleaseAdvance(p)
        PROVE  KInv'
    BY <1>1, <2>1, <2>3, BeginKnows, CommitKnows, ReleaseAdvanceKnows
  <2>4. ASSUME NEW p \in Procs, NEW abandonedOnly \in BOOLEAN,
               ListRun(p, abandonedOnly) \/ RepairRun(p) \/ ReleaseSync(p)
        PROVE  KInv'
    BY <1>1, <2>1, <2>4, ListRunKnows, RepairRunKnows, ReleaseSyncKnows
  <2>5. ASSUME NEW p \in Procs, Operator(p) \/ Crash(p) PROVE KInv'
    BY <1>1, <2>1, <2>5, OperatorKnows, CrashKnows
  <2>6. ASSUME NEW n \in Nodes,
               \/ \E p \in Procs : RecoverTask(p, n) \/ Execute(p, n)
               \/ Approve(n) \/ Deny(n) \/ Reconcile(n) \/ Happens(n)
        PROVE  KInv'
    BY <1>1, <2>1, <2>6, TasksKnow
  <2>7. Lapse \/ (\E p \in Procs : Renew(p)) => KInv'
    BY <1>1, <2>1, FreshKnows
  <2>8. CASE UNCHANGED vars
    <3>1. UNCHANGED <<run, lease, task, adv, sync>>
      BY <2>8 DEF vars, db
    <3>2. AtRest' => AtRest
      BY <3>1, RestStands
    <3>3. \A q \in Procs : Owns(q, "advance")' = Owns(q, "advance")
      BY <3>1 DEF Owns
    <3>4. \A u \in Undos : task'[u] = task[u]
      BY <3>1
    <3>. QED  BY <1>1, <2>1, <3>1, <3>2, <3>3, <3>4, StillKnows
  <2>. QED  BY <1>4, <2>2, <2>3, <2>4, <2>5, <2>6, <2>7, <2>8 DEF Next, Advances, Sweeps
<1>. QED  BY <1>2, <1>3, <1>4

LEMMA InitUInv == Quiet /\ Init => UInv
<1>. SUFFICES ASSUME Quiet, Init PROVE UInv
  OBVIOUS
<1>1. /\ run.status = "planned" /\ \A n \in Nodes : run.node[n] = "pending"
      /\ \A n \in Nodes : task[n] = "none"
      /\ \A p \in Procs : adv[p] = IdleAdvance
      /\ lease.owner = Nobody
  BY NoLeaseFacts DEF Init, Started
<1>2. LInv
  BY <1>1, IdleAdvanceFacts DEF LInv, StaysOurs, RestOK, NotListed, Leased
<1>3. \A p \in Procs : ~Owns(p, "advance")
  BY <1>1, WorkflowAssumption DEF Owns, Role
<1>4. ~Begun /\ ~Skips(run.node)
  BY <1>1, NodeSets DEF Begun, Skips
<1>5. FrozenOK /\ AdvancesKnow
  BY <1>1, <1>3, <1>4 DEF FrozenOK, Unwinding, AdvancesKnow
<1>6. RunKnows
  BY <1>1, NodeSets DEF RunKnows, Knows, Unsettled, SkippedRight
<1>7. OrderOK
  BY <1>1, NodeSets DEF OrderOK
<1>. QED  BY <1>2, <1>5, <1>6, <1>7 DEF UInv, KInv

\* Where no live process stalls beside another: what is recorded of a step admits
\* what its task may still do, and from the first sign of an unwind nothing is left
\* in flight (the inductive invariant of the two theorems below).
THEOREM UnwindsAreInformed == Quiet /\ Spec => [](IInv /\ TInv /\ UInv)
<1>1. Quiet /\ Init => IInv /\ TInv /\ UInv
  BY InitIInv, InitTInv, InitUInv
<1>2. (IInv /\ TInv /\ UInv) /\ [Next]_vars => (IInv /\ TInv /\ UInv)'
  <2>. SUFFICES ASSUME IInv, TInv, UInv, [Next]_vars PROVE (IInv /\ TInv /\ UInv)'
    OBVIOUS
  <2>1. IInv' /\ TInv'
    BY NextIInv, NextTInv
  <2>2. LInv'
    BY <2>1, NextLInv DEF UInv
  <2>3. KInv'
    BY NextKInv
  <2>. QED  BY <2>1, <2>2, <2>3 DEF UInv
<1>. QED  BY <1>1, <1>2, PTL DEF Spec

\* A failed run undoes what succeeded newest first, and wholly once it has nothing
\* left to offer; a complete one has nothing undone.
THEOREM RunsAreUnwoundOrWhole == Quiet /\ Spec => []UnwoundOrWhole
<1>1. IInv /\ TInv /\ UInv => NewestFirst /\ FailedIsUndone
  <2>. SUFFICES ASSUME IInv, TInv, UInv PROVE NewestFirst /\ FailedIsUndone
    OBVIOUS
  <2>1. NewestFirst
    <3>1. ASSUME NEW u \in Undos, sends[u] > 0 PROVE task[u] # "none"
      BY <3>1, NodeSets DEF IInv, SentOK
    <3>. QED  BY <3>1 DEF UInv, KInv, OrderOK, NewerUndone, Undone, NewestFirst
  <2>2. FailedIsUndone
    <3>. SUFFICES ASSUME run.status = "failed", Rollback(run) = {}
                  PROVE  \A u \in Undos : Undone(u)
      BY DEF FailedIsUndone, Undone
    <3>1. run \in Run /\ Told(run) /\ RunKnows
      BY DEF IInv, TypeOK, TInv, UInv, KInv
    <3>2. SkippedRight(run.node) /\ \A s \in Steps : Knows(s, run.node[s])
      BY <3>1 DEF RunKnows, Ended
    <3>. QED  BY <3>1, <3>2, UndoneUnlessLeft
  <2>. QED  BY <2>1, <2>2
<1>. QED  BY <1>1, UnwindsAreInformed, CompleteRunsAreDone, PTL DEF UnwoundOrWhole

\* No compensation is taken up while a forward step is in flight or its outcome
\* unknown, and no forward step once one has been called.
THEOREM UnwindsComeApart == Quiet /\ Spec => UnwindIsApart
<1>1. ASSUME IInv, TInv, UInv, [Next]_vars, NEW p \in Procs, NEW u \in Undos, TookUp(p, u),
             NEW s \in Steps
      PROVE  task[s] \notin {"running", "recovery_required"}
  <2>1. u \in Nodes /\ u \notin Steps
    BY NodeSets
  <2>2. Owns(p, "advance") /\ adv[p].at[u] # "no"
    BY <1>1, <2>1, TookUpByTakeUp DEF StillLeased, TookUp
  <2>3. adv[p].pc = "undo"
    BY <1>1, <2>1, <2>2, AtWork
  <2>4. Frozen
    BY <1>1, <2>2, <2>3, OwnerFrozen DEF UInv, KInv
  <2>. QED  BY <2>4 DEF Frozen, Unsettled
<1>2. IInv /\ TInv /\ UInv /\ [Next]_vars =>
        [\A p \in Procs, u \in Undos :
           TookUp(p, u) => \A s \in Steps : task[s] \notin {"running", "recovery_required"}]_vars
  BY <1>1
<1>3. Quiet /\ Spec => NoUnwindPastUnknown
  BY <1>2, UnwindsAreInformed, PTL DEF Spec, NoUnwindPastUnknown
<1>. QED  BY <1>3, NoStepFollowsAnUnwind DEF UnwindIsApart
=============================================================================
