---------------------- MODULE WorkflowController_proofs ----------------------
(***************************************************************************)
(* Theorems about WorkflowController, for every set of processes, steps    *)
(* and compensations and every bound: no adapter is called twice, a step   *)
(* is taken up only on the run its advance read, and a finished or         *)
(* cancelled run stays so.                                                 *)
(*                                                                         *)
(* None is inductive.  IInv adds what makes them hold: whoever owns the    *)
(* lease as an advance is working on the run as it is stored (AdvOK); a    *)
(* run recovery listed is still abandonable at that version (ListedOK); a  *)
(* complete run reads complete from its nodes (CompleteOK); and a task not *)
(* started has not been sent (SentOK).                                     *)
(***************************************************************************)
EXTENDS WorkflowController, TLAPS

Working(a) == \/ a.pc \in {"wave", "undo", "commit"}
              \/ a.pc = "cancel" /\ a.cur.status = "failed"
Reads(node) == DeriveStatus(node) = "verified_complete"

\* An advance a beside the stored run r, whose lease it owns or has lost.
AdvOK(a, r, owns) ==
  /\ a.pc \notin {"wave", "undo"} => Idling(a)
  /\ a.pc \in {"wave", "undo", "commit"} =>
       /\ a.cur.status \notin {"cancelled", "paused"}
       /\ a.cur.status = "verified_complete" =>
            a.pc # "undo" /\ Idling(a) /\ \A n \in Nodes : a.res[n] = "none"
  /\ owns => a.pc \notin {"idle", "recover"} /\ (Working(a) => a.cur = r)
AdvancesOK == \A p \in Procs : AdvOK(adv[p], run, Owns(p, "advance"))

ListedOK ==
  \A p \in Procs : sync[p].pc = "listed" =>
    /\ sync[p].version <= run.version
    /\ sync[p].version = run.version => run.status \in Abandonable

CompleteOK == run.status = "verified_complete" => Reads(run.node)

SentOK ==
  \A n \in Nodes :
    /\ sends[n] <= 1
    /\ task[n] \in Unstarted \union {"none"} => sends[n] = 0

IInv == TypeOK /\ AdvancesOK /\ ListedOK /\ CompleteOK /\ SentOK

-----------------------------------------------------------------------------
(* What the helpers return.                                                *)

LEMMA NodeStateType ==
  ASSUME TypeOK, NEW n \in Nodes, NEW previous \in NodeStatus
  PROVE  NodeState(n, previous) \in NodeStatus
<1>1. task[n] \in TaskStatus
  BY DEF TypeOK
<1>. QED  BY <1>1 DEF NodeState, NodeStatus, TaskStatus, Unstarted, Unknown, Done

LEMMA DeriveStatusType ==
  ASSUME NEW node
  PROVE  DeriveStatus(node) \in RunStatus \ {"cancelled", "paused", "planned"}
BY DEF DeriveStatus, RunStatus, Ended, Abandonable, Recoverable

LEMMA SettledNodesType ==
  ASSUME NEW node \in [Nodes -> NodeStatus]
  PROVE  SettledNodes(node) \in [Nodes -> NodeStatus]
BY DEF SettledNodes, NodeStatus, Done

LEMMA ReadsFacts ==
  ASSUME NEW node, Reads(node)
  PROVE  ~Stalled(node) /\ \A s \in Steps : node[s] \in Done
BY DEF Reads, DeriveStatus

\* Skipping the unused compensations of a complete run leaves it complete.
LEMMA CompleteSettles ==
  ASSUME NEW node \in [Nodes -> NodeStatus], Reads(node)
  PROVE  Reads(SettledNodes(node))
<1>1. \A s \in Steps : s \in Nodes /\ s \notin Undos /\ SettledNodes(node)[s] = node[s]
  BY WorkflowAssumption DEF SettledNodes, Nodes
<1>2. ~Stalled(SettledNodes(node))
  BY ReadsFacts DEF SettledNodes, Nodes, Stalled, Unknown
<1>3. \A s \in Steps : SettledNodes(node)[s] \in Done
  BY <1>1, ReadsFacts
<1>. QED  BY <1>2, <1>3 DEF Reads, DeriveStatus, Done, UnknownOutcome, Unknown

LEMMA MovedFacts ==
  ASSUME NEW r \in Run, NEW status \in RunStatus, NEW node \in [Nodes -> NodeStatus]
  PROVE  /\ Moved(r, status, node) \in Run
         /\ Moved(r, status, node).status = status
         /\ Moved(r, status, node).node = node
         /\ Moved(r, status, node).version >= r.version
         /\ Moved(r, status, node).version = r.version => Moved(r, status, node) = r
BY DEF Moved, Run

LEMMA SettleFacts ==
  ASSUME NEW r \in Run, NEW node \in [Nodes -> NodeStatus]
  PROVE  /\ Settle(r, node) \in Run
         /\ Settle(r, node).status = DeriveStatus(SettledNodes(node))
         /\ Settle(r, node).status \notin {"cancelled", "paused"}
         /\ Settle(r, node).status = "verified_complete" => Reads(Settle(r, node).node)
         /\ Settle(r, node).version >= r.version
         /\ Settle(r, node).version = r.version => Settle(r, node) = r
BY DeriveStatusType, SettledNodesType, MovedFacts DEF Settle, Reads

LEMMA ResettledFacts ==
  ASSUME TypeOK, CompleteOK, run.status \notin Ended \union {"paused"}
  PROVE  /\ Resettled(run) \in Run
         /\ Resettled(run).status \notin {"cancelled", "paused"}
         /\ Resettled(run).status = "verified_complete" => Reads(Resettled(run).node)
         /\ Resettled(run).version >= run.version
         /\ Resettled(run).version = run.version => Resettled(run) = run
<1> DEFINE moved == {n \in Nodes : run.node[n] \in Unknown /\ task[n] # "running"
                                     /\ NodeState(n, run.node[n]) \notin Unknown}
           node == [n \in Nodes |-> IF n \in moved THEN NodeState(n, run.node[n])
                                    ELSE run.node[n]]
<1>1. run \in Run /\ run.node \in [Nodes -> NodeStatus] /\ run.version \in Nat
  BY DEF TypeOK, Run
<1>2. node \in [Nodes -> NodeStatus]
  BY <1>1, NodeStateType
<1>3. Resettled(run) = run \/ Resettled(run) = Settle(run, node)
  BY DEF Resettled
<1> HIDE DEF node
<1>. QED  BY <1>1, <1>2, <1>3, SettleFacts DEF Ended, CompleteOK

LEMMA RecoverFacts ==
  ASSUME TypeOK, CompleteOK
  PROVE  /\ RecoverNodes(run) \in [Nodes -> NodeStatus]
         /\ RecoverRun(run) \in Run
         /\ RecoverRun(run).status = "verified_complete" => Reads(RecoverRun(run).node)
         /\ RecoverRun(run).version >= run.version
         /\ RecoverRun(run).version = run.version => RecoverRun(run) = run
<1>1. run \in Run /\ run.node \in [Nodes -> NodeStatus] /\ run.version \in Nat
  BY DEF TypeOK, Run
<1>2. RecoverNodes(run) \in [Nodes -> NodeStatus]
  BY <1>1, NodeStateType DEF RecoverNodes
<1>. QED  BY <1>1, <1>2, SettleFacts DEF RecoverRun, CompleteOK

LEMMA IdleAdvanceFacts ==
  /\ IdleAdvance \in Advance /\ IdleAdvance.pc = "idle" /\ Idling(IdleAdvance)
  /\ \A n \in Nodes : IdleAdvance.res[n] = "none"
<1>1. Started \in Run
  BY DEF Started, Run, RunStatus, Abandonable, Recoverable, NodeStatus
<1>. QED  BY <1>1 DEF IdleAdvance, Advance, Idling

LEMMA WaveFacts ==
  ASSUME TypeOK, NEW cur \in Run, cur.status \notin {"cancelled", "paused"},
         cur.status = "verified_complete" => Reads(cur.node)
  PROVE  /\ Wave(cur) \in Advance /\ Wave(cur).cur = cur
         /\ Wave(cur).pc \in {"release", "undo", "wave"}
         /\ AdvOK(Wave(cur), cur, TRUE)
<1> DEFINE b == [IdleAdvance EXCEPT !.cur = cur]
           wave == IF ParkedSettled(cur) THEN Awaiting(cur)
                   ELSE Awaiting(cur) \union Ready(cur)
           stop == [b EXCEPT !.pc = "release"]
           undo == [b EXCEPT !.pc = "undo", !.left = Rollback(cur)]
           fail == [b EXCEPT !.pc = "wave",
                      !.res = [n \in Nodes |-> IF n \in Awaiting(cur)
                                 THEN NodeState(n, cur.node[n]) ELSE "none"]]
           go   == [b EXCEPT !.pc = "wave",
                      !.at = [n \in Nodes |-> IF n \in wave THEN "todo" ELSE "no"]]
<1>1. b \in Advance /\ b.cur = cur /\ Idling(b) /\ \A n \in Nodes : b.res[n] = "none"
  BY IdleAdvanceFacts DEF Advance, Idling
<1>2. /\ cur.node \in [Nodes -> NodeStatus]
      /\ Awaiting(cur) \subseteq Steps /\ Rollback(cur) \subseteq Undos
  BY DEF Run, Awaiting, Rollback
<1>3. [n \in Nodes |-> IF n \in Awaiting(cur) THEN NodeState(n, cur.node[n]) ELSE "none"]
        \in [Nodes -> NodeStatus \union {"none"}]
  BY <1>2, NodeStateType
<1>4. cur.status = "verified_complete" =>
        Rollback(cur) = {} /\ Awaiting(cur) = {} /\ Ready(cur) = {} /\ ~Failing(cur)
  <2>. SUFFICES ASSUME cur.status = "verified_complete"
                PROVE  Rollback(cur) = {} /\ Awaiting(cur) = {} /\ Ready(cur) = {} /\ ~Failing(cur)
    OBVIOUS
  <2>1. \A s \in Steps : cur.node[s] \in {"verified_complete", "skipped", "compensated"}
    BY ReadsFacts DEF Done
  <2>. QED  BY <2>1 DEF Rollback, Awaiting, Ready, Failing
<1>5. stop \in Advance /\ stop.cur = cur /\ stop.pc = "release" /\ AdvOK(stop, cur, TRUE)
  BY <1>1 DEF Advance, AdvOK, Idling, Working
<1>6. /\ undo \in Advance /\ undo.cur = cur /\ undo.pc = "undo"
      /\ cur.status # "verified_complete" => AdvOK(undo, cur, TRUE)
  BY <1>1, <1>2 DEF Advance, AdvOK, Idling, Working
<1>7. /\ fail \in Advance /\ fail.cur = cur /\ fail.pc = "wave"
      /\ cur.status # "verified_complete" => AdvOK(fail, cur, TRUE)
  BY <1>1, <1>3 DEF Advance, AdvOK, Idling, Working
<1>8. go \in Advance /\ go.cur = cur /\ go.pc = "wave"
  BY <1>1 DEF Advance
<1>9. AdvOK(go, cur, TRUE)
  <2>1. go.res = b.res /\ go.at = [n \in Nodes |-> IF n \in wave THEN "todo" ELSE "no"]
    BY <1>1 DEF Advance
  <2>2. cur.status = "verified_complete" => Idling(go)
    BY <1>4, <2>1 DEF Idling
  <2>. QED  BY <1>1, <1>8, <2>1, <2>2 DEF AdvOK, Working
<1>10. \/ Wave(cur) = stop
       \/ Wave(cur) = undo /\ Rollback(cur) # {}
       \/ Wave(cur) = fail /\ Failing(cur)
       \/ Wave(cur) = go
  BY DEF Wave
<1> HIDE DEF stop, undo, fail, go
<1>. QED  BY <1>4, <1>5, <1>6, <1>7, <1>8, <1>9, <1>10

-----------------------------------------------------------------------------
(* What keeps the parts of the invariant.                                  *)

Forward(r, s) == s.version >= r.version /\ (s.version = r.version => s = r)

LEMMA SetAdvFacts ==
  ASSUME TypeOK, NEW p \in Procs, NEW a \in Advance, SetAdv(p, a)
  PROVE  /\ adv' \in [Procs -> Advance] /\ adv'[p] = a
         /\ \A q \in Procs \ {p} : adv'[q] = adv[q]
BY DEF TypeOK, SetAdv

\* One advance moves; the others lose the lease if the run is written.
LEMMA AdvanceKeeps ==
  ASSUME IInv, NEW p \in Procs,
         \A q \in Procs \ {p} : adv'[q] = adv[q],
         AdvOK(adv'[p], run', Owns(p, "advance")'),
         \A q \in Procs \ {p} : Owns(q, "advance")' => Owns(q, "advance") /\ run' = run
  PROVE  AdvancesOK'
<1>. SUFFICES ASSUME NEW q \in Procs
              PROVE  AdvOK(adv'[q], run', Owns(q, "advance")')
  BY DEF AdvancesOK, Owns
<1>1. CASE q = p
  BY <1>1
<1>2. CASE q # p
  <2>1. AdvOK(adv[q], run, Owns(q, "advance")) /\ adv'[q] = adv[q]
    BY <1>2 DEF IInv, AdvancesOK
  <2>. QED  BY <1>2, <2>1 DEF AdvOK
<1>. QED  BY <1>1, <1>2

\* None moves, and none gains the lease; none has it if the run is written.
LEMMA AdvancesStand ==
  ASSUME IInv, UNCHANGED adv,
         \A q \in Procs : Owns(q, "advance")' => Owns(q, "advance") /\ run' = run
  PROVE  AdvancesOK'
BY DEF IInv, AdvancesOK, AdvOK, Owns

LEMMA ListedKeeps ==
  ASSUME IInv, run' \in Run, Forward(run, run'),
         \A q \in Procs : sync'[q].pc = "listed" => sync'[q] = sync[q]
  PROVE  ListedOK'
<1>1. run.version \in Nat /\ run'.version \in Nat /\ \A q \in Procs : sync[q].version \in Nat
  BY DEF IInv, TypeOK, Run, Sync
<1>. QED  BY <1>1 DEF IInv, ListedOK, Forward

LEMMA SentKeeps ==
  ASSUME IInv, UNCHANGED sends,
         \A n \in Nodes : task'[n] \in Unstarted \union {"none"} =>
                            task[n] \in Unstarted \union {"none"}
  PROVE  SentOK'
BY DEF IInv, SentOK

\* Steps that leave the run, the lease, the advances and the blocks alone.
LEMMA TaskStep ==
  ASSUME IInv, UNCHANGED <<run, lease, adv, sync>>, TypeOK', SentOK'
  PROVE  IInv'
<1>1. AdvancesOK'
  BY DEF IInv, AdvancesOK, AdvOK, Owns
<1>2. ListedOK' /\ CompleteOK'
  BY DEF IInv, ListedOK, CompleteOK
<1>. QED  BY <1>1, <1>2 DEF IInv

-----------------------------------------------------------------------------
(* Each action keeps the invariant.                                        *)

LEMMA AcquireKeeps ==
  ASSUME IInv, NEW p \in Procs, Acquire(p), UNCHANGED <<task, holder, sync, world, bounds>>
  PROVE  IInv'
<1> DEFINE r == Resettled(run)
           halt == [IdleAdvance EXCEPT !.pc = "release", !.cur = run]
           sweep == [IdleAdvance EXCEPT !.pc = "cancel", !.cur = r]
<1>1. TypeOK /\ CompleteOK /\ run \in Run
  BY DEF IInv, TypeOK
<1>2. /\ lease' = [owner |-> <<p, "advance">>, fresh |-> TRUE]
      /\ lease' \in Lease
      /\ Owns(p, "advance")' /\ \A q \in Procs \ {p} : ~Owns(q, "advance")'
  BY DEF Acquire, Hold, Lease, Role, Owns
<1>3. CASE run.status \in Ended \union {"paused"}
  <2>1. SetAdv(p, halt) /\ run' = run
    BY <1>3 DEF Acquire
  <2>2. halt \in Advance /\ halt.pc = "release" /\ halt.cur = run /\ Idling(halt)
    BY <1>1, IdleAdvanceFacts DEF Advance, Idling
  <2>3. AdvOK(halt, run, TRUE)
    BY <2>2 DEF AdvOK, Working
  <2> HIDE DEF halt
  <2>4. /\ adv' \in [Procs -> Advance] /\ adv'[p] = halt
        /\ \A q \in Procs \ {p} : adv'[q] = adv[q]
    BY <1>1, <2>1, <2>2, SetAdvFacts
  <2>5. AdvancesOK'
    BY <1>2, <2>1, <2>3, <2>4, AdvanceKeeps DEF AdvOK
  <2>. QED  BY <1>2, <2>1, <2>4, <2>5 DEF IInv, TypeOK, ListedOK, CompleteOK, SentOK, world, bounds
<1>4. CASE run.status \notin Ended \union {"paused"}
  <2>1. /\ r \in Run /\ r.status \notin {"cancelled", "paused"}
        /\ r.status = "verified_complete" => Reads(r.node)
        /\ Forward(run, r)
    BY <1>1, <1>4, ResettledFacts DEF Forward
  <2>2. run' = r /\ (SetAdv(p, Wave(r)) \/ SetAdv(p, sweep))
    BY <1>4 DEF Acquire
  <2> HIDE DEF r
  <2>3. sweep \in Advance /\ sweep.cur = r /\ sweep.pc = "cancel" /\ Idling(sweep)
    BY <2>1, IdleAdvanceFacts DEF Advance, Idling
  <2>4. AdvOK(sweep, r, TRUE)
    BY <2>3 DEF AdvOK, Working
  <2>5. Wave(r) \in Advance /\ AdvOK(Wave(r), r, TRUE)
    BY <1>1, <2>1, WaveFacts
  <2> HIDE DEF sweep
  <2>6. PICK a \in Advance : SetAdv(p, a) /\ AdvOK(a, r, TRUE)
    BY <2>2, <2>3, <2>4, <2>5
  <2>7. /\ adv' \in [Procs -> Advance] /\ adv'[p] = a
        /\ \A q \in Procs \ {p} : adv'[q] = adv[q]
    BY <1>1, <2>6, SetAdvFacts
  <2>8. AdvOK(adv'[p], run', Owns(p, "advance")')
    BY <1>2, <2>2, <2>6, <2>7 DEF AdvOK
  <2>9. AdvancesOK'
    BY <1>2, <2>7, <2>8, AdvanceKeeps
  <2>10. ListedOK'
    BY <2>1, <2>2, ListedKeeps
  <2>11. SentOK'
    BY SentKeeps DEF world
  <2>. QED  BY <1>2, <2>1, <2>2, <2>7, <2>9, <2>10, <2>11 DEF IInv, TypeOK, CompleteOK, world, bounds
<1>. QED  BY <1>3, <1>4

\* Setting an advance that leaves everything but the lease's freshness alone.
LEMMA SetAdvKeeps ==
  ASSUME IInv, NEW p \in Procs, NEW a \in Advance, SetAdv(p, a),
         UNCHANGED <<run, sync, crashes, lapses, controls>>,
         lease' \in Lease,
         lease'.owner = lease.owner \/ lease'.owner = Nobody,
         AdvOK(a, run, Owns(p, "advance")'),
         task' \in [Nodes -> TaskStatus], holder' \in [Nodes -> Procs \union {Nobody, Gone}],
         happened' = happened, sends' \in [Nodes -> Nat], SentOK'
  PROVE  IInv'
<1>1. /\ adv' \in [Procs -> Advance] /\ adv'[p] = a
      /\ \A q \in Procs \ {p} : adv'[q] = adv[q]
  BY SetAdvFacts DEF IInv
<1>2. \A q \in Procs : Owns(q, "advance")' => Owns(q, "advance")
  BY WorkflowAssumption DEF Owns, Role
<1>3. AdvancesOK'
  BY <1>1, <1>2, AdvanceKeeps
<1>. QED  BY <1>1, <1>3 DEF IInv, TypeOK, ListedOK, CompleteOK

LEMMA BeginKeeps ==
  ASSUME IInv, NEW p \in Procs, Begin(p) \/ Recovered(p)
  PROVE  IInv'
<1>1. CASE Acquire(p)
  BY <1>1, AcquireKeeps DEF Begin, Recovered
<1> DEFINE go == [IdleAdvance EXCEPT !.pc = "recover"]
<1>2. go \in Advance /\ go.pc = "recover" /\ Idling(go)
  BY IdleAdvanceFacts DEF Advance, Idling
<1>3. adv[p].pc \in {"idle", "recover"} /\ ~Owns(p, "advance")
  BY DEF Begin, Recovered, IInv, AdvancesOK, AdvOK
<1>4. CASE ~Acquire(p)
  <2>1. /\ SetAdv(p, go) \/ SetAdv(p, IdleAdvance)
        /\ UNCHANGED <<run, lease, task, holder, sync, world, bounds>>
    BY <1>4 DEF Begin, Recovered
  <2>2. ~Owns(p, "advance")'
    BY <1>3, <2>1 DEF Owns
  <2>3. AdvOK(go, run, FALSE) /\ AdvOK(IdleAdvance, run, FALSE)
    BY <1>2, IdleAdvanceFacts DEF AdvOK
  <2> HIDE DEF go
  <2>4. PICK a \in Advance : SetAdv(p, a) /\ AdvOK(a, run, FALSE)
    BY <1>2, <2>1, <2>3, IdleAdvanceFacts
  <2>5. AdvOK(a, run, Owns(p, "advance")')
    BY <2>2, <2>4 DEF AdvOK
  <2>6. SentOK'
    BY <2>1 DEF IInv, SentOK, world
  <2>. QED
    BY <2>1, <2>4, <2>5, <2>6, SetAdvKeeps DEF IInv, TypeOK, world, bounds
<1>. QED  BY <1>1, <1>4

LEMMA LeaseFacts ==
  ASSUME TypeOK, NEW p \in Procs, Owns(p, "advance")
  PROVE  \A fresh \in BOOLEAN :
           /\ [lease EXCEPT !.fresh = fresh] \in Lease
           /\ [lease EXCEPT !.fresh = fresh].owner = lease.owner
BY DEF TypeOK, Lease

\* What a wave's task leaves of its advance.
LEMMA ResultFacts ==
  ASSUME IInv, NEW p \in Procs, NEW n \in Nodes, NEW state \in NodeStatus,
         adv[p].at[n] # "no"
  PROVE  /\ Result(adv[p], n, state) \in Advance
         /\ AdvOK(Result(adv[p], n, state), run, Owns(p, "advance"))
         /\ Refuse(adv[p], n) \in Advance
         /\ AdvOK(Refuse(adv[p], n), run, Owns(p, "advance"))
         /\ \A at \in {"starting", "running"} :
              /\ [adv[p] EXCEPT !.at[n] = at] \in Advance
              /\ AdvOK([adv[p] EXCEPT !.at[n] = at], run, Owns(p, "advance"))
<1>1. adv[p] \in Advance /\ AdvOK(adv[p], run, Owns(p, "advance"))
  BY DEF IInv, TypeOK, AdvancesOK
<1>2. adv[p].pc \in {"wave", "undo"} /\ adv[p].cur.status # "verified_complete"
  BY <1>1 DEF AdvOK, Idling
<1>3. Result(adv[p], n, state) \in Advance
  BY <1>1 DEF Result, Advance
<1>4. Refuse(adv[p], n) \in Advance
  BY <1>1 DEF Refuse, Advance
<1>5. \A at \in {"starting", "running"} : [adv[p] EXCEPT !.at[n] = at] \in Advance
  BY <1>1 DEF Advance
<1>6. \A a \in Advance :
        a.pc = adv[p].pc /\ a.cur = adv[p].cur => AdvOK(a, run, Owns(p, "advance"))
  BY <1>1, <1>2 DEF AdvOK, Working
<1>7. Result(adv[p], n, state).pc = adv[p].pc /\ Result(adv[p], n, state).cur = adv[p].cur
  BY <1>1 DEF Result, Advance
<1>8. Refuse(adv[p], n).pc = adv[p].pc /\ Refuse(adv[p], n).cur = adv[p].cur
  BY <1>1 DEF Refuse, Advance
<1>9. \A at \in {"starting", "running"} :
        /\ [adv[p] EXCEPT !.at[n] = at].pc = adv[p].pc
        /\ [adv[p] EXCEPT !.at[n] = at].cur = adv[p].cur
  BY <1>1 DEF Advance
<1>. QED  BY <1>3, <1>4, <1>5, <1>6, <1>7, <1>8, <1>9

LEMMA TakeUpKeeps ==
  ASSUME IInv, NEW p \in Procs, NEW n \in Nodes, TakeUp(p, n)
  PROVE  IInv'
<1> DEFINE state == NodeState(n, "pending")'
<1>1. UNCHANGED <<run, holder, sync, world, bounds>> /\ adv[p].at[n] # "no"
  BY DEF TakeUp
<1>2. CASE ~StillLeased(p)
  <2>1. SetAdv(p, Refuse(adv[p], n)) /\ UNCHANGED <<lease, task>>
    BY <1>2 DEF TakeUp
  <2>2. Owns(p, "advance")' = Owns(p, "advance")
    BY <2>1 DEF Owns
  <2>3. "pending" \in NodeStatus
    BY DEF NodeStatus
  <2>4. Refuse(adv[p], n) \in Advance /\ AdvOK(Refuse(adv[p], n), run, Owns(p, "advance"))
    BY <1>1, <2>3, ResultFacts
  <2>5. SentOK'
    BY <1>1, <2>1 DEF IInv, SentOK, world
  <2>. QED  BY <1>1, <2>1, <2>2, <2>4, <2>5, SetAdvKeeps DEF IInv, TypeOK, world, bounds
<1>3. CASE StillLeased(p)
  <2>1. /\ lease' = [owner |-> <<p, "advance">>, fresh |-> TRUE]
        /\ task' = [task EXCEPT ![n] = TakenUp(n)]
        /\ Owns(p, "advance")
    BY <1>3 DEF TakeUp, StillLeased, Hold
  <2>2. lease' \in Lease /\ lease'.owner = lease.owner /\ Owns(p, "advance")'
    BY <2>1 DEF Lease, Role, Owns
  <2>3. /\ task' \in [Nodes -> TaskStatus]
        /\ \A m \in Nodes : task'[m] \in Unstarted \union {"none"} =>
                              task[m] \in Unstarted \union {"none"}
    BY <2>1 DEF IInv, TypeOK, TakenUp, Plan, TaskStatus, Unstarted
  <2>4. SentOK'
    BY <1>1, <2>3, SentKeeps DEF world
  <2>5. state \in NodeStatus
    <3>1. task'[n] \in TaskStatus
      BY <2>3
    <3>. QED  BY <3>1 DEF NodeState, NodeStatus, TaskStatus, Unstarted, Unknown, Done
  <2>6. \/ SetAdv(p, Refuse(adv[p], n))
        \/ SetAdv(p, [adv[p] EXCEPT !.at[n] = "starting"])
        \/ SetAdv(p, Result(adv[p], n, state))
    BY <1>3 DEF TakeUp
  <2> HIDE DEF state
  <2>7. PICK a \in Advance : SetAdv(p, a) /\ AdvOK(a, run, Owns(p, "advance"))
    BY <1>1, <2>5, <2>6, ResultFacts
  <2>. QED  BY <1>1, <2>1, <2>2, <2>3, <2>4, <2>7, SetAdvKeeps DEF IInv, TypeOK, world, bounds
<1>. QED  BY <1>2, <1>3

\* A task that may be started has not been sent; sent, it is.
LEMMA StartFacts ==
  ASSUME IInv, NEW p \in Procs, NEW n \in Nodes, Start(p, n), task[n] \in Unstarted
  PROVE  /\ task' \in [Nodes -> TaskStatus]
         /\ holder' \in [Nodes -> Procs \union {Nobody, Gone}]
         /\ sends' \in [Nodes -> Nat] /\ SentOK'
<1>1. /\ task \in [Nodes -> TaskStatus] /\ sends \in [Nodes -> Nat]
      /\ holder \in [Nodes -> Procs \union {Nobody, Gone}]
      /\ sends[n] = 0
  BY DEF IInv, TypeOK, SentOK
<1>2. "running" \in TaskStatus /\ "running" \notin Unstarted \union {"none"}
  BY DEF TaskStatus, Unstarted
<1>. QED  BY <1>1, <1>2 DEF Start, IInv, SentOK

LEMMA StartStepKeeps ==
  ASSUME IInv, NEW p \in Procs, NEW n \in Nodes, StartStep(p, n)
  PROVE  IInv'
<1>1. UNCHANGED <<run, lease, sync, happened, bounds>> /\ adv[p].at[n] # "no"
  BY DEF StartStep
<1>2. Owns(p, "advance")' = Owns(p, "advance") /\ lease' \in Lease
  BY <1>1 DEF Owns, IInv, TypeOK
<1>3. "pending" \in NodeStatus
  BY DEF NodeStatus
<1>4. PICK a \in Advance : SetAdv(p, a) /\ AdvOK(a, run, Owns(p, "advance"))
  BY <1>1, <1>3, ResultFacts DEF StartStep
<1>5. /\ task' \in [Nodes -> TaskStatus]
      /\ holder' \in [Nodes -> Procs \union {Nobody, Gone}]
      /\ sends' \in [Nodes -> Nat] /\ SentOK'
  <2>1. CASE task[n] \in Unstarted
    BY <2>1, StartFacts DEF StartStep
  <2>2. CASE task[n] \notin Unstarted
    BY <2>2 DEF StartStep, IInv, TypeOK, SentOK
  <2>. QED  BY <2>1, <2>2
<1>. QED  BY <1>1, <1>2, <1>4, <1>5, SetAdvKeeps DEF bounds

LEMMA TaskEndsKeeps ==
  ASSUME IInv, NEW p \in Procs, NEW n \in Nodes, TaskEnds(p, n)
  PROVE  IInv'
<1> DEFINE state == NodeState(n, "pending")'
<1>1. /\ UNCHANGED <<run, lease, sync, world, bounds>>
      /\ holder' = [holder EXCEPT ![n] = Nobody]
  BY DEF TaskEnds
<1>2. PICK outcome \in Outcomes(n) : task' = [task EXCEPT ![n] = outcome]
  BY DEF TaskEnds
<1>3. outcome \in TaskStatus /\ outcome \notin Unstarted \union {"none"}
  BY DEF Outcomes, TaskStatus, Unstarted
<1>4. /\ task' \in [Nodes -> TaskStatus] /\ holder' \in [Nodes -> Procs \union {Nobody, Gone}]
      /\ task'[n] \in TaskStatus
  BY <1>1, <1>2, <1>3 DEF IInv, TypeOK
<1>5. SentOK'
  <2>1. \A m \in Nodes : task'[m] \in Unstarted \union {"none"} =>
                           task[m] \in Unstarted \union {"none"}
    BY <1>2, <1>3 DEF IInv, TypeOK
  <2>. QED  BY <1>1, <2>1, SentKeeps DEF world
<1>6. state \in NodeStatus
  BY <1>4 DEF NodeState, NodeStatus, TaskStatus, Unstarted, Unknown, Done
<1>7. CASE adv[p].at[n] # "running"
  <2>1. adv' = adv
    BY <1>7 DEF TaskEnds
  <2>2. TypeOK'
    BY <1>1, <1>4, <2>1 DEF IInv, TypeOK, world, bounds
  <2>. QED  BY <1>1, <1>5, <2>1, <2>2, TaskStep
<1>8. CASE adv[p].at[n] = "running"
  <2>1. SetAdv(p, Result(adv[p], n, state))
    BY <1>8 DEF TaskEnds, SetAdv
  <2> HIDE DEF state
  <2>2. /\ Result(adv[p], n, state) \in Advance
        /\ AdvOK(Result(adv[p], n, state), run, Owns(p, "advance"))
    BY <1>6, <1>8, ResultFacts
  <2>3. Owns(p, "advance")' = Owns(p, "advance") /\ lease' \in Lease
    BY <1>1 DEF Owns, IInv, TypeOK
  <2>. QED  BY <1>1, <1>4, <1>5, <2>1, <2>2, <2>3, SetAdvKeeps DEF IInv, TypeOK, world, bounds
<1>. QED  BY <1>7, <1>8

\* A step of an advance between its tasks: only its own record changes.
LEMMA MoveKeeps ==
  ASSUME IInv, NEW p \in Procs, NEW a \in Advance, SetAdv(p, a),
         AdvOK(a, run, Owns(p, "advance")),
         UNCHANGED <<run, lease, task, holder, sync, world, bounds>>
  PROVE  IInv'
<1>1. Owns(p, "advance")' = Owns(p, "advance")
  BY DEF Owns
<1>2. SentOK'
  BY DEF IInv, SentOK, world
<1>. QED  BY <1>1, <1>2, SetAdvKeeps DEF IInv, TypeOK, world, bounds

LEMMA WaveEndsKeeps ==
  ASSUME IInv, NEW p \in Procs, WaveEnds(p)
  PROVE  IInv'
<1> DEFINE a == adv[p]
           undo == [a EXCEPT !.pc = "undo",
                      !.left = {u \in Undos : a.cur.node[u] = "pending"}]
           commit == [a EXCEPT !.pc = "commit"]
<1>1. /\ a \in Advance /\ AdvOK(a, run, Owns(p, "advance"))
      /\ a.pc = "wave" /\ Idling(a)
  BY DEF WaveEnds, IInv, TypeOK, AdvancesOK
<1>2. commit \in Advance /\ AdvOK(commit, run, Owns(p, "advance"))
  BY <1>1 DEF Advance, AdvOK, Working, Idling
<1>3. Unwinds(a) => a.cur.status # "verified_complete"
  BY <1>1 DEF Unwinds, AdvOK, Nodes
<1>4. /\ undo \in Advance
      /\ Unwinds(a) => AdvOK(undo, run, Owns(p, "advance"))
  BY <1>1, <1>3 DEF Advance, AdvOK, Working, Idling
<1>5. SetAdv(p, IF Unwinds(a) THEN undo ELSE commit)
  BY DEF WaveEnds
<1> HIDE DEF undo, commit
<1>. QED  BY <1>2, <1>4, <1>5, MoveKeeps DEF WaveEnds, db

LEMMA UndoNextKeeps ==
  ASSUME IInv, NEW p \in Procs, UndoNext(p)
  PROVE  IInv'
<1> DEFINE a == adv[p]
           u == Newest(a.left)
           commit == [a EXCEPT !.pc = "commit"]
           stop == [a EXCEPT !.left = {}]
           undo == [a EXCEPT !.left = @ \ {u}, !.at[u] = "todo"]
           skip == [a EXCEPT !.left = @ \ {u}, !.res[u] = "skipped"]
<1>1. /\ a \in Advance /\ AdvOK(a, run, Owns(p, "advance"))
      /\ a.pc = "undo" /\ Idling(a)
  BY DEF UndoNext, IInv, TypeOK, AdvancesOK
<1> HIDE DEF u
<1>2. "skipped" \in NodeStatus
  BY DEF NodeStatus, Done
<1>3. commit \in Advance /\ AdvOK(commit, run, Owns(p, "advance"))
  BY <1>1 DEF Advance, AdvOK, Working, Idling
<1>4. stop \in Advance /\ AdvOK(stop, run, Owns(p, "advance"))
  BY <1>1 DEF Advance, AdvOK, Working, Idling
<1>5. undo \in Advance /\ undo.pc = a.pc /\ undo.cur = a.cur
  BY <1>1 DEF Advance
<1>6. skip \in Advance /\ skip.pc = a.pc /\ skip.cur = a.cur
  BY <1>1, <1>2 DEF Advance
<1>7. \/ SetAdv(p, commit) \/ SetAdv(p, stop) \/ SetAdv(p, undo) \/ SetAdv(p, skip)
  BY DEF UndoNext, u
<1> HIDE DEF undo, skip, commit, stop
<1>8. AdvOK(undo, run, Owns(p, "advance")) /\ AdvOK(skip, run, Owns(p, "advance"))
  BY <1>1, <1>5, <1>6 DEF AdvOK, Working
<1>9. PICK b \in Advance : SetAdv(p, b) /\ AdvOK(b, run, Owns(p, "advance"))
  BY <1>3, <1>4, <1>5, <1>6, <1>7, <1>8
<1>. QED  BY <1>9, MoveKeeps DEF UndoNext, db

\* The commit: the lease still its own, the run is the one it read.
LEMMA CommitFacts ==
  ASSUME IInv, NEW p \in Procs, Commit(p)
  PROVE  /\ run' \in Run /\ Forward(run, run')
         /\ run'.status = "verified_complete" => Reads(run'.node)
         /\ run.status \in Ended => run'.status = run.status
         /\ ~StillLeased(p) => run' = run
<1> DEFINE a == adv[p]
<1>1. /\ a \in Advance /\ AdvOK(a, run, Owns(p, "advance"))
      /\ a.pc = "commit" /\ run \in Run /\ run.version \in Nat
  BY DEF Commit, IInv, TypeOK, AdvancesOK, Run
<1>2. CASE ~(StillLeased(p) /\ Current(p))
  BY <1>1, <1>2 DEF Commit, Forward, IInv, CompleteOK, Run
<1>3. CASE StillLeased(p) /\ Current(p)
  <2>1. a.cur = run /\ run' = Settle(run, After(a))
    BY <1>1, <1>3 DEF Commit, StillLeased, AdvOK, Working
  <2>2. After(a) \in [Nodes -> NodeStatus]
    BY <1>1, <2>1 DEF After, Advance, Run
  <2>3. /\ run' \in Run /\ Forward(run, run')
        /\ run'.status = "verified_complete" => Reads(run'.node)
        /\ run'.status = DeriveStatus(SettledNodes(After(a)))
    BY <1>1, <2>1, <2>2, SettleFacts DEF Forward
  <2>4. ASSUME run.status \in Ended PROVE run'.status = run.status
    <3>1. run.status = "verified_complete" /\ \A n \in Nodes : a.res[n] = "none"
      BY <1>1, <2>1, <2>4 DEF AdvOK, Ended
    <3>2. After(a) = run.node
      BY <1>1, <2>1, <3>1 DEF After, Run
    <3>. QED  BY <1>1, <2>2, <2>3, <3>1, <3>2, CompleteSettles DEF IInv, CompleteOK, Reads
  <2>. QED  BY <1>3, <2>3, <2>4
<1>. QED  BY <1>2, <1>3

LEMMA CommitKeeps ==
  ASSUME IInv, NEW p \in Procs, Commit(p)
  PROVE  IInv'
<1> DEFINE a == adv[p]
           release == [a EXCEPT !.pc = "release"]
           cancel == [a EXCEPT !.pc = "cancel"]
<1>1. /\ a \in Advance /\ AdvOK(a, run, Owns(p, "advance"))
      /\ a.pc = "commit" /\ Idling(a)
      /\ UNCHANGED <<task, holder, sync, world, bounds>>
  BY DEF Commit, IInv, TypeOK, AdvancesOK, AdvOK
<1>2. release \in Advance /\ \A r, owns : AdvOK(release, r, owns)
  BY <1>1 DEF Advance, AdvOK, Working, Idling
<1>3. cancel \in Advance /\ cancel.pc = "cancel" /\ cancel.cur = a.cur /\ Idling(cancel)
  BY <1>1 DEF Advance, Idling
<1>4. CASE ~(StillLeased(p) /\ Current(p))
  <2>1. /\ SetAdv(p, release) /\ run' = run
        /\ lease' = lease \/ (StillLeased(p) /\ lease' = [lease EXCEPT !.fresh = TRUE])
    BY <1>4 DEF Commit
  <2>2. lease' \in Lease /\ lease'.owner = lease.owner
    BY <2>1, LeaseFacts DEF StillLeased, IInv, TypeOK
  <2>3. SentOK'
    BY <1>1 DEF IInv, SentOK, world
  <2> HIDE DEF release
  <2>. QED  BY <1>1, <1>2, <2>1, <2>2, <2>3, SetAdvKeeps DEF IInv, TypeOK, world, bounds
<1>5. CASE StillLeased(p) /\ Current(p)
  <2>1. /\ Owns(p, "advance") /\ a.cur = run
        /\ lease' = [owner |-> <<p, "advance">>, fresh |-> TRUE]
        /\ SetAdv(p, IF ToSweep(run, run') = {} THEN release ELSE cancel)
    BY <1>1, <1>5 DEF Commit, StillLeased, Hold, AdvOK, Working
  <2>2. ToSweep(run, run') # {} => run.status # "failed"
    BY DEF ToSweep
  <2>3. ToSweep(run, run') # {} => \A r, owns : AdvOK(cancel, r, owns)
    BY <1>3, <2>1, <2>2 DEF AdvOK, Working
  <2> HIDE DEF release, cancel
  <2>4. PICK b \in Advance : SetAdv(p, b) /\ \A r, owns : AdvOK(b, r, owns)
    BY <1>2, <1>3, <2>1, <2>3
  <2>5. /\ adv' \in [Procs -> Advance] /\ adv'[p] = b
        /\ \A q \in Procs \ {p} : adv'[q] = adv[q]
    BY <2>4, SetAdvFacts DEF IInv
  <2>6. lease' \in Lease /\ \A q \in Procs \ {p} : ~Owns(q, "advance")'
    BY <2>1 DEF Lease, Role, Owns
  <2>7. AdvancesOK'
    BY <2>4, <2>5, <2>6, AdvanceKeeps
  <2>8. ListedOK'
    BY <1>1, CommitFacts, ListedKeeps
  <2>9. SentOK'
    BY <1>1 DEF IInv, SentOK, world
  <2>. QED
    BY <1>1, <2>5, <2>6, <2>7, <2>8, <2>9, CommitFacts
    DEF IInv, TypeOK, CompleteOK, world, bounds
<1>. QED  BY <1>4, <1>5

LEMMA CancelledFacts ==
  ASSUME IInv, NEW nodes, Cancelled(nodes), UNCHANGED sends
  PROVE  task' \in [Nodes -> TaskStatus] /\ SentOK'
<1>1. task \in [Nodes -> TaskStatus] /\ "cancelled" \in TaskStatus
  BY DEF IInv, TypeOK, TaskStatus
<1>2. \A n \in Nodes : task'[n] \in {task[n], "cancelled"}
  BY DEF Cancelled
<1>3. "cancelled" \notin Unstarted \union {"none"}
  BY DEF Unstarted
<1>4. SentOK'
  BY <1>2, <1>3, SentKeeps
<1>. QED  BY <1>1, <1>4 DEF Cancelled

LEMMA CancelForwardKeeps ==
  ASSUME IInv, NEW p \in Procs, CancelForward(p)
  PROVE  IInv'
<1> DEFINE a == adv[p]
           release == [a EXCEPT !.pc = "release"]
<1>1. /\ a \in Advance /\ AdvOK(a, run, Owns(p, "advance")) /\ a.cur \in Run
      /\ a.pc = "cancel" /\ Idling(a)
      /\ UNCHANGED <<run, lease, holder, sync, world, bounds>>
  BY DEF CancelForward, IInv, TypeOK, AdvancesOK, AdvOK, Advance
<1>2. release \in Advance /\ AdvOK(release, run, Owns(p, "advance"))
  BY <1>1 DEF Advance, AdvOK, Working, Idling
<1>3. a.cur.status = "failed" =>
        Wave(a.cur) \in Advance /\ AdvOK(Wave(a.cur), run, Owns(p, "advance"))
  <2>. SUFFICES ASSUME a.cur.status = "failed"
                PROVE  /\ Wave(a.cur) \in Advance
                       /\ AdvOK(Wave(a.cur), run, Owns(p, "advance"))
    OBVIOUS
  <2>1. Wave(a.cur) \in Advance /\ AdvOK(Wave(a.cur), a.cur, TRUE)
    BY <1>1, WaveFacts DEF IInv
  <2>2. Owns(p, "advance") => a.cur = run
    BY <1>1 DEF AdvOK, Working
  <2>. QED  BY <2>1, <2>2 DEF AdvOK
<1>4. SetAdv(p, IF a.cur.status = "failed" THEN Wave(a.cur) ELSE release)
  BY DEF CancelForward
<1> HIDE DEF release
<1>5. PICK b \in Advance : SetAdv(p, b) /\ AdvOK(b, run, Owns(p, "advance"))
  BY <1>2, <1>3, <1>4
<1>6. task' \in [Nodes -> TaskStatus] /\ SentOK'
  BY <1>1, CancelledFacts DEF CancelForward, world
<1>7. Owns(p, "advance")' = Owns(p, "advance")
  BY <1>1 DEF Owns
<1>. QED  BY <1>1, <1>5, <1>6, <1>7, SetAdvKeeps DEF IInv, TypeOK, world, bounds

LEMMA NoLeaseFacts == NoLease \in Lease /\ NoLease.owner = Nobody
BY DEF NoLease, Lease

LEMMA ReleaseAdvanceKeeps ==
  ASSUME IInv, NEW p \in Procs, ReleaseAdvance(p)
  PROVE  IInv'
<1>1. /\ UNCHANGED <<run, task, holder, sync, world, bounds>>
      /\ SetAdv(p, IdleAdvance)
      /\ lease' = IF Owns(p, "advance") THEN NoLease ELSE lease
  BY DEF ReleaseAdvance, Release
<1>2. ~Owns(p, "advance")'
  BY <1>1, NoLeaseFacts, WorkflowAssumption DEF Owns, Role
<1>3. AdvOK(IdleAdvance, run, Owns(p, "advance")')
  BY <1>2, IdleAdvanceFacts DEF AdvOK
<1>4. lease' \in Lease /\ (lease'.owner = lease.owner \/ lease'.owner = Nobody)
  BY <1>1, NoLeaseFacts DEF IInv, TypeOK
<1>5. SentOK'
  BY <1>1 DEF IInv, SentOK, world
<1>. QED
  BY <1>1, <1>3, <1>4, <1>5, IdleAdvanceFacts, SetAdvKeeps DEF IInv, TypeOK, world, bounds

\* A lease that is renewed or runs out keeps its owner.
LEMMA FreshKeeps ==
  ASSUME IInv, NEW fresh \in BOOLEAN, lease' = [lease EXCEPT !.fresh = fresh],
         UNCHANGED <<run, task, holder, adv, sync, world>>,
         crashes' \in Nat, lapses' \in Nat, controls' \in Nat
  PROVE  IInv'
<1>1. lease' \in Lease /\ lease'.owner = lease.owner
  BY DEF IInv, TypeOK, Lease
<1>2. \A q \in Procs : Owns(q, "advance")' = Owns(q, "advance")
  BY <1>1 DEF Owns
<1>3. AdvancesOK'
  BY <1>2, AdvancesStand
<1>. QED  BY <1>1, <1>3 DEF IInv, TypeOK, ListedOK, CompleteOK, SentOK, world

LEMMA RenewKeeps ==
  ASSUME IInv, NEW p \in Procs, Renew(p)
  PROVE  IInv'
BY FreshKeeps DEF Renew, bounds, IInv, TypeOK

LEMMA LapseKeeps ==
  ASSUME IInv, Lapse
  PROVE  IInv'
<1>1. lapses' \in Nat /\ crashes' \in Nat /\ controls' \in Nat
  BY WorkflowAssumption DEF Lapse, IInv, TypeOK
<1>. QED  BY <1>1, FreshKeeps DEF Lapse

LEMMA TaskStepsKeep ==
  ASSUME IInv, NEW n \in Nodes,
         \/ \E p \in Procs : RecoverTask(p, n) \/ Execute(p, n)
         \/ Approve(n) \/ Deny(n) \/ Reconcile(n) \/ Happens(n)
  PROVE  IInv'
<1>1. UNCHANGED <<run, lease, adv, sync>>
  BY DEF RecoverTask, Execute, Approve, Deny, Reconcile, Happens, db
<1>2. ASSUME NEW p \in Procs, Execute(p, n) PROVE IInv'
  <2>1. Start(p, n) /\ task[n] \in Unstarted
    BY <1>2 DEF Execute, Unstarted
  <2>2. TypeOK'
    BY <1>1, <1>2, <2>1, StartFacts DEF Execute, IInv, TypeOK, bounds
  <2>. QED  BY <1>1, <2>1, <2>2, StartFacts, TaskStep
<1>3. CASE Happens(n)
  BY <1>1, <1>3, TaskStep DEF Happens, IInv, TypeOK, SentOK, db, bounds
<1>4. CASE (\E p \in Procs : RecoverTask(p, n)) \/ Approve(n) \/ Deny(n) \/ Reconcile(n)
  <2>1. /\ UNCHANGED <<world, bounds>>
        /\ holder' = holder \/ holder' = [holder EXCEPT ![n] = Nobody]
    BY <1>4 DEF RecoverTask, Approve, Deny, Reconcile
  <2>2. PICK status \in TaskStatus :
          /\ task' = [task EXCEPT ![n] = status]
          /\ status \in Unstarted => task[n] \in Unstarted
          /\ status # "none"
    <3>1. ASSUME NEW p \in Procs, RecoverTask(p, n)
          PROVE  \E status \in TaskStatus :
                   /\ task' = [task EXCEPT ![n] = status]
                   /\ status \in Unstarted => task[n] \in Unstarted
                   /\ status # "none"
      BY <3>1 DEF RecoverTask, TaskStatus, Unstarted
    <3>2. CASE Approve(n) \/ Deny(n) \/ Reconcile(n)
      BY <3>2 DEF Approve, Deny, Reconcile, TaskStatus, Unstarted
    <3>. QED  BY <1>4, <3>1, <3>2
  <2>3. SentOK'
    <3>1. \A m \in Nodes : task'[m] \in Unstarted \union {"none"} =>
                             task[m] \in Unstarted \union {"none"}
      BY <2>2 DEF IInv, TypeOK
    <3>. QED  BY <2>1, <3>1, SentKeeps DEF world
  <2>4. TypeOK'
    BY <1>1, <2>1, <2>2 DEF IInv, TypeOK, world, bounds
  <2>. QED  BY <1>1, <2>3, <2>4, TaskStep
<1>. QED  BY <1>2, <1>3, <1>4

\* Recovery and the controls leave every advance without the lease when they
\* take it, so what they write is nobody's.
LEMMA SyncKeeps ==
  ASSUME IInv, NEW p \in Procs, NEW block \in Sync,
         sync' = [sync EXCEPT ![p] = block],
         block.pc = "listed" => /\ block.version = run.version /\ run' = run
                                /\ run.status \in Abandonable,
         run' \in Run, Forward(run, run'),
         run'.status = "verified_complete" => Reads(run'.node),
         lease' \in Lease,
         \A q \in Procs : Owns(q, "advance")' => Owns(q, "advance") /\ run' = run,
         UNCHANGED <<holder, adv, world, crashes, lapses>>, controls' \in Nat,
         task' \in [Nodes -> TaskStatus], SentOK'
  PROVE  IInv'
<1>1. sync' \in [Procs -> Sync] /\ \A q \in Procs \ {p} : sync'[q] = sync[q]
  BY DEF IInv, TypeOK
<1>2. AdvancesOK'
  BY AdvancesStand
<1>3. ListedOK'
  <2>1. run.version \in Nat /\ run'.version \in Nat /\ sync'[p] = block
        /\ \A q \in Procs : sync[q].version \in Nat
    BY DEF IInv, TypeOK, Run, Sync
  <2>. QED  BY <1>1, <2>1 DEF IInv, ListedOK, Forward
<1>. QED  BY <1>1, <1>2, <1>3 DEF IInv, TypeOK, CompleteOK, world

LEMMA IdleSyncFacts == IdleSync \in Sync /\ IdleSync.pc = "idle"
BY DEF IdleSync, Sync, Role

LEMMA ForwardSame ==
  ASSUME TypeOK
  PROVE  run \in Run /\ run.version \in Nat /\ Forward(run, run)
BY DEF TypeOK, Run, Forward

LEMMA ListRunKeeps ==
  ASSUME IInv, NEW p \in Procs, NEW abandonedOnly \in BOOLEAN, ListRun(p, abandonedOnly)
  PROVE  IInv'
<1> DEFINE block == [IdleSync EXCEPT !.pc = "listed", !.version = run.version,
                                     !.role = "recovery"]
<1>1. UNCHANGED <<run, lease, task, holder, adv, world, bounds>>
  BY DEF ListRun, db
<1>2. block \in Sync /\ block.pc = "listed" /\ block.version = run.version
  BY ForwardSame DEF IdleSync, Sync, Role, IInv
<1>3. sync' = [sync EXCEPT ![p] = block] /\ run.status \in Abandonable
  BY DEF ListRun, Listed, Abandonable
<1>4. \A q \in Procs : Owns(q, "advance")' => Owns(q, "advance")
  BY <1>1 DEF Owns
<1>5. SentOK'
  BY <1>1 DEF IInv, SentOK, world
<1> HIDE DEF block
<1>. QED
  BY <1>1, <1>2, <1>3, <1>4, <1>5, ForwardSame, SyncKeeps
  DEF IInv, TypeOK, CompleteOK, world, bounds

LEMMA UnderLeaseKeeps ==
  ASSUME IInv, NEW p \in Procs, NEW role \in Role \ {"advance"}, NEW after \in Run,
         NEW repaired, NEW sweep \in SUBSET Nodes,
         UnderLease(p, role, after, repaired, sweep), controls' \in Nat,
         Forward(run, after),
         after.status = "verified_complete" => Reads(after.node)
  PROVE  IInv'
<1> DEFINE block == [IdleSync EXCEPT !.pc = "releasing", !.role = role,
                       !.keep = lease # NoLease /\ ~repaired, !.sweep = sweep]
<1>1. /\ run' = after /\ sync' = [sync EXCEPT ![p] = block]
      /\ UNCHANGED <<task, holder, adv, world, crashes, lapses>>
      /\ lease' = [owner |-> <<p, role>>, fresh |-> TRUE]
  BY DEF UnderLease, Hold
<1>2. block \in Sync /\ block.pc = "releasing"
  BY DEF IdleSync, Sync, Role
<1>3. lease' \in Lease /\ \A q \in Procs : ~Owns(q, "advance")'
  BY <1>1 DEF Lease, Owns
<1>4. SentOK'
  BY <1>1 DEF IInv, SentOK, world
<1> HIDE DEF block
<1>. QED  BY <1>1, <1>2, <1>3, <1>4, SyncKeeps DEF IInv, TypeOK

LEMMA RepairRunKeeps ==
  ASSUME IInv, NEW p \in Procs, RepairRun(p)
  PROVE  IInv'
<1>1. CASE Takeable(p, "recovery")
  <2> DEFINE after == IF Unmoved(p) THEN RecoverRun(run) ELSE run
  <2>1. /\ UnderLease(p, "recovery", after, Unmoved(p), ToSweep(run, after))
        /\ controls' = controls
    BY <1>1 DEF RepairRun
  <2>2. /\ after \in Run /\ Forward(run, after)
        /\ after.status = "verified_complete" => Reads(after.node)
    BY ForwardSame, RecoverFacts DEF IInv, Forward, CompleteOK
  <2>3. ToSweep(run, after) \in SUBSET Nodes
    BY DEF ToSweep, Nodes
  <2> HIDE DEF after
  <2>. QED  BY <2>1, <2>2, <2>3, UnderLeaseKeeps DEF IInv, TypeOK, Role
<1>2. CASE ~Takeable(p, "recovery")
  <2>1. /\ sync' = [sync EXCEPT ![p] = IdleSync]
        /\ UNCHANGED <<run, lease, task, holder, adv, world, bounds>>
    BY <1>2 DEF RepairRun, db
  <2>2. \A q \in Procs : Owns(q, "advance")' => Owns(q, "advance")
    BY <2>1 DEF Owns
  <2>3. SentOK'
    BY <2>1 DEF IInv, SentOK, world
  <2>. QED
    BY <2>1, <2>2, <2>3, IdleSyncFacts, ForwardSame, SyncKeeps
    DEF IInv, TypeOK, CompleteOK, world, bounds
<1>. QED  BY <1>1, <1>2

LEMMA ReleaseSyncKeeps ==
  ASSUME IInv, NEW p \in Procs, ReleaseSync(p)
  PROVE  IInv'
<1>1. /\ UNCHANGED <<run, holder, adv, world, bounds>>
      /\ sync' = [sync EXCEPT ![p] = IdleSync]
      /\ Cancelled(sync[p].sweep)
  BY DEF ReleaseSync
<1>2. lease' \in {lease, NoLease, [lease EXCEPT !.fresh = FALSE]}
  BY DEF ReleaseSync, Release
<1>3. lease' \in Lease /\ (lease'.owner = lease.owner \/ lease'.owner = Nobody)
  BY <1>2, NoLeaseFacts DEF IInv, TypeOK, Lease
<1>4. \A q \in Procs : Owns(q, "advance")' => Owns(q, "advance")
  BY <1>3, WorkflowAssumption DEF Owns, Role
<1>5. task' \in [Nodes -> TaskStatus] /\ SentOK'
  BY <1>1, CancelledFacts DEF world
<1>. QED
  BY <1>1, <1>3, <1>4, <1>5, IdleSyncFacts, ForwardSame, SyncKeeps
  DEF IInv, TypeOK, CompleteOK, world, bounds

LEMMA ControlKeeps ==
  ASSUME IInv, NEW p \in Procs, Operator(p)
  PROVE  IInv'
<1>1. controls' \in Nat /\ run \in Run /\ run.node \in [Nodes -> NodeStatus]
      /\ "control" \in Role \ {"advance"}
  <2>1. Control(p)
    BY DEF Operator, Pause, Resume, Refused, Cancel
  <2>. QED  BY <2>1 DEF Control, IInv, TypeOK, Run, Role
<1>2. /\ {"paused", "cancelled", DeriveStatus(run.node)} \subseteq RunStatus
      /\ CancelledNodes \in [Nodes -> NodeStatus]
  <2>1. RecoverNodes(run) \in [Nodes -> NodeStatus]
    BY RecoverFacts DEF IInv
  <2>2. \A n \in Nodes : NodeState(n, run.node[n]) \in NodeStatus
    BY <1>1, NodeStateType DEF IInv
  <2>3. "cancelled" \in NodeStatus
    BY DEF NodeStatus
  <2>4. CancelledNodes \in [Nodes -> NodeStatus]
    BY <1>1, <2>1, <2>2, <2>3 DEF CancelledNodes
  <2>. QED  BY <2>4, DeriveStatusType DEF RunStatus, Ended
<1>3. \A status \in RunStatus, node \in [Nodes -> NodeStatus] :
        /\ Moved(run, status, node) \in Run
        /\ Moved(run, status, node).status = status
        /\ Moved(run, status, node).node = node
        /\ Forward(run, Moved(run, status, node))
  BY <1>1, MovedFacts DEF Forward
<1>4. CASE Pause(p)
  <2> DEFINE after == Moved(run, "paused", run.node)
  <2>1. UnderLease(p, "control", after, FALSE, {})
    BY <1>4 DEF Pause
  <2>2. after \in Run /\ Forward(run, after) /\ after.status = "paused"
    <3>1. "paused" \in RunStatus
      BY <1>2
    <3>. QED  BY <1>1, <1>3, <3>1
  <2>3. {} \in SUBSET Nodes /\ after.status # "verified_complete"
    BY <2>2
  <2> HIDE DEF after
  <2>. QED  BY <1>1, <2>1, <2>2, <2>3, UnderLeaseKeeps
<1>5. CASE Resume(p)
  <2> DEFINE after == Moved(run, DeriveStatus(run.node), run.node)
  <2>1. UnderLease(p, "control", after, FALSE, ToSweep(run, after))
    BY <1>5 DEF Resume
  <2>2. ToSweep(run, after) \in SUBSET Nodes
    BY DEF ToSweep, Nodes
  <2>3. /\ after \in Run /\ Forward(run, after)
        /\ after.status = "verified_complete" => Reads(after.node)
    BY <1>1, <1>2, <1>3 DEF Reads
  <2> HIDE DEF after
  <2>. QED  BY <1>1, <2>1, <2>2, <2>3, UnderLeaseKeeps
<1>6. CASE Cancel(p)
  <2> DEFINE after == Moved(run, "cancelled", CancelledNodes)
  <2>1. UnderLease(p, "control", after, FALSE, Nodes)
    BY <1>6 DEF Cancel
  <2>2. after \in Run /\ Forward(run, after) /\ after.status = "cancelled"
    BY <1>1, <1>2, <1>3
  <2> HIDE DEF after
  <2>. QED  BY <1>1, <2>1, <2>2, UnderLeaseKeeps
<1>7. CASE Refused(p)
  <2>1. UnderLease(p, "control", run, FALSE, {}) /\ {} \in SUBSET Nodes
    BY <1>7 DEF Refused
  <2>2. Forward(run, run) /\ (run.status = "verified_complete" => Reads(run.node))
    BY ForwardSame DEF IInv, CompleteOK
  <2>. QED  BY <1>1, <2>1, <2>2, UnderLeaseKeeps
<1>. QED  BY <1>4, <1>5, <1>6, <1>7 DEF Operator

LEMMA CrashKeeps ==
  ASSUME IInv, NEW p \in Procs, Crash(p)
  PROVE  IInv'
<1>1. /\ crashes' \in Nat /\ UNCHANGED <<run, task, world, lapses, controls>>
      /\ adv' = [adv EXCEPT ![p] = IdleAdvance]
      /\ sync' = [sync EXCEPT ![p] = IdleSync]
      /\ holder' = [n \in Nodes |-> IF holder[n] = p THEN Gone ELSE holder[n]]
      /\ lease' = IF \E role \in Role : Owns(p, role)
                  THEN [lease EXCEPT !.owner = Gone] ELSE lease
  BY DEF Crash, IInv, TypeOK
<1>2. /\ holder' \in [Nodes -> Procs \union {Nobody, Gone}]
      /\ adv' \in [Procs -> Advance] /\ adv'[p] = IdleAdvance
      /\ sync' \in [Procs -> Sync] /\ lease' \in Lease
  BY <1>1, IdleAdvanceFacts, IdleSyncFacts DEF IInv, TypeOK, Lease
<1>3. ~Owns(p, "advance")' /\ \A q \in Procs \ {p} : Owns(q, "advance")' => Owns(q, "advance")
  BY <1>1, WorkflowAssumption DEF Owns, Role, IInv, TypeOK, Lease
<1>4. AdvOK(IdleAdvance, run, FALSE)
  BY IdleAdvanceFacts DEF AdvOK
<1>5. AdvOK(adv'[p], run', Owns(p, "advance")')
  BY <1>1, <1>2, <1>3, <1>4 DEF AdvOK
<1>6. \A q \in Procs \ {p} : adv'[q] = adv[q]
  BY <1>1 DEF IInv, TypeOK
<1>7. AdvancesOK'
  BY <1>1, <1>3, <1>5, <1>6, AdvanceKeeps
<1>8. ListedOK'
  BY <1>1, IdleSyncFacts DEF IInv, TypeOK, ListedOK
<1>. QED  BY <1>1, <1>2, <1>7, <1>8 DEF IInv, TypeOK, CompleteOK, SentOK, world

-----------------------------------------------------------------------------
(* The invariant, and what follows from it.                                *)

LEMMA InitIInv == Init => IInv
<1>. SUFFICES ASSUME Init PROVE IInv
  OBVIOUS
<1>1. Started \in Run /\ Started.status = "planned"
  BY DEF Started, Run, RunStatus, Abandonable, Recoverable, NodeStatus
<1>2. TypeOK
  BY <1>1, NoLeaseFacts, IdleAdvanceFacts, IdleSyncFacts
  DEF Init, TypeOK, TaskStatus, Unstarted
<1>3. \A p \in Procs : ~Owns(p, "advance")
  BY NoLeaseFacts, WorkflowAssumption DEF Init, Owns, Role
<1>4. AdvancesOK
  BY <1>3, IdleAdvanceFacts DEF Init, AdvancesOK, AdvOK
<1>5. ListedOK
  BY IdleSyncFacts DEF Init, ListedOK
<1>6. CompleteOK /\ SentOK
  BY <1>1 DEF Init, CompleteOK, SentOK
<1>. QED  BY <1>2, <1>4, <1>5, <1>6 DEF IInv

LEMMA NextIInv == IInv /\ [Next]_vars => IInv'
<1>. SUFFICES ASSUME IInv, [Next]_vars PROVE IInv'
  OBVIOUS
<1>1. ASSUME NEW p \in Procs, Begin(p) \/ Recovered(p) PROVE IInv'
  BY <1>1, BeginKeeps
<1>2. ASSUME NEW p \in Procs, NEW n \in Nodes,
             TakeUp(p, n) \/ StartStep(p, n) \/ TaskEnds(p, n)
      PROVE  IInv'
  BY <1>2, TakeUpKeeps, StartStepKeeps, TaskEndsKeeps
<1>3. ASSUME NEW p \in Procs,
             \/ WaveEnds(p) \/ UndoNext(p) \/ Commit(p)
             \/ CancelForward(p) \/ ReleaseAdvance(p) \/ Renew(p)
      PROVE  IInv'
  BY <1>3, WaveEndsKeeps, UndoNextKeeps, CommitKeeps, CancelForwardKeeps,
     ReleaseAdvanceKeeps, RenewKeeps
<1>4. ASSUME NEW p \in Procs, NEW abandonedOnly \in BOOLEAN,
             ListRun(p, abandonedOnly) \/ RepairRun(p) \/ ReleaseSync(p)
      PROVE  IInv'
  BY <1>4, ListRunKeeps, RepairRunKeeps, ReleaseSyncKeeps
<1>5. ASSUME NEW p \in Procs, Operator(p) \/ Crash(p) PROVE IInv'
  BY <1>5, ControlKeeps, CrashKeeps
<1>6. ASSUME NEW p \in Procs, NEW n \in Nodes,
             RecoverTask(p, n) \/ Execute(p, n)
      PROVE  IInv'
  BY <1>6, TaskStepsKeep
<1>7. ASSUME NEW n \in Nodes, Approve(n) \/ Deny(n) \/ Reconcile(n) \/ Happens(n)
      PROVE  IInv'
  BY <1>7, TaskStepsKeep
<1>8. CASE Lapse
  BY <1>8, LapseKeeps
<1>9. CASE UNCHANGED vars
  <2>1. TypeOK' /\ SentOK'
    BY <1>9 DEF vars, db, world, bounds, IInv, TypeOK, SentOK
  <2>. QED  BY <1>9, <2>1, TaskStep DEF vars, db
<1>. QED  BY <1>1, <1>2, <1>3, <1>4, <1>5, <1>6, <1>7, <1>8, <1>9
          DEF Next, Advances, Sweeps

\* The stages of an advance, the lease and the unsent tasks are as IInv says.
THEOREM Invariance == Spec => []IInv
BY InitIInv, NextIInv, PTL DEF Spec

\* Every variable keeps its type, in every deployment and for every workflow.
THEOREM TypeCorrect == Spec => []TypeOK
BY Invariance, PTL DEF IInv

\* No adapter is called twice for a node, whatever takes the run over.
THEOREM StepsRunAtMostOnce == Spec => []AtMostOnce
<1>1. IInv => AtMostOnce
  BY DEF IInv, SentOK, AtMostOnce
<1>. QED  BY <1>1, Invariance, PTL

\* Only TakeUp takes up a task, on a renewed lease.
LEMMA TookUpByTakeUp ==
  ASSUME IInv, [Next]_vars, NEW p \in Procs, NEW n \in Nodes, TookUp(p, n)
  PROVE  StillLeased(p)
<1>1. /\ adv[p] \in Advance /\ adv \in [Procs -> Advance]
      /\ adv[p].at[n] = "todo" /\ adv'[p].at[n] = "starting"
      /\ AdvOK(adv[p], run, Owns(p, "advance"))
  BY DEF IInv, TypeOK, AdvancesOK, TookUp
<1>2. ~Idling(adv[p]) /\ adv[p].pc \in {"wave", "undo"} /\ adv'[p] # adv[p]
  BY <1>1 DEF AdvOK, Idling
<1>3. ASSUME NEW q \in Procs, Advances(q) \/ Begin(q) \/ Crash(q), q # p PROVE FALSE
  <2>1. CASE Begin(q) \/ Recovered(q)
    <3>1. (\E a : SetAdv(q, a)) \/ Acquire(q)
      BY <2>1 DEF Begin, Recovered
    <3>2. \E a : SetAdv(q, a)
      BY <3>1 DEF Acquire
    <3>. QED  BY <1>1, <1>2, <1>3, <3>2 DEF SetAdv
  <2>2. CASE WaveEnds(q) \/ UndoNext(q) \/ Commit(q) \/ CancelForward(q) \/ ReleaseAdvance(q)
    <3>1. \E a : SetAdv(q, a)
      BY <2>2 DEF WaveEnds, UndoNext, Commit, CancelForward, ReleaseAdvance
    <3>. QED  BY <1>1, <1>2, <1>3, <3>1 DEF SetAdv
  <2>3. ASSUME NEW m \in Nodes, TakeUp(q, m) \/ StartStep(q, m) PROVE FALSE
    <3>1. \E a : SetAdv(q, a)
      BY <2>3 DEF TakeUp, StartStep
    <3>. QED  BY <1>1, <1>2, <1>3, <3>1 DEF SetAdv
  <2>4. ASSUME NEW m \in Nodes, TaskEnds(q, m) PROVE FALSE
    <3>1. adv'[p] = adv[p]
      BY <1>1, <1>3, <2>4 DEF TaskEnds
    <3>. QED  BY <1>1, <3>1
  <2>5. CASE Crash(q)
    BY <1>1, <1>2, <1>3, <2>5 DEF Crash
  <2>. QED  BY <1>3, <2>1, <2>2, <2>3, <2>4, <2>5 DEF Advances
<1>4. /\ ~Begin(p) /\ ~Recovered(p) /\ ~WaveEnds(p) /\ ~UndoNext(p) /\ ~Commit(p)
      /\ ~CancelForward(p) /\ ~ReleaseAdvance(p)
  BY <1>2 DEF Begin, Recovered, WaveEnds, UndoNext, Commit, CancelForward, ReleaseAdvance
<1>5. ~Crash(p)
  BY <1>1 DEF Crash, IdleAdvance
<1>6. ASSUME NEW m \in Nodes, StartStep(p, m) \/ TaskEnds(p, m) PROVE FALSE
  <2>1. \/ adv'[p] = [adv[p] EXCEPT !.at[m] = "running"]
        \/ adv'[p] = Refuse(adv[p], m)
        \/ adv'[p] = Result(adv[p], m, NodeState(m, "pending")')
    BY <1>1, <1>2, <1>6 DEF StartStep, TaskEnds, SetAdv
  <2>2. ASSUME NEW state PROVE Result(adv[p], m, state).at[n] \in {adv[p].at[n], "no"}
    BY <1>1 DEF Advance, Result
  <2>3. [adv[p] EXCEPT !.at[m] = "running"].at[n] \in {adv[p].at[n], "running"}
    BY <1>1 DEF Advance
  <2>4. Refuse(adv[p], m).at[n] \in {adv[p].at[n], "no"}
    BY <1>1 DEF Advance, Refuse
  <2>5. adv'[p].at[n] \in {adv[p].at[n], "running", "no"}
    BY <2>1, <2>2, <2>3, <2>4
  <2>. QED  BY <1>1, <2>5
<1>7. ASSUME NEW m \in Nodes, TakeUp(p, m) PROVE StillLeased(p)
  <2>1. SUFFICES ASSUME ~StillLeased(p) PROVE FALSE
    OBVIOUS
  <2>2. adv'[p] = Refuse(adv[p], m)
    BY <1>1, <1>7, <2>1 DEF TakeUp, SetAdv
  <2>. QED  BY <1>1, <2>2 DEF Advance, Refuse
<1>8. \E q \in Procs : Advances(q) \/ Begin(q) \/ Crash(q)
  <2>1. adv' # adv
    BY <1>2
  <2>2. ~UNCHANGED vars /\ ~Lapse
    BY <2>1 DEF vars, Lapse
  <2>3. ASSUME NEW m \in Nodes PROVE ~(Approve(m) \/ Deny(m) \/ Reconcile(m) \/ Happens(m))
    BY <2>1 DEF Approve, Deny, Reconcile, Happens
  <2>4. ASSUME NEW q \in Procs, NEW m \in Nodes PROVE ~(Execute(q, m) \/ RecoverTask(q, m))
    BY <2>1 DEF Execute, RecoverTask
  <2>5. ASSUME NEW q \in Procs, NEW b \in BOOLEAN PROVE ~ListRun(q, b)
    BY <2>1 DEF ListRun
  <2>6. ASSUME NEW q \in Procs PROVE ~(Renew(q) \/ RepairRun(q) \/ ReleaseSync(q))
    BY <2>1 DEF Renew, RepairRun, UnderLease, ReleaseSync
  <2>7. ASSUME NEW q \in Procs PROVE ~Operator(q)
    BY <2>1 DEF Operator, Pause, Resume, Refused, Cancel, UnderLease
  <2>. QED  BY <2>2, <2>3, <2>4, <2>5, <2>6, <2>7 DEF Next, Sweeps
<1>. QED  BY <1>3, <1>4, <1>5, <1>6, <1>7, <1>8 DEF Advances

\* An advance executes a node only on the run it read: its renewal of the lease
\* before the step is what shows the run has not moved.
THEOREM StepsAreTakenUpOnCurrentRun == Spec => TakenUpOnCurrentRun
<1>1. ASSUME IInv, [Next]_vars, NEW p \in Procs, NEW n \in Nodes, TookUp(p, n)
      PROVE  /\ run.version = adv[p].cur.version
             /\ run.status \notin Ended \union {"paused"}
  <2>1. /\ AdvOK(adv[p], run, Owns(p, "advance")) /\ adv[p] \in Advance
        /\ adv[p].at[n] = "todo" /\ adv'[p].at[n] = "starting"
    BY <1>1 DEF IInv, TypeOK, AdvancesOK, TookUp
  <2>2. adv[p].pc \in {"wave", "undo"} /\ adv[p].cur.status \notin Ended \union {"paused"}
    BY <2>1 DEF AdvOK, Idling, Ended
  <2>3. Owns(p, "advance")
    BY <1>1, TookUpByTakeUp DEF StillLeased
  <2>. QED  BY <2>1, <2>2, <2>3 DEF AdvOK, Working
<1>2. IInv /\ [Next]_vars =>
        [\A p \in Procs, n \in Nodes :
           TookUp(p, n) => /\ run.version = adv[p].cur.version
                           /\ run.status \notin Ended \union {"paused"}]_vars
  BY <1>1
<1>. QED  BY <1>2, Invariance, PTL DEF Spec, TakenUpOnCurrentRun

-----------------------------------------------------------------------------
(* A finished run stays finished.                                          *)

LEMMA EndedByEachStep ==
  ASSUME IInv, [Next]_vars, run.status \in Ended
  PROVE  run'.status = run.status
<1>1. run \in Run /\ run.status \notin Abandonable /\ run.status # "paused"
  BY DEF IInv, TypeOK, Ended, Abandonable, Recoverable
<1>2. ASSUME NEW p \in Procs, Begin(p) \/ Recovered(p) PROVE UNCHANGED run
  BY <1>2 DEF Begin, Recovered, Acquire
<1>3. ASSUME NEW p \in Procs, Commit(p) PROVE run'.status = run.status
  BY <1>3, CommitFacts
<1>4. ASSUME NEW p \in Procs, NEW n \in Nodes,
             \/ TakeUp(p, n) \/ StartStep(p, n) \/ TaskEnds(p, n)
             \/ RecoverTask(p, n) \/ Execute(p, n)
      PROVE  UNCHANGED run
  BY <1>4 DEF TakeUp, StartStep, TaskEnds, RecoverTask, Execute
<1>5. ASSUME NEW p \in Procs,
             \/ WaveEnds(p) \/ UndoNext(p) \/ CancelForward(p) \/ ReleaseAdvance(p)
             \/ Renew(p) \/ ReleaseSync(p) \/ Crash(p)
      PROVE  UNCHANGED run
  BY <1>5 DEF WaveEnds, UndoNext, CancelForward, ReleaseAdvance, Renew, ReleaseSync,
              Crash, db
<1>6. ASSUME NEW p \in Procs, NEW b \in BOOLEAN, ListRun(p, b) PROVE UNCHANGED run
  BY <1>6 DEF ListRun, db
<1>7. ASSUME NEW p \in Procs, RepairRun(p) PROVE UNCHANGED run
  <2>1. ~Unmoved(p)
    BY <1>1, <1>7 DEF RepairRun, Unmoved, IInv, ListedOK
  <2>. QED  BY <1>7, <2>1 DEF RepairRun, UnderLease, db
<1>8. ASSUME NEW p \in Procs, Operator(p) PROVE run'.status = run.status
  <2>1. ~Pause(p) /\ ~Resume(p)
    BY <1>1 DEF Pause, Resume
  <2>2. CASE Cancel(p)
    BY <1>1, <2>2 DEF Cancel, UnderLease, Moved, Ended
  <2>3. CASE Refused(p)
    BY <2>3 DEF Refused, UnderLease
  <2>. QED  BY <1>8, <2>1, <2>2, <2>3 DEF Operator
<1>9. ASSUME NEW n \in Nodes, Approve(n) \/ Deny(n) \/ Reconcile(n) \/ Happens(n)
      PROVE  UNCHANGED run
  BY <1>9 DEF Approve, Deny, Reconcile, Happens, db
<1>10. Lapse \/ UNCHANGED vars => UNCHANGED run
  BY DEF Lapse, vars, db
<1>. QED  BY <1>2, <1>3, <1>4, <1>5, <1>6, <1>7, <1>8, <1>9, <1>10
          DEF Next, Advances, Sweeps

\* A completed or cancelled run keeps its status, whatever advances, recoveries and
\* controls read it before it ended.
THEOREM EndedRunsStay == Spec => EndedStays
<1>1. IInv /\ [Next]_vars => [run.status \in Ended => run'.status = run.status]_vars
  BY EndedByEachStep
<1>. QED  BY <1>1, Invariance, PTL DEF Spec, EndedStays

\* Nothing is started on a run that has moved on, and an ended run keeps its status
\* (the two theorems above in the form a run checks).
THEOREM RunsAreCurrent == Spec => RunIsCurrent
BY StepsAreTakenUpOnCurrentRun, EndedRunsStay DEF RunIsCurrent
=============================================================================
