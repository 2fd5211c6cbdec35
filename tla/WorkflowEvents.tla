-------------------------- MODULE WorkflowEvents --------------------------
(***************************************************************************)
(* A run as its event history (packages/runtime-core/src/                  *)
(* workflow-events.ts and workflow-controller.ts `transition`): whoever     *)
(* changes a run reads it, makes a draft of it and the events that say what *)
(* changed, and commits both if the run has not moved on.  The run must be  *)
(* what its events, or a snapshot and those after it, rebuild; and who      *)
(* halted a run is known from them alone.                                  *)
(***************************************************************************)
EXTENDS Integers, Sequences, SequencesExt, Sublists

CONSTANTS NodeSeq,     \* the run's nodes, in the definition's order
          Naming,      \* those whose unknown outcome names the run's error
          MaxEvents    \* length the history grows to

VARIABLES run, log, snapshot,
          read,        \* the run as an advance at work read it, or <<>>
          held         \* an operator halted the run and none has resumed it

eventVars == <<run, log, snapshot, read, held>>
Nodes == {NodeSeq[i] : i \in DOMAIN NodeSeq}

Halts == {"paused", "suspended"}
Ended == {"verified_complete", "cancelled", "failed"}
Open == {"pending", "awaiting_approval"}
NodeStates == Open \union {"verified_complete", "recovery_required", "failed", "cancelled"}
Status == Halts \union Ended \union {"planned", "running", "awaiting_approval", "recovery_required"}

Event(type) == [type |-> type, sequence |-> 0, from |-> "none", to |-> "none", error |-> "none",
                node |-> "none", operator |-> FALSE, run |-> <<>>]

Created == [version |-> 1, status |-> "draft", error |-> "none", node |-> [n \in Nodes |-> "pending"]]
Planned == [Created EXCEPT !.version = 2, !.status = "planned"]
Init ==
  /\ run = Planned
  /\ log = <<[Event("created") EXCEPT !.sequence = 1, !.run = Created],
             [Event("status_changed") EXCEPT !.sequence = 2, !.from = "draft", !.to = "planned"]>>
  /\ snapshot = <<>>
  /\ read = <<>>
  /\ held = FALSE

----------------------------------------------------------------------------
\* The reducer.  Bad is a history it refuses.
Bad == [version |-> -1, status |-> "bad", error |-> "none", node |-> [n \in Nodes |-> "pending"]]

Says(e) == CASE e.type = "paused" -> e.to = "paused"
             [] e.type = "suspended" -> e.to = "suspended"
             [] e.type = "cancelled" -> e.to = "cancelled"
             [] e.type = "recovery_required" -> e.to = "recovery_required"
             [] OTHER -> TRUE

Reduced(r, e) ==
  CASE e.type = "checkpoint_saved" -> r
    [] e.type = "node_changed" ->
         IF r.node[e.node] = e.from THEN [r EXCEPT !.node[e.node] = e.to] ELSE Bad
    [] OTHER ->
         IF r.status = e.from /\ Says(e) THEN [r EXCEPT !.status = e.to, !.error = e.error] ELSE Bad

Apply(r, e) ==
  IF r = Bad \/ e.sequence # r.version + 1 THEN Bad
  ELSE LET next == Reduced(r, e)
       IN IF next = Bad THEN Bad ELSE [next EXCEPT !.version = e.sequence]

Rebuild(from, events) ==
  IF from = <<>>
  THEN IF events = <<>> \/ Head(events).type # "created" THEN Bad
       ELSE FoldLeft(Apply, Head(events).run, Tail(events))
  ELSE FoldLeft(Apply, from, events)

After(sequence) == SelectSeq(log, LAMBDA e : e.sequence > sequence)
Replay == IF snapshot = <<>> THEN Rebuild(<<>>, log) ELSE Rebuild(snapshot, After(snapshot.version))

----------------------------------------------------------------------------
\* What a writer makes of a run: a draft, and the events that say it.
NodesChanged(before, after) ==
  LET changed == Keeping(NodeSeq, {i \in DOMAIN NodeSeq : before[NodeSeq[i]] # after[NodeSeq[i]]})
  IN [i \in DOMAIN changed |->
       [Event("node_changed") EXCEPT !.node = changed[i], !.from = before[changed[i]],
                                     !.to = after[changed[i]]]]

Unknown(node) == \E n \in Nodes : node[n] = "recovery_required"
DeriveStatus(node) ==
  CASE Unknown(node) -> "recovery_required"
    [] ~Unknown(node) /\ \E n \in Nodes : node[n] \in {"failed", "cancelled"} -> "failed"
    [] \A n \in Nodes : node[n] = "verified_complete" -> "verified_complete"
    [] OTHER -> IF \E n \in Nodes : node[n] = "awaiting_approval" THEN "awaiting_approval" ELSE "running"
HaltReason(node) == IF \E n \in Naming : node[n] = "recovery_required" THEN "named" ELSE "none"

StatusChanged(type, r, to, error) ==
  [Event(type) EXCEPT !.from = r.status, !.to = to, !.error = error]

\* what a node's tasks may say of it by now
Rereads(r) == {node \in [Nodes -> NodeStates] :
                 \A n \in Nodes : node[n] # r.node[n] => r.node[n] \in Open \union {"recovery_required"}}

\* an advance's wave
Settled(r, node) ==
  LET to == DeriveStatus(node) IN
  [draft  |-> IF to = r.status THEN [r EXCEPT !.node = node]
              ELSE [r EXCEPT !.node = node, !.status = to, !.error = HaltReason(node)],
   events |-> NodesChanged(r.node, node) \o
              IF to = r.status THEN <<>> ELSE <<StatusChanged("status_changed", r, to, HaltReason(node))>>]

\* a start's recovery
Recovered(r, node) ==
  LET to == DeriveStatus(node)
      error == IF to # "recovery_required" THEN "none"
               ELSE IF HaltReason(node) = "none" THEN "unreconciled" ELSE HaltReason(node)
  IN IF node = r.node /\ error = r.error /\ (to = r.status \/ (r.status = "planned" /\ to = "running"))
     THEN [draft |-> r, events |-> <<>>]
     ELSE [draft  |-> [r EXCEPT !.node = node, !.status = to, !.error = error],
           events |-> NodesChanged(r.node, node) \o
             <<StatusChanged(IF to = "recovery_required" THEN to ELSE "recovered", r, to, error)>>]

\* A cancel reads the nodes again first, and cancels those still open.
Cancelled(r, node) ==
  LET ended == [n \in Nodes |-> IF node[n] \in Open THEN "cancelled" ELSE node[n]] IN
  [draft  |-> [r EXCEPT !.node = ended, !.status = "cancelled", !.error = "none"],
   events |-> NodesChanged(r.node, node) \o NodesChanged(node, ended) \o
              <<StatusChanged("cancelled", r, "cancelled", "none")>>]

\* Who halted: from the events, back to the last resume.
HeldByOperator ==
  \E i \in DOMAIN log : /\ log[i].type \in Halts /\ log[i].operator
                        /\ \A j \in i..Len(log) : log[j].type # "resumed"

Halted(r, to, operator) ==
  [draft  |-> [r EXCEPT !.status = to],
   events |-> <<[StatusChanged(to, r, to, r.error) EXCEPT !.operator = operator]>>]

Resumed(r, operator) ==
  LET to == DeriveStatus(r.node)
      error == IF to # "recovery_required" THEN "none"
               ELSE IF r.error = "none" THEN "unreconciled" ELSE r.error
  IN [draft  |-> [r EXCEPT !.status = to, !.error = error],
      events |-> <<[StatusChanged("resumed", r, to, error) EXCEPT !.operator = operator]>>]

----------------------------------------------------------------------------
\* A change numbered from the run it was made of.
Numbered(cur, change, checkpoint) ==
  LET events == IF checkpoint THEN Append(change.events, Event("checkpoint_saved")) ELSE change.events
  IN [draft  |-> [change.draft EXCEPT !.version = cur.version + Len(events)],
      events |-> [i \in DOMAIN events |-> [events[i] EXCEPT !.sequence = cur.version + i]]]

\* The commit: only over the run as it was read, its snapshot with it.
AtVersion(cur) == run.version = cur.version
Committed(cur, change, checkpoint) ==
  LET it == Numbered(cur, change, checkpoint) IN
  /\ AtVersion(cur) /\ it.events # <<>> /\ Len(log) + Len(it.events) <= MaxEvents
  /\ Rebuild(cur, it.events) = it.draft
  /\ run' = it.draft
  /\ log' = log \o it.events
  /\ snapshot' = IF checkpoint THEN it.draft ELSE snapshot

\* An advance runs its steps between its read and its commit; a commit that
\* finds the run changed, and an advance that dies, record nothing.
Begin ==
  /\ read = <<>> /\ run.status \notin Halts \union Ended
  /\ read' = run
  /\ UNCHANGED <<run, log, snapshot, held>>
Advance ==
  /\ read # <<>>
  /\ \E node \in Rereads(read), checkpoint \in BOOLEAN : Committed(read, Settled(read, node), checkpoint)
  /\ read' = <<>> /\ UNCHANGED held
Drop ==
  /\ read # <<>> /\ read' = <<>>
  /\ UNCHANGED <<run, log, snapshot, held>>

\* The others read and commit under the run's lease.
Recover ==
  /\ run.status \in {"planned", "running", "awaiting_approval", "recovery_required"}
  /\ \E node \in Rereads(run) : Committed(run, Recovered(run, node), FALSE)
  /\ UNCHANGED <<read, held>>
Cancel ==
  /\ run.status \notin {"verified_complete", "cancelled"}
  /\ \E node \in Rereads(run) : Committed(run, Cancelled(run, node), FALSE)
  /\ UNCHANGED <<read, held>>
Halt(to, operator) ==
  /\ run.status \notin Ended
  /\ run.status = to => operator /\ ~HeldByOperator
  /\ Committed(run, Halted(run, to, operator), FALSE)
  /\ held' = (held \/ operator) /\ UNCHANGED read
Resume(operator) ==
  /\ run.status \in Halts
  /\ ~operator => ~HeldByOperator
  /\ Committed(run, Resumed(run, operator), FALSE)
  /\ held' = FALSE /\ UNCHANGED read

Next ==
  \/ Begin \/ Advance \/ Drop \/ Recover \/ Cancel
  \/ \E operator \in BOOLEAN : Resume(operator) \/ \E to \in Halts : Halt(to, operator)

Spec == Init /\ [][Next]_eventVars

----------------------------------------------------------------------------
TypeOK ==
  /\ run.status \in Status /\ run.node \in [Nodes -> NodeStates]
  /\ run.error \in {"none", "named", "unreconciled"}
  /\ Len(log) = run.version /\ Len(log) <= MaxEvents
  /\ held \in BOOLEAN

\* The history rebuilds the run, from its start and from its last snapshot.
ReplayIsTheRun == Replay = run /\ Rebuild(<<>>, log) = run

\* Whatever its tasks say by now, each change of the run drafts what its own
\* events say: none is refused as a mismatch, which would strand the run.
DraftsAgree ==
  LET changes == UNION {{Settled(run, node), Recovered(run, node), Cancelled(run, node)} : node \in Rereads(run)}
                   \union {Halted(run, to, FALSE) : to \in Halts} \union {Resumed(run, FALSE)}
  IN \A change \in changes :
       LET it == Numbered(run, change, FALSE) IN Rebuild(run, it.events) = it.draft

\* A run an operator halted goes on only when an operator resumes it, whoever
\* else switched its halt meanwhile; and nothing moves its steps till then
\* but its cancel.
OperatorsHaltHolds ==
  [][held /\ held' = FALSE => Last(log').type = "resumed" /\ Last(log').operator]_eventVars
HaltedStays ==
  [][run.status \in Halts /\ run.node' # run.node => run'.status = "cancelled"]_eventVars
============================================================================
