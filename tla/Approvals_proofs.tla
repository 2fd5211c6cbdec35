-------------------------- MODULE Approvals_proofs --------------------------
(***************************************************************************)
(* Theorems about Approvals, for any number of processes in either mode,   *)
(* any policies, lifetimes and cap: a denial is final, an enforced start   *)
(* rests on an operator's decision, no challenge is spoilt, and the cap is *)
(* passed by one for each process but the first.                           *)
(***************************************************************************)
EXTENDS Approvals, FiniteSetTheorems, TLAPS

\* A task being planned is in nobody's hands yet, and in one planner's.
PlanningOK ==
  \A p \in Procs :
    turn[p].kind = "plan" =>
      /\ row[turn[p].task].status = "none"
      /\ \A q \in Procs :
           turn[q].kind = "plan" /\ turn[q].task = turn[p].task => q = p

\* Nothing is known of a task before it is planned.
FreshOK ==
  \A t \in Tasks :
    row[t].status = "none" =>
      /\ row[t].challenge = "none" /\ ~decision[t].made
      /\ t \notin denials
      /\ \A p \in Procs : t \notin starting[p]

AwaitingOK ==
  \A t \in Tasks : row[t].status = "awaiting_approval" => row[t].challenge # "none"

\* A decision answers a challenge in time, and names the mode it was made in.
AnswerOK ==
  \A t \in Tasks :
    decision[t].made =>
      /\ row[t].challenge # "none"
      /\ decision[t].at <= row[t].expires
      /\ decision[t].at <= now
      /\ decision[t].channel = "out_of_band" <=> decision[t].by \in Enforced

\* Somebody issued each challenge, in whose mode it is and by whose lifetime it
\* expires before an answer to it does.
IssuedBy(p, t) ==
  /\ p \in Enforced <=> row[t].challenge = "no_phrase"
  /\ row[t].expires <= now + Ttl[p]
  /\ decision[t].made => row[t].expires <= decision[t].at + Ttl[p]
IssuedOK ==
  \A t \in Tasks : row[t].challenge # "none" => \E p \in Procs : IssuedBy(p, t)

\* What an enforced process is about to start, an operator approved.
StartingOK ==
  \A p \in Enforced : \A t \in starting[p] :
    /\ row[t].challenge # "none"
    /\ decision[t].made /\ decision[t].by \in Enforced
    /\ decision[t].at <= row[t].expires

\* The challenges being planned count too.
Planning ==
  {p \in Procs : turn[p].kind = "plan" /\ Outcome(p, turn[p].task) = "confirm"}
BoundOK ==
  Cardinality(OpenToAll) + Cardinality(Planning) <= Cap + Cardinality(Procs) - 1

IInv ==
  /\ TypeOK /\ PlanningOK /\ FreshOK /\ AwaitingOK /\ AnswerOK /\ IssuedOK
  /\ StartingOK /\ DeniedNeverRuns /\ EnforcedRunsOnOperator /\ NeverStranded
  /\ BoundOK

-----------------------------------------------------------------------------
(* The initial state.                                                      *)

LEMMA InitIInv == Init => IInv
<1> SUFFICES ASSUME Init PROVE IInv
  OBVIOUS
<1> USE ApprovalAssumption
<1>1. TypeOK
  BY DEF Init, TypeOK, Row, NoRow, Status, Decision, Undecided, Turn, NoTurn
<1>2. /\ PlanningOK /\ FreshOK /\ AwaitingOK /\ AnswerOK /\ IssuedOK
      /\ StartingOK /\ DeniedNeverRuns /\ EnforcedRunsOnOperator /\ NeverStranded
  BY DEF Init, NoRow, Undecided, NoTurn, PlanningOK, FreshOK, AwaitingOK,
         AnswerOK, IssuedOK, StartingOK, DeniedNeverRuns,
         EnforcedRunsOnOperator, NeverStranded
<1>3. BoundOK
  <2>1. OpenToAll = {} /\ Planning = {}
    BY DEF Init, OpenToAll, Open, NoRow, Planning, NoTurn
  <2>2. Cardinality(Procs) \in Nat /\ Cardinality(Procs) # 0
    BY FS_CardinalityType, FS_EmptySet
  <2> QED
    BY <2>1, <2>2, FS_EmptySet DEF BoundOK
<1> QED
  BY <1>1, <1>2, <1>3 DEF IInv

-----------------------------------------------------------------------------
(* Types.                                                                  *)

LEMMA PlannedRowType ==
  ASSUME TypeOK, NEW p \in Procs, NEW t \in Tasks
  PROVE  /\ PlannedRow(p, t) \in Row
         /\ PlannedRow(p, t).status # "none"
         /\ PlannedRow(p, t).status # "running"
         /\ PlannedRow(p, t).status = "awaiting_approval"
              <=> Outcome(p, t) = "confirm"
         /\ PlannedRow(p, t).challenge # "none" <=> Outcome(p, t) = "confirm"
         /\ Outcome(p, t) = "confirm" =>
              /\ PlannedRow(p, t).challenge =
                   IF p \in Enforced THEN "no_phrase" ELSE "phrase"
              /\ PlannedRow(p, t).expires = now + Ttl[p]
<1> USE ApprovalAssumption DEF TypeOK
<1>1. CASE Outcome(p, t) = "deny"
  BY <1>1 DEF PlannedRow, NoRow, Row, Status
<1>2. CASE Outcome(p, t) = "allow"
  BY <1>2 DEF PlannedRow, NoRow, Row, Status
<1>3. CASE Outcome(p, t) = "confirm"
  <2>1. PlannedRow(p, t) =
          [status |-> "awaiting_approval",
           challenge |-> IF p \in Enforced THEN "no_phrase" ELSE "phrase",
           expires |-> now + Ttl[p], mode |-> "none"]
    BY <1>3 DEF PlannedRow, NoRow
  <2>2. now + Ttl[p] \in Nat
    OBVIOUS
  <2> QED
    BY <1>3, <2>1, <2>2 DEF Row, Status
<1>4. Outcome(p, t) \in {"deny", "allow", "confirm"}
  BY DEF Outcome
<1> QED
  BY <1>1, <1>2, <1>3, <1>4

LEMMA MadeType ==
  ASSUME TypeOK, NEW t \in Tasks, decision[t].made
  PROVE  decision[t].at \in Nat /\ decision[t].by \in Procs
<1>1. decision[t] \in Decision
  BY DEF TypeOK
<1>2. decision[t] \in [made : {TRUE}, at : Nat, by : Procs, channel : Channels]
  <2>1. decision[t] # Undecided
    BY DEF Undecided
  <2> QED
    BY <1>1, <2>1 DEF Decision
<1> QED
  BY <1>2

LEMMA TypeStep == IInv /\ [Next]_vars => TypeOK'
<1> SUFFICES ASSUME TypeOK, [Next]_vars PROVE TypeOK'
  BY DEF IInv
<1> USE ApprovalAssumption DEF TypeOK
<1>1. CASE UNCHANGED vars
  BY <1>1 DEF vars
<1>2. CASE Tick
  BY <1>2 DEF Tick
<1>3. ASSUME NEW t \in Tasks, Interrupt(t) PROVE TypeOK'
  BY <1>3 DEF Interrupt, Row, Status
<1>4. ASSUME NEW p \in Procs, PlanWrite(p) PROVE TypeOK'
  <2>1. turn[p] \in [kind : {"plan"}, task : Tasks]
    BY <1>4 DEF PlanWrite, Turn, NoTurn
  <2> QED
    BY <1>4, <2>1, PlannedRowType DEF PlanWrite, Leave, Turn
<1>5. ASSUME NEW p \in Procs, DenyWrite(p) PROVE TypeOK'
  <2>1. turn[p] \in [kind : {"deny"}, task : Tasks]
    BY <1>5 DEF DenyWrite, Turn, NoTurn
  <2>2. /\ now' = now /\ decision' = decision /\ starting' = starting
        /\ turn' \in [Procs -> Turn]
    BY <1>5 DEF DenyWrite, Leave, Turn
  <2>3. row' \in [Tasks -> Row] /\ denials' \subseteq Tasks
    BY <1>5, <2>1 DEF DenyWrite, Row, Status
  <2> QED
    BY <2>2, <2>3
<1>6. ASSUME NEW p \in Procs, NEW t \in Tasks, Plan(p, t) PROVE TypeOK'
  BY <1>6 DEF Plan, Enter, Turn
<1>7. ASSUME NEW p \in Procs, NEW t \in Tasks, Decide(p, t) PROVE TypeOK'
  BY <1>7 DEF Decide, Decision, Channel, Channels
<1>8. ASSUME NEW p \in Procs, NEW t \in Tasks, Deny(p, t) PROVE TypeOK'
  BY <1>8 DEF Deny, Enter, Turn
<1>9. ASSUME NEW p \in Procs, NEW t \in Tasks, Cancel(p, t) PROVE TypeOK'
  BY <1>9 DEF Cancel, Row, Status
<1>10. ASSUME NEW p \in Procs, NEW t \in Tasks, Block(p, t) PROVE TypeOK'
  BY <1>10 DEF Block, Row, Status
<1>11. ASSUME NEW p \in Procs, NEW t \in Tasks, Start(p, t) PROVE TypeOK'
  <2>1. row' \in [Tasks -> Row]
    <3>1. CASE IsUnstarted(t)
      <4> DEFINE started == [row[t] EXCEPT !.status = "running", !.mode = Mode(p)]
      <4>1. started \in Row
        <5>1. [row[t] EXCEPT !.status = "running"] \in Row
          BY DEF Row, Status
        <5>2. \A r \in Row : [r EXCEPT !.mode = Mode(p)] \in Row
          BY DEF Row, Mode
        <5> QED
          BY <5>1, <5>2, Zenon
      <4>2. row' = [row EXCEPT ![t] = started]
        BY <1>11, <3>1, Zenon DEF Start
      <4> HIDE DEF started
      <4> QED
        BY <4>1, <4>2
    <3>2. CASE ~IsUnstarted(t)
      BY <1>11, <3>2 DEF Start
    <3> QED
      BY <3>1, <3>2
  <2> QED
    BY <1>11, <2>1 DEF Start
<1>12. ASSUME NEW p \in Procs, NEW t \in Tasks, NEW answer \in Answers,
              Execute(p, t, answer)
       PROVE  TypeOK'
  BY <1>12 DEF Execute
<1> QED
  BY <1>1, <1>2, <1>3, <1>4, <1>5, <1>6, <1>7, <1>8, <1>9, <1>10, <1>11, <1>12
     DEF Next

-----------------------------------------------------------------------------
(* What a step keeps.                                                      *)

\* A planned task keeps its challenge, and a decision stands.
LEMMA Kept ==
  ASSUME IInv, [Next]_vars, NEW t \in Tasks
  PROVE  /\ decision[t].made => decision'[t] = decision[t]
         /\ row[t].status # "none" =>
              /\ row'[t].status # "none"
              /\ row'[t].challenge = row[t].challenge
              /\ row'[t].expires = row[t].expires
         /\ row'[t].status = "none" => row'[t] = row[t]
         /\ now' \in Nat /\ now <= now'
<1> USE ApprovalAssumption DEF IInv, TypeOK, Row
<1>1. CASE UNCHANGED vars
  BY <1>1 DEF vars
<1>2. CASE Tick
  BY <1>2 DEF Tick
<1>3. ASSUME NEW u \in Tasks, Interrupt(u)
      PROVE  /\ row' = [row EXCEPT ![u].status = "planned"]
             /\ row[u].status # "none"
             /\ decision' = decision /\ now' = now
  BY <1>3 DEF Interrupt
<1>4. ASSUME NEW p \in Procs, PlanWrite(p)
      PROVE  /\ decision' = decision /\ now' = now
             /\ turn[p].task \in Tasks
             /\ row[turn[p].task].status = "none"
             /\ row' = [row EXCEPT ![turn[p].task] = PlannedRow(p, turn[p].task)]
             /\ PlannedRow(p, turn[p].task).status # "none"
  <2>1. turn[p].task \in Tasks
    BY <1>4 DEF PlanWrite, Turn, NoTurn
  <2> QED
    BY <1>4, <2>1, PlannedRowType DEF PlanWrite, PlanningOK
<1>5. ASSUME NEW p \in Procs, DenyWrite(p)
      PROVE  /\ decision' = decision /\ now' = now
             /\ \/ row' = row
                \/ \E u \in Tasks : /\ row' = [row EXCEPT ![u].status = "cancelled"]
                                     /\ row[u].status # "none"
  <2>1. turn[p].task \in Tasks
    BY <1>5 DEF DenyWrite, Turn, NoTurn
  <2> QED
    BY <1>5, <2>1 DEF DenyWrite, IsUnstarted, Unstarted
<1>6. ASSUME NEW p \in Procs, NEW u \in Tasks, Decide(p, u)
      PROVE  /\ row' = row /\ now' = now /\ ~decision[u].made
             /\ \A v \in Tasks \ {u} : decision'[v] = decision[v]
  BY <1>6 DEF Decide
<1>7. ASSUME NEW p \in Procs, NEW u \in Tasks, Cancel(p, u) \/ Block(p, u)
      PROVE  /\ decision' = decision /\ now' = now
             /\ row[u].status # "none"
             /\ \E status \in {"cancelled", "policy_blocked"} :
                  row' = [row EXCEPT ![u].status = status]
  BY <1>7 DEF Cancel, Block, Executes, IsUnstarted, Unstarted
<1>8. ASSUME NEW p \in Procs, NEW u \in Tasks, Start(p, u)
      PROVE  /\ decision' = decision /\ now' = now
             /\ \A v \in Tasks \ {u} : row'[v] = row[v]
             /\ \/ row' = row
                \/ /\ row[u].status # "none" /\ row'[u].status = "running"
                   /\ row'[u].challenge = row[u].challenge
                   /\ row'[u].expires = row[u].expires
  BY <1>8 DEF Start, IsUnstarted, Unstarted
<1>9. ASSUME NEW p \in Procs, NEW u \in Tasks,
             Plan(p, u) \/ Deny(p, u) \/ \E answer \in Answers : Execute(p, u, answer)
      PROVE  row' = row /\ decision' = decision /\ now' = now
  BY <1>9 DEF Plan, Deny, Execute
<1>10. CASE \E u \in Tasks : Interrupt(u)
  BY <1>3, <1>10
<1>11. CASE \E p \in Procs : PlanWrite(p)
  BY <1>4, <1>11
<1>12. CASE \E p \in Procs : DenyWrite(p)
  BY <1>5, <1>12
<1>13. CASE \E p \in Procs, u \in Tasks : Decide(p, u)
  BY <1>6, <1>13
<1>14. CASE \E p \in Procs, u \in Tasks : Cancel(p, u) \/ Block(p, u)
  BY <1>7, <1>14
<1>15. CASE \E p \in Procs, u \in Tasks : Start(p, u)
  BY <1>8, <1>15
<1>16. CASE \E p \in Procs, u \in Tasks :
              Plan(p, u) \/ Deny(p, u) \/ \E answer \in Answers : Execute(p, u, answer)
  BY <1>9, <1>16
<1> QED
  BY <1>1, <1>2, <1>10, <1>11, <1>12, <1>13, <1>14, <1>15, <1>16 DEF Next

\* How a task's row can change, and where its first status comes from.
LEMMA RowStep ==
  ASSUME IInv, [Next]_vars, NEW t \in Tasks
  PROVE  \/ row'[t] = row[t]
         \/ /\ row[t].status \in Unstarted
            /\ row'[t].status \in {"cancelled", "policy_blocked"}
         \/ row[t].status = "running" /\ row'[t].status = "planned"
         \/ \E p \in Procs : /\ Start(p, t) /\ row[t].status \in Unstarted
                             /\ row'[t].status = "running"
                             /\ row'[t].mode = Mode(p)
         \/ \E p \in Procs : /\ PlanWrite(p) /\ turn[p].task = t
                             /\ row[t].status = "none"
                             /\ row'[t] = PlannedRow(p, t)
<1> USE ApprovalAssumption DEF IInv, TypeOK, Row
<1>1. ASSUME NEW p \in Procs, PlanWrite(p)
      PROVE  /\ turn[p].task \in Tasks
             /\ row[turn[p].task].status = "none"
             /\ row' = [row EXCEPT ![turn[p].task] = PlannedRow(p, turn[p].task)]
  <2>1. turn[p].task \in Tasks
    BY <1>1 DEF PlanWrite, Turn, NoTurn
  <2> QED
    BY <1>1, <2>1 DEF PlanWrite, PlanningOK
<1>2. CASE \E p \in Procs : PlanWrite(p)
  BY <1>1, <1>2
<1>3. ASSUME NEW p \in Procs, DenyWrite(p)
      PROVE  row'[t] = row[t] \/ /\ row[t].status \in Unstarted
                                 /\ row'[t].status = "cancelled"
  <2>1. turn[p].task \in Tasks
    BY <1>3 DEF DenyWrite, Turn, NoTurn
  <2> QED
    BY <1>3, <2>1 DEF DenyWrite, IsUnstarted
<1>4. CASE \E p \in Procs : DenyWrite(p)
  BY <1>3, <1>4
<1>5. ASSUME NEW p \in Procs, NEW u \in Tasks, Start(p, u)
      PROVE  row'[t] = row[t] \/ /\ t = u /\ row[t].status \in Unstarted
                                 /\ row'[t].status = "running"
                                 /\ row'[t].mode = Mode(p)
  BY <1>5 DEF Start, IsUnstarted
<1>6. CASE \E p \in Procs, u \in Tasks : Start(p, u)
  BY <1>5, <1>6
<1>7. CASE \E p \in Procs, u \in Tasks : Cancel(p, u) \/ Block(p, u)
  BY <1>7 DEF Cancel, Block, Executes, IsUnstarted
<1>8. CASE \E u \in Tasks : Interrupt(u)
  BY <1>8 DEF Interrupt
<1>9. CASE \E p \in Procs, u \in Tasks :
             \/ Plan(p, u) \/ Deny(p, u) \/ Decide(p, u)
             \/ \E answer \in Answers : Execute(p, u, answer)
  BY <1>9 DEF Plan, Deny, Decide, Execute
<1>10. CASE Tick \/ UNCHANGED vars
  BY <1>10 DEF Tick, vars
<1> QED
  BY <1>2, <1>4, <1>6, <1>7, <1>8, <1>9, <1>10 DEF Next

\* Where a decision, a denial and a pending start come from.
LEMMA RecordStep ==
  ASSUME IInv, [Next]_vars, NEW t \in Tasks
  PROVE  /\ decision'[t] # decision[t] => \E p \in Procs : Decide(p, t)
         /\ t \in denials' => \/ t \in denials
                              \/ /\ row[t].status \in Unstarted
                                 /\ row'[t].status = "cancelled"
         /\ \A p \in Procs : t \in starting'[p] =>
              \/ t \in starting[p]
              \/ \E answer \in Answers : Execute(p, t, answer)
<1> USE ApprovalAssumption DEF IInv, TypeOK
<1>1. CASE Tick \/ UNCHANGED vars
  BY <1>1 DEF Tick, vars
<1>2. CASE \E u \in Tasks : Interrupt(u)
  BY <1>2 DEF Interrupt
<1>3. CASE \E p \in Procs : PlanWrite(p)
  BY <1>3 DEF PlanWrite
<1>4. ASSUME NEW p \in Procs, DenyWrite(p)
      PROVE  /\ decision' = decision /\ starting' = starting
             /\ t \in denials' => \/ t \in denials
                                  \/ /\ row[t].status \in Unstarted
                                     /\ row'[t].status = "cancelled"
  <2>1. turn[p].task \in Tasks
    BY <1>4 DEF DenyWrite, Turn, NoTurn
  <2>2. CASE IsUnstarted(turn[p].task)
    <3>1. /\ row' = [row EXCEPT ![turn[p].task].status = "cancelled"]
          /\ denials' = denials \union {turn[p].task}
      BY <1>4, <2>2 DEF DenyWrite
    <3>2. turn[p].task = t => row'[t].status = "cancelled"
      BY <2>1, <3>1 DEF Row
    <3> QED
      BY <1>4, <2>1, <2>2, <3>1, <3>2 DEF DenyWrite, IsUnstarted
  <2>3. CASE ~IsUnstarted(turn[p].task)
    BY <1>4, <2>3 DEF DenyWrite
  <2> QED
    BY <2>2, <2>3
<1>5. CASE \E p \in Procs : DenyWrite(p)
  BY <1>4, <1>5
<1>6. CASE \E p \in Procs, u \in Tasks : Decide(p, u)
  BY <1>6 DEF Decide
<1>7. CASE \E p \in Procs, u \in Tasks :
             Plan(p, u) \/ Deny(p, u) \/ Cancel(p, u) \/ Block(p, u)
  BY <1>7 DEF Plan, Deny, Cancel, Block
<1>8. CASE \E p \in Procs, u \in Tasks : Start(p, u)
  BY <1>8 DEF Start
<1>9. ASSUME NEW p \in Procs, NEW u \in Tasks, NEW answer \in Answers,
             Execute(p, u, answer)
      PROVE  /\ decision' = decision /\ denials' = denials
             /\ \A q \in Procs : t \in starting'[q] =>
                  t \in starting[q] \/ (q = p /\ t = u)
  BY <1>9 DEF Execute
<1>10. CASE \E p \in Procs, u \in Tasks, answer \in Answers : Execute(p, u, answer)
  BY <1>9, <1>10
<1> QED
  BY <1>1, <1>2, <1>3, <1>5, <1>6, <1>7, <1>8, <1>10 DEF Next

\* Where a plan that is under way comes from.
LEMMA TurnStep ==
  ASSUME IInv, [Next]_vars, NEW q \in Procs, turn'[q].kind = "plan"
  PROVE  /\ turn'[q].task \in Tasks
         /\ \/ turn'[q] = turn[q] /\ ~PlanWrite(q)
            \/ \E u \in Tasks : /\ Plan(q, u) /\ turn'[q].task = u
                                /\ \A r \in Procs \ {q} : turn'[r] = turn[r]
<1>1. turn'[q].task \in Tasks
  <2>1. turn'[q] \in Turn
    BY TypeStep DEF TypeOK
  <2> QED
    BY <2>1 DEF Turn, NoTurn
<1>2. turn \in [Procs -> Turn]
  BY DEF IInv, TypeOK
<1>3. ASSUME NEW p \in Procs, Leave(p) PROVE turn'[q] = turn[q] /\ p # q
  <2>1. turn' = [turn EXCEPT ![p] = NoTurn]
    BY <1>3 DEF Leave
  <2>2. p # q
    BY <1>2, <2>1 DEF NoTurn
  <2> QED
    BY <1>2, <2>1, <2>2
<1>4. ~PlanWrite(q)
  BY <1>3 DEF PlanWrite
<1>5. ASSUME NEW p \in Procs, NEW new, Enter(p, new)
      PROVE  /\ turn'[p] = new
             /\ \A r \in Procs \ {p} : turn'[r] = turn[r]
  BY <1>2, <1>5 DEF Enter
<1> DEFINE Goal == \/ turn'[q] = turn[q]
                   \/ \E u \in Tasks : /\ Plan(q, u) /\ turn'[q].task = u
                                       /\ \A r \in Procs \ {q} : turn'[r] = turn[r]
<1>6. ASSUME Tick \/ UNCHANGED vars \/ \E u \in Tasks : Interrupt(u) PROVE Goal
  <2>1. turn' = turn
    BY <1>6 DEF Tick, vars, Interrupt
  <2> QED
    BY <2>1
<1>7. ASSUME NEW p \in Procs, PlanWrite(p) \/ DenyWrite(p) PROVE Goal
  BY <1>3, <1>7 DEF PlanWrite, DenyWrite
<1>8. ASSUME NEW p \in Procs, NEW u \in Tasks, Plan(p, u) PROVE Goal
  <2>1. /\ turn'[p] = [kind |-> "plan", task |-> u]
        /\ \A r \in Procs \ {p} : turn'[r] = turn[r]
    BY <1>5, <1>8 DEF Plan
  <2> QED
    BY <1>8, <2>1
<1>9. ASSUME NEW p \in Procs, NEW u \in Tasks, Deny(p, u) PROVE Goal
  <2>1. /\ turn'[p] = [kind |-> "deny", task |-> u]
        /\ \A r \in Procs \ {p} : turn'[r] = turn[r]
    BY <1>5, <1>9 DEF Deny
  <2> QED
    BY <2>1
<1>10. ASSUME NEW p \in Procs, NEW u \in Tasks,
              \/ Decide(p, u) \/ Cancel(p, u) \/ Block(p, u) \/ Start(p, u)
              \/ \E answer \in Answers : Execute(p, u, answer)
       PROVE  Goal
  BY <1>10 DEF Decide, Cancel, Block, Start, Execute
<1>11. Goal
  BY <1>6, <1>7, <1>8, <1>9, <1>10 DEF Next
<1> QED
  BY <1>1, <1>4, <1>11

-----------------------------------------------------------------------------
(* The parts of the invariant, each in the step after.                     *)

LEMMA PlanningStep == IInv /\ [Next]_vars => PlanningOK'
<1> SUFFICES ASSUME IInv, [Next]_vars, NEW p \in Procs, turn'[p].kind = "plan"
             PROVE  /\ row'[turn'[p].task].status = "none"
                    /\ \A q \in Procs :
                         turn'[q].kind = "plan" /\ turn'[q].task = turn'[p].task
                           => q = p
  BY DEF PlanningOK
<1>1. PlanningOK
  BY DEF IInv
<1>2. /\ turn'[p].task \in Tasks
      /\ \/ turn'[p] = turn[p] /\ ~PlanWrite(p)
         \/ /\ Plan(p, turn'[p].task)
            /\ \A r \in Procs \ {p} : turn'[r] = turn[r]
  BY TurnStep
<1>3. row[turn'[p].task].status = "none"
  BY <1>1, <1>2 DEF PlanningOK, Plan
<1>4. ASSUME NEW q \in Procs, PlanWrite(q), turn[q].task = turn'[p].task
      PROVE  FALSE
  BY <1>1, <1>2, <1>4 DEF PlanningOK, Plan, PlanWrite
<1>5. row'[turn'[p].task].status = "none"
  BY <1>2, <1>3, <1>4, RowStep DEF Unstarted
<1>6. ASSUME NEW q \in Procs, turn'[q].kind = "plan", turn'[q].task = turn'[p].task
      PROVE  q = p
  <2>1. \/ turn'[q] = turn[q]
        \/ /\ Plan(q, turn'[q].task)
           /\ \A r \in Procs \ {q} : turn'[r] = turn[r]
    BY <1>6, TurnStep
  <2> QED
    BY <1>1, <1>2, <1>6, <2>1 DEF PlanningOK, Plan
<1> QED
  BY <1>5, <1>6

LEMMA FreshStep == IInv /\ [Next]_vars => FreshOK'
<1> SUFFICES ASSUME IInv, [Next]_vars, NEW t \in Tasks, row'[t].status = "none"
             PROVE  /\ row'[t].challenge = "none" /\ ~decision'[t].made
                    /\ t \notin denials'
                    /\ \A p \in Procs : t \notin starting'[p]
  BY DEF FreshOK
<1>1. row'[t] = row[t]
  BY Kept
<1>2. decision'[t] = decision[t]
  BY <1>1, RecordStep DEF Decide
<1>3. \A p \in Procs : t \notin starting'[p]
  BY <1>1, RecordStep DEF IInv, FreshOK, Execute, Executes, Unstarted
<1> QED
  BY <1>1, <1>2, <1>3, RecordStep DEF IInv, FreshOK

LEMMA AwaitingStep == IInv /\ [Next]_vars => AwaitingOK'
<1> SUFFICES ASSUME IInv, [Next]_vars, NEW t \in Tasks,
                    row'[t].status = "awaiting_approval"
             PROVE  row'[t].challenge # "none"
  BY DEF AwaitingOK
<1> QED
  BY RowStep, PlannedRowType DEF IInv, AwaitingOK

LEMMA AnswerStep == IInv /\ [Next]_vars => AnswerOK'
<1> SUFFICES ASSUME IInv, [Next]_vars, NEW t \in Tasks, decision'[t].made
             PROVE  /\ row'[t].challenge # "none"
                    /\ decision'[t].at <= row'[t].expires
                    /\ decision'[t].at <= now'
                    /\ decision'[t].channel = "out_of_band"
                         <=> decision'[t].by \in Enforced
  BY DEF AnswerOK
<1> USE ApprovalAssumption DEF IInv, TypeOK, Row
<1>1. CASE decision[t].made
  <2>1. decision[t].at \in Nat /\ row[t].expires \in Nat
    BY <1>1, MadeType
  <2>2. row[t].status # "none"
    BY <1>1 DEF FreshOK
  <2> QED
    BY <1>1, <2>1, <2>2, Kept DEF AnswerOK
<1>2. CASE ~decision[t].made
  <2>1. PICK p \in Procs : Decide(p, t)
    BY <1>2, RecordStep
  <2>2. decision'[t] = [made |-> TRUE, at |-> now, by |-> p, channel |-> Channel(p)]
    BY <2>1 DEF Decide
  <2>3. row'[t] = row[t] /\ now' = now /\ row[t].status = "awaiting_approval"
        /\ now <= row[t].expires
    BY <2>1 DEF Decide, MayDecide, Expired
  <2> QED
    BY <2>2, <2>3 DEF AwaitingOK, Channel
<1> QED
  BY <1>1, <1>2

LEMMA IssuedStep == IInv /\ [Next]_vars => IssuedOK'
<1> SUFFICES ASSUME IInv, [Next]_vars, NEW t \in Tasks, row'[t].challenge # "none"
             PROVE  \E p \in Procs :
                      /\ p \in Enforced <=> row'[t].challenge = "no_phrase"
                      /\ row'[t].expires <= now' + Ttl[p]
                      /\ decision'[t].made =>
                           row'[t].expires <= decision'[t].at + Ttl[p]
  BY DEF IssuedOK, IssuedBy
<1>1. /\ TypeOK /\ FreshOK /\ IssuedOK /\ row[t] \in Row /\ now \in Nat
      /\ now' \in Nat /\ now <= now'
  BY Kept DEF IInv, TypeOK
<1>2. \A p \in Procs : Ttl[p] \in Nat
  BY ApprovalAssumption
<1>3. CASE row[t].status # "none"
  <2>1. /\ row'[t].challenge = row[t].challenge /\ row'[t].expires = row[t].expires
        /\ row[t].expires \in Nat
    BY <1>1, <1>3, Kept DEF Row
  <2>2. PICK p \in Procs : IssuedBy(p, t)
    BY <1>1, <2>1 DEF IssuedOK
  <2>3. row'[t].expires <= now' + Ttl[p]
    BY <1>1, <1>2, <2>1, <2>2 DEF IssuedBy
  <2>4. ASSUME decision'[t].made
        PROVE  row'[t].expires <= decision'[t].at + Ttl[p]
    <3>1. CASE decision[t].made
      BY <2>1, <2>2, <3>1, Kept DEF IssuedBy
    <3>2. CASE ~decision[t].made
      <4>1. PICK q \in Procs : Decide(q, t)
        BY <2>4, <3>2, RecordStep
      <4>2. decision'[t].at = now
        BY <1>1, <4>1 DEF Decide, TypeOK
      <4> QED
        BY <2>1, <2>2, <4>2 DEF IssuedBy
    <3> QED
      BY <3>1, <3>2
  <2> QED
    BY <2>1, <2>2, <2>3, <2>4 DEF IssuedBy
<1>4. CASE row[t].status = "none"
  <2>1. PICK p \in Procs : PlanWrite(p) /\ row'[t] = PlannedRow(p, t)
    BY <1>1, <1>4, RowStep DEF FreshOK, Unstarted
  <2>2. /\ p \in Enforced <=> row'[t].challenge = "no_phrase"
        /\ row'[t].expires = now + Ttl[p] /\ ~decision[t].made
        /\ now' = now /\ decision' = decision
    BY <1>1, <1>4, <2>1, PlannedRowType DEF FreshOK, PlanWrite
  <2> QED
    BY <1>1, <1>2, <2>2
<1> QED
  BY <1>3, <1>4

LEMMA StartingStep == IInv /\ [Next]_vars => StartingOK'
<1> SUFFICES ASSUME IInv, [Next]_vars, NEW p \in Enforced, NEW t \in starting'[p]
             PROVE  /\ row'[t].challenge # "none"
                    /\ decision'[t].made /\ decision'[t].by \in Enforced
                    /\ decision'[t].at <= row'[t].expires
  BY DEF StartingOK
<1>1. /\ t \in Tasks /\ p \in Procs
      /\ TypeOK /\ FreshOK /\ AnswerOK /\ StartingOK
  BY TypeStep, ApprovalAssumption DEF IInv, TypeOK
<1>2. CASE t \in starting[p]
  <2>1. row[t].status # "none"
    BY <1>1, <1>2 DEF FreshOK
  <2> QED
    BY <1>1, <1>2, <2>1, Kept DEF StartingOK
<1>3. ASSUME NEW answer \in Answers, Execute(p, t, answer)
      PROVE  /\ row[t].status # "none" /\ decision[t].made
             /\ decision[t].channel = "out_of_band"
  BY <1>1, <1>3 DEF Execute, Executes, Unstarted, Accepts, Decided, Usable, Outcome
<1>4. CASE t \notin starting[p]
  <2>1. /\ row[t].status # "none" /\ decision[t].made
        /\ decision[t].channel = "out_of_band"
    BY <1>1, <1>3, <1>4, RecordStep
  <2> QED
    BY <1>1, <2>1, Kept DEF AnswerOK
<1> QED
  BY <1>2, <1>4

LEMMA DeniedStep == IInv /\ [Next]_vars => DeniedNeverRuns'
<1> SUFFICES ASSUME IInv, [Next]_vars, NEW t \in Tasks, t \in denials'
             PROVE  row'[t].status = "cancelled"
  BY DEF DeniedNeverRuns
<1>1. CASE t \in denials
  BY <1>1, RowStep DEF IInv, DeniedNeverRuns, Unstarted
<1> QED
  BY <1>1, RecordStep

LEMMA EnforcedStep == IInv /\ [Next]_vars => EnforcedRunsOnOperator'
<1> SUFFICES ASSUME IInv, [Next]_vars, NEW t \in Tasks,
                    row'[t].status = "running", row'[t].mode = "enforced"
             PROVE  /\ row'[t].challenge # "none"
                    /\ decision'[t].made /\ decision'[t].by \in Enforced
                    /\ decision'[t].at <= row'[t].expires
  BY DEF EnforcedRunsOnOperator
<1>1. /\ row[t].status # "none" /\ row[t].challenge # "none"
      /\ decision[t].made /\ decision[t].by \in Enforced
      /\ decision[t].at <= row[t].expires
  <2>1. CASE row'[t] = row[t]
    BY <2>1 DEF IInv, EnforcedRunsOnOperator
  <2>2. ASSUME NEW p \in Procs, Start(p, t), row[t].status \in Unstarted,
               row'[t].mode = Mode(p)
        PROVE  p \in Enforced /\ t \in starting[p] /\ row[t].status # "none"
    BY <2>2 DEF Start, Mode, Unstarted
  <2>3. \A p \in Procs : PlannedRow(p, t).status # "running"
    BY PlannedRowType DEF IInv
  <2> QED
    BY <2>1, <2>2, <2>3, RowStep DEF IInv, StartingOK
<1> QED
  BY <1>1, Kept

LEMMA StrandedStep == IInv /\ [Next]_vars => NeverStranded'
<1> SUFFICES ASSUME IInv, [Next]_vars, NEW t \in Tasks,
                    row'[t].challenge = "no_phrase", decision'[t].made
             PROVE  decision'[t].channel = "out_of_band"
  BY DEF NeverStranded
<1>1. CASE decision[t].made
  BY <1>1, Kept DEF IInv, FreshOK, NeverStranded
<1>2. CASE ~decision[t].made
  <2>1. PICK p \in Procs : Decide(p, t)
    BY <1>2, RecordStep
  <2>2. decision'[t].channel = Channel(p) /\ row' = row
    BY <2>1 DEF Decide, IInv, TypeOK
  <2> QED
    BY <2>1, <2>2 DEF Decide, MayDecide, Channel
<1> QED
  BY <1>1, <1>2

-----------------------------------------------------------------------------
(* The bound on open challenges.                                           *)

\* What is open to all is what waits unexpired and unanswered: while it has not
\* expired, an answer to it is one its issuer holds to be a decision.
Waiting ==
  {t \in Tasks : row[t].status = "awaiting_approval" /\ now < row[t].expires
                 /\ ~decision[t].made}
OpenOK == OpenToAll = Waiting

LEMMA OpenIsWaiting ==
  TypeOK /\ AwaitingOK /\ AnswerOK /\ IssuedOK /\ NeverStranded => OpenOK
<1> SUFFICES ASSUME TypeOK, AwaitingOK, AnswerOK, IssuedOK, NeverStranded
             PROVE  OpenToAll = Waiting
  BY DEF OpenOK
<1>1. \A t \in Tasks : /\ row[t].expires \in Nat /\ now \in Nat
                       /\ Expired(t) <=> ~(now < row[t].expires)
  BY DEF TypeOK, Row, Expired
<1>2. ASSUME NEW t \in Waiting PROVE t \in OpenToAll
  BY <1>1, <1>2 DEF Waiting, OpenToAll, Open, Decided, Usable
<1>3. ASSUME NEW t \in OpenToAll PROVE t \in Waiting
  <2>1. /\ t \in Tasks /\ row[t].status = "awaiting_approval"
        /\ now < row[t].expires /\ \A p \in Procs : ~Decided(p, t)
    BY <1>1, ApprovalAssumption DEF OpenToAll, Open
  <2>2. PICK p \in Procs : IssuedBy(p, t)
    BY <2>1 DEF AwaitingOK, IssuedOK
  <2>3. ASSUME decision[t].made PROVE FALSE
    <3>1. now < decision[t].at + Ttl[p]
      BY <1>1, <2>1, <2>2, <2>3, MadeType, ApprovalAssumption DEF IssuedBy
    <3>2. Usable(p, t)
      BY <2>1, <2>3, <3>1 DEF Usable, AnswerOK
    <3>3. p \in Enforced => decision[t].channel = "out_of_band"
      BY <2>1, <2>2, <2>3 DEF IssuedBy, NeverStranded
    <3> QED
      BY <2>1, <3>2, <3>3 DEF Decided
  <2> QED
    BY <2>1, <2>3 DEF Waiting
<1> QED
  BY <1>2, <1>3

LEMMA OpenIsWaitingNext == IInv /\ [Next]_vars => OpenOK'
<1>1. TypeOK' /\ AwaitingOK' /\ AnswerOK' /\ IssuedOK' /\ NeverStranded'
        => OpenOK'
  BY OpenIsWaiting, PTL
<1> QED
  BY <1>1, TypeStep, AwaitingStep, AnswerStep, IssuedStep, StrandedStep

\* A challenge joins the open ones only when its plan is written.
LEMMA WaitingStep ==
  ASSUME IInv, [Next]_vars, NEW t \in Waiting', t \notin Waiting
  PROVE  \E p \in Procs : /\ PlanWrite(p) /\ turn[p].task = t
                          /\ Outcome(p, t) = "confirm"
<1>1. /\ t \in Tasks /\ row'[t].status = "awaiting_approval"
      /\ now' < row'[t].expires /\ ~decision'[t].made
  BY DEF Waiting
<1>2. /\ ~decision[t].made /\ now \in Nat /\ now' \in Nat /\ now <= now'
      /\ row[t].expires \in Nat
  BY <1>1, Kept DEF IInv, TypeOK, Row
<1>3. row'[t] # row[t]
  BY <1>1, <1>2 DEF Waiting
<1>4. PICK p \in Procs : /\ PlanWrite(p) /\ turn[p].task = t
                         /\ row'[t] = PlannedRow(p, t)
  BY <1>1, <1>3, RowStep
<1> QED
  BY <1>1, <1>4, PlannedRowType DEF IInv

LEMMA BoundStep == IInv /\ [Next]_vars => BoundOK'
<1> SUFFICES ASSUME IInv, [Next]_vars PROVE BoundOK'
  OBVIOUS
<1> DEFINE W == Cardinality(Waiting)  P == Cardinality(Planning)
           N == Cardinality(Procs)
<1>1. /\ IsFiniteSet(Waiting) /\ W \in Nat /\ IsFiniteSet(Planning) /\ P \in Nat
      /\ N \in Nat /\ Cap \in Nat
      /\ IsFiniteSet(Waiting') /\ W' \in Nat
      /\ IsFiniteSet(Planning') /\ P' \in Nat /\ P' <= N
  <2>1. /\ Waiting \subseteq Tasks /\ Waiting' \subseteq Tasks
        /\ Planning \subseteq Procs /\ Planning' \subseteq Procs
    BY DEF Waiting, Planning
  <2> QED
    BY <2>1, FS_Subset, FS_CardinalityType, ApprovalAssumption
<1>2. W + P <= Cap + N - 1
  BY OpenIsWaiting DEF IInv, BoundOK, OpenOK
<1>3. SUFFICES W' + P' <= Cap + N - 1
  BY OpenIsWaitingNext DEF BoundOK, OpenOK
<1>4. ASSUME NEW p \in Procs, NEW u \in Tasks, Plan(p, u), Outcome(p, u) = "confirm"
      PROVE  W' + P' <= Cap + N - 1
  <2>1. Waiting' = Waiting
    BY <1>4 DEF Plan, Waiting
  <2>2. OpenToAll \subseteq Open(p) /\ IsFiniteSet(Open(p))
    BY FS_Subset, ApprovalAssumption DEF OpenToAll, Open
  <2>3. OpenToAll = Waiting
    BY OpenIsWaiting DEF IInv, OpenOK
  <2>4. W <= Cardinality(Open(p)) /\ Cardinality(Open(p)) \in Nat
    BY <2>2, <2>3, FS_Subset, FS_CardinalityType
  <2>5. Cardinality(Open(p)) < Cap
    BY <1>4 DEF Plan, HasRoom
  <2> QED
    BY <1>1, <2>1, <2>4, <2>5
<1>5. ASSUME ~ \E p \in Procs, u \in Tasks : Plan(p, u) /\ Outcome(p, u) = "confirm",
             NEW q \in Planning'
      PROVE  q \in Planning /\ ~PlanWrite(q)
  <2>1. /\ q \in Procs /\ turn'[q].kind = "plan"
        /\ Outcome(q, turn'[q].task) = "confirm"
    BY DEF Planning, Outcome
  <2>2. turn'[q] = turn[q] /\ ~PlanWrite(q)
    BY <1>5, <2>1, TurnStep
  <2> QED
    BY <2>1, <2>2 DEF Planning
<1>6. ASSUME NEW p \in Procs, PlanWrite(p), Outcome(p, turn[p].task) = "confirm",
             ~ \E q \in Procs, u \in Tasks : Plan(q, u) /\ Outcome(q, u) = "confirm"
      PROVE  W' + P' <= Cap + N - 1
  <2>1. p \in Planning /\ Planning' \subseteq Planning \ {p}
    BY <1>5, <1>6 DEF PlanWrite, Planning
  <2>2. P' <= P - 1
    <3>1. /\ IsFiniteSet(Planning \ {p})
          /\ Cardinality(Planning \ {p}) = P - 1
      BY <1>1, <2>1, FS_RemoveElement
    <3> QED
      BY <2>1, <3>1, FS_Subset
  <2>3. \A q \in Procs : PlanWrite(q) => q = p
    <3>1. turn \in [Procs -> Turn]
      BY DEF IInv, TypeOK
    <3>2. ASSUME NEW q \in Procs, PlanWrite(q), q # p PROVE FALSE
      <4>1. /\ turn' = [turn EXCEPT ![p] = NoTurn]
            /\ turn' = [turn EXCEPT ![q] = NoTurn]
            /\ turn[q].kind = "plan"
        BY <1>6, <3>2 DEF PlanWrite, Leave
      <4>2. turn[q] = NoTurn
        BY <3>1, <3>2, <4>1
      <4> QED
        BY <4>1, <4>2 DEF NoTurn
    <3> QED
      BY <3>2
  <2>4. Waiting' \subseteq Waiting \union {turn[p].task}
    BY <2>3, WaitingStep
  <2>5. W' <= W + 1
    <3>1. /\ IsFiniteSet(Waiting \union {turn[p].task})
          /\ Cardinality(Waiting \union {turn[p].task}) \in {W, W + 1}
      BY <1>1, FS_AddElement
    <3>2. W' <= Cardinality(Waiting \union {turn[p].task})
      BY <2>4, <3>1, FS_Subset
    <3> QED
      BY <1>1, <3>1, <3>2
  <2> QED
    BY <1>1, <1>2, <2>2, <2>5
<1>7. CASE /\ ~ \E p \in Procs, u \in Tasks : Plan(p, u) /\ Outcome(p, u) = "confirm"
           /\ ~ \E p \in Procs : PlanWrite(p) /\ Outcome(p, turn[p].task) = "confirm"
  <2>1. Planning' \subseteq Planning /\ Waiting' \subseteq Waiting
    BY <1>5, <1>7, WaitingStep
  <2>2. P' <= P /\ W' <= W
    BY <1>1, <2>1, FS_Subset
  <2> QED
    BY <1>1, <1>2, <2>2
<1> QED
  BY <1>4, <1>6, <1>7

-----------------------------------------------------------------------------
(* The theorems.                                                           *)

LEMMA Inductive == IInv /\ [Next]_vars => IInv'
BY TypeStep, PlanningStep, FreshStep, AwaitingStep, AnswerStep, IssuedStep,
   StartingStep, DeniedStep, EnforcedStep, StrandedStep, BoundStep DEF IInv

THEOREM Invariance == Spec => []IInv
BY InitIInv, Inductive, PTL DEF Spec

\* Every variable keeps its type.
THEOREM TypeCorrect == Spec => []TypeOK
<1>1. IInv => TypeOK
  BY DEF IInv
<1> QED
  BY Invariance, <1>1, PTL

\* A denied task never runs (deny: "the denial lands with the cancel or not at
\* all"), however the processes interleave and whoever was starting it.
THEOREM DenialIsFinal == Spec => []DeniedNeverRuns
<1>1. IInv => DeniedNeverRuns
  BY DEF IInv
<1> QED
  BY Invariance, <1>1, PTL

\* What an enforced process runs, an operator approved in time (execute: "only
\* an operator's out-of-band decision lets the effect run").
THEOREM EnforcedRunsOnOperators == Spec => []EnforcedRunsOnOperator
<1>1. IInv => EnforcedRunsOnOperator
  BY DEF IInv
<1> QED
  BY Invariance, <1>1, PTL

\* No in-band answer spoils a challenge that only an enforced process can accept
\* an answer to (decide, in developer mode).
THEOREM NoChallengeIsStranded == Spec => []NeverStranded
<1>1. IInv => NeverStranded
  BY DEF IInv
<1> QED
  BY Invariance, <1>1, PTL

\* The cap is passed by at most one challenge for each process but the first
\* (assertChallengeRoom: "one over apiece").
THEOREM OpenChallengesAreBounded == Spec => []ChallengesBounded
<1>1. IInv => ChallengesBounded
  <2> SUFFICES ASSUME IInv PROVE ChallengesBounded
    OBVIOUS
  <2>1. OpenToAll \subseteq Tasks /\ Planning \subseteq Procs
    BY DEF OpenToAll, Planning
  <2>2. /\ Cardinality(OpenToAll) \in Nat /\ Cardinality(Planning) \in Nat
        /\ Cardinality(Procs) \in Nat /\ Cap \in Nat
    BY <2>1, FS_Subset, FS_CardinalityType, ApprovalAssumption
  <2> QED
    BY <2>2 DEF IInv, BoundOK, ChallengesBounded
<1> QED
  BY Invariance, <1>1, PTL


\* What runs was approved, and nothing a person refused does (deny, execute).
THEOREM WhatRunsIsApproved == Spec => []RunsAreApproved
BY DenialIsFinal, EnforcedRunsOnOperators, PTL DEF RunsAreApproved

\* Challenges stay answerable, and pass their cap by at most one for each process
\* but the first (assertChallengeRoom).
THEOREM ChallengesAreOpenAndFew == Spec => []ChallengesStayOpenAndFew
BY NoChallengeIsStranded, OpenChallengesAreBounded, PTL DEF ChallengesStayOpenAndFew
=============================================================================
