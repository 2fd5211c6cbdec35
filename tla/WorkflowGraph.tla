--------------------------- MODULE WorkflowGraph ---------------------------
(***************************************************************************)
(* A definition and the order its nodes are offered in                     *)
(* (packages/runtime-core/src/workflow-graph.ts, `plan` and `advanceNode`   *)
(* of workflow-controller.ts).  A definition is accepted once, when it is   *)
(* planned, and then has to carry every run of it: no step may take effect  *)
(* before what it depends on, and no node may be left that nothing offers. *)
(* Two processes can plan under one id and version at the same time.        *)
(***************************************************************************)
EXTENDS Integers, FiniteSets

CONSTANTS Ids,          \* the nodes of a definition
          Planners,     \* processes that plan under one id and version
          Nothing

\* no planner, and no node, is the value for none
GraphAssumption == Nothing \notin Planners \union Ids

VARIABLES def,     \* the definition the first of them plans
          plans,   \* each one's plan: what it means to store, what it saw stored
          stored,  \* whose definition is stored under the id and version
          node,    \* status of each node of the run
          task,    \* the task of each operation, shared with its approval
          ran      \* operations whose effect has happened

graphVars == <<def, plans, stored, node, task, ran>>

Kinds == {[type |-> t, of |-> Nothing] : t \in {"operation", "input"}}
           \union {[type |-> t, of |-> n] : t \in {"approval", "condition", "compensation"}, n \in Ids}
Definitions == [Ids -> [kind : Kinds, dependsOn : SUBSET Ids]]
Type(d, n) == d[n].kind.type
Of(d, n) == d[n].kind.of

\* all that n waits for, however far
Dependencies(d, n) ==
  LET reached[i \in 0..Cardinality(Ids)] ==
        IF i = 0 THEN d[n].dependsOn
        ELSE reached[i - 1] \union UNION {d[m].dependsOn : m \in reached[i - 1]}
  IN reached[Cardinality(Ids)]
HasDependency(d, n, dependency) == dependency \in Dependencies(d, n)

TargetsExist(d) ==
  \A n \in Ids : Type(d, n) \in {"condition", "compensation"} => Type(d, Of(d, n)) = "operation"
Acyclic(d) == \A n \in Ids : ~HasDependency(d, n, n)
ApprovalIsInTime(d) ==
  \A n \in Ids : Type(d, n) = "approval" =>
    /\ HasDependency(d, Of(d, n), n)
    /\ \A m \in d[Of(d, n)].dependsOn \ {n} : ~HasDependency(d, m, n)
SourcePrecedes(d) ==
  \A n \in Ids : Type(d, n) = "condition" => HasDependency(d, n, Of(d, n))
ValidateWorkflow(d) == TargetsExist(d) /\ Acyclic(d) /\ ApprovalIsInTime(d) /\ SourcePrecedes(d)

Init ==
  /\ def \in {d \in Definitions : ValidateWorkflow(d)}
  /\ plans = [p \in Planners |-> [pc |-> "planning", saw |-> Nothing]]
  /\ stored = Nothing
  /\ node = [n \in Ids |-> "pending"]
  /\ task = [n \in Ids |-> "none"]
  /\ ran = {}

----------------------------------------------------------------------------
\* Planning: a valid definition compared with what is stored, and stored or
\* refused.  Each planner's differs from the others'.

SetPlan(p, pc, saw) == plans' = [plans EXCEPT ![p] = [pc |-> pc, saw |-> saw]]

ReadStored(p) ==
  /\ plans[p].pc = "planning"
  /\ SetPlan(p, IF stored \in {Nothing, p} THEN "read" ELSE "refused", stored)
  /\ UNCHANGED <<def, stored, node, task, ran>>

StillFree(p) == stored = Nothing
Create(p) ==
  /\ plans[p].pc = "read"
  /\ IF StillFree(p)
     THEN stored' = p /\ SetPlan(p, "created", plans[p].saw)
     ELSE SetPlan(p, "refused", plans[p].saw) /\ UNCHANGED stored
  /\ UNCHANGED <<def, node, task, ran>>

Running == \A p \in Planners : plans[p].pc \in {"created", "refused", "running"}
Started == \E p \in Planners : plans[p].pc = "running"
\* a created run is advanced for the first time
Start ==
  /\ Running /\ ~Started /\ stored # Nothing
  /\ plans' = [p \in Planners |-> [pc |-> "running", saw |-> Nothing]]
  /\ UNCHANGED <<def, stored, node, task, ran>>

----------------------------------------------------------------------------
\* The run's waves, on steps that all succeed.

Done(n) == node[n] = "verified_complete"
Forward == {n \in Ids : Type(def, n) # "compensation"}
NotBeforeItsTarget(n) == TRUE  \* variant: an approval offered before its target could run
OfferedInTime(n) ==
  Type(def, n) = "approval" => \A m \in def[Of(def, n)].dependsOn \ {n} : Done(m)
ReadyNodes ==
  {n \in Forward : /\ node[n] = "pending" /\ OfferedInTime(n)
                   /\ \A m \in def[n].dependsOn : Done(m)}
Offered == ReadyNodes \union {n \in Ids : node[n] \in {"awaiting_approval", "awaiting_input"}}

Advance(n, status, t, taskStatus, effect) ==
  /\ node' = [node EXCEPT ![n] = status]
  /\ task' = [task EXCEPT ![t] = taskStatus]
  /\ ran' = IF effect THEN ran \union {t} ELSE ran
  /\ UNCHANGED <<def, plans, stored>>

\* runTask: a step's task planned, waiting for its approval, or run.
RunTask(n, t, executePlanned) ==
  CASE task[t] = "success" -> Advance(n, "verified_complete", t, "success", FALSE)
    [] task[t] = "planned" -> executePlanned /\ Advance(n, "verified_complete", t, "success", TRUE)
    [] task[t] = "awaiting" -> Advance(n, "verified_complete", t, "success", TRUE)
    [] OTHER -> \/ Advance(n, "awaiting_approval", t, "awaiting", FALSE)
                \/ /\ executePlanned /\ Advance(n, "verified_complete", t, "success", TRUE)
                \/ /\ ~executePlanned /\ Advance(n, "verified_complete", t, "planned", FALSE)

Operation(n) ==
  /\ n \in Offered /\ Type(def, n) = "operation"
  /\ RunTask(n, n, TRUE)
\* refused on every advance when its target is no operation
Approval(n) ==
  /\ n \in Offered /\ Type(def, n) = "approval" /\ Type(def, Of(def, n)) = "operation"
  /\ RunTask(n, Of(def, n), FALSE)
Condition(n) ==
  /\ n \in Offered /\ Type(def, n) = "condition"
  /\ task[Of(def, n)] # "none"
  /\ Advance(n, "verified_complete", n, "none", FALSE)
\* a person's answer, asked for on one advance and taken on a later one
Input(n) ==
  /\ n \in Offered /\ Type(def, n) = "input"
  /\ Advance(n, IF node[n] = "pending" THEN "awaiting_input" ELSE "verified_complete", n, "none", FALSE)

Next ==
  \/ \E p \in Planners : ReadStored(p) \/ Create(p)
  \/ Start
  \/ /\ Started
     /\ \E n \in Ids : Operation(n) \/ Approval(n) \/ Condition(n) \/ Input(n)

Spec == Init /\ [][Next]_graphVars

----------------------------------------------------------------------------
TypeOK ==
  /\ def \in Definitions /\ stored \in Planners \union {Nothing}
  /\ node \in [Ids -> {"pending", "awaiting_approval", "awaiting_input", "verified_complete"}]
  /\ task \in [Ids -> {"none", "planned", "awaiting", "success"}]

\* A run means the definition it was planned from: of two planned at once
\* under one id and version, one is refused.
PlannedIsStored == \A p \in Planners : plans[p].pc = "created" => stored = p

\* No step takes effect before every node it depends on is done, but for the
\* approval that runs it.
EffectsFollowDependencies ==
  [][\A t \in ran' \ ran : \A m \in def[t].dependsOn :
       Done(m) \/ (Type(def, m) = "approval" /\ Of(def, m) = t)]_graphVars

\* A definition whose nodes wait on no compensation, and whose operations have
\* at most one approval each.
Plain(d) ==
  /\ \A n \in Ids : Type(d, n) = "approval" => Type(d, Of(d, n)) = "operation"
  /\ \A n, m \in Ids : Type(d, n) = "approval" /\ Type(d, m) = "approval" /\ Of(d, n) = Of(d, m) => n = m
  /\ \A n, m \in Ids : m \in d[n].dependsOn => Type(d, m) # "compensation"
\* Accepted, such a definition is one whose every node a run comes to: there is
\* always one on offer, and none on offer that can only be refused.
NothingStalls ==
  Started /\ Plain(def) =>
    /\ Offered = {} => \A n \in Forward : Done(n)
    /\ \A n \in Offered : Type(def, n) = "condition" => task[Of(def, n)] # "none"

\* Every other dependency of an approval's target can finish before the
\* approval is offered (validateWorkflow's comment): with nothing on offer, no
\* approval still waits for one.
ApprovalsComeInTurn ==
  Started /\ Offered = {} =>
    \A n \in Ids : Type(def, n) = "approval" /\ node[n] = "pending" =>
      \A m \in def[Of(def, n)].dependsOn \ {n} : Done(m)
============================================================================
