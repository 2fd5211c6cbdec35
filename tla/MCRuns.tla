------------------------------- MODULE MCRuns -------------------------------
(***************************************************************************)
(* What a run and its tasks rest on, checked side by side: the grants that *)
(* pay for tasks, the compound nodes of a run, its event log, its graph,   *)
(* and the semantic questions a task waits for. No state is shared between *)
(* them: `part` says which one a behaviour is of, and the others stay      *)
(* where they start.                                                       *)
(***************************************************************************)
EXTENDS Grants, Sequences, TLC

CONSTANTS
  m1, m2, rd,
  Shapes, Gated, MaxLosses,
  MaxDeaths,  \* bound: processes that die under an advance, and under a judged task
  Naming, MaxEvents,
  Ids, Planners, Nothing,
  Sharers, EnforcedSharers, Questions, Actor, Parent, Person, Outsider, NoOwner, MaxReturns

VARIABLES
  part,
  compound, stepTask, happening, landed, orphan, rec, adv, told, fresh, losses, nodeCrashes,
  run, log, snapshot, read, held,
  def, plans, stored, graphNode, graphTask, ran,
  asked, judged, keyed, certificate, runner, listed, alive, late, judgeCrashes, returns

-----------------------------------------------------------------------------
(* The instances *)

Amounts == [t \in Tasks |-> IF t = m2 THEN 2 ELSE 1]
Twice == [g \in GrantIds |-> 2]

\* A node of each kind: a condition with both branches and with one, a parallel
\* node of two lanes, a loop that asks and one that does not.
Shape(kind, lanes, until) == [kind |-> kind, lanes |-> lanes, until |-> until]
NodeShapes ==
  {Shape("condition", <<2, 1>>, FALSE), Shape("condition", <<1, 0>>, FALSE),
   Shape("parallel", <<2, 1>>, FALSE),
   Shape("loop", <<2, 2>>, TRUE), Shape("loop", <<1, 1, 1>>, TRUE), Shape("loop", <<1, 1>>, FALSE)}
GatedSteps == {<<1, 1>>, <<2, 1>>}

Nodes == INSTANCE WorkflowNodes WITH
  node <- compound, task <- stepTask, committed <- happening, happened <- landed, crashes <- nodeCrashes, MaxCrashes <- MaxDeaths
Log == INSTANCE WorkflowEvents WITH NodeSeq <- <<"a", "b">>
Graph == INSTANCE WorkflowGraph WITH node <- graphNode, task <- graphTask
Judge == INSTANCE Judgements WITH
  Procs <- Sharers, EnforcedProcs <- EnforcedSharers, task <- asked, committed <- keyed, owner <- runner,
  crashes <- judgeCrashes, MaxCrashes <- MaxDeaths, Other <- Outsider

nodesPart == <<compound, stepTask, happening, landed, orphan, rec, adv, told, fresh, losses, nodeCrashes>>
logPart == <<run, log, snapshot, read, held>>
graphPart == <<def, plans, stored, graphNode, graphTask, ran>>
judgePart == <<asked, judged, keyed, certificate, runner, listed, alive, late, judgeCrashes, returns>>

\* a condition has two branches, of at most the two steps a lane has here
ShapesAssumption == \A s \in Shapes : s.kind = "condition" => s.lanes \in [1..2 -> 0..2]

ASSUME RunsAssumption == ShapesAssumption /\ Judge!JudgementsAssumption /\ Graph!GraphAssumption

-----------------------------------------------------------------------------

\* Of the parts that stay, one initial state is enough.
RunsInit ==
  /\ part \in {"grants", "nodes", "log", "graph", "judgements"}
  /\ Init /\ Log!Init
  /\ Nodes!Init
  /\ part # "nodes" => compound = CHOOSE s \in Shapes : TRUE
  /\ IF part = "graph" THEN Graph!Init
     ELSE /\ def = [n \in Ids |-> [kind |-> [type |-> "operation", of |-> Nothing], dependsOn |-> {}]]
          /\ plans = <<>> /\ stored = Nothing /\ graphNode = <<>> /\ graphTask = <<>> /\ ran = {}
  /\ Judge!Init
  /\ part # "judgements" =>
       asked.effect = "read" /\ ~asked.keyed /\ ~asked.enforced /\ runner = CHOOSE p \in Sharers : p \notin EnforcedSharers

RunsNext ==
  \/ part = "grants" /\ Next /\ UNCHANGED <<part, nodesPart, logPart, graphPart, judgePart>>
  \/ part = "nodes" /\ Nodes!Next /\ UNCHANGED <<part, vars, logPart, graphPart, judgePart>>
  \/ part = "log" /\ Log!Next /\ UNCHANGED <<part, vars, nodesPart, graphPart, judgePart>>
  \/ part = "graph" /\ Graph!Next /\ UNCHANGED <<part, vars, nodesPart, logPart, judgePart>>
  \/ part = "judgements" /\ Judge!Next /\ UNCHANGED <<part, vars, nodesPart, logPart, graphPart>>

\* Each part's own fairness, of the part that runs.
RunsFairness ==
  /\ \A p \in Procs :
       /\ WF_vars(part = "grants" /\ Serve(p))
       /\ \A t \in Tasks : WF_vars(part = "grants" /\ Execute(p, t)) /\ WF_vars(part = "grants" /\ Recover(p, t))
  /\ WF_judgePart(part = "judgements" /\ Judge!Late)
  /\ \A p \in Sharers :
       /\ WF_judgePart(part = "judgements" /\ Judge!List(p))
       /\ WF_judgePart(part = "judgements" /\ Judge!Expire(p))
       /\ WF_judgePart(part = "judgements" /\ Judge!Restart(p))

RunsSpec ==
  /\ RunsInit
  /\ [][RunsNext]_<<part, vars, nodesPart, logPart, graphPart, judgePart>>
  /\ RunsFairness

\* Every variable of each part keeps its type.
RunsTypeOK ==
  /\ part = "grants" => TypeOK
  /\ part = "nodes" => Nodes!TypeOK
  /\ part = "log" => Log!TypeOK
  /\ part = "graph" => Graph!TypeOK
  /\ part = "judgements" => Judge!TypeOK

(* The properties of the parts: each is stated and explained in its part's *)
(* module.                                                                 *)

\* A compound node says of its steps what they did, through lost commits, dead
\* processes and a restart; a run's history and drafts say what it was; and the
\* definition stored is the one a planner is told of, and reaches its end.
RunsReadAsTheyRan ==
  /\ part = "nodes" => /\ Nodes!OneBranchHappens /\ Nodes!CompleteIsWhole /\ Nodes!LoopDoesAsTold
                       /\ Nodes!FailsKnowingAll /\ Nodes!RestartReadsTheSame
  /\ part = "log" => Log!ReplayIsTheRun /\ Log!DraftsAgree
  /\ part = "graph" => Graph!PlannedIsStored /\ Graph!NothingStalls

\* A task that waited for judgements ends as its questions were answered.
JudgedAsAnswered ==
  part = "judgements" =>
    /\ Judge!YesToEveryQuestion /\ Judge!EnforcedAnswersAreOperators
    /\ Judge!CertifiedAsAnswered /\ Judge!UnansweredIsUnknown

\* No effect runs before what it depends on, an operator's halt is ended by an
\* operator only, and an answer that settled a task stands.
StepsKeepTheirOrder ==
  Graph!EffectsFollowDependencies /\ Log!OperatorsHaltHolds /\ Log!HaltedStays /\ Judge!AnswersStand

\* A grant held for a task is let go, and a task that waits for a judgement ends.
WaitingIsOver ==
  /\ part = "grants" => HeldIsLetGo
  /\ part = "judgements" => Judge!WaitingEnds
=============================================================================
