------------------------------ MODULE McpServer ------------------------------
(***************************************************************************)
(* The tools of packages/server: mcp-server.ts and harness-tools.ts.       *)
(* Every session has an MCP server of its own over one runtime, and speaks *)
(* for the caller its transport authenticated. Each call spends from its   *)
(* caller's token bucket; each id it is handed is checked against who      *)
(* planned it; each request it plans names the caller above what the       *)
(* request declares. What the tools then do is in TaskController and       *)
(* WorkflowController.                                                     *)
(*                                                                         *)
(* A call is one step. A token is two units and one unit is refilled each  *)
(* tick of the monotonic clock, so a minute is 2 * MaxCallsPerMinute ticks.*)
(***************************************************************************)
EXTENDS Naturals, Sequences, SequencesExt

CONSTANTS
  Clients, Operator,   \* callers: authenticated clients, and who holds the machine's own key
  Sessions,
  Closed, NoPlanner, NoId, NoBucket,
  Declarations,        \* identities a request declares, outermost first: names of clients among them
  Definitions,         \* workflow definitions: per node, its kind and its requests' identities
  MaxChain,            \* links a chain may have above its principal
  MaxCallsPerMinute,
  MaxPlanned, MaxTicks, MaxStarts  \* bounds: tasks and runs, time, processes

Callers == Clients \cup {Operator}

McpAssumption ==
  /\ Operator \notin Clients /\ {Closed, NoPlanner} \cap Callers = {}
  /\ NoBucket \notin [units : Nat, at : Nat]
  /\ MaxCallsPerMinute \in Nat \ {0} /\ MaxChain \in Nat \ {0}

VARIABLES
  session,  \* per session, who it speaks for
  bucket,   \* callBuckets: per caller, its units and when they were counted
  tasks,    \* stored tasks: who planned each and the chain its request names
  runs,     \* stored runs: who planned each and its requests' chains, as stored
  served,   \* history: when this process served each caller's calls
  acted,    \* the caller just let act on or read a record, and its planner
  now, starts

mcpVars == <<session, bucket, tasks, runs, served, acted, now, starts>>

\* A task and a run of a version that recorded no planner are open to anyone.
Init ==
  /\ session = [s \in Sessions |-> Closed]
  /\ bucket = [c \in Callers \cup Sessions |-> NoBucket]
  /\ tasks = <<[planner |-> NoPlanner, chain |-> <<>>]>>
  /\ runs = <<[planner |-> NoPlanner, requests |-> << >>]>>
  /\ served = [c \in Callers |-> <<>>] /\ acted = NoId /\ now = 0 /\ starts = 1

Idle == acted' = NoId

Tick ==
  /\ now < MaxTicks /\ now' = now + 1
  /\ Idle /\ UNCHANGED <<session, bucket, tasks, runs, served, starts>>

\* A new process: buckets and sessions are gone, the records are not.
Restart ==
  /\ starts < MaxStarts /\ starts' = starts + 1
  /\ session' = [s \in Sessions |-> Closed]
  /\ bucket' = [c \in Callers \cup Sessions |-> NoBucket]
  /\ served' = [c \in Callers |-> <<>>]
  /\ Idle /\ UNCHANGED <<tasks, runs, now>>

-----------------------------------------------------------------------------
(* tokenBucket, one for each caller however many sessions it opens *)

Full == [units |-> 2 * MaxCallsPerMinute, at |-> now]
BucketOf(s) == session[s]

Refilled(b) ==
  IF b = NoBucket THEN Full
  ELSE [units |-> IF b.units + (now - b.at) > Full.units THEN Full.units ELSE b.units + (now - b.at),
        at |-> now]
Spends(s) == Refilled(bucket[BucketOf(s)]).units >= 2

Open(s, c) ==
  /\ session[s] = Closed
  /\ session' = [session EXCEPT ![s] = c]
  /\ Idle /\ UNCHANGED <<bucket, tasks, runs, served, now, starts>>
Close(s) ==
  /\ session[s] # Closed
  /\ session' = [session EXCEPT ![s] = Closed]
  /\ Idle /\ UNCHANGED <<bucket, tasks, runs, served, now, starts>>

\* The handler every tools/call goes through, before the tool's own.
RateLimited(s) ==
  /\ session[s] # Closed /\ ~Spends(s)
  /\ bucket' = [bucket EXCEPT ![BucketOf(s)] = Refilled(@)]
  /\ Idle /\ UNCHANGED <<session, tasks, runs, served, now, starts>>
Take(s) ==
  /\ session[s] # Closed /\ Spends(s)
  /\ LET left == Refilled(bucket[BucketOf(s)])
     IN bucket' = [bucket EXCEPT ![BucketOf(s)] = [left EXCEPT !.units = @ - 2]]
  /\ served' = [served EXCEPT ![session[s]] = Append(@, now)]
  /\ UNCHANGED <<session, now, starts>>
\* A call that is refused has spent its token.
Refuses == Idle /\ UNCHANGED <<tasks, runs>>

-----------------------------------------------------------------------------
(* Whose it is *)

\* attributeTo: the client at the outermost end, above all it declares.
AttributeTo(client, declared) == <<client>> \o declared
TooDeep(client, declared) == declared # <<>> /\ Len(declared) > MaxChain
\* attributed: whoever holds the machine's own key is left alone.
Attributed(caller, declared) == IF caller = Operator THEN declared ELSE AttributeTo(caller, declared)
Refused(caller, declared) == caller # Operator /\ TooDeep(caller, declared)

\* assertCaller, of a task or a run
Mine(caller, planner) == caller = Operator \/ planner \in {NoPlanner, caller}
Acts(caller, planner) == acted' = <<caller, planner>>
Adds(records, record) == IF Len(records) < MaxPlanned THEN Append(records, record) ELSE records

-----------------------------------------------------------------------------
(* The tools *)

\* melra_plan, and each tool harness-tools.ts registers but approve: those
\* declare no identity, and run what needs no approval at once.
MelraPlan(s, declared) ==
  /\ Take(s)
  /\ IF Refused(session[s], declared) THEN Refuses
     ELSE /\ tasks' = Adds(tasks, [planner |-> session[s], chain |-> Attributed(session[s], declared)])
          /\ Idle /\ UNCHANGED runs
HarnessTool(s) ==
  /\ Take(s)
  /\ tasks' = Adds(tasks, [planner |-> session[s], chain |-> Attributed(session[s], <<>>)])
  /\ Acts(session[s], session[s]) /\ UNCHANGED runs

\* melra_execute, melra_task_status, melra_task_cancel, melra_task_judge and
\* approve: ownTask first.
OnTask(s, t) ==
  /\ Take(s)
  /\ IF Mine(session[s], tasks[t].planner)
     THEN Acts(session[s], tasks[t].planner) /\ UNCHANGED <<tasks, runs>>
     ELSE Refuses

\* melra_receipt: a receipt's task when one is named, whatever task is named too.
\* variant: the task named is the one checked
OwnerIsTheTaskNamed(t, r) == IF t # NoId THEN t ELSE r
OwnerOf(t, r) == IF r # NoId THEN r ELSE t
Answered(t, r) == IF r # NoId THEN r ELSE t
MelraReceipt(s, t, r) ==
  /\ t # NoId \/ r # NoId
  /\ Take(s)
  /\ IF Mine(session[s], tasks[OwnerOf(t, r)].planner)
     THEN Acts(session[s], tasks[Answered(t, r)].planner) /\ UNCHANGED <<tasks, runs>>
     ELSE Refuses

\* attributeRequests: every request of the definition, wherever it stands.
AttributeRequests(definition, client) ==
  [n \in DOMAIN definition |-> [k \in DOMAIN definition[n].requests |->
                                  AttributeTo(client, definition[n].requests[k])]]
Requests(definition) ==
  UNION {{definition[n].requests[k] : k \in DOMAIN definition[n].requests} : n \in DOMAIN definition}

WorkflowPlan(s, definition) ==
  /\ Take(s)
  /\ IF \E declared \in Requests(definition) : Refused(session[s], declared) THEN Refuses
     ELSE /\ runs' = Adds(runs, [planner |-> session[s],
                requests |-> IF session[s] = Operator THEN [n \in DOMAIN definition |-> definition[n].requests]
                             ELSE AttributeRequests(definition, session[s])])
          /\ Idle /\ UNCHANGED tasks

\* melra_workflow_status, _control and _cancel: ownRun first.
OnRun(s, r) ==
  /\ Take(s)
  /\ IF Mine(session[s], runs[r].planner)
     THEN Acts(session[s], runs[r].planner) /\ UNCHANGED <<tasks, runs>>
     ELSE Refuses
\* melra_workflow_advance: a step's task is its run's planner's, and its
\* request is the one stored.
WorkflowAdvance(s, r) ==
  /\ Take(s)
  /\ IF Mine(session[s], runs[r].planner)
     THEN /\ Acts(session[s], runs[r].planner) /\ UNCHANGED runs
          /\ \/ \E n \in DOMAIN runs[r].requests : \E k \in DOMAIN runs[r].requests[n] :
                  tasks' = Adds(tasks, [planner |-> runs[r].planner, chain |-> runs[r].requests[n][k]])
             \/ UNCHANGED tasks
     ELSE Refuses

Ids(records) == {NoId} \cup DOMAIN records

Next ==
  \/ Tick \/ Restart
  \/ \E s \in Sessions :
       \/ \E c \in Callers : Open(s, c)
       \/ Close(s) \/ RateLimited(s) \/ HarnessTool(s)
       \/ \E d \in Declarations : MelraPlan(s, d)
       \/ \E t \in DOMAIN tasks : OnTask(s, t)
       \/ \E t, r \in Ids(tasks) : MelraReceipt(s, t, r)
       \/ \E d \in Definitions : WorkflowPlan(s, d)
       \/ \E r \in DOMAIN runs : OnRun(s, r) \/ WorkflowAdvance(s, r)

Spec == Init /\ [][Next]_mcpVars

-----------------------------------------------------------------------------
(* Properties *)

\* Sessions, buckets and records are of the shapes the code keeps.
TypeOK ==
  /\ session \in [Sessions -> Callers \cup {Closed}]
  /\ \A c \in DOMAIN bucket : bucket[c] # NoBucket => bucket[c].units \in 0..(2 * MaxCallsPerMinute)
  /\ \A t \in DOMAIN tasks : tasks[t].planner \in Callers \cup {NoPlanner}
  /\ \A r \in DOMAIN runs : runs[r].planner \in Callers \cup {NoPlanner}

\* A client acts on and reads only what it planned itself, whatever ids it
\* names together; only whoever holds the machine's own key is refused nothing.
ActsOnItsOwn == acted # NoId /\ acted[1] \in Clients => acted[2] \in {NoPlanner, acted[1]}

\* Every task a client planned, a workflow's step however deep it stands in
\* the definition, names that client outermost, whatever it declares.
NamesItsCaller ==
  \A t \in DOMAIN tasks : tasks[t].planner \in Clients =>
    tasks[t].chain # <<>> /\ tasks[t].chain[1] = tasks[t].planner

\* In no stretch of time is a caller served more than the bucket's size and
\* what it refilled meanwhile, over however many sessions.
RateHolds ==
  \A c \in Callers : \A i, j \in DOMAIN served[c] : i <= j =>
    2 * (j - i + 1) <= 2 * MaxCallsPerMinute + (served[c][j] - served[c][i])
=============================================================================
