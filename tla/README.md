# A verification project for Melra

Melra runs side effects for agents: a caller plans a *task* (one operation) or a
*workflow* (a graph of operations with compensations), policy decides whether a
person has to approve it, an adapter does it, verifiers look at what it did, and
receipts and certificates record it. Several Melra processes may share one SQLite
database. What is hard about it is not any single step; it is that the effect is
outside the database, so that every crash, failed write, late answer or second
process between "the effect may have happened" and "the database says so" must
end in a record that is true.

These modules model that. TLC checks them on small instances; TLAPS proves the
central safety properties for every set of processes, tasks, keys, steps and
bounds.

## 1. The system

### Components, state and operations

| component | state | operations | what makes it correct |
|---|---|---|---|
| Task controller (`runtime-core/src/task-controller.ts`) | rows `tasks`, `idempotency_commits`, `capability_usage`, `receipts`, `certificates`, `task_results`; in memory `active`, `running`, `reserved`, `store.inFlight` | `plan`, `execute`, `cancel`, `reconcile`, `recoverInterrupted`, `decide`, `deny`, judgements | a change is sent at most once; an unknown outcome is never reported as a failure; what may have happened is paid for; a settled answer stands; interrupted work ends |
| Storage (`storage-sqlite/src/index.ts`) | the database; process ownership files | compare-and-set saves, claims, leases, version-checked transitions, sealing | each write lands whole and only on the state it was decided on |
| Workflow controller (`runtime-core/src/workflow-controller.ts`) | `workflow_runs` (projection and version), `workflow_leases`, events, snapshots; the advance in memory | `plan`, `advance`, `pause`, `resume`, `cancel`, `recoverInterrupted` | one advance at a time works on the run as it is; each step runs once; a failed saga is undone newest first, never past an unknown outcome; an ended run stays ended; an abandoned one is taken up |
| Approvals | challenge in the task row, `approval_decisions`, `approval_denials` | issue, decide, deny, use | a task that needs a yes runs only on a usable one for exactly what was shown; a denied one never runs |
| Capability grants | `capability_usage`; reservations in memory | check, reserve, draw | what runs under a grant is counted against it once |
| Circuit breaker | failures per target, in memory | check, record | an open target is not called until its cooldown is over |
| Workflow graph, events (`workflow-graph.ts`, `workflow-events.ts`) | a definition; the event history and snapshots of a run | `validateWorkflow`, `readyNodeIds`, `createWorkflow`; `transition`, `rebuild` | an accepted definition is one a run comes to the end of, in order; the history rebuilds the run |
| Semantic judgements | questions in the task row, verdicts | wait, judge, expire | a question is answered by somebody else than who ran the task, once, or settled closed |
| Record chain | `record_chain` | seal with each write, sweep at start, verify | every record sealed once, in one unbroken chain |
| Memory | `memories` | put, supersede, delete, compact | one live record per chain of corrections |
| OAuth register, MCP sessions (`server/src`) | `oauth.json` under a lock file; sessions with holds | register, decide, token, revoke; open, serve, evict | a revoked client holds no live token; a session is not ended under a call |
| MCP server (`server/src/mcp-server.ts`) | a rate bucket per caller | every tool call | a caller acts on its own tasks, under its own name, within its rate |
| Server start (`server/src/runtime.ts`, `payload-key.ts`) | what it was asked for; key file | serve, mint or refuse | one key per home |
| Policy core (`policy-core/src`) | none | `evaluatePolicy`, `capabilityCheck`, `classifyCommand`, `assertSafeDestination`, the credential broker | nothing but what counts as a read runs unasked; stricter is never looser |
| Verifiers (`verifier-core/src`) | none | the kernel's checks, the provider's read | what passes is so, what is denied is not |
| File adapter (`file-runtime/src`) | the workspace | read, write, move, delete, mkdir | nothing leaves the workspace or is torn |
| Terminal adapter (`terminal-runtime/src`) | process groups, jobs | run, start, output, stop, close | nothing runs unsupervised |
| Browser adapter (`browser-runtime/src`) | a queue, a context, its windows, a proxy | one action at a time, close | input reaches what was checked; a plain failure completed nothing; windows are told of |
| Computer, HTTP adapters | helpers; one call | one operation at a time | their reports tell "done", "not done" and "unknown" apart |
| CLI setup (`cli/src/clients.ts`) | a client's configuration file and its `.bak` | merge an entry, replace | the user's settings survive, the entry comes out once |
| Redaction, cryptography, SDK, console, other CLI | (little or none) | rendering, parsing | |

Every component is listed in `PROJECT.json` with its status; those not modelled
have the reason there.

### Interaction

- An MCP or HTTP request calls a controller; the workflow controller plans and
  executes its nodes through the task controller, one task per node and attempt,
  under an idempotency key derived from the run and the node.
- Processes meet only in the database. A row carries the id of the process that
  runs it (`owner`), alive while it holds a lock on a file; a workflow run is
  advanced under a lease, renewed by a timer and before every step.
- Each live process sweeps every 30 s (`server/src/runtime.ts:736-748`): it
  recovers tasks whose owner is gone, asks again about parked tasks inside their
  settle window, and repairs the runs of expired leases. A start does the same
  for everything recoverable.
- An adapter is handed an abort signal; a cancel and an exhausted budget only
  signal, and the adapter says what became of the effect.

### What is hard

Interleavings of two processes over one row; a crash between the effect and its
record, or between two records of one outcome; a write that fails after the
effect; an effect that lands after its adapter was aborted; a provider whose
reads lag its writes; a lease that lapses under a stalled advance; state read
before an `await` and used after it. `PROJECT.json` `hazards` lists each at its
line with the properties that watch it.

## 2. The plan

| | modules | runs | theorems |
|---|---|---|---|
| done | `TaskController`, `EffectLedger` | task_* | type, sole holder, at most once, commits stand, reopening; outcomes, charges, keys; implements the ledger, step by step, and so is consistent |
| done | `WorkflowController` | workflow_* | type, at most once, steps on the current run, ended runs stay; complete means done, an unwind is apart, newest first and whole, nothing left after a cancel |
| done | `Approvals` | rules | type, a denial is final, enforced starts, no spoilt challenge, the cap |
| done | `Grants`, `WorkflowNodes`, `WorkflowEvents`, `WorkflowGraph`, `Judgements` | runs, grants_second, graph_approvals | grants: a task at rest is paid for, the ceiling of one grant; the steps' order, halts end by operators, a condition is decided once, tasks end as judged, verdicts stand |
| done | `RecordStore`, `Memory`, `OAuth`, `HttpServer`, `Home`, `McpServer`, `ClientConfigs` | server | one key per home, callers act as themselves, sessions in use stay and come back to the cap, revokes stand; next: the chain's sweep, the chains of memories |
| done | `PolicyRules`, `CommandReads`, `Verification`, `FileTree`, `FileWrites`, `BrowserWindows`, `BrowserSession`, `Wildcards` | rules | next: windows |
| done | `BrowserActions`, `ComputerActions`, `TerminalJobs`, `HttpRequests` | adapters | types; failures tell the truth; input acts where it was checked; commands stay supervised; calls keep their limits |
| left | delegation nodes; a failed write inside an advance; `WorkflowController`'s tasks as instances of `TaskController`'s abstract states | in the workflow runs | liveness and recursion stay with TLC |

Modules that share no state are checked in one run: an `MC` module instantiates
them side by side, its variable `part` says which one a behaviour is of, and the
variables of the others stay at one initial state. Each part is so checked
completely and by itself. No module that a theorem is about declares a RECURSIVE
operator.

## 3. The modules

### TaskController

One step is one SQLite write transaction of one process together with the code up
to the next `await`: that is the granularity at which two processes, a crash or a
failed write can interleave with it. `row` is the `tasks` row (status, owner,
error class), `commit` the idempotency commits, `drawn` the capability uses,
`receipts` and `cert` the stored receipts and certificate, `result` the saved
adapter result. `job[p][t]` is what process `p` is doing with task `t`: its stage
follows the awaits of `execute` (starting, attempting, calling, returned,
verifying, deciding), of its catch (commit, draw, receipt, save, certify), of
`recoverTask` and of `reconcile`. `effect` is the far end: sent, landed, visible
in its reads, or lost. Planned and awaiting_approval are one status.

Actions keep the names of the code where it has them: `StartCheck`/`StartWrite`
(`execute` to its start write), `Attempt`/`Returns`/`Throws`
(`executeWithRetries`), `SaveResult`, `Verify`, `Conclude` (the one transaction
that commits the outcome), `Catch*` (the five writes of the catch), `Claim` and
`Recover*` (`recoverInterrupted`, `recoverTask`), `Reconcile*`, `PreventDuplicate`,
`Block`, `Withdraw`, `Abort`, and `*Fails` for a write that fails at each stage.

### EffectLedger

The abstract promise, with no process or row: a change is sent at most once,
committed and confirmed only after it happened, confirmed only once paid for, and
refuted only if it neither happened nor will. `TaskController!LedgerSpec` maps the
calls' history and the database onto it; the run `task_life` checks that every
step of the task model is a step of the ledger or none.

### WorkflowController

One run, advanced by several processes. `run` is the projection with its version,
`lease` the lease row (`fresh` while it has not expired), `task[n]` the task under
node `n`'s key with the states `TaskController` gives it, `adv[p]` the advance of
process `p` (what it read, where each node of its wave is, what it will record),
`sync[p]` a block of recovery or operator code. `Begin`/`Recovered` are
`leasedAdvance` and the start of `advanceOnce`; `TakeUp`/`StartStep`/`TaskEnds`
are `runTask`; `WaveEnds`, `UndoNext`, `Commit`, `CancelForward` and
`ReleaseAdvance` the rest of the advance; `ListRun`/`RepairRun`/`ReleaseSync` the
repair of runs; `Pause`/`Resume`/`Cancel` the operator, and `Refused` a control that
does not apply, which has taken the lease, and so outrun a lapsed advance, by the time
it says so. An advance with an empty wave releases at once. Nodes are operations and
compensations. Blocks of synchronous code are split where another process can act
on what they read, and are taken to be shorter than a lease.

### Approvals

Whether a task may start. `row` is the task with its challenge (with a phrase, or
without one when an enforced process issued it), its expiry and the mode it ran
under; `decision` is `approval_decisions`, insert-once; `denials` is
`approval_denials`. Each process is enforced or in developer mode and has a policy
of its own, so what one confirms another may deny or allow. `Plan`/`PlanWrite` are
the count of open challenges and the write after it, `Deny`/`DenyWrite` the read
and the compare-and-set of `deny`: between the two other processes act, this one
does not (they do not await). `Execute`/`Start` are the checks of `execute` and
its awaited start write, between which its own process acts too. `Decide` and
`Cancel` are one step each: `Decide` reads and inserts, and an answer recorded a
moment after the task stopped waiting is one recorded a moment before; `Cancel`
compares in its write. `Interrupt` makes a read that was cut off ready to run
again, which asks for approval again under the policy of whoever runs it.

### Grants

What a task is charged to. `uses` is `capability_usage`, `reserved` the map
`execute` keeps in memory from the turn that checked the grant until the draw is
written, `serving` whether a process has finished the recovery pass that
`createMelraRuntime` awaits before it serves, `breaker` the circuit breaker of the
one target. `under` is the only history: the tasks whose effect may have gone out
on a grant. `Reserve` to `Conclude` are `execute`, `Catch*` its catch, `Claim` and
`Recover*` recovery with `drawGrant`, `Reconcile` the settling of a parked task.
Keys, receipts and the adapter's retries are `TaskController`'s and left out here;
both draw at the same writes.

### WorkflowNodes

One composite node of a run. `task` holds the task under each step's key, `rec` the
node as it is recorded, `adv` an advance from its read of the node to its commit;
`happened` is the effects of the far end. `BeginCondition`, `TakeBranch`, `Ask` and
`Answered` are the decision of a condition and the `until` of a loop; `Plan`,
`Execute`, `Read` are `runTask`; `LaneEnds`, `Aggregate`, `IterationEnds` fold what
was read into the node. `Commit` may be lost (`Lose`) to a pause or a dead process,
and then the next advance or recovery (`RecoveredNode`) decides from the tasks
alone. One process at a time advances, as `WorkflowController` shows it must.

### WorkflowEvents

A run as its history. `run` is the projection, `log` its events, `snapshot` the
last checkpoint; a change of the run is a draft and the events beside it
(`Settled`, `Recovered`, `Cancelled`, `Halted`, `Resumed`), made from a run read
earlier and committed only if the version still is that one (`Committed`).
`Apply`/`Rebuild` are `applyWorkflowEvent` and `rebuildWorkflow`, `HeldByOperator`
the search of the history that decides whether an agent may lift a halt.

### WorkflowGraph

Every definition of three nodes (operations, approvals, conditions, human input) is
tried; two planners race for one id and version. `ValidateWorkflow`, `ReadyNodes`
and `Offered` are the code's, and `Operation`, `Approval`, `Condition`, `Input` a
run that follows them.

### Judgements

One task that waits for semantic answers: `task`, its `certificate`, `judged` (what
was answered to each question and by whom), in a home shared by an enforced and a
developer process. `Waits` is the transaction that parks the task, `Judge` a
verdict, `Expire` the sweep, `Claim`/`Recover*`/`Reconcile` recovery of a task cut
off beside a commit. The clock is `late`, and may be set back.

### RecordStore, Memory

`RecordStore` is `record_chain` beside the tables it seals: writers that hold the
key seal as they write, a start's sweep (`SealRecords`, `SealBatch`) seals the rest
in batches read before they are written, an old store writes without sealing, and
`Damage` edits, removes or cuts what the file holds. `VerifyChain` is the walk.
`Memory` is the links between records and their corrections over `Put`, `Compact`,
`Delete`, `Clear`, with days passing between; a put and its compaction are two
transactions.

### OAuth, HttpServer, McpServer, Home

`OAuth`: the register file, the copy every process keeps of it with a version, the
lock, and an update in three steps (`TakeLock`, `Change`, `Rename`) by servers and
the revoking command. `HttpServer`: the session map in the order of last use, each
request holding its session until its response or socket closes (`Hold`, `Close`,
either one first or never), `Initialize` with the eviction of idle sessions, and
the pairing of one page. `McpServer`: the bucket of each caller, and for every tool
whose records it may name and under which principals it plans. `Home`: what a
start is asked for and refuses, and the key file that starts read, mint or refuse.

### ClientConfigs

What the setup command does to a configuration file of each of its three forms, as
lines or members: the merge, the copy to `.bak`, the replacement, with a death
between any two.

### BrowserActions, BrowserWindows, BrowserSession

`BrowserActions`: the queue, the checks of an action on the page before its input
(`address`, secret fields, an approval console), the document it is then bound to,
the input and the report, while the page navigates and draws itself; a deadline may
come at any step. An input is handed to Playwright (`Send`, `Focus`, `Key`) in one
step and reaches a page in a later one (`Arrive`), or never: in between the page may
go, the call time out and its action be answered. What goes through an element (a
field cleared or set) reaches that element or nothing; a click or a key reaches
whatever document is there by then, as the comment at `index.ts:1675-1678` says. Only
of a click does Playwright record that it went out, so the call of any other that
times out is a plain failure although it may have reached the page
(`index.ts:184-192`, `Unlogged`). A screenshot is checked once, before it is taken.

`BrowserWindows`: windows a page or the operator opens, each reported and perhaps
closed. Chromium names a window's opener as a page, as a frame, or not at all
(`Openers`); the runtime takes it for the operator's by that name and by what runs
(`Theirs`), or, handed it without having been told or unable to look it up, by when
it came (`HandOver`, `JudgeUnasked`). `whose` and `plain` are the truth of it and
whether Chromium's word is enough to tell, for the properties. `BrowserSession`: the
proxy, browser and guards that an action without a context sets up, when any of
them fails, dies or is closed meanwhile.

### ComputerActions, TerminalJobs, HttpRequests

`ComputerActions`: an operation as a sequence of helper processes, each of which may
be cut off before or after it acts, and the choice of a named element from what the
platform or a capture shows. `TerminalJobs`: a command's process group from its
start to its empty end, with traps, timers, stop and close. `HttpRequests`: one call
from its destination check to its report, with an answer of the resolver that
changes, redirect, credentials, abort and deadline, and the pinning proxy when a
page makes the call, which sets no deadline (`pinning-proxy.ts:62-111`).

### FileTree, FileWrites

`FileTree`: every sequence of file effects on a small tree with links and a git
directory, each judged by name and by what the name leads to. `FileWrites`: the
system calls of one read and one write, beside a process that swaps folders and
files for links in between; deaths leave temporaries.

### CommandReads, PolicyRules, Wildcards, Verification

Pure decisions, checked over every input within the bounds. `CommandReads` spells a
command argument by argument and asks whether what is classified as a read is one.
`PolicyRules` decides a request under a policy, tightens the policy by one field and
decides again. A stop of a job is classified by the command it carries
(`policy-core index.ts:788-809`), as the code does. `Wildcards` compares the two-pointer match with the meaning of a
pattern. `Verification` compares each check's answer with the disk or the resource.

## 4. The runs

| run | instance | shows |
|---|---|---|
| task_life | 2 processes, 1 change with key and reconciliation, 2 crashes, 2 failed writes | sole holder, at most once, unknown is never a failure, paid if it happened, success is backed, no contradicting receipts, reopening by the certificate write only, the ledger; interrupted and settling tasks end |
| workflow_saga | 1 process, steps a, b, c (b and c after a), compensations of a and b, b and its undo wait for a person; a crash, a lapse, 2 controls | an unwind waits for unknown outcomes, goes newest first, leaves nothing silently undone; a complete run is done; no step after an unwind |
| workflow_takeover | 2 processes, a step and its compensation, the step also executed directly; a crash, a lapse, a control | each step once, on the run as it is; an ended run stays; no open challenge after a cancel; an abandoned run is taken up |
| task_keys | 1 process, a change and a read planned under one key, 2 failed writes | the key stands for an effect that happened, and what is reported done has one behind it; none is cancelled as its own duplicate |
| runs | five parts: grants (1 process, 3 tasks, 1 grant of 2 operations and 2 units, a crash, a failed write), composite nodes (six shapes, 2 lost advances), a history of 6 events, every definition of 3 nodes with 2 planners, 2 questions in 2 processes | a grant funds no more than it says and what may have happened is on record; a node, a history and a definition read as they ran; a verdict stands; reservations and waits end |
| server | eight parts: the chain beside 2 current stores and an old one, and again with an edit of the file; 3 memories; a server and a revoking command over 1 client slot; sessions at a cap of 1; 2 starts; an agent and the operator over 2 sessions; 2 runs of the setup | records are sealed once and a kept head shows what was sealed; corrections are not lost; a revoke holds, a session in use is kept, a caller acts as itself, within its rate; one key per home; the user's settings survive; the map comes back to its cap |
| rules | nine parts: approvals (an enforced and a developer process, two changes of which the developer's policy denies one, and a read of an unlisted host, cap 1, lifetimes 2 and 1 over one tick of the clock), commands of 4 arguments, policies edited once, checks over a disk changed twice, patterns and values of 4 letters, trees over 3 calls, one read and write beside 2 swaps, 2 windows over 2 actions, 4 starts of a browser | a denial is final; an enforced start rests on an operator's decision made in time; no challenge is spoilt by an answer that cannot be used; the cap is passed by one at most; nothing but what counts as a read runs unasked, stricter is never looser, checks answer what is so, effects stay inside, windows are told of and none that is plainly the operator's is closed, nothing acts unguarded |
| adapters | four parts: 2 browser tasks over 2 addresses and 2 changes of the page, the desktop over 7 screens, 2 commands, one call with one rebinding | a plain failure completed nothing, input goes where it was checked, nothing is left unsupervised, a call keeps its limits, every action, helper, command and task's call ends |

Over the one tick of `rules` an enforced process's challenge, which lives for two,
never expires; a developer's does. That no enforced start rests on an expired answer
of either is `EnforcedRunsOnOperators`, for every lifetime and clock (section 5).

Four more runs end in a violation, each a disagreement between the code and a
sentence about it (`PROJECT.json` `findings`):

1. `task_settled_stands`: an execution that parked its task saves its own copy
   again with the certificate; a peer's reconcile that settled the row in between
   is overwritten (`task-controller.ts:994`).
2. `workflow_parked_race`: an unwind starts beside a step approved and executed
   directly while its siblings ran (`workflow-controller.ts:576`).
3. `grants_second`: which grant a task runs on is stored nowhere until it is
   drawn, so recovery charges the first that matches; with two grants of one
   operation each, the second funds two tasks (`task-controller.ts:1277`).
   `FundsNoMore` holds with one grant, as `runs` checks.
4. `graph_approvals`: two approvals of one operation are accepted, and each waits
   for the other, so a run of that definition is left with nothing on offer
   (`workflow-graph.ts:139`). `NothingStalls` in `runs` is therefore stated of
   definitions in which an operation has one approval at most.

### Parts

Modules that share no state would each need a run; `MCRuns`, `MCServer`, `MCRules`
and `MCAdapters` instantiate several and let the initial state choose `part`. Every
step is a step of that part, the other parts' variables stay at one initial state,
and a property of the run is the conjunction of its parts' properties, each under
`part = ...`. So every part is explored completely, as if alone.

### Bounds

`MaxCrashes`, `MaxFaults`, `MaxLapses` and `MaxControls` bound how often the world
misbehaves in one behaviour; nothing else is cut. Two processes are enough for
every race over one row, since the others only repeat the role of the second: the
writes are compare-and-sets on one status, owner or version. Two crashes let both
the worker and the first to recover it die; two failed writes let the catch of a
failure fail itself. Three steps give a saga a failure beside a success and beside
a step that waits, and two compensations an order to get wrong. `Direct` is empty
in workflow_saga because the server tells clients to run a step by advancing its
run (`server/src/mcp-server.ts:530`); workflow_parked_race and workflow_takeover
have callers who do not.

In the approvals of `rules` the clock has two values: a developer challenge (lifetime 1)
expires at the second, an enforced one does not, so both are met; decisions fall
before and after. A cap of 1 with three tasks lets two processes pass it and
leaves one to pass it further. The view of `rules` hides the challenge and the
decision of tasks that are cancelled or blocked, which no action reads again. The read is
denied nowhere and needs approval in enforced mode only. In the grant runs every
task matches every grant and aims at one target, amounts are 1 or 2, the breaker
opens at the first failure, and all draws fall within one day. With more than one
process over one grant the ceiling is not promised (`task-controller.ts:353-355`),
so `runs` has one.

In `runs` two losses let recovery find the tasks of an advance that itself began
from a lost one; the six shapes have a branch of two steps, one of none, a lane that
stops short, and a loop that asks and one that does not; six events are a plan, a
wave, a checkpoint, a halt and what ends it; three nodes are enough for an approval,
what it guards and what comes before or after either. In `server` a batch of 1, with
two records to seal, lets a writer in between two batches; one client slot and one
token slot are full at once; a cap of 1 with three sessions opened is passed by two
busy ones; a start in the midst of another finds the key file absent, then present.
The ids of memories, and the two current stores, are interchangeable and a symmetry
set. In `rules` four arguments are a subcommand with two options and a value; values
and patterns of four letters over two give two runs between stars; the policy starts
as a loosest one and is edited once, so that each edit is compared with what it
tightens. In `adapters` two changes let a page move away and back. The constants
named `bound` in the modules say what each one cuts.

Every property of a passing run has a variant of a modelled definition, marked
`variant` beside it, under which TLC finds that property violated: a dropped
compare-and-set, a swapped order, a sweep that passes over a status.

### Fairness

A job that was started goes on and its adapter call ends: every call has a budget
that aborts it (`task-controller.ts:773-780`). Each live process sweeps
(`runtime.ts:736-748`), an unrenewed lease runs out, and a far end does or drops
what it was sent. Starting a task or an advance, a person's answer, a caller's
reconcile, crashes, failures and stalls are never owed. In `Grants` a process also
gets through its startup recovery; `Approvals` states no liveness, since nothing
about a person's answer is owed. In `Judgements` the clock goes on, a process that
died comes back, and its sweep lists and expires; a verdict is not owed.

In the adapters, the queue starts the next action, and an action is abandoned at its
deadline whatever the page does (`BrowserActions`); a helper ends or is killed at
its timeout (`ComputerActions`); an exit is heard, timers fire and a SIGKILL kills
(`TerminalJobs`); a lookup comes back and a task's call has a deadline (`HttpRequests`); the
connection a page makes through the proxy has none, and is owed no end.
No answer, navigation or exit by itself is owed. `BackToTheCap` of the sessions is a
property of steps and needs no fairness.

### The environment

An adapter that reports success did it; one that says nothing went out is right
(`adapters` checks that of the four with an outcome to report, and finds it of the
browser but for the one call without a record of its dispatch that timed out); an effect's later
visibility is within the declared settle window. A synchronous block is shorter than
a lease, and takes no tick of the approvals' clock. A crashed process loses its
memory and its ownership lock, no more. Chromium, Playwright, the platforms'
helpers, git, the shell, the resolver and the far end do anything their interfaces
allow; the definitions for them are marked `external` in the map.

## 5. The theorems

All are in the `*_proofs` modules, for every value of the constants under
`TaskAssumption`, `WorkflowAssumption` (the sets are disjoint, the owners
`Nobody` and `Gone` are no process; nothing is assumed finite but the
compensations), `ApprovalAssumption` (processes and tasks are finitely many,
lifetimes and the cap are positive), `RunsAssumption` (the kinds of caller are apart,
`Nothing` is no node), `ServerAssumption` (the same of the parts of
`MCServer`: the kinds of process are disjoint, caps, slots and rates are numbers) and
`AdaptersAssumption` (`AnyPage` is no address and `NoDocument` no number, bounds are
numbers, and a job can be kept).

**Tasks.** `TypeCorrect`, `TaskHasSoleHolder`, `ChangeIsSentAtMostOnce`,
`CommitsStand`, `OnlyCertifyReopens`; `TaskIsHeldByOneSentOnce` states the second
and third together, as the run does. None is inductive. `IInv` adds what a job
holds at each stage (`JobOK`), that a job which counts on its row owns it
(`HolderOK`), that a job which gave its row up left it settled or parked
(`DoneOK`), and that a change not yet sent is one nobody has reached the call for
(`UnsentOK`). The argument: a row leaves "planned" by one compare-and-set, which
makes its writer the owner; only the owner, or one that claimed the row from an
owner that is gone, is at a stage that writes it; so no second process gets as far
as the call.

**Workflows.** `TypeCorrect`, `StepsRunAtMostOnce`, `StepsAreTakenUpOnCurrentRun`,
`EndedRunsStay`, and the last two together as `RunsAreCurrent`. `IInv` says that
whoever owns the lease as an advance works on the run as it is stored (`AdvancesOK`:
every write of the run by anyone else takes the lease first), that a run recovery
has listed is still abandonable at the version it listed (`ListedOK`), that a
complete run reads complete from its nodes (`CompleteOK`: a commit on it changes
nothing), and that a task not started has not been sent (`SentOK`).

**Outcomes.** In `TaskOutcomes_proofs`: `OutcomesTrue` (what a task is said to have
come to is what happened), `ReachedIsCharged` (every effect that may have happened
has been drawn for), `KeysAreKept` (a key's task is the one that has its effect),
`StepIsLedgerStep` and `ImplementsLedger` (the refinement of `EffectLedger`). What
is stored is compared with what became of the calls, and between the two stands a
job, which carries in memory what its adapter, verifier or provider told it. `OInv`
therefore has a part for the store and one for the jobs. `TaskOK` says what a task's
records imply: that the history agrees with the far end (`WorldOK`), that every
success on record, in a row, a receipt or a certificate, is of an effect that
happened and is paid for (`BackedOK`), what the error classes mean (`ErrorOK`), and
for a change that one which may have happened is drawn, and one reported failed or
cancelled cannot happen (`ChangeOK`). `JobKnows` says what a job at each stage has
been told, and that others leave it true; `KeyOK` that a committed key is of an
effect that happened. It rests on the `IInv` above, which says who may write the
row. With it the refinement is a case analysis: an attempt is the ledger's `Send`,
an effect that lands its `Happen`, a provider's "no" its `Refute`, every other write
a `Record` or a stutter.

**Unwinds.** In `WorkflowUnwind_proofs`. `CompleteRunsAreDone`,
`NoStepFollowsAnUnwind` and `OnceThenNothing` hold without condition: with stalled
advances, takeovers, crashes and callers who execute a step directly. `TInv` is
what they need: a state recorded of a node is backed by its task (`Told`), and so is
what an advance that owns the lease is about to record (`AdvancesTold`); waves are of
steps and unwinds of compensations (`ApartOK`); once something was begun to be
undone, a run whose lease is free says why (`Recorded`), so that an advance which
takes it over unwinds too and starts nothing; and a cancelled run has nothing left
to start or its cancel is still at it (`CancelOK`).

`RunsAreUnwoundOrWhole` and `UnwindsComeApart` are stated under `Quiet`: callers
leave a run's tasks to its advances, and either no lease of a live process lapses or
there is one process. This is no convenience. With two processes and one lapse TLC
finds a failed run left with a step not undone: an advance that has renewed its
lease for a step and is then stalled past it calls the step after a peer's recovery
has recorded the run failed (the run's version is checked at the commit, the lease
only before the step). With direct execution it finds the run `workflow_parked_race`.
`UInv` adds to `TInv` that under `Quiet` an advance at work keeps its lease
(`LInv`); that what is recorded of a step admits what its task may still do, when
the run is failed or its lease free, and what the owner is to record always does
(`RunKnows`, `AdvancesKnow`); that a compensation was skipped only where its step did
not succeed (`SkippedRight`); that from the first sign of an unwind no step is in
flight and each stays as it ended (`FrozenOK`); and that what an unwind no longer has
on its list it has undone (`LeftOK`, `OrderOK`). The instance of workflow_saga
satisfies `Quiet`.

**Approvals.** `TypeCorrect`, `DenialIsFinal`, `EnforcedRunsOnOperators` (together
`WhatRunsIsApproved`), `NoChallengeIsStranded`, `OpenChallengesAreBounded` (together
`ChallengesAreOpenAndFew`). `DeniedNeverRuns` rests on the compare-and-set alone.
For an enforced start, `IInv` says that a decision was made before its challenge
expired and names the mode it was made in (`AnswerOK`), and that what an enforced
process is about to start has one (`StartingOK`). For the cap, the open challenges
and those being planned are counted together (`BoundOK`): a process that passes the
check adds one to at most `Cap - 1`, and writing a plan moves it from one count to
the other. That time alone never opens a challenge again, although a decision lapses
sooner for a process of a shorter lifetime, is `OpenIsWaiting`: the process that
issued the challenge holds an answer to be a decision for as long as the challenge
has not expired (`IssuedOK`).

**Grants.** In `Runs_proofs`, with the rest of what is proved of the run `runs`. `RestIsPaid` holds for any processes and grants:
whoever owns a running row is the only one at work on it, each stage of a job says
whether its task is settled up (`JobOK`), and a task that some grant paid for once is
one that recovery's draw finds a grant for (`PaidUp`). `OneGrantFundsNoMore` assumes
what the code needs for it, one process and one grant (`Alone`; `grants_second` shows
that two grants are too many). While the process serves, all that may have gone out
is on record or held (`HeldOK`), so the grant chosen has room for the next task beside
both; a process that restarts draws for every task cut off before it serves. The sums
of amounts are the one induction over data: the lemmas `GrowingFamily` to
`SpentOfUnion` make it from the well-foundedness of finite subsets, which is first
order, for the library's recursive fold.

**The order of steps, halts and verdicts.** Also in `Runs_proofs`; the run's parts move
one at a time, so each has its own invariant.

- *Order* (`StepsComeInOrder`): `OfferedAfter` says that a node which is no longer
  pending was offered after everything it waits for, for any set of nodes and every
  definition over them; an effect is then later than its
  dependencies, or it is the task of an approval node that is one of them.
- *Halts* (same theorem): `HistoryTells` says that a run an advance has read is the
  stored one as long as the version is, which makes the version check of a commit
  enough to keep a halted run's steps; and that an operator's halt not yet resumed
  from is on the log, where the resume of anyone else finds it.
- *Verdicts* (`TasksEndAsJudged`, `VerdictsStand`): `JudgedRight` says whose
  answer counts (`AnswersCount`), what each status tells of them
  (`StatusTells`), and that a certificate is of the answers there were (`Certified`).

- *Conditions* (`ConditionIsDecidedOnce`), for any set of node shapes whose conditions
  have two branches of at most the two steps the model's lanes have
  (`ShapesAssumption`), any gated steps, and any number of lost commits and crashes.
  What a run records does not say which branch was taken, because the advance that
  took it may have lost its commit. `BranchInv` says what does: at most one branch has
  anything alive (a committed key, or a task neither missing nor known to have done
  nothing), and the ids recorded, those about to be recorded and the lane running are
  all of it. Each decision reads what is alive before it takes a branch, and cancels
  the other's open challenges in the same step (`TakeBranchKeeps`), so a predicate
  that answers differently the second time decides nothing (`TakenLeavesDead`).

**The server.** In `Server_proofs`, about four of the parts of `MCServer`; a step of
one part leaves the others as they are, so each has an inductive invariant of its own.

- *A home* (`HomeIsHeld`): `HomeShape` says what a process has read at each stage of
  its start. `OneHome` adds that all payloads and serving processes are of one key;
  that a start which found nothing sealed is outrun only by the key it will itself
  arrive at; and that a key held is the environment's, the file's, or the one a lost
  file's payloads are sealed under. It needs `Together`, the constant by which the
  environment variable is changed only while no process runs: processes started under
  different environments use different keys.
- *Callers* (`CallersActAsThemselves`), for one agent beside the operator, over any
  number of sessions: `CallsCovered` says that the calls served since any one of them,
  together with what is left in the bucket, fit in a full bucket and what was refilled
  since then; `RecordsName` that every task and every stored step of an agent's names
  it outermost, whatever names the request declared.
- *Sessions* (`ServingStays`, `CapIsMet`): `SessionsCount` says that ids are apart, that
  a session's `busy` is the number of requests that hold it, and that a request's hold
  is let go exactly once, when the first of its two ends closes. Eviction, which reads only
  `busy`, is safe because of it. `OnePage` says who may decide once a page has paired.
- *The register* (`RevokesStand`): while nothing died inside an update, the lock is of
  the one process inside one (`LockHeld`); the file, any copy of its version and the
  one about to be renamed list only approvals that stand, and tokens of registered
  clients (`CopiesGood`; an older copy is read again before it is used, and a copy a
  failed write left changed is still good); and a client about to be registered is
  known to no copy (`NewcomersAreNew`). The condition is `RegisterSafe`'s own: two
  processes that find the lock of a dead one may both remove it (`oauth.ts:228`).

`CallersStayApart` is the conjunction the run checks. `Keeping`, of `Sublists`, is what
a filter leaves of a sequence, written by places so that lemmas can be stated of it
without an induction (`KeepingKeeps`).

**The ledger.** At the end of `TaskOutcomes_proofs`. `LedgerIsConsistent`: the
abstract specification never contradicts itself. `TasksAreConsistent` carries that
over to the task model by the refinement: what it sends, draws, commits, confirms and
refutes is consistent after every crash, retry and reconcile.

**The adapters.** In `Adapters_proofs`: `AdaptersTypes`, `FailuresTellTheTruth`,
`InputActsWhereChecked`, `CommandsAreSupervised`, `CallsStayInLimits`, all from
`AdaptersInvHolds`. Each adapter has an inductive invariant of its own, for any
number of tasks, addresses, documents, changes, operations and jobs; the names on the
desktop's screens, and the kinds of address a host resolves to, are those of the run.

- *Browser* (`BrowserInv`): a document's id counts the navigations before it, so one
  that was left never comes back. A task has one action: queued, running or answered
  (`OneEach`). `InFlight`: a task has one input on its way at most, handed over in the
  document it was checked on, after all of its that landed, none of them astray; so
  what goes astray is the last the action sends. `Failures` says that an action answered as
  failed has at most one input out, landed or on its way, of a call without a record.
  And `Pinned`: an action with input to send is bound, once past its checks, to a
  document found since, and acts only where the one it found is the one it was bound to.
- *Computer* (`ComputerInv`): only the helper that gives the input sends, and only after
  the target was chosen (`SentAt`), so that stopping any other is a plain failure; the
  element chosen stays the only one of those observed that may be pressed for the name
  asked (`Good`).
- *Terminal* (`TerminalInv`), command by command: a run is in the foreground as long as
  its program or what it left behind is alive, with its timer or a kill it is owed
  (`RunWatched`); a job that is alive has its timer, a kill or the watch that releases
  it, and its id is kept while it can be asked for (`JobWatched`); close waits for what
  it saw alive (`ClosedFor`).
- *HTTP* (`HttpInv`): until its request is made, and for ever after an abort before
  that, a call has written nothing and holds no socket (`Unmade`); the socket's addresses
  are among those pinned at the check, each of which passed, whatever the host is bound
  to later (`PinnedPassed`). What an answer shows of a credential is not part of it
  (section 6).

### Only model-checked

The liveness properties (no prover here handles fairness), and these invariants and
step properties:

- `RunsReadAsTheyRan` and `RunsTypeOK` of `runs`, except the part of the first that
  says a condition happens in one branch: what composite nodes come to, and that a
  history replays to its run, are folds of data, whose proof is an induction.
- `RecordsHold` and the `TypeOK` of `server`: chains are sequences read whole;
  memories; the client's configuration.
- `RulesTypeOK`, `NothingRunsUnasked`, `ChecksAreTrue`, `EffectsStayInside`,
  `BrowserIsKept` and `TighteningNeverLoosens` of `rules`. They are mostly decisions
  over bounded data, where exhaustion says more than a proof would, and the match of
  `Wildcards`, which the others are checked beside, is recursive.

## 6. Not modelled

Components without a model: the SDK, the console's and the command line's rendering
and parsing, redaction and digests, the approval screen, the evaluations, schema
validation; two counters an embedding agent keeps (`retry-guard.ts`,
`verification-gate.ts`), which are sequential. Cryptography is assumed.

Within what is modelled:

- Tasks and workflows: delegation nodes and their evidence; the repair of runs of
  older versions; the contents of requests, results, evidence and policies. A write
  inside an advance does not fail (a failed write is the crash of that advance), and
  the check of a lease's expiry and the taking of it are one instant, although the
  code reads the clock twice (`workflow-controller.ts:326` and `:343`).
- Approvals and grants: digests (the stored operation never changes), the log of
  refused answers, more than one caller; validity and versions of grants, the daily
  window's passing.
- Files: the Windows variants of the file guards, which have neither an open that
  refuses links nor a look at what was opened.
- OAuth: the takeover of a stale lock, which two processes may both do
  (`oauth.ts:228`), is a step of the model, and `RegisterSafe` is stated of
  behaviours in which no process dies inside an update.
- HTTP: the takeover of a socket (`http-server.ts:251-291`); the content of an answer,
  and so the masking of a credential it echoes, which the code does by text and, as it
  says itself (`http-runtime index.ts:97-99`), not for one echoed otherwise transformed.
- Windows: more than 20 reports (`MAX_POPUPS`), and whether a report says "between
  actions".
- A start: with what sandbox its commands run, beyond what it refuses. An enforced
  process serves without one where none works and its policy file says
  `if-available` (`runtime.ts:579-612`).
- Terminal: a start while the runtime closes, the cap on jobs, sandbox profiles.
- Checks of processes, screens and text patterns; the platforms' own scripts.

What the code does not promise, met while modelling and so left out of a property's
statement, each noted at its hazard or in its module: a retried read whose second
attempt fails to be saved draws nothing (`task-controller.ts:2051`, against
`docs/CAPABILITIES.md:761-766`; `ChargedIfReached` is of changes); a crash between
recording a run failed and cancelling its challenges leaves one that can be executed
(`workflow-controller.ts:1427`, against `docs/ARCHITECTURE.md:979-985`); on Linux a
write into a folder swapped for a link between its check and its rename lands where
the link leads (a read there is judged again); a stop of a job that carries a reading
command counts as a read and runs unasked (`policy-core index.ts:788-809`, against
`docs/CAPABILITIES.md:216-222`, "Only a read runs without approval"; the exception
`NothingBeyondItsLimits` names); an operator's window is taken for the running
action's, and closed when popups are blocked, if Chromium names no page as its opener
and it starts at an address, or names a frame (`browser-runtime index.ts:457-465`,
`:936-946`), if it comes while the page a driving action acts on is not known, if its
id cannot be looked up (`:1219-1223`), or if the session that tells of windows could
not be made (`:974-976`), and `OperatorsWindowsStay` is stated of the others; an input
without a record of its dispatch may have reached the page of an action that failed,
and one click or key a document that came in that instant (`FailedCompletedNothing`,
`InputOnCheckedPage`); a window opened by an action that failed is told of by the next
one; an answer that begins before the deadline and
does not end may be reported as sent; comments after the tool's own table in a TOML
file go with it (`cli/src/clients.ts:474`); a connection attached over CDP stays
open (`browser-connection.ts:94`); removing the last grant of a policy lifts the
ceiling of grants altogether, so it is no tightening in `PolicyRules`.
