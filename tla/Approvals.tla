------------------------------ MODULE Approvals ------------------------------
(***************************************************************************)
(* How a task that needs a person's approval is planned, decided, denied,  *)
(* cancelled and started (packages/runtime-core/src/task-controller.ts,    *)
(* evaluatePolicy and validateApproval in packages/policy-core): by        *)
(* processes over one database, in enforced or in developer mode, each     *)
(* under a policy of its own.                                              *)
(*                                                                         *)
(* A handler that does not await is two steps, its reads and its write,    *)
(* between which other processes act but its own does not; execute's start *)
(* write is awaited, so its own process goes on as well.                   *)
(*                                                                         *)
(* All tasks are one caller's. Left out are digests (the stored operation  *)
(* never changes, so they differ only for what was tampered with), the log *)
(* of refused answers, which nothing here reads, and what a started task   *)
(* does, but for a read that recovery makes ready to run again.            *)
(***************************************************************************)
EXTENDS Naturals, FiniteSets

CONSTANTS
  Procs,       \* processes (runtimes) sharing one database
  Enforced,    \* those in enforced mode; the rest are in developer mode
  Denies,      \* the changes each process's policy denies
  Tasks,       \* the tasks one caller may plan
  Changes,     \* those that change something; the rest read an unlisted host
  Ttl,         \* approvalTtl of each process's policy
  Cap,         \* maxPendingApprovals
  MaxTime      \* bound: the clock

ASSUME ApprovalAssumption ==
  /\ IsFiniteSet(Procs) /\ Procs # {} /\ IsFiniteSet(Tasks)
  /\ Enforced \subseteq Procs
  /\ Changes \subseteq Tasks
  /\ Denies \in [Procs -> SUBSET Changes]
  /\ Ttl \in [Procs -> Nat \ {0}]
  /\ Cap \in Nat \ {0}
  /\ MaxTime \in Nat

VARIABLES
  now,       \* the clock
  row,       \* tasks
  decision,  \* approval_decisions: insert-once
  denials,   \* approval_denials: the tasks denied
  turn,      \* the handler each process is inside of, between read and write
  starting   \* per process: the executions whose start write is awaited

vars == <<now, row, decision, denials, turn, starting>>

Status == {"none", "planned", "awaiting_approval", "running",
           "cancelled", "policy_blocked"}
Unstarted == {"planned", "awaiting_approval"}
Channels == {"in_band", "out_of_band"}
Answers == {"none", "phrase"}

Row == [status : Status,
        challenge : {"none", "phrase", "no_phrase"},
        expires : Nat,
        mode : {"none", "developer", "enforced"}]  \* of the process it ran under
NoRow == [status |-> "none", challenge |-> "none", expires |-> 0,
          mode |-> "none"]
Undecided == [made |-> FALSE, at |-> 0, by |-> "nobody", channel |-> "none"]
Decision == {Undecided}
  \union [made : {TRUE}, at : Nat, by : Procs, channel : Channels]
NoTurn == [kind |-> "none"]
Turn == {NoTurn} \union [kind : {"plan", "deny"}, task : Tasks]

Mode(p) == IF p \in Enforced THEN "enforced" ELSE "developer"
ChannelIsMode(p) == Mode(p)  \* variant: the row names the mode
Channel(p) == IF p \in Enforced THEN "out_of_band" ELSE "in_band"

\* evaluatePolicy: a change needs approval or is denied, a read of an
\* unlisted host needs approval in enforced mode only.
Outcome(p, t) ==
  CASE t \in Denies[p] -> "deny"
    [] t \in Changes \ Denies[p] -> "confirm"
    [] t \notin Changes -> IF p \in Enforced THEN "confirm" ELSE "allow"

Init ==
  /\ now = 0
  /\ row = [t \in Tasks |-> NoRow]
  /\ decision = [t \in Tasks |-> Undecided]
  /\ denials = {}
  /\ turn = [p \in Procs |-> NoTurn]
  /\ starting = [p \in Procs |-> {}]

Free(p) == turn[p].kind = "none"
Enter(p, new) == turn' = [turn EXCEPT ![p] = new]
Leave(p) == turn' = [turn EXCEPT ![p] = NoTurn]

\* A handler that does not await takes no time to speak of.
Tick ==
  /\ now < MaxTime
  /\ \A p \in Procs : Free(p)
  /\ now' = now + 1
  /\ UNCHANGED <<row, decision, denials, turn, starting>>

Expired(t) == row[t].expires <= now

\* usable: made before the challenge expired, and used within a TTL of that.
Usable(p, t) ==
  /\ decision[t].made
  /\ decision[t].at <= row[t].expires
  /\ now < decision[t].at + Ttl[p]
\* approvalDecision: to an enforced process an in-band row is no decision.
Decided(p, t) ==
  Usable(p, t) /\ (p \in Enforced => decision[t].channel = "out_of_band")

-----------------------------------------------------------------------------
(* plan.                                                                   *)

\* pendingApprovals, as one process counts them.
Open(p) ==
  {t \in Tasks : row[t].status = "awaiting_approval" /\ ~Expired(t)
                 /\ ~Decided(p, t)}
HasRoom(p) == Cardinality(Open(p)) < Cap

\* The policy is evaluated and, for a challenge, the caller's open ones counted.
Plan(p, t) ==
  /\ Free(p)
  /\ row[t].status = "none"
  /\ \A q \in Procs : turn[q].kind = "plan" => turn[q].task # t
  /\ Outcome(p, t) = "confirm" => HasRoom(p)
  /\ Enter(p, [kind |-> "plan", task |-> t])
  /\ UNCHANGED <<now, row, decision, denials, starting>>

PlannedRow(p, t) ==
  CASE Outcome(p, t) = "deny"  -> [NoRow EXCEPT !.status = "policy_blocked"]
    [] Outcome(p, t) = "allow" -> [NoRow EXCEPT !.status = "planned"]
    [] Outcome(p, t) = "confirm" ->
         [NoRow EXCEPT !.status = "awaiting_approval",
                       !.challenge = IF p \in Enforced THEN "no_phrase"
                                                       ELSE "phrase",
                       !.expires = now + Ttl[p]]
PlanWrite(p) ==
  /\ turn[p].kind = "plan"
  /\ row' = [row EXCEPT ![turn[p].task] = PlannedRow(p, turn[p].task)]
  /\ Leave(p)
  /\ UNCHANGED <<now, decision, denials, starting>>

-----------------------------------------------------------------------------
(* decide, deny, cancel.                                                   *)

\* decide: refused in developer mode for a challenge without a phrase, and once
\* the challenge has expired.
MayDecideAny(p, t) == ~Expired(t)  \* variant: phraseless ones are decided too
MayDecide(p, t) ==
  /\ p \in Enforced \/ row[t].challenge = "phrase"
  /\ ~Expired(t)
\* recordApprovalDecision: INSERT OR IGNORE, never a second answer. One step:
\* recorded a moment after the task stopped waiting, it stands as one recorded a
\* moment before.
Decide(p, t) ==
  /\ Free(p)
  /\ row[t].status = "awaiting_approval"
  /\ MayDecide(p, t)
  /\ ~decision[t].made
  /\ decision' = [decision EXCEPT ![t] =
                    [made |-> TRUE, at |-> now, by |-> p, channel |-> Channel(p)]]
  /\ UNCHANGED <<now, row, denials, turn, starting>>

\* saveTaskIf: the status is compared in the write itself.
IsUnstarted(t) == row[t].status \in Unstarted

Deny(p, t) ==
  /\ Free(p)
  /\ row[t].status = "awaiting_approval"
  /\ Enter(p, [kind |-> "deny", task |-> t])
  /\ UNCHANGED <<now, row, decision, denials, starting>>

\* deny's transaction: the cancel and the denial, or neither.
DenyWrite(p) ==
  /\ turn[p].kind = "deny"
  /\ LET t == turn[p].task IN
     IF IsUnstarted(t)
     THEN /\ row' = [row EXCEPT ![t].status = "cancelled"]
          /\ denials' = denials \union {t}
     ELSE UNCHANGED <<row, denials>>
  /\ Leave(p)
  /\ UNCHANGED <<now, decision, starting>>

\* cancel, which reads and then compares in its write: one step.
Cancel(p, t) ==
  /\ Free(p)
  /\ IsUnstarted(t)
  /\ row' = [row EXCEPT ![t].status = "cancelled"]
  /\ UNCHANGED <<now, decision, denials, turn, starting>>

-----------------------------------------------------------------------------
(* execute, with the answer the caller sends beside it, if any.            *)

\* Whether this process takes the task as approved: a decision on record wins
\* over what was sent.
AcceptsAnyRow(p, t, answer) ==  \* variant: an enforced kernel takes any row
  IF decision[t].made THEN Usable(p, t)
  ELSE p \notin Enforced /\ answer = "phrase" /\ row[t].challenge = "phrase"
       /\ ~Expired(t)
Accepts(p, t, answer) ==
  IF p \in Enforced
  THEN answer = "none" /\ Decided(p, t)
  ELSE IF decision[t].made THEN Usable(p, t)
  ELSE answer = "phrase" /\ row[t].challenge = "phrase" /\ ~Expired(t)

Executes(p, t) ==
  /\ Free(p)
  /\ t \notin starting[p]
  /\ row[t].status \in Unstarted

\* The policy now denies it: written by compare-and-set.
Block(p, t) ==
  /\ Executes(p, t)
  /\ Outcome(p, t) = "deny"
  /\ row' = [row EXCEPT ![t].status = "policy_blocked"]
  /\ UNCHANGED <<now, decision, denials, turn, starting>>

\* It may run: no approval is needed, or one is there.
Execute(p, t, answer) ==
  /\ Executes(p, t)
  /\ \/ Outcome(p, t) = "allow"
     \/ /\ Outcome(p, t) = "confirm"
        /\ row[t].challenge # "none"
        /\ Accepts(p, t, answer)
  /\ starting' = [starting EXCEPT ![p] = @ \union {t}]
  /\ UNCHANGED <<now, row, decision, denials, turn>>

\* Its start write, awaited: a compare-and-set.
Start(p, t) ==
  /\ Free(p)
  /\ t \in starting[p]
  /\ row' = IF IsUnstarted(t)
            THEN [row EXCEPT ![t] = [@ EXCEPT !.status = "running", !.mode = Mode(p)]]
            ELSE row
  /\ starting' = [starting EXCEPT ![p] = @ \ {t}]
  /\ UNCHANGED <<now, decision, denials, turn>>

\* recoverInterrupted: a read that was cut off is ready to run again.
Interrupt(t) ==
  /\ row[t].status = "running" /\ t \notin Changes
  /\ row' = [row EXCEPT ![t].status = "planned"]
  /\ UNCHANGED <<now, decision, denials, turn, starting>>

-----------------------------------------------------------------------------
Next ==
  \/ Tick
  \/ \E t \in Tasks : Interrupt(t)
  \/ \E p \in Procs :
       \/ PlanWrite(p) \/ DenyWrite(p)
       \/ \E t \in Tasks :
            \/ Plan(p, t) \/ Decide(p, t) \/ Deny(p, t) \/ Cancel(p, t)
            \/ Block(p, t) \/ Start(p, t)
            \/ \E answer \in Answers : Execute(p, t, answer)

Spec == Init /\ [][Next]_vars

-----------------------------------------------------------------------------
(* Properties.                                                             *)

\* Every variable keeps its type.
TypeOK ==
  /\ now \in Nat
  /\ row \in [Tasks -> Row]
  /\ decision \in [Tasks -> Decision]
  /\ denials \subseteq Tasks
  /\ turn \in [Procs -> Turn]
  /\ starting \in [Procs -> SUBSET Tasks]

\* A person's no is final: "the denial lands with the cancel or not at all"
\* (deny), so a denied task never runs, whoever was starting it meanwhile.
DeniedNeverRuns == \A t \in Tasks : t \in denials => row[t].status = "cancelled"

\* "Only an operator's out-of-band decision lets the effect run" (execute) in
\* enforced mode: what such a process ran was approved through one, in time.
EnforcedRunsOnOperator ==
  \A t \in Tasks :
    row[t].status = "running" /\ row[t].mode = "enforced" =>
      /\ row[t].challenge # "none"
      /\ decision[t].made /\ decision[t].by \in Enforced
      /\ decision[t].at <= row[t].expires

\* What runs was approved, and nothing a person refused does.
RunsAreApproved == DeniedNeverRuns /\ EnforcedRunsOnOperator

\* A challenge only an enforced process can accept an answer to is never
\* answered in band: the insert-once row would keep anyone from correcting it.
NeverStranded ==
  \A t \in Tasks :
    row[t].challenge = "no_phrase" /\ decision[t].made =>
      decision[t].channel = "out_of_band"

\* "Two servers over one database can each pass at the cap at once, one over
\* apiece" (assertChallengeRoom): never more. What some process holds to be
\* decided is not open.
OpenToAll == {t \in Tasks : \A p \in Procs : t \in Open(p)}
ChallengesBounded ==
  Cardinality(OpenToAll) <= Cap + Cardinality(Procs) - 1

\* Challenges stay answerable, and few.
ChallengesStayOpenAndFew == NeverStranded /\ ChallengesBounded
=============================================================================
