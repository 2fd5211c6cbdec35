----------------------------- MODULE Judgements -----------------------------
(***************************************************************************)
(* The semantic questions of packages/runtime-core/src/task-controller.ts: *)
(* a task whose every other check held waits for answers from outside,     *)
(* `judge` records each once, and what is not answered in time settles     *)
(* closed. One task, in a home several processes share, each enforced or   *)
(* not; a process may die between two steps and come back.                 *)
(*                                                                         *)
(* A transaction is one step. An identity is the principal declared and    *)
(* the links it declares it acts for; what the kernel's own checks and the *)
(* writes answer is a choice.                                              *)
(***************************************************************************)
EXTENDS Naturals, FiniteSets

CONSTANTS
  Procs, EnforcedProcs,  \* processes sharing the home; those in enforced mode
  Questions,             \* the task's semantic predicates
  Actor, Parent, Person, Other,  \* who ran it, an agent and a human it acts for, another agent
  NoOwner,
  MaxCrashes,            \* bound: processes that die
  MaxReturns             \* bound: times the clock is set back past the expiry

JudgementsAssumption ==
  /\ EnforcedProcs \subseteq Procs /\ NoOwner \notin Procs
  /\ Cardinality({Actor, Parent, Person, Other}) = 4
  /\ "operator" \notin {Actor, Parent, Person, Other}

VARIABLES
  task,        \* the stored row
  judged,      \* per question: its answer, or Open
  committed,   \* the key is committed to this task
  certificate, \* the stored certificate: its result and each question's item
  owner,       \* the process running or recovering it
  listed,      \* processes whose sweep listed it expired and has not settled it
  alive, late, crashes, returns

judgeVars == <<task, judged, committed, certificate, owner, listed, alive, late, crashes, returns>>

Verdicts == {"yes", "no", "cannot_tell"}
Open == [verdict |-> "none", by |-> "none", channel |-> "none"]
Settled == {"verified_success", "partial", "recovery_required"}
Results == [verified_success |-> "VERIFIED_SUCCESS", partial |-> "PARTIAL", waiting_user |-> "WAITING_USER",
            recovery_required |-> "RECOVERY_REQUIRED"]
NoCertificate == [result |-> "none", items |-> [q \in Questions |-> "none"]]

\* A judge: what it declares, or the operator's command line.
Judges == [principal : {Actor, Parent, Person, Other}, links : SUBSET {Actor, Parent}]
Operator == [principal |-> "operator", links |-> {}]

Init ==
  /\ \E effect \in {"read", "change"}, keyed, enforced \in BOOLEAN, p \in Procs :
       /\ enforced <=> p \in EnforcedProcs
       /\ task = [status |-> "verifying", error |-> "none", effect |-> effect, keyed |-> keyed,
                  enforced |-> enforced]
       /\ owner = p
  /\ judged = [q \in Questions |-> Open]
  /\ committed = FALSE /\ certificate = NoCertificate
  /\ listed = {} /\ alive = Procs /\ late = FALSE /\ crashes = 0 /\ returns = 0

-----------------------------------------------------------------------------
(* What is written when a task settles *)

\* overlay: an open question says why it is open.
Overlay(answers, unanswered) ==
  [q \in Questions |-> IF answers[q] = Open THEN unanswered ELSE answers[q].verdict]

SettleSemantic(answers, status, error, unanswered) ==
  /\ task' = [task EXCEPT !.status = status, !.error = error]
  /\ certificate' = [result |-> Results[status], items |-> Overlay(answers, unanswered)]

Closed == IF task.effect = "read" THEN "partial" ELSE "recovery_required"
SettleUnanswered == SettleSemantic(judged, Closed, "expired", "expired")

-----------------------------------------------------------------------------
(* execute: the outcome, and what recovery makes of one cut off *)

Quiet == UNCHANGED <<judged, listed, alive, late, crashes, returns>>
Runs(p) == p \in alive /\ owner = p /\ task.status = "verifying"

\* The checks held: the key, the row and its certificate in one transaction.
Waits(p) ==
  /\ Runs(p)
  /\ task' = [task EXCEPT !.status = "waiting_user"]
  /\ certificate' = [result |-> "WAITING_USER", items |-> Overlay(judged, "unanswered")]
  /\ committed' = task.keyed /\ owner' = NoOwner
  /\ late' = FALSE /\ UNCHANGED <<judged, listed, alive, crashes, returns>>

\* That transaction failed: the key is committed on its own, and a change parks.
OutcomeLost(p) ==
  /\ Runs(p) /\ task.effect = "change"
  /\ task' = [task EXCEPT !.status = "recovery_required", !.error = "interrupted"]
  /\ certificate' = [result |-> "RECOVERY_REQUIRED", items |-> NoCertificate.items]
  /\ committed' = task.keyed /\ owner' = NoOwner /\ Quiet

Claim(p) ==
  /\ p \in alive /\ task.status = "verifying" /\ owner \notin alive
  /\ owner' = p /\ UNCHANGED <<task, committed, certificate>> /\ Quiet

\* recoverTask: observed again, the effect is done, its questions unanswered.
RecoverObserved(p) ==
  /\ Runs(p) /\ task.effect = "change"
  /\ committed' = task.keyed /\ owner' = NoOwner
  /\ SettleUnanswered /\ Quiet

\* settleCommitted: a key's commit never says a question was answered, and a
\* task that settled closed already, or on a verdict, stays as it stands.
StandsSettled == task.error \in {"expired", "cannot_tell"}
Committed == IF StandsSettled THEN UNCHANGED <<task, certificate>> ELSE SettleUnanswered

RecoverCommitted(p) ==
  /\ Runs(p) /\ committed
  /\ Committed /\ owner' = NoOwner /\ UNCHANGED committed /\ Quiet

\* Cut off with nothing to go by: a read runs again, a change parks.
RecoverParked(p) ==
  /\ Runs(p) /\ ~committed
  /\ \/ /\ task.effect = "read" /\ UNCHANGED <<task, certificate>>
        /\ owner' = p
     \/ /\ task.effect = "change" /\ owner' = NoOwner
        /\ task' = [task EXCEPT !.status = "recovery_required", !.error = "interrupted"]
        /\ UNCHANGED certificate
  /\ UNCHANGED committed /\ Quiet

\* reconcile: no provider answers a question about meaning.
Reconcile(p) ==
  /\ p \in alive /\ task.status = "recovery_required" /\ committed
  /\ Committed /\ UNCHANGED <<committed, owner>> /\ Quiet

-----------------------------------------------------------------------------
(* judge *)

JudgesItself(judge) ==
  \/ judge.principal = Actor
  \/ judge.principal = Parent        \* a human link may judge what it asked for
  \/ Actor \in judge.links

OutOfBand(p, judge) == judge = Operator /\ p \in EnforcedProcs
\* judge, in the order it refuses
Accepted(p, q, judge) ==
  /\ task.status = "waiting_user" /\ judged[q] = Open /\ ~late
  /\ OutOfBand(p, judge) \/ (p \notin EnforcedProcs /\ ~task.enforced)
  /\ judge = Operator \/ ~JudgesItself(judge)

Outcome(verdict) ==
  IF verdict = "yes" THEN "verified_success"
  ELSE IF verdict = "cannot_tell" /\ task.effect = "change" THEN "recovery_required"
  ELSE "partial"
\* variant: the first yes answers for all
LeavesNoneOpen(answers) == FALSE
LeavesOpen(answers) == \E q \in Questions : answers[q] = Open

Judge(p, q, verdict, judge) ==
  /\ p \in alive /\ Accepted(p, q, judge)
  /\ judged' = [judged EXCEPT ![q] =
       [verdict |-> verdict, by |-> judge,
        channel |-> IF OutOfBand(p, judge) /\ task.enforced THEN "out_of_band" ELSE "in_band"]]
  /\ IF verdict = "yes" /\ LeavesOpen(judged')
     THEN UNCHANGED <<task, certificate>>
     ELSE SettleSemantic(judged', Outcome(verdict), IF verdict = "yes" THEN "none" ELSE verdict, "unanswered")
  /\ UNCHANGED <<committed, owner, listed, alive, late, crashes, returns>>

-----------------------------------------------------------------------------
(* expireJudgements: listed, then settled each in a transaction of its own *)

List(p) ==
  /\ p \in alive /\ p \notin listed /\ task.status = "waiting_user" /\ late
  /\ listed' = listed \cup {p}
  /\ UNCHANGED <<task, judged, committed, certificate, owner, alive, late, crashes, returns>>

StillWaits == task.status = "waiting_user"
Expire(p) ==
  /\ p \in alive /\ p \in listed
  /\ listed' = listed \ {p}
  /\ IF StillWaits THEN SettleUnanswered ELSE UNCHANGED <<task, certificate>>
  /\ UNCHANGED <<judged, committed, owner, alive, late, crashes, returns>>

-----------------------------------------------------------------------------
(* Time and processes *)

Late ==
  /\ ~late /\ late' = TRUE
  /\ UNCHANGED <<task, judged, committed, certificate, owner, listed, alive, crashes, returns>>
SetBack ==
  /\ late /\ returns < MaxReturns /\ late' = FALSE /\ returns' = returns + 1
  /\ UNCHANGED <<task, judged, committed, certificate, owner, listed, alive, crashes>>
Crash(p) ==
  /\ p \in alive /\ crashes < MaxCrashes /\ crashes' = crashes + 1
  /\ alive' = alive \ {p} /\ listed' = listed \ {p}
  /\ UNCHANGED <<task, judged, committed, certificate, owner, late, returns>>
Restart(p) ==
  /\ p \notin alive /\ alive' = alive \cup {p} /\ owner' = IF owner = p THEN NoOwner ELSE owner
  /\ UNCHANGED <<task, judged, committed, certificate, listed, late, crashes, returns>>

Next ==
  \/ \E p \in Procs :
       \/ Waits(p) \/ OutcomeLost(p) \/ Claim(p) \/ RecoverObserved(p) \/ RecoverCommitted(p)
       \/ RecoverParked(p) \/ Reconcile(p) \/ List(p) \/ Expire(p) \/ Crash(p) \/ Restart(p)
       \/ \E q \in Questions, v \in Verdicts, j \in Judges \cup {Operator} : Judge(p, q, v, j)
  \/ Late \/ SetBack

\* The clock goes on, a process comes back, and its 30 s sweep runs its passes.
Fairness ==
  /\ WF_judgeVars(Late)
  /\ \A p \in Procs : WF_judgeVars(List(p)) /\ WF_judgeVars(Expire(p)) /\ WF_judgeVars(Restart(p))

Spec == Init /\ [][Next]_judgeVars /\ Fairness

-----------------------------------------------------------------------------
(* Properties *)

\* The stored records are of the shapes the code writes.
TypeOK ==
  /\ task.status \in Settled \cup {"verifying", "waiting_user"}
  /\ task.error \in {"none", "interrupted", "expired", "no", "cannot_tell"}
  /\ certificate.result \in {"none"} \cup {Results[s] : s \in DOMAIN Results}
  /\ owner \in Procs \cup {NoOwner} /\ listed \subseteq alive /\ alive \subseteq Procs

\* A task is verified only when each of its questions was answered yes, and
\* none by who ran it, by an agent it ran for or by one it started.
YesToEveryQuestion ==
  task.status = "verified_success" =>
    \A q \in Questions : /\ judged[q].verdict = "yes"
                         /\ judged[q].by.principal \notin {Actor, Parent} /\ Actor \notin judged[q].by.links

\* Every answer a task run in enforced mode counts is an operator's, out of
\* band, whichever process of the home it was sent to.
EnforcedAnswersAreOperators ==
  task.enforced => \A q \in Questions : judged[q] # Open => judged[q].channel = "out_of_band"

\* A certificate says what its task came to and how each question was
\* answered, once it is settled on its questions.
CertifiedAsAnswered ==
  task.error \in {"expired", "no", "cannot_tell"} \/ task.status = "verified_success" =>
    /\ certificate.result = Results[task.status]
    /\ \A q \in Questions : judged[q] # Open => certificate.items[q] = judged[q].verdict

\* A change that ran and was never answered is not called undone or partly done.
UnansweredIsUnknown ==
  task.effect = "change" /\ task.error \in {"expired", "cannot_tell"} => task.status = "recovery_required"

\* An answer given stands, and so does the outcome it settled: neither the
\* sweep, a recovery nor a reconcile that comes later writes over it.
AnswersStand ==
  [][ /\ \A q \in Questions : judged[q] # Open => judged'[q] = judged[q]
      /\ task.error \in {"expired", "no", "cannot_tell"} \/ task.status = "verified_success" =>
           UNCHANGED <<task, certificate>> ]_judgeVars

\* No task waits on its questions for ever.
WaitingEnds == task.status = "waiting_user" ~> task.status # "waiting_user"
=============================================================================
