--------------------------- MODULE TaskController ---------------------------
(***************************************************************************)
(* The life of a task in packages/runtime-core/src/task-controller.ts: it  *)
(* is started by one process, its adapter is called, what the adapter did  *)
(* is verified and committed, and a task whose outcome is not known is     *)
(* recovered or reconciled, by that process or by another one sharing the  *)
(* database.                                                               *)
(*                                                                         *)
(* One step of the model is one SQLite write transaction of one process,   *)
(* with the computation up to the next `await`; processes interleave       *)
(* between them, any of them may crash between two, and a write may fail.  *)
(*                                                                         *)
(* Tasks with a semantic predicate and the approval exchange are not here: *)
(* planned and awaiting_approval are one status, "planned".                *)
(***************************************************************************)
EXTENDS Naturals, FiniteSets

CONSTANTS
  Procs,         \* processes (runtimes) sharing one database
  Tasks,         \* the tasks planned in it
  Keys, NoKey,   \* idempotency keys, and "this task has none"
  KeyOf,         \* the key each task was planned under
  Mutations,     \* tasks whose operation changes something; the rest are reads
  Observable,    \* mutations whose evidence is file predicates only
  Reconcilable,  \* mutations that declared `reconciliation` predicates
  NoTask,        \* "no task committed this key"
  Nobody, Gone,  \* a row's owner: none, or the id of a process that is gone
  MaxRetries,    \* budget.maxRetries: further attempts of a read
  MaxCrashes,    \* bound: process crashes in a behaviour
  MaxFaults      \* bound: writes (and verifications) that fail in a behaviour

ASSUME TaskAssumption ==
  /\ Mutations \subseteq Tasks
  /\ Observable \subseteq Mutations
  /\ Reconcilable \subseteq Mutations
  /\ NoKey \notin Keys
  /\ KeyOf \in [Tasks -> Keys \union {NoKey}]
  /\ NoTask \notin Tasks
  /\ Nobody \notin Procs /\ Gone \notin Procs /\ Nobody # Gone
  /\ MaxRetries \in Nat /\ MaxCrashes \in Nat /\ MaxFaults \in Nat

VARIABLES
  row,       \* tasks: the stored row of each task
  commit,    \* idempotency_commits: the task each key is committed to
  drawn,     \* capability_uses: tasks whose grant has been drawn
  receipts,  \* receipts: the kinds of receipt stored for each task
  cert,      \* certificates: the result each task's certificate names
  result,    \* task_results: what the adapter reported, once it is saved
  job,       \* what each process is doing with each task (in memory)
  effect,    \* the world: what became of the last call of the adapter
  reached,   \* history: tasks one of whose calls took effect
  sends,     \* history: how often the adapter was called for each task
  window,    \* parked tasks whose settle window is still open
  crashes, faults

stored == <<row, commit, drawn, receipts, cert, result>>
world  == <<effect, reached, sends, window>>
vars   == <<stored, job, world, crashes, faults>>

Status == {"planned", "running", "verifying", "verified_success", "partial",
           "failed", "cancelled", "budget_exhausted", "policy_blocked",
           "recovery_required"}
Interrupted == {"running", "verifying"}
Settled == Status \ (Interrupted \union {"planned", "recovery_required"})
Errors == {"none", "execution", "duplicate", "interrupted", "settling",
           "unanswered", "not_applied"}
Receipts == {"success", "error", "not_applied"}

Row == [status : Status, owner : Procs \union {Nobody, Gone}, error : Errors]

\* The stages of a job. "starting" and "asking" hold nothing: the rest is what
\* `store.inFlight` records.
CatchStages == {"catch_commit", "catch_draw", "catch_receipt", "catch_save",
                "catch_certify"}
RecoverStages == {"recovering", "recover_save", "recover_ask"}
Running == {"attempting", "calling", "returned", "verifying", "deciding"}
InFlight == Running \union CatchStages \union RecoverStages
Stages == InFlight \union {"idle", "starting", "asking"}

Job == [pc    : Stages,
        tries : 0..(MaxRetries + 1),    \* attempts made by this execution
        ran   : BOOLEAN,                \* the adapter may have done the work
        note  : {"none", "success", "failure", "verified", "partial",
                 "yes", "no", "no_yet", "unclear"},
        abort : {"none", "cancelled", "budget_exhausted"}]
Idle == [pc |-> "idle", tries |-> 0, ran |-> FALSE, note |-> "none",
         abort |-> "none"]

At(p, t, stage) == job[p][t].pc = stage
Become(p, t, new) == job' = [job EXCEPT ![p][t] = new]
GoTo(p, t, stage) == Become(p, t, [job[p][t] EXCEPT !.pc = stage])
Finish(p, t) == Become(p, t, Idle)

Save(t, status, error) ==
  row' = [row EXCEPT ![t] = [@ EXCEPT !.status = status, !.error = error]]
AddReceipt(t, kind) ==
  receipts' = [receipts EXCEPT ![t] = @ \union {kind}]
Certify(t, status) == cert' = [cert EXCEPT ![t] = status]
Fault == faults < MaxFaults /\ faults' = faults + 1

AttemptsOffByOne(t) == MaxRetries + 2  \* variant: `<=` for `<`, effect ignored
Attempts(t) == IF t \in Mutations THEN 1 ELSE MaxRetries + 1
Committed(t) == KeyOf[t] # NoKey /\ commit[KeyOf[t]] # NoTask
CommittedTo(t) == KeyOf[t] # NoKey /\ commit[KeyOf[t]] = t
\* commitIdempotency: INSERT OR IGNORE.
CommitKey(t) ==
  commit' = IF KeyOf[t] = NoKey \/ Committed(t)
            THEN commit ELSE [commit EXCEPT ![KeyOf[t]] = t]

Init ==
  /\ row = [t \in Tasks |-> [status |-> "planned", owner |-> Nobody,
                             error |-> "none"]]
  /\ commit = [k \in Keys |-> NoTask]
  /\ drawn = {}
  /\ receipts = [t \in Tasks |-> {}]
  /\ cert = [t \in Tasks |-> "none"]
  /\ result = [t \in Tasks |-> "none"]
  /\ job = [p \in Procs |-> [t \in Tasks |-> Idle]]
  /\ effect = [t \in Tasks |-> "none"]
  /\ reached = {} /\ window = {}
  /\ sends = [t \in Tasks |-> 0]
  /\ crashes = 0 /\ faults = 0

-----------------------------------------------------------------------------
(* Before the effect.                                                      *)

\* execute, up to the write that starts the task: every check passed.
StartCheck(p, t) ==
  /\ At(p, t, "idle")
  /\ row[t].status = "planned"
  /\ ~Committed(t)
  /\ GoTo(p, t, "starting")
  /\ UNCHANGED <<stored, world, crashes, faults>>

\* leaveUnstarted: the stored row is still one a task may leave by starting.
Unstarted(t) == row[t].status = "planned"

\* execute's start write: a compare-and-set on the status.
StartWrite(p, t) ==
  /\ At(p, t, "starting")
  /\ IF Unstarted(t)
     THEN /\ row' = [row EXCEPT ![t] = [@ EXCEPT !.status = "running",
                                                 !.owner = p]]
          /\ GoTo(p, t, "attempting")
     ELSE /\ Finish(p, t)
          /\ UNCHANGED row
  /\ UNCHANGED <<commit, drawn, receipts, cert, result, world, crashes, faults>>

\* A task that leaves "planned" without running, each by compare-and-set:
\* a key already committed, a policy that now denies it, or a cancel or a
\* deny. The certificate of the first two is a write of its own, which a crash
\* or a failure may leave undone.
Leave(t, status, error, certs) ==
  /\ Unstarted(t)
  /\ Save(t, status, error)
  /\ \E c \in certs : Certify(t, c)
  /\ UNCHANGED <<commit, drawn, receipts, result, job, world, crashes, faults>>

PreventDuplicate(t) ==
  Committed(t) /\ Leave(t, "cancelled", "duplicate", {cert[t], "cancelled"})
Block(t) ==
  Leave(t, "policy_blocked", row[t].error, {cert[t], "policy_blocked"})
Withdraw(t) == Leave(t, "cancelled", row[t].error, {cert[t]})

\* cancel on a running task, or its budget running out: only a signal.
Abort(p, t, why) ==
  /\ job[p][t].pc \in Running \union {"catch_commit"}
  /\ job[p][t].abort # "budget_exhausted"
  /\ why = "cancelled" => job[p][t].abort = "none"
  /\ Become(p, t, [job[p][t] EXCEPT !.abort = why])
  /\ UNCHANGED <<stored, world, crashes, faults>>

-----------------------------------------------------------------------------
(* The effect.                                                             *)

\* To the catch of execute, past the commit of a key: an effect that may have
\* run is paid for first.
CaughtUnpaid(p, t, ran) ==  \* variant: the failure is recorded, the draw is not
  Become(p, t, [job[p][t] EXCEPT !.ran = ran, !.pc = "catch_receipt"])
Caught(p, t, ran) ==
  Become(p, t, [job[p][t] EXCEPT
                  !.ran = ran,
                  !.pc = IF ran THEN "catch_draw" ELSE "catch_receipt"])

\* breaker.check refuses the target before the first attempt.
BreakerRefuses(p, t) ==
  /\ At(p, t, "attempting") /\ job[p][t].tries = 0
  /\ Caught(p, t, FALSE)
  /\ UNCHANGED <<stored, world, crashes, faults>>

\* executeWithRetries: the attempt's own save, then, unless it was aborted
\* meanwhile, the call of the adapter.
Attempt(p, t) ==
  /\ At(p, t, "attempting")
  /\ IF job[p][t].abort # "none"
     THEN /\ Caught(p, t, job[p][t].ran)
          /\ UNCHANGED <<effect, sends>>
     ELSE /\ Become(p, t, [job[p][t] EXCEPT !.pc = "calling", !.tries = @ + 1])
          /\ effect' = [effect EXCEPT ![t] = "sent"]
          /\ sends' = [sends EXCEPT ![t] = @ + 1]
  /\ UNCHANGED <<stored, reached, window, crashes, faults>>

\* The attempt's save fails. The error thrown is the write's, so an earlier
\* attempt's unknown outcome is forgotten.
AttemptFails(p, t) ==
  /\ At(p, t, "attempting")
  /\ Fault
  /\ Caught(p, t, FALSE)
  /\ UNCHANGED <<stored, world, crashes>>

\* The far end, at any time after the call was made: it acts or never will,
\* and what it did shows in its own reads, perhaps later.
EffectLands(t) ==
  /\ effect[t] = "sent"
  /\ effect' = [effect EXCEPT ![t] = "landed"]
  /\ reached' = reached \union {t}
  /\ UNCHANGED <<stored, job, sends, window, crashes, faults>>
EffectLost(t) ==
  /\ effect[t] = "sent"
  /\ effect' = [effect EXCEPT ![t] = "lost"]
  /\ UNCHANGED <<stored, job, reached, sends, window, crashes, faults>>
EffectShows(t) ==
  /\ effect[t] = "landed"
  /\ effect' = [effect EXCEPT ![t] = "visible"]
  /\ UNCHANGED <<stored, job, reached, sends, window, crashes, faults>>

\* The adapter returns: with success only for an effect that landed.
Returns(p, t, how) ==
  /\ At(p, t, "calling")
  /\ effect[t] \in IF how = "success" THEN {"landed", "visible"}
                                      ELSE {"landed", "visible", "lost"}
  /\ Become(p, t, [job[p][t] EXCEPT !.pc = "returned", !.ran = TRUE,
                                    !.note = how])
  /\ UNCHANGED <<stored, world, crashes, faults>>

\* The adapter throws: an outcome-unknown error, or one that says nothing went
\* out. A read with attempts left is tried again.
Throws(p, t, unknown) ==
  /\ At(p, t, "calling")
  /\ ~unknown => effect[t] = "lost"
  /\ LET ran == job[p][t].ran \/ unknown IN
     IF job[p][t].tries < Attempts(t) /\ job[p][t].abort = "none"
     THEN Become(p, t, [job[p][t] EXCEPT !.pc = "attempting", !.ran = ran])
     ELSE Caught(p, t, ran)
  /\ UNCHANGED <<stored, world, crashes, faults>>

\* saveTaskExecutionResult, committed ahead of verification.
SaveResult(p, t) ==
  /\ At(p, t, "returned")
  /\ row' = [row EXCEPT ![t] = [@ EXCEPT !.status = "verifying"]]
  /\ result' = [result EXCEPT ![t] = job[p][t].note]
  /\ GoTo(p, t, "verifying")
  /\ UNCHANGED <<commit, drawn, receipts, cert, world, crashes, faults>>

\* The caller's evidence and the kernel's checks decide.
Verify(p, t, verdict) ==
  /\ At(p, t, "verifying")
  /\ verdict \in IF job[p][t].note = "success" THEN {"verified", "partial"}
                                               ELSE {"failure"}
  /\ Become(p, t, [job[p][t] EXCEPT !.pc = "deciding", !.note = verdict])
  /\ UNCHANGED <<stored, world, crashes, faults>>

\* Saving the result, or verifying, throws.
ReturnedFails(p, t) ==
  /\ job[p][t].pc \in {"returned", "verifying"}
  /\ Fault
  /\ Caught(p, t, TRUE)
  /\ UNCHANGED <<stored, world, crashes>>

\* The final write: key, draw, receipt, task and certificate at once.
Conclude(p, t) ==
  LET verdict == job[p][t].note
      lost == verdict = "verified" /\ Committed(t)
      status == CASE lost -> "cancelled"
                  [] verdict = "verified" /\ ~lost -> "verified_success"
                  [] verdict = "partial" -> "partial"
                  [] verdict = "failure" -> "failed"
  IN /\ At(p, t, "deciding")
     /\ IF verdict = "verified" THEN CommitKey(t) ELSE UNCHANGED commit
     /\ drawn' = drawn \union {t}
     /\ AddReceipt(t, IF verdict = "failure" THEN "error" ELSE "success")
     /\ Save(t, status, IF lost THEN "duplicate" ELSE row[t].error)
     \* A first certificate; failing alone it is left out.
     /\ \E c \in {cert[t], status} :
          /\ cert[t] # "none" => c = cert[t]
          /\ Certify(t, c)
     /\ Finish(p, t)
     /\ UNCHANGED <<result, world, crashes, faults>>

ConcludeFails(p, t) ==
  /\ At(p, t, "deciding")
  /\ Fault
  /\ IF job[p][t].note = "verified" /\ KeyOf[t] # NoKey
     THEN GoTo(p, t, "catch_commit")
     ELSE Caught(p, t, TRUE)
  /\ UNCHANGED <<stored, world, crashes>>

-----------------------------------------------------------------------------
(* The catch of execute: each write on its own.                            *)

CatchStatusKnown(p, t) ==  \* variant: an unknown outcome is called a failure
  IF job[p][t].abort # "none" THEN job[p][t].abort ELSE "failed"
CatchStatus(p, t) ==
  IF t \in Mutations /\ job[p][t].ran THEN "recovery_required"
  ELSE IF job[p][t].abort # "none" THEN job[p][t].abort ELSE "failed"

CatchCommit(p, t) ==
  /\ At(p, t, "catch_commit")
  /\ CommitKey(t)
  /\ GoTo(p, t, "catch_draw")
  /\ UNCHANGED <<row, drawn, receipts, cert, result, world, crashes, faults>>

CatchDraw(p, t) ==
  /\ At(p, t, "catch_draw")
  /\ drawn' = drawn \union {t}
  /\ GoTo(p, t, "catch_receipt")
  /\ UNCHANGED <<row, commit, receipts, cert, result, world, crashes, faults>>

CatchReceipt(p, t) ==
  /\ At(p, t, "catch_receipt")
  /\ AddReceipt(t, "error")
  /\ GoTo(p, t, "catch_save")
  /\ UNCHANGED <<row, commit, drawn, cert, result, world, crashes, faults>>

CatchSave(p, t) ==
  /\ At(p, t, "catch_save")
  /\ Save(t, CatchStatus(p, t), "execution")
  /\ window' = IF CatchStatus(p, t) = "recovery_required"
               THEN window \union {t} ELSE window
  /\ GoTo(p, t, "catch_certify")
  /\ UNCHANGED <<commit, drawn, receipts, cert, result, effect, reached, sends,
                 crashes, faults>>

\* createAndSaveCertificate(first): keeps a certificate that is there, and saves
\* the task again as this process holds it, whatever the row says by now.
CatchCertify(p, t) ==
  /\ At(p, t, "catch_certify")
  /\ Certify(t, IF cert[t] = "none" THEN CatchStatus(p, t) ELSE cert[t])
  /\ Save(t, CatchStatus(p, t), "execution")
  /\ Finish(p, t)
  /\ UNCHANGED <<commit, drawn, receipts, result, world, crashes, faults>>

\* A write of the catch, or the start write, fails: the row stays as it is.
WriteFails(p, t) ==
  /\ job[p][t].pc \in CatchStages \union {"starting", "asking"}
  /\ Fault
  /\ Finish(p, t)
  /\ UNCHANGED <<stored, world, crashes>>

-----------------------------------------------------------------------------
(* After an interruption.                                                  *)

Parked(t) == row[t].status = "recovery_required"
ParkedWhenAsked(t) == TRUE  \* variant: the answer is written unconditionally
StillParked(t) == Parked(t)
Asks(p, t) == job[p][t].pc \in {"idle", "recover_ask"}

\* Whose rows claimInterruptedTask hands out: an owner that is gone, or this
\* process when it no longer has the task in flight.
OrphanedOfAnyone(p, t) == TRUE                         \* variant: no liveness check
OrphanedOfOthers(p, t) == row[t].owner \in {Nobody, Gone}  \* variant: never its own
Orphaned(p, t) == row[t].owner \in {Nobody, Gone, p}

\* claimInterruptedTask, in one write.
Claim(p, t) ==
  /\ At(p, t, "idle")
  /\ row[t].status \in Interrupted
  /\ Orphaned(p, t)
  /\ row' = [row EXCEPT ![t] = [@ EXCEPT !.owner = p]]
  /\ GoTo(p, t, "recovering")
  /\ UNCHANGED <<commit, drawn, receipts, cert, result, world, crashes, faults>>

\* resolveAsVerified.
ResolveAsVerified(t) ==
  /\ CommitKey(t)
  /\ drawn' = drawn \union {t}
  /\ AddReceipt(t, "success")
  /\ Save(t, "verified_success", "none")
  /\ Certify(t, "verified_success")
  /\ UNCHANGED result

\* What the adapter reported before the interruption, when it got that far.
ReportedNoFailure(t) == result[t] # "failure"

\* recoverTask: a verifying change whose evidence is observed again and whose
\* adapter did not report failure.
RecoverObserved(p, t) ==
  /\ At(p, t, "recovering")
  /\ row[t].status = "verifying" /\ t \in Observable
  /\ ReportedNoFailure(t)
  /\ ResolveAsVerified(t)
  /\ Finish(p, t)
  /\ UNCHANGED <<world, crashes, faults>>

\* recoverTask: a read whose key was committed before the interruption is done.
CommitIgnored(t) == FALSE  \* variant: every interrupted read runs again
CommitAnswers(t) == t \notin Mutations /\ CommittedTo(t)

RecoverCommitted(p, t) ==
  /\ At(p, t, "recovering")
  /\ CommitAnswers(t)
  /\ ResolveAsVerified(t)
  /\ Finish(p, t)
  /\ UNCHANGED <<world, crashes, faults>>

\* recoverTask otherwise: paid for, then a read is ready to run again and a
\* change is parked; one that declared a reconciliation is asked about at once.
RecoverDraw(p, t) ==
  /\ At(p, t, "recovering")
  /\ ~CommitAnswers(t)
  /\ drawn' = drawn \union {t}
  /\ GoTo(p, t, "recover_save")
  /\ UNCHANGED <<row, commit, receipts, cert, result, world, crashes, faults>>

RecoveredStatus(t) ==
  IF t \in Mutations THEN "recovery_required" ELSE "planned"

RecoverSave(p, t) ==
  /\ At(p, t, "recover_save")
  /\ Save(t, RecoveredStatus(t), "interrupted")
  /\ window' = IF t \in Mutations THEN window \union {t} ELSE window
  /\ IF t \in Reconcilable THEN GoTo(p, t, "recover_ask") ELSE Finish(p, t)
  /\ UNCHANGED <<commit, drawn, receipts, cert, result, effect, reached, sends,
                 crashes, faults>>

\* The recovery throws (a write fails, or a peer has settled the task before
\* it is asked about): releaseTaskClaim, which may itself fail.
RecoverFails(p, t) ==
  /\ job[p][t].pc \in RecoverStages
  /\ IF At(p, t, "recover_ask") /\ ~Parked(t) THEN UNCHANGED faults ELSE Fault
  /\ \E o \in {Nobody, p} : row' = [row EXCEPT ![t] = [@ EXCEPT !.owner = o]]
  /\ Finish(p, t)
  /\ UNCHANGED <<commit, drawn, receipts, cert, result, world, crashes>>

-----------------------------------------------------------------------------
(* reconcile: by a caller, by the sweep (a settling task) or by recovery.  *)

\* settleCommitted: its own commit already answers.
ReconcileCommitted(p, t) ==
  /\ Asks(p, t) /\ Parked(t) /\ CommittedTo(t)
  /\ ResolveAsVerified(t)
  /\ Finish(p, t)
  /\ UNCHANGED <<world, crashes, faults>>

ReconcileUndeclared(p, t) ==
  /\ Asks(p, t) /\ Parked(t) /\ ~CommittedTo(t)
  /\ t \notin Reconcilable
  /\ Save(t, "recovery_required", "unanswered")
  /\ Finish(p, t)
  /\ UNCHANGED <<commit, drawn, receipts, cert, result, world, crashes, faults>>

\* What a miss says: nothing yet while the settle window is open.
MissIsNo(t) == "no"  \* variant: no settle window
Miss(t) == IF t \in window THEN "no_yet" ELSE "no"

\* The provider is asked. Its view is from now, however late it is written: a
\* landed effect may not show yet, and a miss inside the settle window is not
\* a no.
ReconcileAsk(p, t) ==
  /\ Asks(p, t) /\ Parked(t) /\ ~CommittedTo(t)
  /\ t \in Reconcilable
  /\ \E view \in {"yes", "no", "unclear"} :
       /\ view = "yes" => effect[t] \in {"landed", "visible"}
       /\ view = "no" => effect[t] # "visible"
       /\ Become(p, t, [Idle EXCEPT !.pc = "asking",
                          !.note = IF view = "no" THEN Miss(t) ELSE view])
  /\ UNCHANGED <<stored, world, crashes, faults>>

\* settleParked: the answer is written only while the task still waits for one.
\* A yes is held to the kernel's own checks, and parked when they fail.
Answer(p, t, note) ==
  /\ IF ~StillParked(t)
     THEN UNCHANGED stored
     ELSE CASE note = "yes" -> ResolveAsVerified(t)
            [] note = "unclear" ->
                 /\ Save(t, "recovery_required", "unanswered")
                 /\ UNCHANGED <<commit, drawn, receipts, cert, result>>
            [] note = "no_yet" ->
                 /\ Save(t, "recovery_required", "settling")
                 /\ UNCHANGED <<commit, drawn, receipts, cert, result>>
            [] note = "no" ->
                 /\ Save(t, "failed", "not_applied")
                 /\ AddReceipt(t, "not_applied")
                 /\ Certify(t, "failed")
                 /\ UNCHANGED <<commit, drawn, result>>
  /\ Finish(p, t)
  /\ UNCHANGED <<world, crashes, faults>>

ReconcileAnswer(p, t) ==
  /\ At(p, t, "asking")
  /\ \/ Answer(p, t, job[p][t].note)
     \/ job[p][t].note = "yes" /\ Answer(p, t, "unclear")

\* The settle window ends. It is taken to be as long as the provider's lag:
\* by then the call has landed and shows, or never will.
WindowEnds(t) ==
  /\ t \in window
  /\ effect[t] \notin {"sent", "landed"}
  /\ window' = window \ {t}
  /\ UNCHANGED <<stored, job, effect, reached, sends, crashes, faults>>

\* A process ends: what it held in memory is gone, and so is its owner lock.
\* A new process, with an owner id of its own, takes its place.
Crash(p) ==
  /\ crashes < MaxCrashes
  /\ crashes' = crashes + 1
  /\ job' = [job EXCEPT ![p] = [t \in Tasks |-> Idle]]
  /\ row' = [t \in Tasks |->
               IF row[t].owner = p THEN [row[t] EXCEPT !.owner = Gone]
                                   ELSE row[t]]
  /\ UNCHANGED <<commit, drawn, receipts, cert, result, world, faults>>

-----------------------------------------------------------------------------
Execute(p, t) ==
  \/ StartWrite(p, t) \/ BreakerRefuses(p, t) \/ Attempt(p, t)
  \/ \E how \in {"success", "failure"} : Returns(p, t, how)
  \/ \E unknown \in BOOLEAN : Throws(p, t, unknown)
  \/ SaveResult(p, t)
  \/ \E v \in {"verified", "partial", "failure"} : Verify(p, t, v)
  \/ Conclude(p, t)
  \/ CatchCommit(p, t) \/ CatchDraw(p, t) \/ CatchReceipt(p, t)
  \/ CatchSave(p, t) \/ CatchCertify(p, t)

Recover(p, t) ==
  \/ Claim(p, t) \/ RecoverObserved(p, t) \/ RecoverCommitted(p, t)
  \/ RecoverDraw(p, t) \/ RecoverSave(p, t)

Reconcile(p, t) ==
  \/ ReconcileCommitted(p, t) \/ ReconcileUndeclared(p, t)
  \/ ReconcileAsk(p, t) \/ ReconcileAnswer(p, t)

Fails(p, t) ==
  \/ AttemptFails(p, t) \/ ReturnedFails(p, t) \/ ConcludeFails(p, t)
  \/ WriteFails(p, t) \/ RecoverFails(p, t)

FarEnd(t) == EffectLands(t) \/ EffectLost(t) \/ EffectShows(t) \/ WindowEnds(t)

Next ==
  \/ \E p \in Procs, t \in Tasks :
       \/ StartCheck(p, t)
       \/ Execute(p, t)
       \/ \E why \in {"cancelled", "budget_exhausted"} : Abort(p, t, why)
       \/ Recover(p, t)
       \/ Reconcile(p, t)
       \/ Fails(p, t)
  \/ \E t \in Tasks : \/ PreventDuplicate(t) \/ Block(t) \/ Withdraw(t)
                      \/ FarEnd(t)
  \/ \E p \in Procs : Crash(p)

Spec == Init /\ [][Next]_vars

\* listSettlingTaskIds: what the recovery sweep asks about again.
SweepLists(t) == Parked(t) /\ row[t].error = "settling"

\* Each started job goes on, an adapter call ends (every budget aborts it), the
\* sweep of each live process recovers and asks again every 30 s, and the far
\* end does or drops what it was sent. Starting a task, failures, crashes and a
\* caller's own reconcile are never owed.
Fairness ==
  /\ \A p \in Procs, t \in Tasks :
       /\ WF_vars(Execute(p, t))
       /\ WF_vars(Recover(p, t))
       /\ WF_vars(SweepLists(t) /\ Reconcile(p, t))
  /\ \A t \in Tasks : WF_vars(FarEnd(t))
FairSpec == Spec /\ Fairness

-----------------------------------------------------------------------------
(* Properties.                                                             *)

\* Every variable keeps its type.
TypeOK ==
  /\ row \in [Tasks -> Row]
  /\ commit \in [Keys -> Tasks \union {NoTask}]
  /\ drawn \subseteq Tasks
  /\ receipts \in [Tasks -> SUBSET Receipts]
  /\ cert \in [Tasks -> Status \union {"none"}]
  /\ result \in [Tasks -> {"none", "success", "failure"}]
  /\ job \in [Procs -> [Tasks -> Job]]
  /\ effect \in [Tasks -> {"none", "sent", "landed", "visible", "lost"}]
  /\ reached \subseteq Tasks
  /\ sends \in [Tasks -> Nat]
  /\ window \subseteq Tasks
  /\ crashes \in Nat /\ faults \in Nat

\* The stages in which a process counts on the row being its own.
Holding == InFlight \ {"catch_certify", "recover_ask"}

\* A task is held by one process at a time, and only while its row says it is
\* interrupted work of that process: no start, claim, failed write or crash
\* lets two processes believe they run or recover one task.
SoleHolder ==
  \A p \in Procs, t \in Tasks :
    job[p][t].pc \in Holding =>
      /\ row[t].status \in Interrupted /\ row[t].owner = p
      /\ \A q \in Procs \ {p} : job[q][t].pc \notin Holding

\* The `at-most-once` guarantee (docs/ARCHITECTURE.md, Execution guarantees): the
\* adapter is called zero or one times for a change, whatever crashes, is
\* retried, recovered or reconciled.
AtMostOnce == \A t \in Mutations : sends[t] <= 1

\* A change reported as failed, cancelled or out of budget did not take effect:
\* only `recovery_required` may stand for one that might have. (A reported
\* failure and a duplicate say no such thing.)
UnknownIsNeverAFailure ==
  \A t \in Mutations :
    \/ row[t].status \in {"cancelled", "budget_exhausted"} /\ row[t].error # "duplicate"
    \/ row[t].status = "failed" /\ (result[t] # "failure" \/ row[t].error = "not_applied")
    => t \notin reached

\* A change that took effect has been drawn from its grant by the time its task
\* is anything but running or verifying.
ChargedIfReached ==
  \A t \in Mutations :
    t \in reached /\ row[t].status \notin Interrupted => t \in drawn

\* A key names an effect that happened; a certificate of success stands on an
\* effect that happened, its receipt, its draw and its committed key.
SuccessIsBacked ==
  /\ \A k \in Keys : commit[k] # NoTask => commit[k] \in reached
  /\ \A t \in Tasks :
       "verified_success" \in {row[t].status, cert[t]} =>
         /\ t \in reached /\ t \in drawn /\ "success" \in receipts[t]
         /\ KeyOf[t] = NoKey \/ Committed(t)

\* One key, one commit: it is never handed to another task afterwards.
CommitStands ==
  [][\A k \in Keys : commit[k] # NoTask => commit'[k] = commit[k]]_vars

\* No task holds a receipt of success and one saying the effect never happened,
\* whatever two reconciles of it answered.
NoContradictingReceipts ==
  \A t \in Tasks : ~({"success", "not_applied"} \subseteq receipts[t])

\* settleParked: once an answer is stored it stands, "and the other writes
\* nothing". Not so for a certificate that arrives late (CatchCertify).
SettledStands ==
  [][\A t \in Tasks : row[t].status \in Settled => row'[t].status = row[t].status]_vars

\* What does hold: a settled task is reopened only by the certificate write of
\* the execution that parked it, never by a reconcile, a recovery or a start.
SettledIsReopenedByCertifyOnly ==
  [][\A t \in Tasks :
       row[t].status \in Settled /\ row'[t].status # row[t].status =>
         \E p \in Procs : At(p, t, "catch_certify") /\ At(p, t, "idle")']_vars

\* Interrupted work never stays interrupted: its own process or another one
\* ends it, whatever crashed and whichever write failed.
InterruptedEnds ==
  \A t \in Tasks :
    row[t].status \in Interrupted ~> row[t].status \notin Interrupted

\* A miss inside the settle window is asked again until it is answered.
SettlingEnds ==
  \A t \in Tasks : row[t].error = "settling" ~> row[t].error # "settling"

\* A task is never cancelled as a duplicate of itself: a key committed to it by
\* an execution that was cut off settles it instead.
NoSelfDuplicate ==
  \A t \in Tasks : row[t].error = "duplicate" => ~CommittedTo(t)

\* A key names an effect that happened, a task reported done has one behind its
\* key, and none is cancelled as a duplicate of its own commit.
KeysHold == SuccessIsBacked /\ NoSelfDuplicate

\* One process holds a task at a time, and over all of them the adapter is called
\* at most once for a change.
HeldByOneSentOnce == SoleHolder /\ AtMostOnce

\* What is recorded of a change is what became of it: failure only where it did not
\* happen, success only where it did and was paid for, and never both.
OutcomesAreTrue == UnknownIsNeverAFailure /\ SuccessIsBacked /\ NoContradictingReceipts

\* Neither interrupted work nor a miss that is being asked again stays so.
WorkEnds == InterruptedEnds /\ SettlingEnds

\* Every change is accounted for as EffectLedger promises: read off the history
\* of the calls and what the database says of them.
Ledger == INSTANCE EffectLedger WITH
  Changes   <- Mutations,
  sent      <- {t \in Mutations : sends[t] > 0},
  happened  <- reached \intersect Mutations,
  charged   <- drawn \intersect Mutations,
  committed <- {t \in Mutations : CommittedTo(t)},
  confirmed <- {t \in Mutations : cert[t] = "verified_success"},
  refuted   <- {t \in Mutations : "not_applied" \in receipts[t]}
LedgerSpec == Ledger!Spec
=============================================================================
