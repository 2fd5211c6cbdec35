------------------------ MODULE TaskOutcomes_proofs ------------------------
(***************************************************************************)
(* Theorems about what TaskController records of an effect, for every set  *)
(* of processes, tasks and keys and every bound: that a change is called   *)
(* failed only when it did not happen and done only when it did, that it   *)
(* is paid for, that keys stay backed, and that the whole implements       *)
(* EffectLedger.                                                           *)
(*                                                                         *)
(* These compare what is stored with what became of the calls, and a job   *)
(* carries what it knows in memory from the one to the other.  OInv says   *)
(* what each may be: what a row, its receipts and its certificate imply    *)
(* (BackedOK, ErrorOK, ChangeOK), and what a job at each stage has been    *)
(* told (JobKnows).  It stands on IInv, which says who may write the row.  *)
(***************************************************************************)
EXTENDS TaskController_proofs

\* The far end may have done it or may yet do it; it has.
Maybe(t) == effect[t] \in {"sent", "landed", "visible"}
Happened(t) == effect[t] \in {"landed", "visible"}

\* What the far end did is what the history says.
WorldOK(t) ==
  /\ Happened(t) => t \in reached
  /\ t \in Mutations => /\ sends[t] = 0 <=> effect[t] = "none"
                        /\ t \in reached => Happened(t)

\* A success on record is backed.
BackedOK(t) ==
  /\ result[t] = "success" => t \in reached
  /\ "success" \in receipts[t] => t \in reached
  /\ "verified_success" \in {row[t].status, cert[t]} =>
       /\ t \in reached /\ t \in drawn /\ "success" \in receipts[t]
       /\ KeyOf[t] = NoKey \/ Committed(t)

\* What a row's error and status say of each other and of its key.
ErrorOK(t) ==
  /\ row[t].status = "verifying" => result[t] # "none"
  /\ row[t].error = "not_applied" => row[t].status = "failed"
  /\ row[t].error = "duplicate" => row[t].status = "cancelled" /\ ~CommittedTo(t)
  /\ row[t].status = "planned" => ~CommittedTo(t)

Open == Interrupted \union {"planned"}

\* What a change's row says of its effect.
ChangeOK(t) ==
  /\ Maybe(t) /\ row[t].status \notin Interrupted => t \in drawn
  /\ \/ row[t].status \in {"cancelled", "budget_exhausted"} /\ row[t].error # "duplicate"
     \/ row[t].status = "failed" /\ (result[t] # "failure" \/ row[t].error = "not_applied")
     => ~Maybe(t)
  /\ "not_applied" \in receipts[t] => ~Maybe(t) /\ row[t].status \notin Open
  /\ Parked(t) /\ t \notin window => effect[t] \notin {"sent", "landed"}

\* What a job knows of the effect at the stage it is at.
Told == {"returned", "verifying", "deciding", "catch_commit"}
KnowsAt(t, j) ==
  /\ j.pc \in {"returned", "verifying"} /\ j.note = "success" => t \in reached
  /\ j.pc = "verifying" => j.note \in {"success", "failure"} /\ result[t] = j.note
  /\ j.pc = "deciding" => IF j.note = "failure" THEN result[t] = "failure"
                                                ELSE t \in reached
  /\ j.pc = "catch_commit" => t \in reached
  /\ j.pc \in Told => j.ran
  /\ j.pc \in Running => ~CommittedTo(t)
  /\ j.pc = "recover_save" => t \in drawn /\ (t \in Mutations \/ ~CommittedTo(t))
  /\ j.pc \in {"catch_receipt", "catch_save", "catch_certify"} /\ j.ran => t \in drawn
  /\ j.pc = "asking" =>
       /\ t \in Reconcilable /\ row[t].status \notin Open
       /\ j.note = "yes" => t \in reached
       /\ j.note = "no" => ~Maybe(t)
\* And of a change.
ChangeKnowsAt(t, j) ==
  /\ j.pc \in CatchStages /\ ~j.ran => ~Maybe(t)
  /\ j.pc = "catch_certify" /\ t \notin window => effect[t] \notin {"sent", "landed"}

KeyOK == \A k \in Keys : commit[k] # NoTask => commit[k] \in reached
TaskOK(t) ==
  /\ WorldOK(t) /\ BackedOK(t) /\ ErrorOK(t)
  /\ t \in Mutations => ChangeOK(t)
  /\ "not_applied" \in receipts[t] => t \in Mutations
JobKnows(p, t) ==
  KnowsAt(t, job[p][t]) /\ (t \in Mutations => ChangeKnowsAt(t, job[p][t]))
OInv ==
  /\ KeyOK
  /\ \A t \in Tasks : TaskOK(t)
  /\ \A p \in Procs, t \in Tasks : JobKnows(p, t)

-----------------------------------------------------------------------------
(* What a step leaves alone.                                               *)

\* Nothing stored of another task changes, and no key is taken away.
Frame(t) ==
  /\ \A u \in Tasks \ {t} :
       /\ row'[u] = row[u] /\ result'[u] = result[u] /\ cert'[u] = cert[u]
       /\ receipts'[u] = receipts[u] /\ effect'[u] = effect[u]
       /\ sends'[u] = sends[u]
       /\ u \in drawn' <=> u \in drawn
       /\ u \in reached' <=> u \in reached
       /\ u \in window' <=> u \in window
       /\ CommittedTo(u)' => CommittedTo(u)
  /\ \A k \in Keys : commit[k] # NoTask => commit'[k] = commit[k]

\* What the other jobs of the task were told stays true.
Gentle(p, t) ==
  /\ t \in reached => t \in reached'
  /\ t \in drawn => t \in drawn'
  /\ Maybe(t)' => Maybe(t)
  /\ t \notin window' /\ effect'[t] \in {"sent", "landed"} =>
       t \notin window /\ effect[t] \in {"sent", "landed"}
  /\ t \in Mutations /\ row[t].status \notin Open => row'[t].status \notin Open
  /\ \/ result'[t] = result[t] /\ (CommittedTo(t)' => CommittedTo(t))
     \/ \A q \in Procs \ {p} : job[q][t].pc \notin Holding

LEMMA ElsewhereKept ==
  ASSUME OInv, NEW t \in Tasks, Frame(t), NEW u \in Tasks \ {t}
  PROVE  /\ TaskOK(u)'
         /\ \A q \in Procs : job'[q][u] = job[q][u] => JobKnows(q, u)'
<1>1. TaskOK(u) /\ \A q \in Procs : JobKnows(q, u)
  BY DEF OInv
<1>2. Committed(u) => Committed(u)'
  BY TaskAssumption DEF Frame, Committed
<1>3. TaskOK(u)'
  BY <1>1, <1>2 DEF Frame, TaskOK, WorldOK, BackedOK, ErrorOK, ChangeOK, Maybe,
     Happened, Parked
<1>4. ASSUME NEW q \in Procs, job'[q][u] = job[q][u] PROVE JobKnows(q, u)'
  BY <1>1, <1>4 DEF Frame, JobKnows, KnowsAt, ChangeKnowsAt, Maybe
<1>. QED  BY <1>3, <1>4

LEMMA OthersKept ==
  ASSUME OInv, NEW p \in Procs, NEW t \in Tasks, Gentle(p, t),
         NEW q \in Procs \ {p}, job'[q][t] = job[q][t]
  PROVE  JobKnows(q, t)'
<1>1. JobKnows(q, t)
  BY DEF OInv
<1>2. job[q][t].pc \in Running \union {"recover_save"} => job[q][t].pc \in Holding
  BY DEF Holding, InFlight, Running, RecoverStages
<1>3. job[q][t].pc = "asking" => t \in Mutations
  BY <1>1, TaskAssumption DEF JobKnows, KnowsAt
<1>4. KnowsAt(t, job[q][t])'
  BY <1>1, <1>2, <1>3 DEF Gentle, JobKnows, KnowsAt, Running
<1>5. t \in Mutations => ChangeKnowsAt(t, job[q][t])'
  BY <1>1 DEF Gentle, JobKnows, ChangeKnowsAt
<1>. QED  BY <1>4, <1>5 DEF JobKnows

\* A step of one job keeps the invariant when it is right about its own task.
LEMMA StepKeepsOutcome ==
  ASSUME OInv, NEW p \in Procs, NEW t \in Tasks, Frame(t), Gentle(p, t),
         \A q \in Procs, u \in Tasks : q # p \/ u # t => job'[q][u] = job[q][u],
         TaskOK(t)', JobKnows(p, t)', KeyOK'
  PROVE  OInv'
<1>1. ASSUME NEW u \in Tasks PROVE TaskOK(u)'
  BY ElsewhereKept
<1>2. ASSUME NEW q \in Procs, NEW u \in Tasks PROVE JobKnows(q, u)'
  BY ElsewhereKept, OthersKept
<1>. QED  BY <1>1, <1>2 DEF OInv

\* A step that stores nothing and calls nobody only has to be right about what
\* its job is told.
LEMMA TellKeeps ==
  ASSUME IInv, OInv, NEW p \in Procs, NEW t \in Tasks, NEW new \in Job,
         Become(p, t, new), UNCHANGED <<stored, world>>,
         KnowsAt(t, new), t \in Mutations => ChangeKnowsAt(t, new)
  PROVE  OInv'
<1>1. /\ job'[p][t] = new
      /\ \A q \in Procs, u \in Tasks : q # p \/ u # t => job'[q][u] = job[q][u]
  BY BecomeFacts DEF IInv
<1>2. Frame(t) /\ Gentle(p, t)
  BY DEF Frame, Gentle, stored, world, CommittedTo, Maybe
<1>3. TaskOK(t)' /\ KeyOK'
  BY DEF OInv, TaskOK, WorldOK, BackedOK, ErrorOK, ChangeOK, Maybe, Happened,
     Parked, Committed, CommittedTo, KeyOK, stored, world
<1>4. JobKnows(p, t)'
  BY <1>1 DEF JobKnows, KnowsAt, ChangeKnowsAt, Maybe, CommittedTo, stored, world
<1>. QED  BY <1>1, <1>2, <1>3, <1>4, StepKeepsOutcome

-----------------------------------------------------------------------------
(* Steps that store nothing: what the job is told is true.                 *)

LEMMA CaughtTells ==
  ASSUME IInv, OInv, NEW p \in Procs, NEW t \in Tasks, NEW ran \in BOOLEAN,
         Caught(p, t, ran), UNCHANGED <<stored, world>>,
         t \in Mutations /\ ~ran => ~Maybe(t)
  PROVE  OInv'
<1> DEFINE new == [job[p][t] EXCEPT
                     !.ran = ran,
                     !.pc = IF ran THEN "catch_draw" ELSE "catch_receipt"]
<1>1. job[p][t] \in Job
  BY DEF IInv, TypeOK
<1>2. /\ new \in Job /\ new.ran = ran
      /\ new.pc = IF ran THEN "catch_draw" ELSE "catch_receipt"
  BY <1>1 DEF Job, Stages, InFlight, CatchStages
<1>3. KnowsAt(t, new) /\ (t \in Mutations => ChangeKnowsAt(t, new))
  BY <1>2 DEF KnowsAt, ChangeKnowsAt, Told, Running
<1>4. Become(p, t, new)
  BY DEF Caught
<1> HIDE DEF new
<1>. QED  BY <1>2, <1>3, <1>4, TellKeeps

\* Nothing has come of a change nobody has sent.
LEMMA Unsent ==
  ASSUME IInv, OInv, NEW t \in Mutations,
         row[t].status = "planned" \/ \E p \in Procs : At(p, t, "attempting")
  PROVE  effect[t] = "none" /\ ~Maybe(t) /\ t \notin reached
<1>1. sends[t] = 0 /\ t \in Tasks
  BY TaskAssumption DEF IInv, UnsentOK
<1>. QED  BY <1>1 DEF OInv, TaskOK, WorldOK, Maybe, Happened

LEMMA StartCheckTells ==
  ASSUME IInv, OInv, NEW p \in Procs, NEW t \in Tasks, StartCheck(p, t)
  PROVE  OInv'
<1> DEFINE new == [job[p][t] EXCEPT !.pc = "starting"]
<1>1. job[p][t] \in Job
  BY DEF IInv, TypeOK
<1>2. new \in Job /\ new.pc = "starting"
  BY <1>1 DEF Job, Stages
<1>3. KnowsAt(t, new) /\ ChangeKnowsAt(t, new)
  BY <1>2 DEF KnowsAt, ChangeKnowsAt, Told, Running, CatchStages
<1>4. Become(p, t, new) /\ UNCHANGED <<stored, world>>
  BY DEF StartCheck, GoTo
<1> HIDE DEF new
<1>. QED  BY <1>2, <1>3, <1>4, TellKeeps

LEMMA FinishTells ==
  ASSUME IInv, OInv, NEW p \in Procs, NEW t \in Tasks, Finish(p, t),
         UNCHANGED <<stored, world>>
  PROVE  OInv'
<1>1. KnowsAt(t, Idle) /\ ChangeKnowsAt(t, Idle)
  BY DEF Idle, KnowsAt, ChangeKnowsAt, Told, Running, CatchStages
<1>. QED  BY <1>1, IdleFacts, TellKeeps DEF Finish

LEMMA AbortTells ==
  ASSUME IInv, OInv, NEW p \in Procs, NEW t \in Tasks,
         NEW why \in {"cancelled", "budget_exhausted"}, Abort(p, t, why)
  PROVE  OInv'
<1> DEFINE new == [job[p][t] EXCEPT !.abort = why]
<1>1. job[p][t] \in Job /\ JobKnows(p, t)
  BY DEF IInv, TypeOK, OInv
<1>2. /\ new \in Job /\ new.pc = job[p][t].pc /\ new.note = job[p][t].note
      /\ new.ran = job[p][t].ran
  BY <1>1 DEF Job
<1>3. KnowsAt(t, new) /\ (t \in Mutations => ChangeKnowsAt(t, new))
  BY <1>1, <1>2 DEF JobKnows, KnowsAt, ChangeKnowsAt
<1>4. Become(p, t, new) /\ UNCHANGED <<stored, world>>
  BY DEF Abort
<1> HIDE DEF new
<1>. QED  BY <1>2, <1>3, <1>4, TellKeeps

\* The breaker refuses, or the attempt's save fails: a change has not been sent.
LEMMA BeforeTheCallTells ==
  ASSUME IInv, OInv, NEW p \in Procs, NEW t \in Tasks,
         BreakerRefuses(p, t) \/ AttemptFails(p, t)
  PROVE  OInv'
<1>1. At(p, t, "attempting") /\ Caught(p, t, FALSE) /\ UNCHANGED <<stored, world>>
  BY DEF BreakerRefuses, AttemptFails
<1>2. t \in Mutations => ~Maybe(t)
  BY <1>1, Unsent
<1>. QED  BY <1>1, <1>2, CaughtTells

LEMMA ReturnsTells ==
  ASSUME IInv, OInv, NEW p \in Procs, NEW t \in Tasks,
         NEW how \in {"success", "failure"}, Returns(p, t, how)
  PROVE  OInv'
<1> DEFINE new == [job[p][t] EXCEPT !.pc = "returned", !.ran = TRUE, !.note = how]
<1>1. job[p][t] \in Job /\ JobKnows(p, t) /\ job[p][t].pc = "calling"
  BY DEF IInv, TypeOK, OInv, Returns, At
<1>2. /\ new \in Job /\ new.pc = "returned" /\ new.ran = TRUE /\ new.note = how
  BY <1>1 DEF Job, Stages, InFlight, Running
<1>3. how = "success" => t \in reached
  BY DEF Returns, OInv, TaskOK, WorldOK, Happened
<1>4. KnowsAt(t, new) /\ ChangeKnowsAt(t, new)
  BY <1>1, <1>2, <1>3 DEF JobKnows, KnowsAt, ChangeKnowsAt, Running, CatchStages
<1>5. Become(p, t, new) /\ UNCHANGED <<stored, world>>
  BY DEF Returns
<1> HIDE DEF new
<1>. QED  BY <1>2, <1>4, <1>5, TellKeeps

LEMMA ThrowsTells ==
  ASSUME IInv, OInv, NEW p \in Procs, NEW t \in Tasks, NEW unknown \in BOOLEAN,
         Throws(p, t, unknown)
  PROVE  OInv'
<1> DEFINE ran == job[p][t].ran \/ unknown
           new == [job[p][t] EXCEPT !.pc = "attempting", !.ran = ran]
<1>1. /\ job[p][t] \in Job /\ JobKnows(p, t) /\ job[p][t].pc = "calling"
      /\ UNCHANGED <<stored, world>> /\ ran \in BOOLEAN
  BY DEF IInv, TypeOK, OInv, Throws, At, Job
<1>2. CASE job[p][t].tries < Attempts(t) /\ job[p][t].abort = "none"
  <2>1. Become(p, t, new)
    BY <1>2 DEF Throws
  <2>2. new \in Job /\ new.pc = "attempting"
    BY <1>1 DEF Job, Stages, InFlight, Running
  <2>3. KnowsAt(t, new) /\ ChangeKnowsAt(t, new)
    BY <1>1, <2>2 DEF JobKnows, KnowsAt, ChangeKnowsAt, Running, Told, CatchStages
  <2> HIDE DEF new
  <2>. QED  BY <1>1, <2>1, <2>2, <2>3, TellKeeps
<1>3. CASE ~(job[p][t].tries < Attempts(t) /\ job[p][t].abort = "none")
  <2>1. Caught(p, t, ran)
    BY <1>3 DEF Throws
  <2>2. ~ran => ~Maybe(t)
    BY DEF Throws, Maybe
  <2> HIDE DEF ran
  <2>. QED  BY <1>1, <2>1, <2>2, CaughtTells
<1>. QED  BY <1>2, <1>3

LEMMA VerifyTells ==
  ASSUME IInv, OInv, NEW p \in Procs, NEW t \in Tasks, NEW verdict,
         Verify(p, t, verdict)
  PROVE  OInv'
<1> DEFINE new == [job[p][t] EXCEPT !.pc = "deciding", !.note = verdict]
<1>1. /\ job[p][t] \in Job /\ JobKnows(p, t) /\ job[p][t].pc = "verifying"
      /\ verdict \in {"verified", "partial", "failure"}
  BY DEF IInv, TypeOK, OInv, Verify, At
<1>2. /\ new \in Job /\ new.pc = "deciding" /\ new.note = verdict
      /\ new.ran = job[p][t].ran
  BY <1>1 DEF Job, Stages, InFlight, Running
<1>3. IF verdict = "failure" THEN result[t] = "failure" ELSE t \in reached
  BY <1>1 DEF JobKnows, KnowsAt, Verify
<1>4. KnowsAt(t, new) /\ ChangeKnowsAt(t, new)
  BY <1>1, <1>2, <1>3 DEF JobKnows, KnowsAt, ChangeKnowsAt, Told, Running, CatchStages
<1>5. Become(p, t, new) /\ UNCHANGED <<stored, world>>
  BY DEF Verify
<1> HIDE DEF new
<1>. QED  BY <1>2, <1>4, <1>5, TellKeeps

LEMMA ConcludeFailsTells ==
  ASSUME IInv, OInv, NEW p \in Procs, NEW t \in Tasks,
         ReturnedFails(p, t) \/ ConcludeFails(p, t)
  PROVE  OInv'
<1> DEFINE new == [job[p][t] EXCEPT !.pc = "catch_commit"]
<1>1. /\ UNCHANGED <<stored, world>> /\ job[p][t] \in Job /\ JobKnows(p, t)
  BY DEF IInv, TypeOK, OInv, ReturnedFails, ConcludeFails
<1>2. CASE Caught(p, t, TRUE)
  BY <1>1, <1>2, CaughtTells
<1>3. CASE /\ At(p, t, "deciding") /\ job[p][t].note = "verified"
           /\ GoTo(p, t, "catch_commit")
  <2>1. new \in Job /\ new.pc = "catch_commit" /\ new.ran = job[p][t].ran
    BY <1>1 DEF Job, Stages, InFlight, CatchStages
  <2>2. t \in reached /\ job[p][t].ran
    BY <1>1, <1>3 DEF JobKnows, KnowsAt, At, Told
  <2>3. KnowsAt(t, new) /\ ChangeKnowsAt(t, new)
    BY <2>1, <2>2 DEF KnowsAt, ChangeKnowsAt, Running, CatchStages
  <2>4. Become(p, t, new)
    BY <1>3 DEF GoTo
  <2> HIDE DEF new
  <2>. QED  BY <1>1, <2>1, <2>3, <2>4, TellKeeps
<1>. QED  BY <1>2, <1>3 DEF ReturnedFails, ConcludeFails

\* What the provider says is true of the change, and stays true.
LEMMA ReconcileAskTells ==
  ASSUME IInv, OInv, NEW p \in Procs, NEW t \in Tasks, ReconcileAsk(p, t)
  PROVE  OInv'
<1>1. PICK view \in {"yes", "no", "unclear"} :
        /\ view = "yes" => effect[t] \in {"landed", "visible"}
        /\ view = "no" => effect[t] # "visible"
        /\ Become(p, t, [Idle EXCEPT !.pc = "asking",
                           !.note = IF view = "no" THEN Miss(t) ELSE view])
  BY DEF ReconcileAsk
<1> DEFINE note == IF view = "no" THEN Miss(t) ELSE view
           new == [Idle EXCEPT !.pc = "asking", !.note = note]
<1>2. note \in {"yes", "no", "no_yet", "unclear"}
  BY DEF Miss
<1>3. /\ UNCHANGED <<stored, world>> /\ Parked(t)
      /\ t \in Reconcilable /\ t \in Mutations /\ TaskOK(t)
  BY TaskAssumption DEF ReconcileAsk, OInv
<1>4. note = "yes" => t \in reached
  BY <1>1, <1>3 DEF Miss, TaskOK, WorldOK, Happened
<1>5. note = "no" => ~Maybe(t)
  BY <1>1, <1>3 DEF Miss, TaskOK, ChangeOK, Maybe
<1> HIDE DEF note
<1>6. new \in Job /\ new.pc = "asking" /\ new.note = note
  BY <1>2, IdleFacts DEF Idle, Job, Stages
<1>7. row[t].status \notin Open
  BY <1>3 DEF Parked, Open, Interrupted
<1>8. KnowsAt(t, new) /\ ChangeKnowsAt(t, new)
  BY <1>3, <1>4, <1>5, <1>6, <1>7 DEF KnowsAt, ChangeKnowsAt, Told, Running, CatchStages
<1>9. Become(p, t, new)
  BY <1>1 DEF note
<1> HIDE DEF new
<1>. QED  BY <1>3, <1>6, <1>8, <1>9, TellKeeps

-----------------------------------------------------------------------------
(* Steps that store something, or call the far end.                        *)

LEMMA CommitKeyStep ==
  ASSUME TypeOK, NEW t \in Tasks, CommitKey(t)
  PROVE  /\ \A k \in Keys : commit[k] # NoTask => commit'[k] = commit[k]
         /\ \A k \in Keys : commit'[k] \in {commit[k], t}
         /\ \A u \in Tasks \ {t} : CommittedTo(u)' => CommittedTo(u)
         /\ KeyOf[t] = NoKey \/ Committed(t)'
BY TaskAssumption DEF TypeOK, CommitKey, Committed, CommittedTo

LEMMA SaveSets ==
  ASSUME TypeOK, NEW t \in Tasks, NEW status, NEW error, Save(t, status, error)
  PROVE  /\ row'[t].status = status /\ row'[t].error = error
         /\ \A u \in Tasks \ {t} : row'[u] = row[u]
<1>1. row[t] \in Row
  BY DEF TypeOK
<1>. QED  BY <1>1 DEF TypeOK, Save, Row

LEMMA FinishSets ==
  ASSUME TypeOK, NEW p \in Procs, NEW t \in Tasks, Finish(p, t)
  PROVE  /\ job'[p][t] = Idle /\ JobKnows(p, t)'
         /\ \A q \in Procs, u \in Tasks : q # p \/ u # t => job'[q][u] = job[q][u]
<1>1. /\ job'[p][t] = Idle
      /\ \A q \in Procs, u \in Tasks : q # p \/ u # t => job'[q][u] = job[q][u]
  BY IdleFacts, BecomeFacts DEF Finish
<1>2. KnowsAt(t, job[p][t])' /\ ChangeKnowsAt(t, job[p][t])'
  BY <1>1 DEF Idle, KnowsAt, ChangeKnowsAt, Told, Running, CatchStages
<1>. QED  BY <1>1, <1>2 DEF JobKnows

LEMMA GoToSets ==
  ASSUME TypeOK, NEW p \in Procs, NEW t \in Tasks, NEW stage \in Stages,
         GoTo(p, t, stage)
  PROVE  /\ job'[p][t].pc = stage
         /\ job'[p][t].note = job[p][t].note /\ job'[p][t].ran = job[p][t].ran
         /\ \A q \in Procs, u \in Tasks : q # p \/ u # t => job'[q][u] = job[q][u]
<1> DEFINE new == [job[p][t] EXCEPT !.pc = stage]
<1>1. job[p][t] \in Job
  BY DEF TypeOK
<1>2. /\ new \in Job /\ new.pc = stage /\ new.note = job[p][t].note
      /\ new.ran = job[p][t].ran
  BY <1>1 DEF Job
<1>3. Become(p, t, new)
  BY DEF GoTo
<1> HIDE DEF new
<1>. QED  BY <1>2, <1>3, BecomeFacts

\* The database the step leaves, when it writes no more than the row.
LEMMA KeysUntouched ==
  ASSUME OInv, commit' = commit, reached \subseteq reached'
  PROVE  KeyOK'
BY DEF OInv, KeyOK

LEMMA StartWriteTells ==
  ASSUME IInv, OInv, NEW p \in Procs, NEW t \in Tasks, StartWrite(p, t)
  PROVE  OInv'
<1>1. CASE ~Unstarted(t)
  BY <1>1, FinishTells DEF StartWrite, stored, world
<1>2. CASE Unstarted(t)
  <2>1. /\ row[t].status = "planned" /\ row[t] \in Row /\ TypeOK
        /\ row' = [row EXCEPT ![t] = [@ EXCEPT !.status = "running", !.owner = p]]
        /\ GoTo(p, t, "attempting") /\ "attempting" \in Stages
        /\ UNCHANGED <<commit, drawn, receipts, cert, result, world>>
    BY <1>2 DEF StartWrite, Unstarted, IInv, TypeOK, Stages, InFlight, Running
  <2>2. /\ row'[t].status = "running" /\ row'[t].error = row[t].error
        /\ \A u \in Tasks \ {t} : row'[u] = row[u]
    BY <2>1 DEF Row, TypeOK
  <2>3. /\ job'[p][t].pc = "attempting"
        /\ \A q \in Procs, u \in Tasks : q # p \/ u # t => job'[q][u] = job[q][u]
    BY <2>1, GoToSets
  <2>4. Frame(t) /\ Gentle(p, t) /\ KeyOK'
    BY <2>1, <2>2, KeysUntouched DEF Frame, Gentle, world, Maybe, CommittedTo, Open
  <2>5. TaskOK(t) /\ ~CommittedTo(t)
    BY <2>1 DEF OInv, TaskOK, ErrorOK
  <2>6. TaskOK(t)'
    <3>1. WorldOK(t)' /\ BackedOK(t)'
      BY <2>1, <2>2, <2>5 DEF TaskOK, WorldOK, BackedOK, Happened, Committed, world
    <3>2. ErrorOK(t)'
      BY <2>1, <2>2, <2>5 DEF TaskOK, ErrorOK, CommittedTo
    <3>3. t \in Mutations => ChangeOK(t)'
      BY <2>1, <2>2, <2>5 DEF TaskOK, ChangeOK, Maybe, Parked, Interrupted, Open, world
    <3>. QED  BY <2>1, <2>5, <3>1, <3>2, <3>3 DEF TaskOK
  <2>7. JobKnows(p, t)'
    BY <2>1, <2>3, <2>5 DEF JobKnows, KnowsAt, ChangeKnowsAt, Told, CatchStages, CommittedTo
  <2>. QED  BY <2>3, <2>4, <2>6, <2>7, StepKeepsOutcome
<1>. QED  BY <1>1, <1>2

\* The call is made of a change nothing had come of, and no other job of the
\* task has been told anything yet.
LEMMA AttemptTells ==
  ASSUME IInv, OInv, NEW p \in Procs, NEW t \in Tasks, Attempt(p, t)
  PROVE  OInv'
<1>1. /\ job[p][t] \in Job /\ job[p][t].pc = "attempting" /\ job[p][t].ran \in BOOLEAN
      /\ At(p, t, "attempting") /\ TypeOK /\ JobKnows(p, t) /\ TaskOK(t)
      /\ UNCHANGED <<stored, reached, window>>
  BY DEF IInv, TypeOK, OInv, Attempt, At, Job
<1>2. CASE job[p][t].abort # "none"
  BY <1>1, <1>2, Unsent, CaughtTells DEF Attempt, world
<1>3. CASE job[p][t].abort = "none"
  <2>1. /\ Become(p, t, [job[p][t] EXCEPT !.pc = "calling", !.tries = @ + 1])
        /\ effect' = [effect EXCEPT ![t] = "sent"]
        /\ sends' = [sends EXCEPT ![t] = @ + 1]
    BY <1>3 DEF Attempt
  <2>2. /\ job'[p][t].pc = "calling"
        /\ \A q \in Procs, u \in Tasks : q # p \/ u # t => job'[q][u] = job[q][u]
    BY <1>1, <2>1 DEF Become, TypeOK, Job
  <2>3. /\ row[t].status \in Interrupted
        /\ \A q \in Procs \ {p} : job[q][t].pc \notin Holding
        /\ \A q \in Procs : job[q][t].pc \notin Done
    <3>1. job[p][t].pc \in Holding
      BY <1>1 DEF Holding, InFlight, Running
    <3>2. row[t].status \in Interrupted
      BY <3>1 DEF IInv, HolderOK
    <3>. QED  BY <3>1, <3>2, Alone
  <2>4. /\ effect'[t] = "sent" /\ sends'[t] = sends[t] + 1 /\ sends[t] \in Nat
        /\ \A u \in Tasks \ {t} : effect'[u] = effect[u] /\ sends'[u] = sends[u]
    BY <1>1, <2>1 DEF TypeOK
  <2>5. Frame(t) /\ KeyOK'
    BY <1>1, <2>4, KeysUntouched DEF Frame, stored, CommittedTo
  <2>6. TaskOK(t)'
    <3>1. WorldOK(t)' /\ BackedOK(t)' /\ ErrorOK(t)'
      BY <1>1, <2>4, Unsent DEF TaskOK, WorldOK, BackedOK, ErrorOK, Happened, Committed,
         CommittedTo, stored
    <3>2. t \in Mutations => ChangeOK(t)'
      BY <1>1, <2>3 DEF TaskOK, ChangeOK, Parked, Interrupted, Open, stored
    <3>. QED  BY <1>1, <3>1, <3>2 DEF TaskOK, stored
  <2>7. JobKnows(p, t)'
    BY <1>1, <2>2 DEF JobKnows, KnowsAt, ChangeKnowsAt, Told, Running, CatchStages,
       CommittedTo, stored
  <2>8. ASSUME NEW q \in Procs \ {p} PROVE JobKnows(q, t)'
    <3>1. /\ job'[q][t] = job[q][t] /\ JobKnows(q, t)
          /\ job[q][t].pc \notin Holding /\ job[q][t].pc \notin Done
      BY <2>2, <2>3 DEF OInv
    <3>2. job[q][t].pc \notin Told \union Running \union CatchStages \union RecoverStages
      BY <3>1 DEF Holding, Done, Told, InFlight, Running, CatchStages, RecoverStages
    <3>3. job[q][t].pc # "asking"
      BY <2>3, <3>1 DEF JobKnows, KnowsAt, Open
    <3>. QED
      BY <3>1, <3>2, <3>3 DEF JobKnows, KnowsAt, ChangeKnowsAt, Told, Running,
         CatchStages, RecoverStages
  <2>9. ASSUME NEW q \in Procs, NEW u \in Tasks PROVE JobKnows(q, u)'
    BY <2>2, <2>5, <2>7, <2>8, ElsewhereKept
  <2>10. ASSUME NEW u \in Tasks PROVE TaskOK(u)'
    BY <2>5, <2>6, ElsewhereKept
  <2>. QED  BY <2>5, <2>9, <2>10 DEF OInv
<1>. QED  BY <1>2, <1>3

LEMMA SaveResultTells ==
  ASSUME IInv, OInv, NEW p \in Procs, NEW t \in Tasks, SaveResult(p, t)
  PROVE  OInv'
<1>1. /\ GoTo(p, t, "verifying") /\ job[p][t].pc = "returned" /\ row[t] \in Row
      /\ job[p][t].note \in {"success", "failure"} /\ TypeOK /\ "verifying" \in Stages
      /\ UNCHANGED <<commit, drawn, receipts, cert, world>>
      /\ result' = [result EXCEPT ![t] = job[p][t].note]
      /\ row' = [row EXCEPT ![t] = [@ EXCEPT !.status = "verifying"]]
      /\ JobKnows(p, t) /\ TaskOK(t)
  BY DEF IInv, TypeOK, JobOK, JobOKAt, OInv, SaveResult, At, Stages, InFlight, Running
<1>2. /\ row[t].status \in Interrupted
      /\ \A q \in Procs \ {p} : job[q][t].pc \notin Holding
  <2>1. job[p][t].pc \in Holding
    BY <1>1 DEF Holding, InFlight, Running
  <2>. QED  BY <2>1, Alone DEF IInv, HolderOK
<1>3. /\ row'[t].status = "verifying" /\ row'[t].error = row[t].error
      /\ result'[t] = job[p][t].note
      /\ \A u \in Tasks \ {t} : row'[u] = row[u] /\ result'[u] = result[u]
  BY <1>1 DEF Row, TypeOK
<1>4. /\ job'[p][t].pc = "verifying" /\ job'[p][t].note = job[p][t].note
      /\ job'[p][t].ran = job[p][t].ran
      /\ \A q \in Procs, u \in Tasks : q # p \/ u # t => job'[q][u] = job[q][u]
  BY <1>1, GoToSets
<1>5. Frame(t) /\ Gentle(p, t) /\ KeyOK'
  BY <1>1, <1>2, <1>3, KeysUntouched DEF Frame, Gentle, world, Maybe, CommittedTo, Open
<1>6. /\ job[p][t].note = "success" => t \in reached
      /\ job[p][t].ran /\ ~CommittedTo(t)
  BY <1>1 DEF JobKnows, KnowsAt, Told, Running
<1>7. TaskOK(t)'
  <2>1. WorldOK(t)' /\ BackedOK(t)'
    BY <1>1, <1>3, <1>6 DEF TaskOK, WorldOK, BackedOK, Happened, Committed, world
  <2>2. ErrorOK(t)'
    BY <1>1, <1>2, <1>3, <1>6 DEF TaskOK, ErrorOK, CommittedTo, Interrupted
  <2>3. t \in Mutations => ChangeOK(t)'
    BY <1>1, <1>2, <1>3 DEF TaskOK, ChangeOK, Maybe, Parked, Interrupted, Open, world
  <2>. QED  BY <1>1, <2>1, <2>2, <2>3 DEF TaskOK
<1>8. JobKnows(p, t)'
  BY <1>1, <1>3, <1>4, <1>6 DEF JobKnows, KnowsAt, ChangeKnowsAt, Told, Running,
     CatchStages, CommittedTo, world
<1>. QED  BY <1>4, <1>5, <1>7, <1>8, StepKeepsOutcome

LEMMA ConcludeTells ==
  ASSUME IInv, OInv, NEW p \in Procs, NEW t \in Tasks, Conclude(p, t)
  PROVE  OInv'
<1> DEFINE verdict == job[p][t].note
           lost == verdict = "verified" /\ Committed(t)
           status == CASE lost -> "cancelled"
                       [] verdict = "verified" /\ ~lost -> "verified_success"
                       [] verdict = "partial" -> "partial"
                       [] verdict = "failure" -> "failed"
           error == IF lost THEN "duplicate" ELSE row[t].error
<1>1. /\ verdict \in {"verified", "partial", "failure"} /\ TypeOK /\ TaskOK(t)
      /\ job[p][t].pc = "deciding" /\ JobKnows(p, t) /\ job[p][t].pc \in Holding
  BY DEF IInv, JobOK, JobOKAt, OInv, Conclude, At, Holding, InFlight, Running
<1>2. /\ row[t].status \in Interrupted
      /\ \A q \in Procs \ {p} : job[q][t].pc \notin Holding
  BY <1>1, Alone DEF IInv, HolderOK
<1>3. /\ IF verdict = "verified" THEN CommitKey(t) ELSE UNCHANGED commit
      /\ drawn' = drawn \union {t}
      /\ AddReceipt(t, IF verdict = "failure" THEN "error" ELSE "success")
      /\ Save(t, status, error) /\ Finish(p, t) /\ UNCHANGED <<result, world>>
      /\ \E c \in {cert[t], status} : (cert[t] # "none" => c = cert[t]) /\ Certify(t, c)
  BY DEF Conclude
<1>4. PICK c \in {cert[t], status} : (cert[t] # "none" => c = cert[t]) /\ Certify(t, c)
  BY <1>3
<1>5. /\ IF verdict = "failure" THEN result[t] = "failure" ELSE t \in reached
      /\ ~CommittedTo(t)
  BY <1>1 DEF JobKnows, KnowsAt, Running
<1>6. /\ row[t].error # "not_applied" /\ row[t].error # "duplicate"
      /\ "not_applied" \notin receipts[t] \/ t \notin Mutations
  BY <1>1, <1>2 DEF TaskOK, ErrorOK, ChangeOK, Interrupted, Open
<1>7. /\ lost => status = "cancelled" /\ error = "duplicate"
      /\ ~lost => error = row[t].error
      /\ verdict = "verified" /\ ~lost => status = "verified_success"
      /\ verdict = "partial" => status = "partial"
      /\ verdict = "failure" => status = "failed"
  BY <1>1
<1> HIDE DEF status, error
<1>8. /\ row'[t].status = status /\ row'[t].error = error
      /\ \A u \in Tasks \ {t} : row'[u] = row[u]
  BY <1>1, <1>3, SaveSets
<1>9. /\ JobKnows(p, t)'
      /\ \A q \in Procs, u \in Tasks : q # p \/ u # t => job'[q][u] = job[q][u]
  BY <1>1, <1>3, FinishSets
<1>10. /\ \A k \in Keys : commit[k] # NoTask => commit'[k] = commit[k]
       /\ \A u \in Tasks \ {t} : CommittedTo(u)' => CommittedTo(u)
       /\ verdict = "verified" => /\ KeyOf[t] = NoKey \/ Committed(t)'
                                  /\ \A k \in Keys : commit'[k] \in {commit[k], t}
       /\ verdict # "verified" => commit' = commit
       /\ lost => commit' = commit
  <2>1. lost => commit' = commit
    BY <1>3 DEF CommitKey
  <2>. QED  BY <1>1, <1>3, <2>1, CommitKeyStep DEF CommittedTo
<1>11. /\ receipts'[t] = receipts[t] \union
                         {IF verdict = "failure" THEN "error" ELSE "success"}
       /\ cert'[t] = c
       /\ \A u \in Tasks \ {t} : receipts'[u] = receipts[u] /\ cert'[u] = cert[u]
  BY <1>1, <1>3, <1>4 DEF AddReceipt, Certify, TypeOK
<1> HIDE DEF verdict, lost
<1>12. Frame(t)
  BY <1>3, <1>8, <1>10, <1>11 DEF Frame, world
<1>13. Gentle(p, t)
  BY <1>2, <1>3 DEF Gentle, world, Maybe, Open
<1>14. KeyOK'
  <2>1. \A k \in Keys : commit'[k] # NoTask => commit'[k] \in reached
    BY <1>1, <1>5, <1>10 DEF OInv, KeyOK
  <2>. QED  BY <1>3, <2>1 DEF KeyOK, world
<1>15. TaskOK(t)'
  <2>1. WorldOK(t)'
    BY <1>1, <1>3 DEF TaskOK, WorldOK, Happened, world
  <2>2. BackedOK(t)'
    <3>1. verdict # "failure" => "success" \in receipts'[t] /\ t \in reached
      BY <1>5, <1>11
    <3>2. verdict = "verified" \/ status # "verified_success"
      BY <1>1, <1>7
    <3>3. /\ result'[t] = "success" => t \in reached'
          /\ "success" \in receipts'[t] => t \in reached'
      BY <1>1, <1>3, <1>5, <1>11 DEF TaskOK, BackedOK, world
    <3>4. status = "verified_success" =>
            /\ t \in reached' /\ t \in drawn' /\ "success" \in receipts'[t]
            /\ KeyOf[t] = NoKey \/ Committed(t)'
      BY <1>3, <1>10, <3>1, <3>2 DEF world
    <3>5. Committed(t) => Committed(t)'
      BY <1>10, TaskAssumption DEF Committed
    <3>6. cert[t] = "verified_success" =>
            /\ t \in reached' /\ t \in drawn' /\ "success" \in receipts'[t]
            /\ KeyOf[t] = NoKey \/ Committed(t)'
      BY <1>1, <1>3, <1>11, <3>5 DEF TaskOK, BackedOK, world
    <3>. QED  BY <1>8, <1>11, <3>3, <3>4, <3>6 DEF BackedOK
  <2>3. ErrorOK(t)'
    <3>1. status \in {"cancelled", "verified_success", "partial", "failed"}
      BY <1>1, <1>7
    <3>2. lost => ~CommittedTo(t)'
      BY <1>5, <1>10 DEF CommittedTo
    <3>. QED  BY <1>6, <1>7, <1>8, <3>1, <3>2 DEF ErrorOK
  <2>4. t \in Mutations => ChangeOK(t)'
    <3>1. status \in {"cancelled", "verified_success", "partial", "failed"}
      BY <1>1, <1>7
    <3>2. status = "failed" => result'[t] = "failure" /\ error # "not_applied"
      BY <1>1, <1>3, <1>5, <1>6, <1>7
    <3>3. status = "cancelled" => error = "duplicate"
      BY <1>1, <1>7
    <3>4. t \in Mutations => "not_applied" \notin receipts'[t]
      BY <1>6, <1>11
    <3>. QED  BY <1>3, <1>8, <3>1, <3>2, <3>3, <3>4 DEF ChangeOK, Parked
  <2>. QED  BY <1>1, <1>11, <2>1, <2>2, <2>3, <2>4 DEF TaskOK
<1>. QED  BY <1>9, <1>12, <1>13, <1>14, <1>15, StepKeepsOutcome

LEMMA CatchCommitTells ==
  ASSUME IInv, OInv, NEW p \in Procs, NEW t \in Tasks, CatchCommit(p, t)
  PROVE  OInv'
<1>1. /\ TypeOK /\ TaskOK(t) /\ job[p][t].pc = "catch_commit" /\ JobKnows(p, t)
      /\ job[p][t].pc \in Holding /\ "catch_draw" \in Stages
      /\ CommitKey(t) /\ GoTo(p, t, "catch_draw")
      /\ UNCHANGED <<row, drawn, receipts, cert, result, world>>
  BY DEF IInv, OInv, CatchCommit, At, Holding, Stages, InFlight, CatchStages
<1>2. /\ row[t].status \in Interrupted
      /\ \A q \in Procs \ {p} : job[q][t].pc \notin Holding
  BY <1>1, Alone DEF IInv, HolderOK
<1>3. /\ job'[p][t].pc = "catch_draw" /\ job'[p][t].ran
      /\ \A q \in Procs, u \in Tasks : q # p \/ u # t => job'[q][u] = job[q][u]
  BY <1>1, GoToSets DEF JobKnows, KnowsAt, Told
<1>4. Frame(t) /\ Gentle(p, t)
  BY <1>1, <1>2, CommitKeyStep DEF Frame, Gentle, world, Maybe
<1>5. t \in reached
  BY <1>1 DEF JobKnows, KnowsAt
<1>6. KeyOK'
  <2>1. \A k \in Keys : commit'[k] # NoTask => commit'[k] \in reached
    BY <1>1, <1>5, CommitKeyStep DEF OInv, KeyOK
  <2>. QED  BY <1>1, <2>1 DEF KeyOK, world
<1>7. TaskOK(t)'
  <2>1. Committed(t) => Committed(t)'
    BY <1>1, CommitKeyStep, TaskAssumption DEF Committed
  <2>2. WorldOK(t)' /\ BackedOK(t)'
    BY <1>1, <2>1 DEF TaskOK, WorldOK, BackedOK, Happened, world
  <2>3. ErrorOK(t)'
    BY <1>1, <1>2 DEF TaskOK, ErrorOK, Interrupted
  <2>4. t \in Mutations => ChangeOK(t)'
    BY <1>1 DEF TaskOK, ChangeOK, Maybe, Parked, world
  <2>. QED  BY <1>1, <2>2, <2>3, <2>4 DEF TaskOK
<1>8. JobKnows(p, t)'
  BY <1>3 DEF JobKnows, KnowsAt, ChangeKnowsAt, Told, Running, CatchStages
<1>. QED  BY <1>3, <1>4, <1>6, <1>7, <1>8, StepKeepsOutcome

\* A draw or an error's receipt is added, the row is left.
LEMMA AddedKeeps ==
  ASSUME IInv, OInv, NEW p \in Procs, NEW t \in Tasks,
         UNCHANGED <<row, commit, cert, result, world>>,
         drawn' \in {drawn, drawn \union {t}},
         receipts' = receipts \/ AddReceipt(t, "error"),
         JobKnows(p, t)',
         \A q \in Procs, u \in Tasks : q # p \/ u # t => job'[q][u] = job[q][u]
  PROVE  OInv'
<1>1. /\ receipts'[t] \in {receipts[t], receipts[t] \union {"error"}}
      /\ \A u \in Tasks \ {t} : receipts'[u] = receipts[u]
  BY DEF IInv, TypeOK, AddReceipt
<1>2. Frame(t) /\ Gentle(p, t) /\ KeyOK'
  BY <1>1, KeysUntouched DEF Frame, Gentle, world, Maybe, CommittedTo
<1>3. TaskOK(t)'
  <2>1. TaskOK(t)
    BY DEF OInv
  <2>2. WorldOK(t)' /\ BackedOK(t)' /\ ErrorOK(t)'
    BY <1>1, <2>1 DEF TaskOK, WorldOK, BackedOK, ErrorOK, Happened, Committed,
       CommittedTo, world
  <2>3. t \in Mutations => ChangeOK(t)'
    BY <1>1, <2>1 DEF TaskOK, ChangeOK, Maybe, Parked, world
  <2>. QED  BY <1>1, <2>1, <2>2, <2>3 DEF TaskOK
<1>. QED  BY <1>2, <1>3, StepKeepsOutcome

LEMMA AddingTells ==
  ASSUME IInv, OInv, NEW p \in Procs, NEW t \in Tasks,
         CatchDraw(p, t) \/ CatchReceipt(p, t) \/ RecoverDraw(p, t)
  PROVE  OInv'
<1>1. TypeOK /\ JobKnows(p, t) /\ {"catch_receipt", "catch_save", "recover_save"} \subseteq Stages
  BY DEF IInv, OInv, Stages, InFlight, CatchStages, RecoverStages
<1>2. CASE CatchDraw(p, t)
  <2>1. /\ At(p, t, "catch_draw") /\ GoTo(p, t, "catch_receipt")
        /\ UNCHANGED <<row, commit, receipts, cert, result, world>>
        /\ drawn' = drawn \union {t}
    BY <1>2 DEF CatchDraw
  <2>2. /\ job'[p][t].pc = "catch_receipt" /\ job'[p][t].ran = job[p][t].ran
        /\ \A q \in Procs, u \in Tasks : q # p \/ u # t => job'[q][u] = job[q][u]
    BY <1>1, <2>1, GoToSets
  <2>3. JobKnows(p, t)'
    BY <1>1, <2>1, <2>2 DEF JobKnows, KnowsAt, ChangeKnowsAt, At, Told, Running,
       CatchStages, Maybe, world
  <2>. QED  BY <2>1, <2>2, <2>3, AddedKeeps
<1>3. CASE CatchReceipt(p, t)
  <2>1. /\ At(p, t, "catch_receipt") /\ GoTo(p, t, "catch_save")
        /\ UNCHANGED <<row, commit, drawn, cert, result, world>>
        /\ AddReceipt(t, "error")
    BY <1>3 DEF CatchReceipt
  <2>2. /\ job'[p][t].pc = "catch_save" /\ job'[p][t].ran = job[p][t].ran
        /\ \A q \in Procs, u \in Tasks : q # p \/ u # t => job'[q][u] = job[q][u]
    BY <1>1, <2>1, GoToSets
  <2>3. JobKnows(p, t)'
    BY <1>1, <2>1, <2>2 DEF JobKnows, KnowsAt, ChangeKnowsAt, At, Told, Running,
       CatchStages, Maybe, world
  <2>. QED  BY <2>1, <2>2, <2>3, AddedKeeps
<1>4. CASE RecoverDraw(p, t)
  <2>1. /\ At(p, t, "recovering") /\ GoTo(p, t, "recover_save") /\ ~CommitAnswers(t)
        /\ UNCHANGED <<row, commit, receipts, cert, result, world>>
        /\ drawn' = drawn \union {t}
    BY <1>4 DEF RecoverDraw
  <2>2. /\ job'[p][t].pc = "recover_save"
        /\ \A q \in Procs, u \in Tasks : q # p \/ u # t => job'[q][u] = job[q][u]
    BY <1>1, <2>1, GoToSets
  <2>3. JobKnows(p, t)'
    BY <2>1, <2>2 DEF JobKnows, KnowsAt, ChangeKnowsAt, CommitAnswers, Told, Running,
       CatchStages, CommittedTo
  <2>. QED  BY <2>1, <2>2, <2>3, AddedKeeps
<1>. QED  BY <1>2, <1>3, <1>4

\* What the catch calls the outcome: recovery_required when a change may have
\* run, and a failure only when it did not.
LEMMA CatchStatusTells ==
  ASSUME IInv, NEW p \in Procs, NEW t \in Tasks
  PROVE  /\ CatchStatus(p, t) \in {"recovery_required", "cancelled",
                                   "budget_exhausted", "failed"}
         /\ t \in Mutations /\ job[p][t].ran => CatchStatus(p, t) = "recovery_required"
         /\ CatchStatus(p, t) = "recovery_required" => t \in Mutations /\ job[p][t].ran
<1>1. job[p][t].abort \in {"none", "cancelled", "budget_exhausted"}
  BY DEF IInv, TypeOK, Job
<1>. QED  BY <1>1 DEF CatchStatus

\* The catch's row: it says no more than its job knows.
LEMMA CaughtRow ==
  ASSUME IInv, OInv, NEW p \in Procs, NEW t \in Tasks,
         job[p][t].pc \in {"catch_save", "catch_certify"},
         Save(t, CatchStatus(p, t), "execution"),
         UNCHANGED <<commit, drawn, receipts, result, effect, reached, sends>>,
         cert'[t] \in {cert[t], CatchStatus(p, t)},
         cert[t] # "none" => cert'[t] = cert[t],
         "not_applied" \notin receipts[t] \/ row[t].status \notin Open,
         Parked(t)' /\ t \in Mutations /\ t \notin window' =>
           effect[t] \notin {"sent", "landed"}
  PROVE  TaskOK(t)'
<1>1. /\ row'[t].status = CatchStatus(p, t) /\ row'[t].error = "execution"
      /\ TaskOK(t) /\ JobKnows(p, t)
  BY SaveSets DEF IInv, OInv
<1>2. WorldOK(t)'
  BY <1>1 DEF TaskOK, WorldOK, Happened
<1>3. BackedOK(t)'
  BY <1>1, CatchStatusTells DEF TaskOK, BackedOK, Committed
<1>4. ErrorOK(t)'
  BY <1>1, CatchStatusTells DEF ErrorOK
<1>5. ASSUME t \in Mutations PROVE ChangeOK(t)'
  <2>1. job[p][t].pc \in CatchStages
    BY DEF CatchStages
  <2>2. /\ job[p][t].ran => t \in drawn /\ row'[t].status = "recovery_required"
        /\ ~job[p][t].ran => ~Maybe(t)
    BY <1>1, <1>5, <2>1, CatchStatusTells DEF JobKnows, KnowsAt, ChangeKnowsAt, IInv, TypeOK, Job
  <2>3. row'[t].status # "recovery_required" => ~job[p][t].ran
    BY <2>2
  <2>4. row'[t].status \notin Open
    BY <1>1, CatchStatusTells DEF Open, Interrupted
  <2>5. Maybe(t)' = Maybe(t)
    BY DEF Maybe
  <2>6. job[p][t].ran \in BOOLEAN
    BY DEF IInv, TypeOK, Job
  <2>. QED
    BY <1>1, <1>5, <2>2, <2>3, <2>4, <2>5, <2>6 DEF TaskOK, ChangeOK, Parked
<1>. QED  BY <1>1, <1>2, <1>3, <1>4, <1>5 DEF TaskOK

LEMMA CatchSaveTells ==
  ASSUME IInv, OInv, NEW p \in Procs, NEW t \in Tasks, CatchSave(p, t)
  PROVE  OInv'
<1>1. /\ TypeOK /\ TaskOK(t) /\ JobKnows(p, t) /\ job[p][t].pc = "catch_save"
      /\ Save(t, CatchStatus(p, t), "execution") /\ GoTo(p, t, "catch_certify")
      /\ "catch_certify" \in Stages
      /\ window' = IF CatchStatus(p, t) = "recovery_required"
                   THEN window \union {t} ELSE window
      /\ UNCHANGED <<commit, drawn, receipts, cert, result, effect, reached, sends>>
  BY DEF IInv, OInv, CatchSave, At, Stages, InFlight, CatchStages
<1>2. /\ row'[t].status = CatchStatus(p, t)
      /\ \A u \in Tasks \ {t} : row'[u] = row[u]
  BY <1>1, SaveSets
<1>3. /\ job'[p][t].pc = "catch_certify" /\ job'[p][t].ran = job[p][t].ran
      /\ \A q \in Procs, u \in Tasks : q # p \/ u # t => job'[q][u] = job[q][u]
  BY <1>1, GoToSets
<1>4. row'[t].status \notin Open
  BY <1>2, CatchStatusTells DEF Open, Interrupted
<1>5. Frame(t) /\ Gentle(p, t) /\ KeyOK'
  BY <1>1, <1>2, <1>4, KeysUntouched DEF Frame, Gentle, Maybe, CommittedTo
<1>6. TaskOK(t)'
  <2>1. Parked(t)' => t \in window'
    BY <1>1, <1>2 DEF Parked
  <2>2. job[p][t].pc \in Holding
    BY <1>1 DEF Holding, InFlight, CatchStages
  <2>3. "not_applied" \notin receipts[t]
    BY <1>1, <2>2 DEF TaskOK, ChangeOK, IInv, HolderOK, Open
  <2>. QED  BY <1>1, <2>1, <2>3, CaughtRow
<1>7. JobKnows(p, t)'
  <2>1. t \in Mutations /\ t \notin window' => ~job[p][t].ran
    BY <1>1, CatchStatusTells
  <2>2. t \in Mutations /\ ~job[p][t].ran => ~Maybe(t)
    BY <1>1 DEF JobKnows, ChangeKnowsAt, CatchStages
  <2>. QED
    BY <1>1, <1>3, <2>1, <2>2 DEF JobKnows, KnowsAt, ChangeKnowsAt, Told, Running,
       Maybe
<1>. QED  BY <1>3, <1>5, <1>6, <1>7, StepKeepsOutcome

\* The late certificate overwrites the row with what its execution held, and
\* that is still true of the effect.
LEMMA CatchCertifyTells ==
  ASSUME IInv, OInv, NEW p \in Procs, NEW t \in Tasks, CatchCertify(p, t)
  PROVE  OInv'
<1>1. /\ TypeOK /\ TaskOK(t) /\ JobKnows(p, t) /\ job[p][t].pc = "catch_certify"
      /\ Save(t, CatchStatus(p, t), "execution") /\ Finish(p, t)
      /\ Certify(t, IF cert[t] = "none" THEN CatchStatus(p, t) ELSE cert[t])
      /\ UNCHANGED <<commit, drawn, receipts, result, world>>
  BY DEF IInv, OInv, CatchCertify, At
<1>2. /\ row'[t].status = CatchStatus(p, t)
      /\ \A u \in Tasks \ {t} : row'[u] = row[u]
  BY <1>1, SaveSets
<1>3. /\ JobKnows(p, t)'
      /\ \A q \in Procs, u \in Tasks : q # p \/ u # t => job'[q][u] = job[q][u]
  BY <1>1, FinishSets
<1>4. /\ cert'[t] = IF cert[t] = "none" THEN CatchStatus(p, t) ELSE cert[t]
      /\ \A u \in Tasks \ {t} : cert'[u] = cert[u]
  BY <1>1 DEF Certify, TypeOK
<1>5. row'[t].status \notin Open /\ row[t].status \notin Open
  BY <1>1, <1>2, CatchStatusTells DEF IInv, DoneOK, Done, Open, Interrupted
<1>6. Frame(t) /\ Gentle(p, t) /\ KeyOK'
  BY <1>1, <1>2, <1>4, <1>5, KeysUntouched DEF Frame, Gentle, Maybe, CommittedTo, world
<1>7. t \in Mutations /\ t \notin window' => effect[t] \notin {"sent", "landed"}
  BY <1>1 DEF JobKnows, ChangeKnowsAt, world
<1>8. TaskOK(t)'
  BY <1>1, <1>4, <1>5, <1>7, CaughtRow DEF world
<1>. QED  BY <1>3, <1>6, <1>8, StepKeepsOutcome

\* Only a row's owner changes.
LEMMA OwnerKeeps ==
  ASSUME IInv, OInv, NEW p \in Procs, NEW t \in Tasks, NEW o,
         row' = [row EXCEPT ![t] = [@ EXCEPT !.owner = o]],
         UNCHANGED <<commit, drawn, receipts, cert, result, world>>,
         JobKnows(p, t)',
         \A q \in Procs, u \in Tasks : q # p \/ u # t => job'[q][u] = job[q][u]
  PROVE  OInv'
<1>1. /\ row'[t].status = row[t].status /\ row'[t].error = row[t].error
      /\ \A u \in Tasks \ {t} : row'[u] = row[u]
  BY DEF IInv, TypeOK, Row
<1>2. Frame(t) /\ Gentle(p, t) /\ KeyOK'
  BY <1>1, KeysUntouched DEF Frame, Gentle, world, Maybe, CommittedTo
<1>3. TaskOK(t)'
  BY <1>1 DEF OInv, TaskOK, WorldOK, BackedOK, ErrorOK, ChangeOK, Maybe, Happened,
     Parked, Committed, CommittedTo, world
<1>. QED  BY <1>2, <1>3, StepKeepsOutcome

LEMMA ClaimTells ==
  ASSUME IInv, OInv, NEW p \in Procs, NEW t \in Tasks,
         Claim(p, t) \/ RecoverFails(p, t)
  PROVE  OInv'
<1>1. CASE Claim(p, t)
  <2>1. /\ TypeOK /\ GoTo(p, t, "recovering") /\ "recovering" \in Stages
        /\ row' = [row EXCEPT ![t] = [@ EXCEPT !.owner = p]]
        /\ UNCHANGED <<commit, drawn, receipts, cert, result, world>>
    BY <1>1 DEF IInv, Claim, Stages, InFlight, RecoverStages
  <2>2. /\ job'[p][t].pc = "recovering"
        /\ \A q \in Procs, u \in Tasks : q # p \/ u # t => job'[q][u] = job[q][u]
    BY <2>1, GoToSets
  <2>3. JobKnows(p, t)'
    BY <2>2 DEF JobKnows, KnowsAt, ChangeKnowsAt, Told, Running, CatchStages
  <2>. QED  BY <2>1, <2>2, <2>3, OwnerKeeps
<1>2. CASE RecoverFails(p, t)
  <2>1. /\ TypeOK /\ Finish(p, t)
        /\ UNCHANGED <<commit, drawn, receipts, cert, result, world>>
    BY <1>2 DEF IInv, RecoverFails
  <2>2. PICK o \in {Nobody, p} : row' = [row EXCEPT ![t] = [@ EXCEPT !.owner = o]]
    BY <1>2 DEF RecoverFails
  <2>. QED  BY <2>1, <2>2, FinishSets, OwnerKeeps
<1>. QED  BY <1>1, <1>2

\* A task is settled as done when its effect happened, and nobody holds it.
LEMMA ResolveTells ==
  ASSUME IInv, OInv, NEW p \in Procs, NEW t \in Tasks, ResolveAsVerified(t),
         Finish(p, t), UNCHANGED world, t \in reached,
         \A q \in Procs \ {p} : job[q][t].pc \notin Holding
  PROVE  OInv'
<1>1. /\ TypeOK /\ TaskOK(t) /\ CommitKey(t) /\ drawn' = drawn \union {t}
      /\ AddReceipt(t, "success") /\ Save(t, "verified_success", "none")
      /\ Certify(t, "verified_success") /\ result' = result
  BY DEF IInv, OInv, ResolveAsVerified
<1>2. /\ row'[t].status = "verified_success" /\ row'[t].error = "none"
      /\ \A u \in Tasks \ {t} : row'[u] = row[u]
  BY <1>1, SaveSets
<1>3. /\ JobKnows(p, t)'
      /\ \A q \in Procs, u \in Tasks : q # p \/ u # t => job'[q][u] = job[q][u]
  BY <1>1, FinishSets
<1>4. /\ receipts'[t] = receipts[t] \union {"success"} /\ cert'[t] = "verified_success"
      /\ \A u \in Tasks \ {t} : receipts'[u] = receipts[u] /\ cert'[u] = cert[u]
  BY <1>1 DEF AddReceipt, Certify, TypeOK
<1>5. Frame(t)
  BY <1>1, <1>2, <1>4, CommitKeyStep DEF Frame, world
<1>6. Gentle(p, t)
  BY <1>1, <1>2 DEF Gentle, world, Maybe, Open, Interrupted
<1>7. KeyOK'
  <2>1. \A k \in Keys : commit'[k] # NoTask => commit'[k] \in reached
    BY <1>1, CommitKeyStep DEF OInv, KeyOK
  <2>. QED  BY <2>1 DEF KeyOK, world
<1>8. TaskOK(t)'
  <2>1. WorldOK(t)'
    BY <1>1 DEF TaskOK, WorldOK, Happened, world
  <2>2. BackedOK(t)'
    BY <1>1, <1>2, <1>4, CommitKeyStep DEF BackedOK, world
  <2>3. ErrorOK(t)'
    BY <1>2 DEF ErrorOK
  <2>4. t \in Mutations => ChangeOK(t)'
    BY <1>1, <1>2, <1>4 DEF TaskOK, WorldOK, ChangeOK, Maybe, Happened, Parked, world
  <2>. QED  BY <1>1, <1>4, <2>1, <2>2, <2>3, <2>4 DEF TaskOK
<1>. QED  BY <1>3, <1>5, <1>6, <1>7, <1>8, StepKeepsOutcome

\* A key committed to a task says its effect happened.
LEMMA CommittedReached ==
  ASSUME IInv, OInv, NEW t \in Tasks, CommittedTo(t)
  PROVE  t \in reached
BY TaskAssumption DEF OInv, KeyOK, CommittedTo

LEMMA RecoverResolvesTells ==
  ASSUME IInv, OInv, NEW p \in Procs, NEW t \in Tasks,
         RecoverObserved(p, t) \/ RecoverCommitted(p, t)
  PROVE  OInv'
<1>1. /\ ResolveAsVerified(t) /\ Finish(p, t) /\ UNCHANGED world
      /\ job[p][t].pc \in Holding
  BY DEF RecoverObserved, RecoverCommitted, At, Holding, InFlight, RecoverStages
<1>2. t \in reached
  <2>1. CASE RecoverCommitted(p, t)
    BY <2>1, CommittedReached DEF RecoverCommitted, CommitAnswers
  <2>2. CASE RecoverObserved(p, t)
    <3>1. row[t].status = "verifying" /\ result[t] # "failure"
      BY <2>2 DEF RecoverObserved, ReportedNoFailure
    <3>2. result[t] = "success"
      BY <3>1 DEF OInv, TaskOK, ErrorOK, IInv, TypeOK
    <3>. QED  BY <3>2 DEF OInv, TaskOK, BackedOK
  <2>. QED  BY <2>1, <2>2
<1>. QED  BY <1>1, <1>2, Alone, ResolveTells

LEMMA RecoverSaveTells ==
  ASSUME IInv, OInv, NEW p \in Procs, NEW t \in Tasks, RecoverSave(p, t)
  PROVE  OInv'
<1>1. /\ TypeOK /\ TaskOK(t) /\ JobKnows(p, t) /\ job[p][t].pc = "recover_save"
      /\ job[p][t].pc \in Holding /\ "recover_ask" \in Stages
      /\ Save(t, RecoveredStatus(t), "interrupted")
      /\ window' = IF t \in Mutations THEN window \union {t} ELSE window
      /\ GoTo(p, t, "recover_ask") \/ Finish(p, t)
      /\ UNCHANGED <<commit, drawn, receipts, cert, result, effect, reached, sends>>
  BY DEF IInv, OInv, RecoverSave, At, Holding, Stages, InFlight, RecoverStages
<1>2. /\ row'[t].status = RecoveredStatus(t) /\ row'[t].error = "interrupted"
      /\ \A u \in Tasks \ {t} : row'[u] = row[u]
  BY <1>1, SaveSets
<1>3. /\ JobKnows(p, t)'
      /\ \A q \in Procs, u \in Tasks : q # p \/ u # t => job'[q][u] = job[q][u]
  <2>1. CASE Finish(p, t)
    BY <1>1, <2>1, FinishSets
  <2>2. CASE GoTo(p, t, "recover_ask")
    <3>1. /\ job'[p][t].pc = "recover_ask"
          /\ \A q \in Procs, u \in Tasks : q # p \/ u # t => job'[q][u] = job[q][u]
      BY <1>1, <2>2, GoToSets
    <3>. QED
      BY <3>1 DEF JobKnows, KnowsAt, ChangeKnowsAt, Told, Running, CatchStages
  <2>. QED  BY <1>1, <2>1, <2>2
<1>4. row[t].status \in Interrupted
  BY <1>1 DEF IInv, HolderOK
<1>5. Frame(t) /\ Gentle(p, t) /\ KeyOK'
  BY <1>1, <1>2, <1>4, KeysUntouched DEF Frame, Gentle, Maybe, CommittedTo, Open
<1>6. TaskOK(t)'
  <2>1. WorldOK(t)' /\ BackedOK(t)'
    BY <1>1, <1>2 DEF TaskOK, WorldOK, BackedOK, Happened, Committed, RecoveredStatus
  <2>2. ErrorOK(t)'
    BY <1>1, <1>2 DEF JobKnows, KnowsAt, ErrorOK, RecoveredStatus, CommittedTo
  <2>3. t \in Mutations => ChangeOK(t)'
    BY <1>1, <1>2, <1>4 DEF JobKnows, KnowsAt, TaskOK, ChangeOK, RecoveredStatus,
       Maybe, Parked, Open, Interrupted
  <2>. QED  BY <1>1, <2>1, <2>2, <2>3 DEF TaskOK
<1>. QED  BY <1>3, <1>5, <1>6, StepKeepsOutcome

\* A parked task is parked again.
LEMMA ParkTells ==
  ASSUME IInv, OInv, NEW p \in Procs, NEW t \in Tasks, Parked(t),
         NEW error \in {"unanswered", "settling"},
         Save(t, "recovery_required", error), Finish(p, t),
         UNCHANGED <<commit, drawn, receipts, cert, result, world>>
  PROVE  OInv'
<1>1. TypeOK /\ TaskOK(t) /\ row[t].status = "recovery_required"
  BY DEF IInv, OInv, Parked
<1>2. /\ row'[t].status = "recovery_required" /\ row'[t].error = error
      /\ \A u \in Tasks \ {t} : row'[u] = row[u]
  BY <1>1, SaveSets
<1>3. /\ JobKnows(p, t)'
      /\ \A q \in Procs, u \in Tasks : q # p \/ u # t => job'[q][u] = job[q][u]
  BY <1>1, FinishSets
<1>4. Frame(t) /\ Gentle(p, t) /\ KeyOK'
  BY <1>1, <1>2, KeysUntouched DEF Frame, Gentle, Maybe, CommittedTo, Open, world
<1>5. TaskOK(t)'
  <2>1. WorldOK(t)' /\ BackedOK(t)' /\ ErrorOK(t)'
    BY <1>1, <1>2 DEF TaskOK, WorldOK, BackedOK, ErrorOK, Happened, Committed, world
  <2>2. t \in Mutations => ChangeOK(t)'
    BY <1>1, <1>2 DEF TaskOK, ChangeOK, Maybe, Parked, Open, Interrupted, world
  <2>. QED  BY <1>1, <2>1, <2>2 DEF TaskOK
<1>. QED  BY <1>3, <1>4, <1>5, StepKeepsOutcome

LEMMA ReconcileStoredTells ==
  ASSUME IInv, OInv, NEW p \in Procs, NEW t \in Tasks,
         ReconcileCommitted(p, t) \/ ReconcileUndeclared(p, t)
  PROVE  OInv'
<1>1. CASE ReconcileCommitted(p, t)
  BY <1>1, ParkedFacts, CommittedReached, ResolveTells DEF ReconcileCommitted
<1>2. CASE ReconcileUndeclared(p, t)
  BY <1>2, ParkTells DEF ReconcileUndeclared
<1>. QED  BY <1>1, <1>2

\* The far end said it did not happen, and it cannot happen any more.
LEMMA RefuteTells ==
  ASSUME IInv, OInv, NEW p \in Procs, NEW t \in Mutations, Parked(t), ~Maybe(t),
         Save(t, "failed", "not_applied"), AddReceipt(t, "not_applied"),
         Certify(t, "failed"), Finish(p, t),
         UNCHANGED <<commit, drawn, result, world>>
  PROVE  OInv'
<1>1. t \in Tasks
  BY TaskAssumption
<1>2. /\ TypeOK /\ TaskOK(t) /\ row[t].status = "recovery_required"
  BY <1>1 DEF IInv, OInv, Parked
<1>3. /\ row'[t].status = "failed" /\ row'[t].error = "not_applied"
      /\ \A u \in Tasks \ {t} : row'[u] = row[u]
  BY <1>1, <1>2, SaveSets
<1>4. /\ JobKnows(p, t)'
      /\ \A q \in Procs, u \in Tasks : q # p \/ u # t => job'[q][u] = job[q][u]
  BY <1>1, <1>2, FinishSets
<1>5. /\ receipts'[t] = receipts[t] \union {"not_applied"} /\ cert'[t] = "failed"
      /\ \A u \in Tasks \ {t} : receipts'[u] = receipts[u] /\ cert'[u] = cert[u]
  BY <1>1, <1>2 DEF AddReceipt, Certify, TypeOK
<1>6. Frame(t) /\ Gentle(p, t) /\ KeyOK'
  BY <1>2, <1>3, <1>5, KeysUntouched DEF Frame, Gentle, Maybe, CommittedTo, Open,
     Interrupted, world
<1>7. TaskOK(t)'
  <2>1. WorldOK(t)' /\ BackedOK(t)' /\ ErrorOK(t)'
    BY <1>2, <1>3, <1>5 DEF TaskOK, WorldOK, BackedOK, ErrorOK, Happened, world
  <2>2. ChangeOK(t)'
    BY <1>2, <1>3, <1>5 DEF TaskOK, ChangeOK, Maybe, Parked, Open, Interrupted, world
  <2>. QED  BY <2>1, <2>2 DEF TaskOK
<1>. QED  BY <1>1, <1>4, <1>6, <1>7, StepKeepsOutcome

LEMMA ReconcileAnswerTells ==
  ASSUME IInv, OInv, NEW p \in Procs, NEW t \in Tasks, ReconcileAnswer(p, t)
  PROVE  OInv'
<1>1. PICK note \in {"yes", "no", "no_yet", "unclear"} :
        Answer(p, t, note) /\ note \in {job[p][t].note, "unclear"}
  BY DEF IInv, JobOK, JobOKAt, ReconcileAnswer, At
<1>2. /\ Finish(p, t) /\ UNCHANGED world /\ At(p, t, "asking") /\ JobKnows(p, t)
  BY <1>1 DEF Answer, ReconcileAnswer, OInv
<1>3. /\ t \in Mutations /\ note = "yes" => t \in reached
      /\ note = "no" => ~Maybe(t)
  BY <1>1, <1>2, TaskAssumption DEF At, JobKnows, KnowsAt
<1>4. t \in Mutations
  BY <1>2, TaskAssumption DEF At, JobKnows, KnowsAt
<1>5. CASE ~Parked(t)
  BY <1>1, <1>2, <1>5, FinishTells DEF Answer, StillParked
<1>6. CASE Parked(t)
  <2>1. CASE note = "yes"
    BY <1>1, <1>2, <1>3, <1>4, <1>6, <2>1, ParkedFacts, ResolveTells DEF Answer, StillParked
  <2>2. CASE note \in {"unclear", "no_yet"}
    <3>1. PICK error \in {"unanswered", "settling"} :
            /\ Save(t, "recovery_required", error)
            /\ UNCHANGED <<commit, drawn, receipts, cert, result>>
      BY <1>1, <1>6, <2>2 DEF Answer, StillParked
    <3>. QED  BY <1>2, <1>6, <3>1, ParkTells
  <2>3. CASE note = "no"
    BY <1>1, <1>2, <1>3, <1>4, <1>6, <2>3, RefuteTells DEF Answer, StillParked
  <2>. QED  BY <2>1, <2>2, <2>3
<1>. QED  BY <1>5, <1>6

-----------------------------------------------------------------------------
(* Steps of no job.                                                        *)

\* A step outside the jobs is right about its own task's jobs, too.
LEMMA OutsideKeeps ==
  ASSUME OInv, NEW t \in Tasks, Frame(t), job' = job,
         TaskOK(t)', KeyOK', \A q \in Procs : JobKnows(q, t)'
  PROVE  OInv'
<1>1. ASSUME NEW u \in Tasks PROVE TaskOK(u)'
  BY ElsewhereKept
<1>2. ASSUME NEW q \in Procs, NEW u \in Tasks PROVE JobKnows(q, u)'
  BY ElsewhereKept
<1>. QED  BY <1>1, <1>2 DEF OInv

LEMMA LeaveTells ==
  ASSUME IInv, OInv, NEW t \in Tasks,
         PreventDuplicate(t) \/ Block(t) \/ Withdraw(t)
  PROVE  OInv'
<1>1. PICK status \in {"cancelled", "policy_blocked"}, error \in {"duplicate", row[t].error},
           c \in {cert[t], "cancelled", "policy_blocked"} :
        /\ row[t].status = "planned" /\ Save(t, status, error) /\ Certify(t, c)
        /\ error = "duplicate" => status = "cancelled" \/ row[t].error = "duplicate"
        /\ UNCHANGED <<commit, drawn, receipts, result, job, world>>
  BY DEF PreventDuplicate, Block, Withdraw, Leave, Unstarted
<1>2. TypeOK /\ TaskOK(t) /\ ~CommittedTo(t) /\ row[t].error \notin {"duplicate", "not_applied"}
  BY <1>1 DEF IInv, OInv, TaskOK, ErrorOK
<1>3. /\ row'[t].status = status /\ row'[t].error = error
      /\ \A u \in Tasks \ {t} : row'[u] = row[u]
  BY <1>1, <1>2, SaveSets
<1>4. cert'[t] = c /\ \A u \in Tasks \ {t} : cert'[u] = cert[u]
  BY <1>1, <1>2 DEF Certify, TypeOK
<1>5. Frame(t) /\ KeyOK'
  BY <1>1, <1>3, <1>4, KeysUntouched DEF Frame, CommittedTo, world
<1>6. t \in Mutations => ~Maybe(t)
  BY <1>1, Unsent
<1>7. TaskOK(t)'
  <2>1. WorldOK(t)' /\ BackedOK(t)'
    BY <1>1, <1>2, <1>3, <1>4 DEF TaskOK, WorldOK, BackedOK, Happened, Committed, world
  <2>2. ErrorOK(t)'
    BY <1>1, <1>2, <1>3 DEF ErrorOK, CommittedTo
  <2>3. t \in Mutations => ChangeOK(t)'
    BY <1>1, <1>2, <1>3, <1>6 DEF TaskOK, ChangeOK, Maybe, Parked, Open, world
  <2>. QED  BY <1>1, <1>2, <2>1, <2>2, <2>3 DEF TaskOK
<1>8. ASSUME NEW q \in Procs PROVE JobKnows(q, t)'
  <2>1. row'[t].status \notin Open
    BY <1>3 DEF Open, Interrupted
  <2>2. JobKnows(q, t)
    BY DEF OInv
  <2>. QED
    BY <1>1, <2>1, <2>2 DEF JobKnows, KnowsAt, ChangeKnowsAt, Maybe, CommittedTo, world
<1>. QED  BY <1>1, <1>5, <1>7, <1>8, OutsideKeeps

LEMMA FarEndTells ==
  ASSUME IInv, OInv, NEW t \in Tasks, FarEnd(t)
  PROVE  OInv'
<1>1. /\ UNCHANGED <<stored, job, sends>> /\ TypeOK /\ TaskOK(t)
      /\ \/ effect[t] = "sent" /\ effect' = [effect EXCEPT ![t] = "landed"]
            /\ reached' = reached \union {t} /\ window' = window
         \/ /\ effect[t] = "sent" /\ effect' = [effect EXCEPT ![t] = "lost"]
            /\ UNCHANGED <<reached, window>>
         \/ /\ effect[t] = "landed" /\ effect' = [effect EXCEPT ![t] = "visible"]
            /\ UNCHANGED <<reached, window>>
         \/ /\ effect[t] \notin {"sent", "landed"} /\ window' = window \ {t}
            /\ UNCHANGED <<effect, reached>>
  BY DEF IInv, OInv, FarEnd, EffectLands, EffectLost, EffectShows, WindowEnds
<1>2. \A u \in Tasks \ {t} : effect'[u] = effect[u]
  BY <1>1 DEF TypeOK
<1>3. Frame(t) /\ KeyOK'
  <2>1. Frame(t)
    BY <1>1, <1>2 DEF Frame, CommittedTo, stored
  <2>2. commit' = commit /\ reached \subseteq reached'
    BY <1>1 DEF stored
  <2>. QED  BY <2>1, <2>2, KeysUntouched
<1>4. \/ effect[t] = "sent" /\ effect'[t] = "landed" /\ t \in reached'
         /\ (t \in window' <=> t \in window)
      \/ effect[t] = "sent" /\ effect'[t] = "lost" /\ (t \in reached' <=> t \in reached)
         /\ (t \in window' <=> t \in window)
      \/ effect[t] = "landed" /\ effect'[t] = "visible"
         /\ (t \in reached' <=> t \in reached) /\ (t \in window' <=> t \in window)
      \/ effect[t] \notin {"sent", "landed"} /\ effect'[t] = effect[t]
         /\ (t \in reached' <=> t \in reached)
  BY <1>1 DEF TypeOK
<1>5. TaskOK(t)'
  <2>1. WorldOK(t)'
    BY <1>1, <1>4 DEF TaskOK, WorldOK, Happened
  <2>2. BackedOK(t)' /\ ErrorOK(t)'
    BY <1>1, <1>4 DEF TaskOK, BackedOK, ErrorOK, Committed, CommittedTo, stored
  <2>3. t \in Mutations => ChangeOK(t)'
    BY <1>1, <1>4 DEF TaskOK, ChangeOK, Maybe, Parked, stored
  <2>. QED  BY <1>1, <2>1, <2>2, <2>3 DEF TaskOK, stored
<1>6. ASSUME NEW q \in Procs PROVE JobKnows(q, t)'
  <2>1. JobKnows(q, t)
    BY DEF OInv
  <2>. QED
    BY <1>1, <1>4, <2>1 DEF JobKnows, KnowsAt, ChangeKnowsAt, Maybe, CommittedTo, stored
<1>. QED  BY <1>1, <1>3, <1>5, <1>6, OutsideKeeps

LEMMA CrashTells ==
  ASSUME IInv, OInv, NEW p \in Procs, Crash(p)
  PROVE  OInv'
<1>1. /\ job' = [job EXCEPT ![p] = [t \in Tasks |-> Idle]] /\ TypeOK
      /\ row' = [t \in Tasks |-> IF row[t].owner = p
                                   THEN [row[t] EXCEPT !.owner = Gone] ELSE row[t]]
      /\ UNCHANGED <<commit, drawn, receipts, cert, result, world>>
  BY DEF IInv, Crash
<1>2. \A t \in Tasks : row'[t].status = row[t].status /\ row'[t].error = row[t].error
  BY <1>1 DEF TypeOK, Row
<1>3. ASSUME NEW t \in Tasks PROVE TaskOK(t)'
  BY <1>1, <1>2 DEF OInv, TaskOK, WorldOK, BackedOK, ErrorOK, ChangeOK, Maybe,
     Happened, Parked, Committed, CommittedTo, world
<1>4. ASSUME NEW q \in Procs, NEW t \in Tasks PROVE JobKnows(q, t)'
  <2>1. CASE q = p
    <3>1. job'[q][t] = Idle
      BY <1>1, <2>1 DEF TypeOK
    <3>. QED
      BY <3>1 DEF JobKnows, KnowsAt, ChangeKnowsAt, Idle, Told, Running, CatchStages
  <2>2. CASE q # p
    <3>1. job'[q][t] = job[q][t] /\ JobKnows(q, t)
      BY <1>1, <2>2 DEF TypeOK, OInv
    <3>. QED
      BY <1>1, <1>2, <3>1 DEF JobKnows, KnowsAt, ChangeKnowsAt, Maybe, CommittedTo, world
  <2>. QED  BY <2>1, <2>2
<1>5. KeyOK'
  BY <1>1, KeysUntouched DEF world
<1>. QED  BY <1>3, <1>4, <1>5 DEF OInv

LEMMA StutterTells ==
  ASSUME OInv, UNCHANGED vars
  PROVE  OInv'
<1>1. UNCHANGED <<stored, job, world>>
  BY DEF vars
<1>2. ASSUME NEW t \in Tasks PROVE TaskOK(t)'
  BY <1>1 DEF OInv, TaskOK, WorldOK, BackedOK, ErrorOK, ChangeOK, Maybe, Happened,
     Parked, Committed, CommittedTo, stored, world
<1>3. ASSUME NEW q \in Procs, NEW t \in Tasks PROVE JobKnows(q, t)'
  BY <1>1 DEF OInv, JobKnows, KnowsAt, ChangeKnowsAt, Maybe, CommittedTo, stored, world
<1>4. KeyOK'
  BY <1>1, KeysUntouched DEF stored, world
<1>. QED  BY <1>2, <1>3, <1>4 DEF OInv

-----------------------------------------------------------------------------
(* The theorems.                                                           *)

\* Before any task has started, nothing is on record and nothing has happened.
LEMMA InitOInv == Init => OInv
<1>. SUFFICES ASSUME Init PROVE OInv
  OBVIOUS
<1>1. KeyOK
  BY DEF Init, KeyOK
<1>2. ASSUME NEW t \in Tasks PROVE TaskOK(t)
  <2>1. ~CommittedTo(t)
    BY <1>2, TaskAssumption DEF Init, CommittedTo
  <2>2. /\ row[t].status = "planned" /\ row[t].error = "none" /\ cert[t] = "none"
        /\ result[t] = "none" /\ receipts[t] = {} /\ effect[t] = "none"
        /\ sends[t] = 0 /\ t \notin reached
    BY <1>2 DEF Init
  <2>. QED
    BY <2>1, <2>2 DEF TaskOK, WorldOK, BackedOK, ErrorOK, ChangeOK, Maybe, Happened, Parked
<1>3. ASSUME NEW p \in Procs, NEW t \in Tasks PROVE JobKnows(p, t)
  <2>1. job[p][t] = Idle
    BY <1>3 DEF Init
  <2>. QED
    BY <2>1 DEF JobKnows, KnowsAt, ChangeKnowsAt, Idle, Told, Running, CatchStages
<1>. QED  BY <1>1, <1>2, <1>3 DEF OInv

\* Every step of execute, of recovery, of a reconcile, of the far end, every
\* failed write and every crash keeps what is on record true of the effects.
THEOREM NextOInv == IInv /\ OInv /\ [Next]_vars => OInv'
<1>. SUFFICES ASSUME IInv, OInv, [Next]_vars PROVE OInv'
  OBVIOUS
<1>1. ASSUME NEW p \in Procs, NEW t \in Tasks, Execute(p, t) PROVE OInv'
  BY <1>1, StartWriteTells, BeforeTheCallTells, AttemptTells, ReturnsTells,
     ThrowsTells, SaveResultTells, VerifyTells, ConcludeTells, CatchCommitTells,
     AddingTells, CatchSaveTells, CatchCertifyTells
  DEF Execute
<1>2. ASSUME NEW p \in Procs, NEW t \in Tasks, Recover(p, t) PROVE OInv'
  BY <1>2, ClaimTells, RecoverResolvesTells, AddingTells, RecoverSaveTells
  DEF Recover
<1>3. ASSUME NEW p \in Procs, NEW t \in Tasks, Reconcile(p, t) PROVE OInv'
  BY <1>3, ReconcileStoredTells, ReconcileAskTells, ReconcileAnswerTells
  DEF Reconcile
<1>4. ASSUME NEW p \in Procs, NEW t \in Tasks, WriteFails(p, t) PROVE OInv'
  BY <1>4, FinishTells DEF WriteFails
<1>5. ASSUME NEW p \in Procs, NEW t \in Tasks, Fails(p, t) PROVE OInv'
  BY <1>4, <1>5, BeforeTheCallTells, ConcludeFailsTells, ClaimTells
  DEF Fails
<1>6. CASE Next
  BY <1>1, <1>2, <1>3, <1>5, <1>6, StartCheckTells, AbortTells, LeaveTells,
     FarEndTells, CrashTells
  DEF Next
<1>7. CASE UNCHANGED vars
  BY <1>7, StutterTells
<1>. QED  BY <1>6, <1>7

\* Every reachable state satisfies both inductive invariants.
THEOREM OutcomeInvariance == Spec => [](IInv /\ OInv)
BY InitIInv, NextIInv, InitOInv, NextOInv, PTL DEF Spec

\* What is recorded of a change is what became of it (execute's catch, recovery
\* and settleParked): failed, cancelled or out of budget only when it did not
\* happen, verified_success only when it did and its receipt, draw and key are
\* stored, and never a receipt of success beside one that denies it.
THEOREM OutcomesTrue == Spec => []OutcomesAreTrue
<1>1. ASSUME IInv, OInv PROVE UnknownIsNeverAFailure
  <2>. SUFFICES ASSUME NEW t \in Mutations,
         \/ row[t].status \in {"cancelled", "budget_exhausted"} /\ row[t].error # "duplicate"
         \/ row[t].status = "failed" /\ (result[t] # "failure" \/ row[t].error = "not_applied")
                PROVE  t \notin reached
    BY DEF UnknownIsNeverAFailure
  <2>1. TaskOK(t)
    BY <1>1, TaskAssumption DEF OInv
  <2>. QED  BY <2>1 DEF TaskOK, ChangeOK, WorldOK, Maybe, Happened
<1>2. ASSUME IInv, OInv PROVE SuccessIsBacked
  BY <1>2 DEF OInv, KeyOK, TaskOK, BackedOK, SuccessIsBacked
<1>3. ASSUME IInv, OInv PROVE NoContradictingReceipts
  <2>. SUFFICES ASSUME NEW t \in Tasks, "success" \in receipts[t],
                       "not_applied" \in receipts[t]
                PROVE  FALSE
    BY DEF NoContradictingReceipts
  <2>1. TaskOK(t) /\ t \in Mutations
    BY <1>3 DEF OInv, TaskOK
  <2>. QED  BY <2>1 DEF TaskOK, BackedOK, ChangeOK, WorldOK, Maybe, Happened
<1>4. IInv /\ OInv => OutcomesAreTrue
  BY <1>1, <1>2, <1>3 DEF OutcomesAreTrue
<1>. QED  BY <1>4, OutcomeInvariance, PTL

\* A change that took effect has been drawn from its grant by the time its task is
\* anything but running or verifying: the catch and the recovery draw before they
\* write the row.
THEOREM ReachedIsCharged == Spec => []ChargedIfReached
<1>1. ASSUME IInv, OInv, NEW t \in Mutations, t \in reached,
             row[t].status \notin Interrupted
      PROVE  t \in drawn
  <2>1. TaskOK(t)
    BY <1>1, TaskAssumption DEF OInv
  <2>. QED  BY <1>1, <2>1 DEF TaskOK, ChangeOK, WorldOK, Maybe, Happened
<1>2. IInv /\ OInv => ChargedIfReached
  BY <1>1 DEF ChargedIfReached
<1>. QED  BY <1>2, OutcomeInvariance, PTL

\* A key names an effect that happened, a task reported done has one behind its
\* key, and no task is cancelled as a duplicate of its own commit, however many
\* tasks are planned under one key (preventDuplicate, commitIdempotency).
THEOREM KeysAreKept == Spec => []KeysHold
<1>1. IInv /\ OInv => SuccessIsBacked /\ NoSelfDuplicate
  BY DEF OInv, KeyOK, TaskOK, BackedOK, ErrorOK, SuccessIsBacked, NoSelfDuplicate
<1>. QED  BY <1>1, OutcomeInvariance, PTL DEF KeysHold

-----------------------------------------------------------------------------
(* TaskController implements EffectLedger.                                 *)

\* Steps that send nothing, add no draw, key, receipt or certificate.
LEMMA LedgerStands ==
  ASSUME UNCHANGED <<commit, drawn, receipts, cert, reached, sends>>
  PROVE  UNCHANGED Ledger!vars
BY DEF Ledger!vars, CommittedTo

\* What one task's step records: a draw, its key, its certificate.
LEMMA LedgerRecords ==
  ASSUME IInv, OInv, OInv', NEW t \in Tasks, UNCHANGED <<sends, reached>>,
         drawn' \in {drawn, drawn \union {t}},
         commit' = commit \/ CommitKey(t),
         NEW kind \in {"success", "error"}, receipts' = receipts \/ AddReceipt(t, kind),
         NEW c, Certify(t, c),
         t \in Mutations /\ cert[t] = "verified_success" => c = "verified_success"
  PROVE  [Ledger!Next]_Ledger!vars
<1> DEFINE Drawn == drawn \intersect Mutations
           Keyed == {u \in Mutations : CommittedTo(u)}
           Sure == {u \in Mutations : cert[u] = "verified_success"}
           Denied == {u \in Mutations : "not_applied" \in receipts[u]}
<1>1. cert'[t] = c /\ \A u \in Tasks \ {t} : cert'[u] = cert[u]
  BY DEF Certify, IInv, TypeOK
<1>2. Denied' = Denied
  <2>1. \A u \in Tasks : "not_applied" \in receipts'[u] <=> "not_applied" \in receipts[u]
    BY DEF AddReceipt, IInv, TypeOK
  <2>. QED  BY <2>1, TaskAssumption
<1>3. /\ \A k \in Keys : commit[k] # NoTask => commit'[k] = commit[k]
      /\ \A u \in Tasks \ {t} : CommittedTo(u)' => CommittedTo(u)
  BY CommitKeyStep DEF IInv, CommittedTo
<1>4. \A u \in Tasks : CommittedTo(u) => CommittedTo(u)'
  BY <1>3, TaskAssumption DEF CommittedTo
<1>5. CASE t \in Mutations
  <2>1. Drawn' = Drawn \/ Drawn' = Drawn \union {t}
    BY <1>5
  <2>2. /\ cert'[t] = "verified_success" => t \in reached /\ t \in drawn'
        /\ CommittedTo(t)' => t \in reached
    <3>1. TaskOK(t)' /\ KeyOK'
      BY DEF OInv
    <3>2. CommittedTo(t)' => t \in reached'
      BY <3>1, TaskAssumption DEF KeyOK, CommittedTo
    <3>. QED  BY <3>1, <3>2 DEF TaskOK, BackedOK
  <2>3. \/ Sure' = Sure
        \/ cert'[t] = "verified_success" /\ Sure' = Sure \union {t}
    BY <1>1, <1>5, TaskAssumption
  <2>4. \/ Keyed' = Keyed
        \/ CommittedTo(t)' /\ Keyed' = Keyed \union {t}
    BY <1>3, <1>4, <1>5, TaskAssumption
  <2>5. CommittedTo(t)' => \A d \in Keyed \ {t} : KeyOf[d] # KeyOf[t]
    BY <1>4, TaskAssumption DEF CommittedTo
  <2>6. CommittedTo(t)' => KeyOf[t] # NoKey
    BY DEF CommittedTo
  <2>7. Ledger!Charges(t)
    BY <2>1 DEF Ledger!Charges
  <2>8. Ledger!Commits(t)
    BY <1>5, <2>2, <2>4, <2>5, <2>6 DEF Ledger!Commits, Ledger!KeyFree
  <2>9. Ledger!Confirms(t)
    BY <1>5, <2>2, <2>3 DEF Ledger!Confirms
  <2>10. Ledger!Record(t)
    BY <1>2, <2>7, <2>8, <2>9 DEF Ledger!Record
  <2>. QED  BY <1>5, <2>10 DEF Ledger!Next
<1>6. CASE t \notin Mutations
  <2>1. Drawn' = Drawn
    BY <1>6
  <2>2. Sure' = Sure
    BY <1>1, <1>6, TaskAssumption
  <2>3. Keyed' = Keyed
    BY <1>3, <1>4, <1>6, TaskAssumption
  <2>. QED  BY <1>2, <2>1, <2>2, <2>3 DEF Ledger!vars
<1>. QED  BY <1>5, <1>6

LEMMA ExecuteRecords ==
  ASSUME IInv, OInv, OInv', NEW p \in Procs, NEW t \in Tasks, Execute(p, t)
  PROVE  [Ledger!Next]_Ledger!vars
<1>1. TypeOK /\ Certify(t, cert[t]) = (cert' = cert)
  BY DEF IInv, TypeOK, Certify
<1>2. CASE StartWrite(p, t) \/ BreakerRefuses(p, t) \/ SaveResult(p, t) \/ CatchSave(p, t)
           \/ (\E how \in {"success", "failure"} : Returns(p, t, how))
           \/ (\E unknown \in BOOLEAN : Throws(p, t, unknown))
           \/ (\E v \in {"verified", "partial", "failure"} : Verify(p, t, v))
  BY <1>2, LedgerStands DEF StartWrite, BreakerRefuses, SaveResult, CatchSave, Returns,
     Throws, Verify, stored, world
<1>3. CASE Attempt(p, t)
  <2>1. UNCHANGED <<commit, drawn, receipts, cert, reached>> /\ At(p, t, "attempting")
    BY <1>3 DEF Attempt, stored
  <2>2. CASE UNCHANGED sends
    BY <2>1, <2>2, LedgerStands
  <2>3. CASE sends' = [sends EXCEPT ![t] = @ + 1] /\ t \notin Mutations
    <3>1. \A u \in Mutations : sends'[u] = sends[u]
      BY <2>3, TaskAssumption DEF IInv, TypeOK
    <3>. QED  BY <2>1, <3>1 DEF Ledger!vars, CommittedTo
  <2>4. CASE sends' = [sends EXCEPT ![t] = @ + 1] /\ t \in Mutations
    <3>1. sends[t] = 0 /\ row[t].status \in Interrupted
      BY <2>1, <2>4 DEF IInv, UnsentOK, HolderOK, At, Holding, InFlight, Running
    <3>2. sends'[t] = 1 /\ \A u \in Tasks \ {t} : sends'[u] = sends[u]
      BY <2>4, <3>1 DEF IInv, TypeOK
    <3>3. "not_applied" \notin receipts[t]
      BY <2>4, <3>1 DEF OInv, TaskOK, ChangeOK, Open
    <3>4. Ledger!Send(t)
      BY <2>1, <2>4, <3>1, <3>2, <3>3, TaskAssumption DEF Ledger!Send, CommittedTo
    <3>. QED  BY <2>4, <3>4 DEF Ledger!Next
  <2>. QED  BY <1>3, <2>2, <2>3, <2>4 DEF Attempt
<1>4. CASE Conclude(p, t)
  <2>1. PICK c : (cert[t] # "none" => c = cert[t]) /\ Certify(t, c)
    BY <1>4 DEF Conclude
  <2>. QED  BY <1>4, <2>1, LedgerRecords DEF Conclude, world
<1>5. CASE CatchCommit(p, t) \/ CatchDraw(p, t) \/ CatchReceipt(p, t)
  BY <1>1, <1>5, LedgerRecords DEF CatchCommit, CatchDraw, CatchReceipt, world
<1>6. CASE CatchCertify(p, t)
  <2>1. PICK c : (cert[t] # "none" => c = cert[t]) /\ Certify(t, c)
    BY <1>6 DEF CatchCertify
  <2>. QED  BY <1>6, <2>1, LedgerRecords DEF CatchCertify, world
<1>. QED  BY <1>2, <1>3, <1>4, <1>5, <1>6 DEF Execute

LEMMA ResolveRecords ==
  ASSUME IInv, OInv, OInv', NEW t \in Tasks, ResolveAsVerified(t), UNCHANGED world
  PROVE  [Ledger!Next]_Ledger!vars
BY LedgerRecords DEF ResolveAsVerified, world

LEMMA RecoverRecords ==
  ASSUME IInv, OInv, OInv', NEW p \in Procs, NEW t \in Tasks, Recover(p, t)
  PROVE  [Ledger!Next]_Ledger!vars
<1>1. Certify(t, cert[t]) = (cert' = cert)
  BY DEF IInv, TypeOK, Certify
<1>2. CASE RecoverObserved(p, t) \/ RecoverCommitted(p, t)
  BY <1>2, ResolveRecords DEF RecoverObserved, RecoverCommitted
<1>3. CASE RecoverDraw(p, t)
  BY <1>1, <1>3, LedgerRecords DEF RecoverDraw, world
<1>. QED
  BY <1>2, <1>3, LedgerStands DEF Recover, Claim, RecoverSave, world

LEMMA ReconcileRecords ==
  ASSUME IInv, OInv, OInv', NEW p \in Procs, NEW t \in Tasks, Reconcile(p, t)
  PROVE  [Ledger!Next]_Ledger!vars
<1>1. CASE ReconcileCommitted(p, t)
  BY <1>1, ResolveRecords DEF ReconcileCommitted
<1>2. CASE ReconcileUndeclared(p, t) \/ ReconcileAsk(p, t)
  BY <1>2, LedgerStands DEF ReconcileUndeclared, ReconcileAsk, stored, world
<1>3. CASE ReconcileAnswer(p, t)
  <2>1. PICK note \in {"yes", "no", "no_yet", "unclear"} :
          Answer(p, t, note) /\ note \in {job[p][t].note, "unclear"}
    BY <1>3 DEF IInv, JobOK, JobOKAt, ReconcileAnswer, At
  <2>2. UNCHANGED world
    BY <2>1 DEF Answer
  <2>3. CASE ~StillParked(t) \/ note \in {"unclear", "no_yet"}
    BY <2>1, <2>2, <2>3, LedgerStands DEF Answer, stored, world
  <2>4. CASE StillParked(t) /\ note = "yes"
    BY <2>1, <2>2, <2>4, ResolveRecords DEF Answer
  <2>5. CASE StillParked(t) /\ note = "no"
    <3>1. /\ AddReceipt(t, "not_applied") /\ Certify(t, "failed")
          /\ UNCHANGED <<commit, drawn>>
      BY <2>1, <2>5 DEF Answer
    <3>2. t \in Mutations /\ ~Maybe(t)
      BY <1>3, <2>1, <2>5, TaskAssumption DEF OInv, JobKnows, KnowsAt, ReconcileAnswer, At
    <3>3. t \notin reached /\ ~CommittedTo(t) /\ cert[t] # "verified_success"
      <4>1. t \notin reached
        BY <3>2 DEF OInv, TaskOK, WorldOK, Maybe, Happened
      <4>. QED  BY <4>1, CommittedReached DEF OInv, TaskOK, BackedOK
    <3>4. /\ "not_applied" \in receipts'[t] /\ cert'[t] = "failed"
          /\ \A u \in Tasks \ {t} : receipts'[u] = receipts[u] /\ cert'[u] = cert[u]
      BY <3>1 DEF AddReceipt, Certify, IInv, TypeOK
    <3>5. Ledger!Refute(t)
      BY <2>2, <3>1, <3>2, <3>3, <3>4, TaskAssumption DEF Ledger!Refute, CommittedTo, world
    <3>. QED  BY <3>2, <3>5 DEF Ledger!Next
  <2>. QED  BY <2>3, <2>4, <2>5
<1>. QED  BY <1>1, <1>2, <1>3 DEF Reconcile

LEMMA LeaveRecords ==
  ASSUME IInv, OInv, OInv', NEW t \in Tasks,
         PreventDuplicate(t) \/ Block(t) \/ Withdraw(t)
  PROVE  [Ledger!Next]_Ledger!vars
<1>1. /\ row[t].status = "planned" /\ \E c : Certify(t, c)
      /\ UNCHANGED <<commit, drawn, receipts, world>>
  BY DEF PreventDuplicate, Block, Withdraw, Leave, Unstarted
<1>2. t \in Mutations => cert[t] # "verified_success"
  BY <1>1, Unsent DEF OInv, TaskOK, BackedOK
<1>. QED  BY <1>1, <1>2, LedgerRecords DEF world

LEMMA FarEndRecords ==
  ASSUME IInv, OInv, NEW t \in Tasks, FarEnd(t)
  PROVE  [Ledger!Next]_Ledger!vars
<1>1. UNCHANGED <<commit, drawn, receipts, cert, sends>>
  BY DEF FarEnd, EffectLands, EffectLost, EffectShows, WindowEnds, stored
<1>2. CASE UNCHANGED reached
  BY <1>1, <1>2, LedgerStands
<1>3. CASE t \notin Mutations /\ reached' = reached \union {t}
  BY <1>1, <1>3 DEF Ledger!vars, CommittedTo
<1>4. CASE t \in Mutations /\ EffectLands(t)
  <2>1. effect[t] = "sent" /\ reached' = reached \union {t}
    BY <1>4 DEF EffectLands
  <2>2. t \notin reached /\ "not_applied" \notin receipts[t] /\ sends[t] # 0
    BY <1>4, <2>1 DEF OInv, TaskOK, WorldOK, ChangeOK, Maybe, Happened
  <2>3. sends[t] > 0
    BY <2>2 DEF IInv, TypeOK
  <2>4. Ledger!Happen(t)
    BY <1>1, <1>4, <2>1, <2>2, <2>3 DEF Ledger!Happen, CommittedTo
  <2>. QED  BY <1>4, <2>4 DEF Ledger!Next
<1>. QED
  BY <1>2, <1>3, <1>4 DEF FarEnd, EffectLands, EffectLost, EffectShows, WindowEnds

\* Every step of the runtime is a step of the ledger or leaves it as it is: a call
\* is a Send, the far end's effect a Happen, a receipt that denies it a Refute,
\* and every other write a Record of one change.
THEOREM StepIsLedgerStep ==
  IInv /\ OInv /\ OInv' /\ [Next]_vars => [Ledger!Next]_Ledger!vars
<1>. SUFFICES ASSUME IInv, OInv, OInv', [Next]_vars
              PROVE  [Ledger!Next]_Ledger!vars
  OBVIOUS
<1>1. ASSUME NEW p \in Procs, NEW t \in Tasks, Fails(p, t)
      PROVE  [Ledger!Next]_Ledger!vars
  BY <1>1, LedgerStands DEF Fails, AttemptFails, ReturnedFails, ConcludeFails,
     WriteFails, RecoverFails, stored, world
<1>2. ASSUME NEW p \in Procs, NEW t \in Tasks,
             NEW why \in {"cancelled", "budget_exhausted"},
             StartCheck(p, t) \/ Abort(p, t, why)
      PROVE  [Ledger!Next]_Ledger!vars
  BY <1>2, LedgerStands DEF StartCheck, Abort, stored, world
<1>3. ASSUME NEW p \in Procs, Crash(p) PROVE [Ledger!Next]_Ledger!vars
  BY <1>3, LedgerStands DEF Crash, world
<1>4. CASE UNCHANGED vars
  BY <1>4, LedgerStands DEF vars, stored, world
<1>. QED
  BY <1>1, <1>2, <1>3, <1>4, ExecuteRecords, RecoverRecords, ReconcileRecords,
     LeaveRecords, FarEndRecords DEF Next

\* The task controller implements the ledger: whatever processes, crashes, failed
\* writes, retries and reconciles there are, every change is accounted for as
\* EffectLedger promises.
THEOREM ImplementsLedger == Spec => LedgerSpec
<1>1. Init => Ledger!Init
  BY TaskAssumption DEF Init, Ledger!Init, CommittedTo
<1>2. IInv /\ OInv /\ (IInv /\ OInv)' /\ [Next]_vars => [Ledger!Next]_Ledger!vars
  BY StepIsLedgerStep
<1>. QED  BY <1>1, <1>2, OutcomeInvariance, PTL DEF Spec, LedgerSpec, Ledger!Spec

\* What the ledger's own steps keep: each only adds to it, and each guard names
\* what the addition must not contradict.
LEMMA LedgerStepKeeps ==
  ASSUME Ledger!LedgerConsistent, [Ledger!Next]_Ledger!vars
  PROVE  Ledger!LedgerConsistent'
<1>. USE DEF Ledger!LedgerConsistent
<1>1. ASSUME NEW t \in Mutations, Ledger!Send(t) \/ Ledger!Happen(t) \/ Ledger!Refute(t)
      PROVE  Ledger!LedgerConsistent'
  BY <1>1 DEF Ledger!Send, Ledger!Happen, Ledger!Refute
<1>2. ASSUME NEW t \in Mutations, Ledger!Record(t) PROVE Ledger!LedgerConsistent'
  BY <1>2 DEF Ledger!Record, Ledger!Charges, Ledger!Commits, Ledger!Confirms, Ledger!KeyFree
<1>3. CASE UNCHANGED Ledger!vars
  BY <1>3 DEF Ledger!vars
<1>. QED  BY <1>1, <1>2, <1>3 DEF Ledger!Next

\* The ledger is consistent: nothing is both confirmed and refuted, nothing is
\* committed or confirmed that did not happen, nothing is confirmed unpaid, and
\* a key is committed to one change.
THEOREM LedgerIsConsistent == Ledger!Spec => []Ledger!LedgerConsistent
<1>1. Ledger!Init => Ledger!LedgerConsistent
  BY DEF Ledger!Init, Ledger!LedgerConsistent
<1>. QED  BY <1>1, LedgerStepKeeps, PTL DEF Ledger!Spec

\* So what the task controller sends, draws, commits and certifies is consistent
\* too, over every crash, retry and reconcile.
THEOREM TasksAreConsistent == Spec => []Ledger!LedgerConsistent
BY ImplementsLedger, LedgerIsConsistent, PTL DEF LedgerSpec
=============================================================================
