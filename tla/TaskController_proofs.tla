----------------------- MODULE TaskController_proofs -----------------------
(***************************************************************************)
(* Theorems about TaskController, for every set of processes, tasks and    *)
(* keys and every bound: that a task has one holder, that a change is sent *)
(* at most once, that a commit stands, and that a settled task is reopened *)
(* only by the certificate write of the execution that parked it.          *)
(*                                                                         *)
(* None of these is inductive as it stands.  IInv is: it says what a job   *)
(* may hold at each of its stages (JobOK), which statuses a row may have   *)
(* while a job is at a stage that writes it (HolderOK, DoneOK), and that a *)
(* change not yet sent is one nobody has got as far as sending (UnsentOK). *)
(***************************************************************************)
EXTENDS TaskController, TLAPS

\* What a job holds at the stage it is at.
JobOKAt(t, j) ==
  /\ j.pc \in {"idle", "starting"} => j.tries = 0
  /\ j.pc = "attempting" => j.tries < Attempts(t)
  /\ j.pc = "calling" => j.tries > 0
  /\ j.pc = "returned" => j.note \in {"success", "failure"}
  /\ j.pc = "deciding" => j.note \in {"verified", "partial", "failure"}
  /\ j.pc = "asking" => j.note \in {"yes", "no", "no_yet", "unclear"}
JobOK == \A p \in Procs, t \in Tasks : JobOKAt(t, job[p][t])

\* A job that counts on its row has it.
HolderOK ==
  \A p \in Procs, t \in Tasks :
    job[p][t].pc \in Holding =>
      row[t].status \in Interrupted /\ row[t].owner = p

Done == {"catch_certify", "recover_ask"}

\* A job that has given its row up left it neither interrupted nor planned.
DoneOK ==
  \A p \in Procs, t \in Tasks :
    job[p][t].pc \in Done =>
      row[t].status \notin Interrupted \union {"planned"}

\* A change that is planned, or about to be sent, has not been sent.
UnsentOK ==
  \A t \in Mutations :
    /\ sends[t] <= 1
    /\ row[t].status = "planned" => sends[t] = 0
    /\ \A p \in Procs : At(p, t, "attempting") => sends[t] = 0

\* A step is about one job and its row.
About(p, t) ==
  /\ \A u \in Tasks \ {t} : row'[u] = row[u]
  /\ \A q \in Procs, u \in Tasks : q # p \/ u # t => job'[q][u] = job[q][u]

IInv == TypeOK /\ JobOK /\ HolderOK /\ DoneOK /\ UnsentOK

-----------------------------------------------------------------------------
(* What the helpers do to a well-typed state.                              *)

LEMMA BecomeFacts ==
  ASSUME TypeOK, NEW p \in Procs, NEW t \in Tasks, NEW new \in Job,
         Become(p, t, new)
  PROVE  /\ job' \in [Procs -> [Tasks -> Job]]
         /\ job'[p][t] = new
         /\ \A q \in Procs, u \in Tasks : q # p \/ u # t => job'[q][u] = job[q][u]
BY DEF TypeOK, Become

LEMMA IdleFacts == Idle \in Job /\ \A t \in Tasks : JobOKAt(t, Idle)
BY TaskAssumption DEF Idle, Job, JobOKAt, Stages, InFlight, Running, CatchStages, RecoverStages

LEMMA GoToFacts ==
  ASSUME TypeOK, NEW p \in Procs, NEW t \in Tasks, NEW stage \in Stages,
         GoTo(p, t, stage)
  PROVE  /\ job' \in [Procs -> [Tasks -> Job]]
         /\ job'[p][t].pc = stage
         /\ job'[p][t].tries = job[p][t].tries
         /\ job'[p][t].note = job[p][t].note
         /\ \A q \in Procs, u \in Tasks : q # p \/ u # t => job'[q][u] = job[q][u]
<1> DEFINE new == [job[p][t] EXCEPT !.pc = stage]
<1>1. job[p][t] \in Job
  BY DEF TypeOK
<1>2. new \in Job /\ new.pc = stage /\ new.tries = job[p][t].tries /\ new.note = job[p][t].note
  BY <1>1 DEF Job
<1>3. Become(p, t, new)
  BY DEF GoTo
<1> HIDE DEF new
<1>. QED  BY <1>2, <1>3, BecomeFacts

LEMMA SaveFacts ==
  ASSUME TypeOK, NEW t \in Tasks, NEW status \in Status, NEW error \in Errors,
         Save(t, status, error)
  PROVE  /\ row' \in [Tasks -> Row]
         /\ row'[t].status = status /\ row'[t].owner = row[t].owner
         /\ \A u \in Tasks \ {t} : row'[u] = row[u]
<1>1. row[t] \in Row
  BY DEF TypeOK
<1>2. [row[t] EXCEPT !.status = status, !.error = error] \in Row
  BY <1>1 DEF Row
<1>. QED  BY <1>1, <1>2 DEF TypeOK, Save, Row

-----------------------------------------------------------------------------
(* Who may hold a task.                                                    *)

LEMMA Alone ==
  ASSUME IInv, NEW p \in Procs, NEW t \in Tasks
  PROVE  /\ job[p][t].pc \in Holding =>
              \A q \in Procs \ {p} : job[q][t].pc \notin Holding
         /\ row[t].status \notin Interrupted =>
              \A q \in Procs : job[q][t].pc \notin Holding
         /\ row[t].status \in Interrupted \union {"planned"} =>
              \A q \in Procs : job[q][t].pc \notin Done
BY DEF IInv, HolderOK, DoneOK

\* A step of one job keeps the invariant's parts about jobs and rows when what
\* it leaves is right for the job itself, and it took the row from nobody.
LEMMA StepKeeps ==
  ASSUME IInv, NEW p \in Procs, NEW t \in Tasks, About(p, t),
         JobOKAt(t, job'[p][t]),
         job'[p][t].pc \in Holding =>
           row'[t].status \in Interrupted /\ row'[t].owner = p,
         job'[p][t].pc \in Done =>
           row'[t].status \notin Interrupted \union {"planned"},
         \/ row'[t].status = row[t].status /\ row'[t].owner = row[t].owner
         \/ /\ \A q \in Procs \ {p} : job[q][t].pc \notin Holding
            /\ \/ \A q \in Procs \ {p} : job[q][t].pc \notin Done
               \/ row'[t].status \notin Interrupted \union {"planned"}
  PROVE  JobOK' /\ HolderOK' /\ DoneOK'
<1>1. JobOK'
  <2>. SUFFICES ASSUME NEW q \in Procs, NEW u \in Tasks
                PROVE  JobOKAt(u, job[q][u])'
    BY DEF JobOK
  <2>1. CASE q = p /\ u = t
    BY <2>1 DEF JobOKAt, Attempts
  <2>2. CASE ~(q = p /\ u = t)
    BY <2>2 DEF IInv, JobOK, JobOKAt, Attempts, About
  <2>. QED  BY <2>1, <2>2
<1>2. HolderOK'
  BY DEF IInv, HolderOK, About
<1>3. DoneOK'
  BY DEF IInv, DoneOK, About
<1>. QED  BY <1>1, <1>2, <1>3

\* And the part about the calls, when it makes none itself.
LEMMA StepKeepsUnsent ==
  ASSUME IInv, NEW p \in Procs, NEW t \in Tasks, About(p, t), sends' = sends,
         t \in Mutations => /\ job'[p][t].pc = "attempting" => sends[t] = 0
                            /\ row'[t].status = "planned" => sends[t] = 0
  PROVE  UnsentOK'
<1>. SUFFICES ASSUME NEW u \in Mutations
              PROVE  /\ sends'[u] <= 1
                     /\ row'[u].status = "planned" => sends'[u] = 0
                     /\ \A q \in Procs : job'[q][u].pc = "attempting" => sends'[u] = 0
  BY DEF UnsentOK, At
<1>1. u \in Tasks
  BY TaskAssumption
<1>2. CASE u = t
  BY <1>1, <1>2 DEF IInv, UnsentOK, About, At
<1>3. CASE u # t
  BY <1>1, <1>3 DEF IInv, UnsentOK, About, At
<1>. QED  BY <1>2, <1>3

\* The same of a step that moves one job and leaves every row.
LEMMA JobStepKeeps ==
  ASSUME IInv, NEW p \in Procs, NEW t \in Tasks, NEW new \in Job,
         Become(p, t, new), row' = row, sends' = sends, JobOKAt(t, new),
         new.pc \in Holding => job[p][t].pc \in Holding,
         new.pc \notin Done,
         new.pc = "attempting" /\ t \in Mutations => sends[t] = 0
  PROVE  /\ job' \in [Procs -> [Tasks -> Job]]
         /\ JobOK' /\ HolderOK' /\ DoneOK' /\ UnsentOK'
<1>1. /\ job' \in [Procs -> [Tasks -> Job]] /\ job'[p][t] = new
      /\ About(p, t)
  BY BecomeFacts DEF About, IInv
<1>2. JobOKAt(t, job'[p][t]) /\ job'[p][t].pc \notin Done
  BY <1>1
<1>3. job'[p][t].pc \in Holding => row'[t].status \in Interrupted /\ row'[t].owner = p
  BY <1>1 DEF IInv, HolderOK
<1>4. JobOK' /\ HolderOK' /\ DoneOK'
  BY <1>1, <1>2, <1>3, StepKeeps
<1>5. UnsentOK'
  BY <1>1, StepKeepsUnsent DEF IInv, UnsentOK
<1>. QED  BY <1>1, <1>4, <1>5

LEMMA CaughtKeeps ==
  ASSUME IInv, NEW p \in Procs, NEW t \in Tasks, NEW ran \in BOOLEAN,
         Caught(p, t, ran), row' = row, sends' = sends,
         job[p][t].pc \in Holding
  PROVE  /\ job' \in [Procs -> [Tasks -> Job]]
         /\ JobOK' /\ HolderOK' /\ DoneOK' /\ UnsentOK'
<1> DEFINE new == [job[p][t] EXCEPT
                     !.ran = ran,
                     !.pc = IF ran THEN "catch_draw" ELSE "catch_receipt"]
<1>1. job[p][t] \in Job
  BY DEF IInv, TypeOK
<1>2. new \in Job /\ new.pc \in {"catch_draw", "catch_receipt"}
  BY <1>1 DEF Job, Stages, InFlight, CatchStages
<1>3. JobOKAt(t, new) /\ new.pc \notin Done /\ new.pc # "attempting"
  BY <1>2 DEF JobOKAt, Done
<1>4. Become(p, t, new)
  BY DEF Caught
<1> HIDE DEF new
<1>. QED  BY <1>2, <1>3, <1>4, JobStepKeeps

-----------------------------------------------------------------------------
(* Each action keeps the invariant.                                        *)

LEMMA StartCheckKeeps ==
  ASSUME IInv, NEW p \in Procs, NEW t \in Tasks, StartCheck(p, t)
  PROVE  IInv'
<1> DEFINE new == [job[p][t] EXCEPT !.pc = "starting"]
<1>1. job[p][t] \in Job /\ JobOKAt(t, job[p][t]) /\ job[p][t].pc = "idle"
  BY DEF IInv, TypeOK, JobOK, StartCheck, At
<1>2. new \in Job /\ JobOKAt(t, new) /\ new.pc = "starting"
  BY <1>1 DEF Job, JobOKAt, Stages
<1>3. new.pc \notin Holding /\ new.pc \notin Done
  BY <1>2 DEF Holding, InFlight, Running, CatchStages, RecoverStages, Done
<1>4. Become(p, t, new)
  BY DEF StartCheck, GoTo
<1> HIDE DEF new
<1>5. UNCHANGED <<stored, world, crashes, faults>>
  BY DEF StartCheck
<1>6. /\ job' \in [Procs -> [Tasks -> Job]]
      /\ JobOK' /\ HolderOK' /\ DoneOK' /\ UnsentOK'
  BY <1>2, <1>3, <1>4, <1>5, JobStepKeeps DEF stored, world
<1>. QED  BY <1>5, <1>6 DEF IInv, TypeOK, stored, world

LEMMA StartWriteKeeps ==
  ASSUME IInv, NEW p \in Procs, NEW t \in Tasks, StartWrite(p, t)
  PROVE  IInv'
<1>1. CASE Unstarted(t)
  <2>1. /\ job' \in [Procs -> [Tasks -> Job]]
        /\ job'[p][t].pc = "attempting" /\ job'[p][t].tries = 0
        /\ \A q \in Procs, u \in Tasks : q # p \/ u # t => job'[q][u] = job[q][u]
    <3>1. TypeOK /\ "attempting" \in Stages /\ GoTo(p, t, "attempting")
      BY <1>1 DEF IInv, StartWrite, Stages, InFlight, Running
    <3>2. job[p][t].tries = 0
      BY DEF IInv, JobOK, JobOKAt, StartWrite, At
    <3>. QED  BY <3>1, <3>2, GoToFacts
  <2>2. /\ row' \in [Tasks -> Row]
        /\ row'[t].status = "running" /\ row'[t].owner = p
        /\ \A u \in Tasks \ {t} : row'[u] = row[u]
    <3> DEFINE r == [row[t] EXCEPT !.status = "running", !.owner = p]
    <3>1. row[t] \in Row
      BY DEF IInv, TypeOK
    <3>2. r \in Row /\ r.status = "running" /\ r.owner = p
      BY <3>1 DEF Row, Status
    <3>3. row' = [row EXCEPT ![t] = r]
      BY <1>1 DEF StartWrite
    <3> HIDE DEF r
    <3>. QED  BY <3>2, <3>3 DEF IInv, TypeOK
  <2>3. row[t].status = "planned"
    BY <1>1 DEF Unstarted
  <2>4. About(p, t)
    BY <2>1, <2>2 DEF About
  <2>5. JobOK' /\ HolderOK' /\ DoneOK'
    <3>1. JobOKAt(t, job'[p][t])
      BY <2>1, TaskAssumption DEF JobOKAt, Attempts
    <3>2. row'[t].status \in Interrupted /\ job'[p][t].pc \notin Done
      BY <2>1, <2>2 DEF Interrupted, Done
    <3>3. /\ \A q \in Procs : job[q][t].pc \notin Holding
          /\ \A q \in Procs : job[q][t].pc \notin Done
      BY <2>3, Alone DEF Interrupted
    <3>. QED  BY <2>1, <2>2, <2>4, <3>1, <3>2, <3>3, StepKeeps
  <2>6. UnsentOK'
    BY <2>1, <2>2, <2>3, <2>4, StepKeepsUnsent DEF StartWrite, world, IInv, UnsentOK
  <2>. QED  BY <2>1, <2>2, <2>5, <2>6 DEF IInv, TypeOK, StartWrite, world
<1>2. CASE ~Unstarted(t)
  <2>1. /\ job' \in [Procs -> [Tasks -> Job]]
        /\ JobOK' /\ HolderOK' /\ DoneOK' /\ UnsentOK'
    BY <1>2, IdleFacts, JobStepKeeps DEF StartWrite, Finish, Idle, world,
       Holding, InFlight, Running, CatchStages, RecoverStages, Done
  <2>. QED  BY <1>2, <2>1 DEF IInv, TypeOK, StartWrite, world
<1>. QED  BY <1>1, <1>2

LEMMA AbortKeeps ==
  ASSUME IInv, NEW p \in Procs, NEW t \in Tasks,
         NEW why \in {"cancelled", "budget_exhausted"}, Abort(p, t, why)
  PROVE  IInv'
<1> DEFINE new == [job[p][t] EXCEPT !.abort = why]
<1>1. job[p][t] \in Job /\ JobOKAt(t, job[p][t])
  BY DEF IInv, TypeOK, JobOK
<1>2. new \in Job /\ JobOKAt(t, new) /\ new.pc = job[p][t].pc
  BY <1>1 DEF Job, JobOKAt
<1>3. job[p][t].pc \in Running \union {"catch_commit"}
  BY DEF Abort
<1>4. new.pc \notin Done
  BY <1>2, <1>3 DEF Done, Running
<1>5. Become(p, t, new)
  BY DEF Abort
<1>6. new.pc = "attempting" /\ t \in Mutations => sends[t] = 0
  BY <1>2 DEF IInv, UnsentOK, At
<1> HIDE DEF new
<1>7. UNCHANGED <<stored, world, crashes, faults>>
  BY DEF Abort
<1>8. /\ job' \in [Procs -> [Tasks -> Job]]
      /\ JobOK' /\ HolderOK' /\ DoneOK' /\ UnsentOK'
  BY <1>2, <1>4, <1>5, <1>6, <1>7, JobStepKeeps DEF stored, world
<1>. QED  BY <1>7, <1>8 DEF IInv, TypeOK, stored, world

LEMMA BreakerRefusesKeeps ==
  ASSUME IInv, NEW p \in Procs, NEW t \in Tasks, BreakerRefuses(p, t)
  PROVE  IInv'
<1>1. Caught(p, t, FALSE) /\ UNCHANGED <<stored, world, crashes, faults>>
      /\ job[p][t].pc \in Holding
  BY DEF BreakerRefuses, At, Holding, InFlight, Running
<1>2. /\ job' \in [Procs -> [Tasks -> Job]]
      /\ JobOK' /\ HolderOK' /\ DoneOK' /\ UnsentOK'
  BY <1>1, CaughtKeeps DEF stored, world
<1>. QED  BY <1>1, <1>2 DEF IInv, TypeOK, stored, world

LEMMA AttemptKeeps ==
  ASSUME IInv, NEW p \in Procs, NEW t \in Tasks, Attempt(p, t)
  PROVE  IInv'
<1>1. /\ job[p][t] \in Job /\ job[p][t].pc = "attempting"
      /\ job[p][t].pc \in Holding /\ job[p][t].ran \in BOOLEAN
      /\ UNCHANGED <<stored, reached, window, crashes, faults>>
  BY DEF IInv, TypeOK, Attempt, At, Holding, InFlight, Running, Job
<1>2. CASE job[p][t].abort # "none"
  <2>1. Caught(p, t, job[p][t].ran) /\ UNCHANGED <<effect, sends>>
    BY <1>2 DEF Attempt
  <2>2. /\ job' \in [Procs -> [Tasks -> Job]]
        /\ JobOK' /\ HolderOK' /\ DoneOK' /\ UnsentOK'
    BY <1>1, <2>1, CaughtKeeps DEF stored
  <2>. QED  BY <1>1, <2>1, <2>2 DEF IInv, TypeOK, stored
<1>3. CASE job[p][t].abort = "none"
  <2> DEFINE new == [job[p][t] EXCEPT !.pc = "calling", !.tries = @ + 1]
  <2>1. /\ Become(p, t, new)
        /\ effect' = [effect EXCEPT ![t] = "sent"]
        /\ sends' = [sends EXCEPT ![t] = @ + 1]
    BY <1>3 DEF Attempt
  <2>2. job[p][t].tries \in Nat /\ job[p][t].tries < MaxRetries + 1
    BY <1>1, TaskAssumption DEF IInv, JobOK, JobOKAt, Attempts, Job
  <2>3. new \in Job /\ new.pc = "calling" /\ new.tries = job[p][t].tries + 1
    <3>1. "calling" \in Stages
      BY DEF Stages, InFlight, Running
    <3>2. job[p][t].tries + 1 \in 0..(MaxRetries + 1)
      BY <2>2, TaskAssumption
    <3>. QED  BY <1>1, <3>1, <3>2 DEF Job
  <2>4. JobOKAt(t, new)
    BY <2>2, <2>3 DEF JobOKAt
  <2> HIDE DEF new
  <2>5. /\ job' \in [Procs -> [Tasks -> Job]] /\ job'[p][t] = new
        /\ row' = row /\ About(p, t)
    BY <1>1, <2>1, <2>3, BecomeFacts DEF IInv, About, stored
  <2>6. new.pc \notin Done
    BY <2>3 DEF Done
  <2>7. JobOK' /\ HolderOK' /\ DoneOK'
    BY <1>1, <2>4, <2>5, <2>6, StepKeeps DEF IInv, HolderOK
  <2>8. UnsentOK'
    <3>. SUFFICES ASSUME NEW u \in Mutations
                  PROVE  /\ sends'[u] <= 1
                         /\ row'[u].status = "planned" => sends'[u] = 0
                         /\ \A q \in Procs : job'[q][u].pc = "attempting" => sends'[u] = 0
      BY DEF UnsentOK, At
    <3>1. u \in Tasks
      BY TaskAssumption
    <3>2. CASE u = t
      <4>1. sends[t] = 0 /\ sends'[t] = 1
        BY <1>1, <2>1, <3>1, <3>2 DEF IInv, UnsentOK, At, TypeOK
      <4>2. row'[t].status # "planned"
        BY <1>1, <2>5 DEF IInv, HolderOK, Interrupted
      <4>3. \A q \in Procs : job'[q][t].pc # "attempting"
        BY <1>1, <2>3, <2>5, Alone DEF About, Holding, InFlight, Running
      <4>. QED  BY <3>2, <4>1, <4>2, <4>3
    <3>3. CASE u # t
      BY <2>1, <2>5, <3>1, <3>3 DEF IInv, UnsentOK, At, About, TypeOK
    <3>. QED  BY <3>2, <3>3
  <2>9. sends' \in [Tasks -> Nat]
    BY <2>1 DEF IInv, TypeOK
  <2>. QED  BY <1>1, <2>1, <2>5, <2>7, <2>8, <2>9 DEF IInv, TypeOK, stored
<1>. QED  BY <1>2, <1>3

LEMMA AttemptFailsKeeps ==
  ASSUME IInv, NEW p \in Procs, NEW t \in Tasks, AttemptFails(p, t)
  PROVE  IInv'
<1>1. /\ Caught(p, t, FALSE) /\ UNCHANGED <<stored, world, crashes>> /\ Fault
      /\ job[p][t].pc \in Holding
  BY DEF AttemptFails, At, Holding, InFlight, Running
<1>2. /\ job' \in [Procs -> [Tasks -> Job]]
      /\ JobOK' /\ HolderOK' /\ DoneOK' /\ UnsentOK'
  BY <1>1, CaughtKeeps DEF stored, world
<1>. QED  BY <1>1, <1>2 DEF IInv, TypeOK, stored, world, Fault

LEMMA ReturnsKeeps ==
  ASSUME IInv, NEW p \in Procs, NEW t \in Tasks,
         NEW how \in {"success", "failure"}, Returns(p, t, how)
  PROVE  IInv'
<1> DEFINE new == [job[p][t] EXCEPT !.pc = "returned", !.ran = TRUE, !.note = how]
<1>1. job[p][t] \in Job /\ job[p][t].pc \in Holding
  BY DEF IInv, TypeOK, Returns, At, Holding, InFlight, Running
<1>2. /\ Become(p, t, new) /\ UNCHANGED <<stored, world, crashes, faults>>
  BY DEF Returns
<1>3. new \in Job /\ new.pc = "returned" /\ new.note = how
  BY <1>1 DEF Job, Stages, InFlight, Running
<1>4. JobOKAt(t, new) /\ new.pc \notin Done
  BY <1>3 DEF JobOKAt, Done
<1> HIDE DEF new
<1>5. /\ job' \in [Procs -> [Tasks -> Job]]
      /\ JobOK' /\ HolderOK' /\ DoneOK' /\ UnsentOK'
  BY <1>1, <1>2, <1>3, <1>4, JobStepKeeps DEF stored, world
<1>. QED  BY <1>2, <1>5 DEF IInv, TypeOK, stored, world

LEMMA ThrowsKeeps ==
  ASSUME IInv, NEW p \in Procs, NEW t \in Tasks, NEW unknown \in BOOLEAN,
         Throws(p, t, unknown)
  PROVE  IInv'
<1> DEFINE ran == job[p][t].ran \/ unknown
           new == [job[p][t] EXCEPT !.pc = "attempting", !.ran = ran]
<1>1. /\ job[p][t] \in Job /\ job[p][t].pc = "calling" /\ job[p][t].pc \in Holding
      /\ UNCHANGED <<stored, world, crashes, faults>> /\ ran \in BOOLEAN
      /\ job[p][t].tries > 0
  BY DEF IInv, TypeOK, JobOK, JobOKAt, Throws, At, Holding, InFlight, Running, Job
<1>2. CASE job[p][t].tries < Attempts(t) /\ job[p][t].abort = "none"
  <2>1. Become(p, t, new)
    BY <1>2 DEF Throws
  <2>2. new \in Job /\ new.pc = "attempting" /\ new.tries = job[p][t].tries
    BY <1>1 DEF Job, Stages, InFlight, Running
  <2>3. JobOKAt(t, new) /\ new.pc \notin Done
    BY <1>2, <2>2 DEF JobOKAt, Done
  <2>4. t \notin Mutations
    BY <1>1, <1>2 DEF Attempts, Job
  <2> HIDE DEF new
  <2>5. /\ job' \in [Procs -> [Tasks -> Job]]
        /\ JobOK' /\ HolderOK' /\ DoneOK' /\ UnsentOK'
    BY <1>1, <2>1, <2>2, <2>3, <2>4, JobStepKeeps DEF stored, world
  <2>. QED  BY <1>1, <2>5 DEF IInv, TypeOK, stored, world
<1>3. CASE ~(job[p][t].tries < Attempts(t) /\ job[p][t].abort = "none")
  <2>1. Caught(p, t, ran)
    BY <1>3 DEF Throws
  <2> HIDE DEF ran
  <2>2. /\ job' \in [Procs -> [Tasks -> Job]]
        /\ JobOK' /\ HolderOK' /\ DoneOK' /\ UnsentOK'
    BY <1>1, <2>1, CaughtKeeps DEF stored, world
  <2>. QED  BY <1>1, <2>2 DEF IInv, TypeOK, stored, world
<1>. QED  BY <1>2, <1>3

LEMMA VerifyKeeps ==
  ASSUME IInv, NEW p \in Procs, NEW t \in Tasks, NEW verdict,
         Verify(p, t, verdict)
  PROVE  IInv'
<1> DEFINE new == [job[p][t] EXCEPT !.pc = "deciding", !.note = verdict]
<1>1. /\ job[p][t] \in Job /\ job[p][t].pc \in Holding
      /\ verdict \in {"verified", "partial", "failure"}
  BY DEF IInv, TypeOK, Verify, At, Holding, InFlight, Running
<1>2. /\ Become(p, t, new) /\ UNCHANGED <<stored, world, crashes, faults>>
  BY DEF Verify
<1>3. new \in Job /\ new.pc = "deciding" /\ new.note = verdict
  BY <1>1 DEF Job, Stages, InFlight, Running
<1>4. JobOKAt(t, new) /\ new.pc \notin Done
  BY <1>1, <1>3 DEF JobOKAt, Done
<1> HIDE DEF new
<1>5. /\ job' \in [Procs -> [Tasks -> Job]]
      /\ JobOK' /\ HolderOK' /\ DoneOK' /\ UnsentOK'
  BY <1>1, <1>2, <1>3, <1>4, JobStepKeeps DEF stored, world
<1>. QED  BY <1>2, <1>5 DEF IInv, TypeOK, stored, world

LEMMA ReturnedFailsKeeps ==
  ASSUME IInv, NEW p \in Procs, NEW t \in Tasks, ReturnedFails(p, t)
  PROVE  IInv'
<1>1. /\ Caught(p, t, TRUE) /\ UNCHANGED <<stored, world, crashes>> /\ Fault
      /\ job[p][t].pc \in Holding
  BY DEF ReturnedFails, At, Holding, InFlight, Running
<1>2. /\ job' \in [Procs -> [Tasks -> Job]]
      /\ JobOK' /\ HolderOK' /\ DoneOK' /\ UnsentOK'
  BY <1>1, CaughtKeeps DEF stored, world
<1>. QED  BY <1>1, <1>2 DEF IInv, TypeOK, stored, world, Fault

\* A step to another stage at which the row is held, and not to "attempting".
LEMMA OnwardKeeps ==
  ASSUME IInv, NEW p \in Procs, NEW t \in Tasks,
         NEW stage \in {"catch_commit", "catch_draw", "catch_receipt",
                        "catch_save", "recover_save"},
         GoTo(p, t, stage), row' = row, sends' = sends,
         job[p][t].pc \in Holding
  PROVE  /\ job' \in [Procs -> [Tasks -> Job]]
         /\ JobOK' /\ HolderOK' /\ DoneOK' /\ UnsentOK'
<1> DEFINE new == [job[p][t] EXCEPT !.pc = stage]
<1>1. job[p][t] \in Job
  BY DEF IInv, TypeOK
<1>2. new \in Job /\ new.pc = stage
  BY <1>1 DEF Job, Stages, InFlight, CatchStages, RecoverStages
<1>3. JobOKAt(t, new) /\ new.pc \notin Done /\ new.pc # "attempting"
  BY <1>2 DEF JobOKAt, Done
<1>4. Become(p, t, new)
  BY DEF GoTo
<1> HIDE DEF new
<1>. QED  BY <1>2, <1>3, <1>4, JobStepKeeps

LEMMA ConcludeFailsKeeps ==
  ASSUME IInv, NEW p \in Procs, NEW t \in Tasks, ConcludeFails(p, t)
  PROVE  IInv'
<1>1. /\ Caught(p, t, TRUE) \/ GoTo(p, t, "catch_commit")
      /\ UNCHANGED <<stored, world, crashes>> /\ Fault
      /\ job[p][t].pc \in Holding
  BY DEF ConcludeFails, At, Holding, InFlight, Running
<1>2. /\ job' \in [Procs -> [Tasks -> Job]]
      /\ JobOK' /\ HolderOK' /\ DoneOK' /\ UnsentOK'
  BY <1>1, CaughtKeeps, OnwardKeeps DEF stored, world
<1>. QED  BY <1>1, <1>2 DEF IInv, TypeOK, stored, world, Fault

\* Committing a key keeps the commits' type, and never moves one that stands.
LEMMA CommitKeyFacts ==
  ASSUME TypeOK, NEW t \in Tasks, CommitKey(t)
  PROVE  /\ commit' \in [Keys -> Tasks \union {NoTask}]
         /\ \A k \in Keys : commit[k] # NoTask => commit'[k] = commit[k]
BY TaskAssumption DEF TypeOK, CommitKey, Committed

LEMMA CatchCommitKeeps ==
  ASSUME IInv, NEW p \in Procs, NEW t \in Tasks, CatchCommit(p, t)
  PROVE  IInv'
<1>1. /\ GoTo(p, t, "catch_draw") /\ CommitKey(t) /\ job[p][t].pc \in Holding
      /\ UNCHANGED <<row, drawn, receipts, cert, result, world, crashes, faults>>
  BY DEF CatchCommit, At, Holding, InFlight, CatchStages
<1>2. /\ job' \in [Procs -> [Tasks -> Job]]
      /\ JobOK' /\ HolderOK' /\ DoneOK' /\ UnsentOK'
  BY <1>1, OnwardKeeps DEF world
<1>3. commit' \in [Keys -> Tasks \union {NoTask}]
  BY <1>1, CommitKeyFacts DEF IInv
<1>. QED  BY <1>1, <1>2, <1>3 DEF IInv, TypeOK, world

LEMMA CatchDrawKeeps ==
  ASSUME IInv, NEW p \in Procs, NEW t \in Tasks, CatchDraw(p, t)
  PROVE  IInv'
<1>1. /\ GoTo(p, t, "catch_receipt") /\ drawn' = drawn \union {t}
      /\ job[p][t].pc \in Holding
      /\ UNCHANGED <<row, commit, receipts, cert, result, world, crashes, faults>>
  BY DEF CatchDraw, At, Holding, InFlight, CatchStages
<1>2. /\ job' \in [Procs -> [Tasks -> Job]]
      /\ JobOK' /\ HolderOK' /\ DoneOK' /\ UnsentOK'
  BY <1>1, OnwardKeeps DEF world
<1>. QED  BY <1>1, <1>2 DEF IInv, TypeOK, world

LEMMA ReceiptFacts ==
  ASSUME TypeOK, NEW t \in Tasks, NEW kind \in Receipts, AddReceipt(t, kind)
  PROVE  receipts' \in [Tasks -> SUBSET Receipts]
BY DEF TypeOK, AddReceipt

LEMMA CatchReceiptKeeps ==
  ASSUME IInv, NEW p \in Procs, NEW t \in Tasks, CatchReceipt(p, t)
  PROVE  IInv'
<1>1. /\ GoTo(p, t, "catch_save") /\ AddReceipt(t, "error")
      /\ job[p][t].pc \in Holding
      /\ UNCHANGED <<row, commit, drawn, cert, result, world, crashes, faults>>
  BY DEF CatchReceipt, At, Holding, InFlight, CatchStages
<1>2. /\ job' \in [Procs -> [Tasks -> Job]]
      /\ JobOK' /\ HolderOK' /\ DoneOK' /\ UnsentOK'
  BY <1>1, OnwardKeeps DEF world
<1>3. receipts' \in [Tasks -> SUBSET Receipts]
  BY <1>1, ReceiptFacts DEF IInv, Receipts
<1>. QED  BY <1>1, <1>2, <1>3 DEF IInv, TypeOK, world

LEMMA RecoverDrawKeeps ==
  ASSUME IInv, NEW p \in Procs, NEW t \in Tasks, RecoverDraw(p, t)
  PROVE  IInv'
<1>1. /\ GoTo(p, t, "recover_save") /\ drawn' = drawn \union {t}
      /\ job[p][t].pc \in Holding
      /\ UNCHANGED <<row, commit, receipts, cert, result, world, crashes, faults>>
  BY DEF RecoverDraw, At, Holding, InFlight, RecoverStages
<1>2. /\ job' \in [Procs -> [Tasks -> Job]]
      /\ JobOK' /\ HolderOK' /\ DoneOK' /\ UnsentOK'
  BY <1>1, OnwardKeeps DEF world
<1>. QED  BY <1>1, <1>2 DEF IInv, TypeOK, world

\* A step that changes a row nobody else holds to a status that is neither
\* interrupted nor planned, and lets go of it.
LEMMA SettleKeeps ==
  ASSUME IInv, NEW p \in Procs, NEW t \in Tasks, NEW new \in Job,
         Become(p, t, new), JobOKAt(t, new),
         new.pc \notin Holding, sends' = sends,
         NEW status \in Status \ (Interrupted \union {"planned"}),
         NEW error \in Errors, Save(t, status, error),
         \A q \in Procs \ {p} : job[q][t].pc \notin Holding
  PROVE  /\ job' \in [Procs -> [Tasks -> Job]] /\ row' \in [Tasks -> Row]
         /\ JobOK' /\ HolderOK' /\ DoneOK' /\ UnsentOK'
<1>1. /\ job' \in [Procs -> [Tasks -> Job]] /\ job'[p][t] = new
      /\ row' \in [Tasks -> Row] /\ row'[t].status = status
      /\ About(p, t)
  BY BecomeFacts, SaveFacts DEF IInv, About
<1>2. JobOK' /\ HolderOK' /\ DoneOK'
  BY <1>1, StepKeeps
<1>3. new.pc # "attempting" /\ status # "planned"
  BY DEF Holding, InFlight, Running
<1>4. UnsentOK'
  BY <1>1, <1>3, StepKeepsUnsent
<1>. QED  BY <1>1, <1>2, <1>4

LEMMA FinishKeeps ==
  ASSUME IInv, NEW p \in Procs, NEW t \in Tasks, Finish(p, t),
         row' = row, sends' = sends
  PROVE  /\ job' \in [Procs -> [Tasks -> Job]]
         /\ JobOK' /\ HolderOK' /\ DoneOK' /\ UnsentOK'
<1>1. Idle.pc \notin Holding /\ Idle.pc \notin Done /\ Idle.pc # "attempting"
  BY DEF Idle, Holding, InFlight, Running, CatchStages, RecoverStages, Done
<1>. QED  BY <1>1, IdleFacts, JobStepKeeps DEF Finish

LEMMA FinishSettleKeeps ==
  ASSUME IInv, NEW p \in Procs, NEW t \in Tasks, Finish(p, t), sends' = sends,
         NEW status \in Status \ (Interrupted \union {"planned"}),
         NEW error \in Errors, Save(t, status, error),
         \A q \in Procs \ {p} : job[q][t].pc \notin Holding
  PROVE  /\ job' \in [Procs -> [Tasks -> Job]] /\ row' \in [Tasks -> Row]
         /\ JobOK' /\ HolderOK' /\ DoneOK' /\ UnsentOK'
<1>1. Idle.pc \notin Holding
  BY DEF Idle, Holding, InFlight, Running, CatchStages, RecoverStages
<1>. QED  BY <1>1, IdleFacts, SettleKeeps DEF Finish

LEMMA CertifyFacts ==
  ASSUME TypeOK, NEW t \in Tasks, NEW status \in Status \union {"none"},
         Certify(t, status)
  PROVE  cert' \in [Tasks -> Status \union {"none"}]
BY DEF TypeOK, Certify

LEMMA WriteFailsKeeps ==
  ASSUME IInv, NEW p \in Procs, NEW t \in Tasks, WriteFails(p, t)
  PROVE  IInv'
<1>1. Finish(p, t) /\ Fault /\ UNCHANGED <<stored, world, crashes>>
  BY DEF WriteFails
<1>2. /\ job' \in [Procs -> [Tasks -> Job]]
      /\ JobOK' /\ HolderOK' /\ DoneOK' /\ UnsentOK'
  BY <1>1, FinishKeeps DEF stored, world
<1>. QED  BY <1>1, <1>2 DEF IInv, TypeOK, stored, world, Fault

LEMMA SaveResultKeeps ==
  ASSUME IInv, NEW p \in Procs, NEW t \in Tasks, SaveResult(p, t)
  PROVE  IInv'
<1>1. /\ GoTo(p, t, "verifying") /\ job[p][t].pc = "returned"
      /\ job[p][t].pc \in Holding /\ job[p][t].note \in {"success", "failure"}
      /\ UNCHANGED <<commit, drawn, receipts, cert, world, crashes, faults>>
      /\ result' = [result EXCEPT ![t] = job[p][t].note]
  BY DEF IInv, JobOK, JobOKAt, SaveResult, At, Holding, InFlight, Running
<1>2. "verifying" \in Stages /\ TypeOK
  BY DEF IInv, Stages, InFlight, Running
<1>3. /\ job' \in [Procs -> [Tasks -> Job]]
      /\ job'[p][t].pc = "verifying"
      /\ \A q \in Procs, u \in Tasks : q # p \/ u # t => job'[q][u] = job[q][u]
  BY <1>1, <1>2, GoToFacts
<1>4. /\ row' \in [Tasks -> Row]
      /\ row'[t].status = "verifying" /\ row'[t].owner = row[t].owner
      /\ \A u \in Tasks \ {t} : row'[u] = row[u]
  <2> DEFINE r == [row[t] EXCEPT !.status = "verifying"]
  <2>1. row[t] \in Row
    BY DEF IInv, TypeOK
  <2>2. r \in Row /\ r.status = "verifying" /\ r.owner = row[t].owner
    BY <2>1 DEF Row, Status
  <2>3. row' = [row EXCEPT ![t] = r]
    BY DEF SaveResult
  <2> HIDE DEF r
  <2>. QED  BY <2>2, <2>3 DEF IInv, TypeOK
<1>5. About(p, t)
  BY <1>3, <1>4 DEF About
<1>6. JobOK' /\ HolderOK' /\ DoneOK'
  <2>1. JobOKAt(t, job'[p][t]) /\ job'[p][t].pc \notin Done
    BY <1>3 DEF JobOKAt, Done
  <2>2. row'[t].status \in Interrupted /\ row'[t].owner = p
    BY <1>1, <1>4 DEF IInv, HolderOK, Interrupted
  <2>3. \A q \in Procs \ {p} : job[q][t].pc \notin Holding /\ job[q][t].pc \notin Done
    BY <1>1, Alone DEF IInv, HolderOK
  <2>. QED  BY <1>5, <2>1, <2>2, <2>3, StepKeeps
<1>7. UnsentOK'
  BY <1>1, <1>3, <1>4, <1>5, StepKeepsUnsent DEF world
<1>. QED  BY <1>1, <1>3, <1>4, <1>6, <1>7 DEF IInv, TypeOK, world

LEMMA ConcludeKeeps ==
  ASSUME IInv, NEW p \in Procs, NEW t \in Tasks, Conclude(p, t)
  PROVE  IInv'
<1> DEFINE verdict == job[p][t].note
           lost == verdict = "verified" /\ Committed(t)
           status == CASE lost -> "cancelled"
                       [] verdict = "verified" /\ ~lost -> "verified_success"
                       [] verdict = "partial" -> "partial"
                       [] verdict = "failure" -> "failed"
           error == IF lost THEN "duplicate" ELSE row[t].error
           kind == IF verdict = "failure" THEN "error" ELSE "success"
<1>1. /\ verdict \in {"verified", "partial", "failure"}
      /\ job[p][t].pc \in Holding /\ row[t] \in Row
  BY DEF IInv, TypeOK, JobOK, JobOKAt, Conclude, At, Holding, InFlight, Running
<1>2. status \in {"cancelled", "verified_success", "partial", "failed"}
  BY <1>1
<1>3. status \in Status \ (Interrupted \union {"planned"})
  BY <1>2 DEF Status, Interrupted
<1>4. error \in Errors /\ kind \in Receipts
  BY <1>1 DEF Row, Errors, Receipts
<1>5. /\ IF verdict = "verified" THEN CommitKey(t) ELSE UNCHANGED commit
      /\ drawn' = drawn \union {t}
      /\ AddReceipt(t, kind) /\ Save(t, status, error)
      /\ \E c \in {cert[t], status} : Certify(t, c)
      /\ Finish(p, t)
      /\ UNCHANGED <<result, world, crashes, faults>>
  BY DEF Conclude
<1> HIDE DEF verdict, status, error, kind
<1>6. commit' \in [Keys -> Tasks \union {NoTask}]
  BY <1>5, CommitKeyFacts DEF IInv, TypeOK
<1>7. receipts' \in [Tasks -> SUBSET Receipts]
  BY <1>4, <1>5, ReceiptFacts DEF IInv
<1>8. cert' \in [Tasks -> Status \union {"none"}]
  BY <1>3, <1>5, CertifyFacts DEF IInv, TypeOK
<1>9. /\ job' \in [Procs -> [Tasks -> Job]] /\ row' \in [Tasks -> Row]
      /\ JobOK' /\ HolderOK' /\ DoneOK' /\ UnsentOK'
  BY <1>1, <1>3, <1>4, <1>5, Alone, FinishSettleKeeps DEF world
<1>. QED  BY <1>5, <1>6, <1>7, <1>8, <1>9 DEF IInv, TypeOK, world

LEMMA CatchStatusFacts ==
  ASSUME TypeOK, NEW p \in Procs, NEW t \in Tasks
  PROVE  CatchStatus(p, t) \in Status \ (Interrupted \union {"planned"})
<1>1. job[p][t].abort \in {"none", "cancelled", "budget_exhausted"}
  BY DEF TypeOK, Job
<1>. QED  BY <1>1 DEF CatchStatus, Status, Interrupted

LEMMA CatchSaveKeeps ==
  ASSUME IInv, NEW p \in Procs, NEW t \in Tasks, CatchSave(p, t)
  PROVE  IInv'
<1> DEFINE new == [job[p][t] EXCEPT !.pc = "catch_certify"]
<1>1. job[p][t] \in Job /\ job[p][t].pc \in Holding
  BY DEF IInv, TypeOK, CatchSave, At, Holding, InFlight, CatchStages
<1>2. /\ Save(t, CatchStatus(p, t), "execution") /\ Become(p, t, new)
      /\ window' \in {window \union {t}, window}
      /\ UNCHANGED <<commit, drawn, receipts, cert, result, effect, reached,
                     sends, crashes, faults>>
  BY DEF CatchSave, GoTo
<1>3. new \in Job /\ new.pc = "catch_certify"
  BY <1>1 DEF Job, Stages, InFlight, CatchStages
<1>4. JobOKAt(t, new) /\ new.pc \notin Holding
  BY <1>3 DEF JobOKAt, Holding
<1>5. "execution" \in Errors
  BY DEF Errors
<1> HIDE DEF new
<1>6. /\ job' \in [Procs -> [Tasks -> Job]] /\ row' \in [Tasks -> Row]
      /\ JobOK' /\ HolderOK' /\ DoneOK' /\ UnsentOK'
  BY <1>1, <1>2, <1>3, <1>4, <1>5, Alone, CatchStatusFacts, SettleKeeps DEF IInv
<1>. QED  BY <1>2, <1>6 DEF IInv, TypeOK

LEMMA CatchCertifyKeeps ==
  ASSUME IInv, NEW p \in Procs, NEW t \in Tasks, CatchCertify(p, t)
  PROVE  IInv'
<1>1. /\ Certify(t, IF cert[t] = "none" THEN CatchStatus(p, t) ELSE cert[t])
      /\ Save(t, CatchStatus(p, t), "execution") /\ Finish(p, t)
      /\ UNCHANGED <<commit, drawn, receipts, result, world, crashes, faults>>
  BY DEF CatchCertify
<1>2. \A q \in Procs : job[q][t].pc \notin Holding
  BY Alone DEF IInv, DoneOK, Done, CatchCertify, At
<1>3. "execution" \in Errors
  BY DEF Errors
<1>4. /\ job' \in [Procs -> [Tasks -> Job]] /\ row' \in [Tasks -> Row]
      /\ JobOK' /\ HolderOK' /\ DoneOK' /\ UnsentOK'
  BY <1>1, <1>2, <1>3, CatchStatusFacts, FinishSettleKeeps DEF IInv, world
<1>5. cert' \in [Tasks -> Status \union {"none"}]
  BY <1>1, CatchStatusFacts, CertifyFacts DEF IInv, TypeOK
<1>. QED  BY <1>1, <1>4, <1>5 DEF IInv, TypeOK, world

LEMMA ClaimKeeps ==
  ASSUME IInv, NEW p \in Procs, NEW t \in Tasks, Claim(p, t)
  PROVE  IInv'
<1>1. /\ GoTo(p, t, "recovering") /\ row[t] \in Row
      /\ row[t].status \in Interrupted
      /\ row[t].owner \in {Nobody, Gone, p}
      /\ UNCHANGED <<commit, drawn, receipts, cert, result, world, crashes, faults>>
  BY DEF IInv, TypeOK, Claim, Orphaned
<1>2. /\ row' \in [Tasks -> Row]
      /\ row'[t].status = row[t].status /\ row'[t].owner = p
      /\ \A u \in Tasks \ {t} : row'[u] = row[u]
  <2> DEFINE r == [row[t] EXCEPT !.owner = p]
  <2>1. r \in Row /\ r.status = row[t].status /\ r.owner = p
    BY <1>1 DEF Row
  <2>2. row' = [row EXCEPT ![t] = r]
    BY DEF Claim
  <2> HIDE DEF r
  <2>. QED  BY <2>1, <2>2 DEF IInv, TypeOK
<1>3. /\ job' \in [Procs -> [Tasks -> Job]] /\ job'[p][t].pc = "recovering"
      /\ About(p, t)
  <2>1. "recovering" \in Stages /\ TypeOK
    BY DEF IInv, Stages, InFlight, RecoverStages
  <2>. QED  BY <1>1, <1>2, <2>1, GoToFacts DEF About
<1>4. JobOK' /\ HolderOK' /\ DoneOK'
  <2>1. JobOKAt(t, job'[p][t]) /\ job'[p][t].pc \notin Done
    BY <1>3 DEF JobOKAt, Done
  <2>2. \A q \in Procs \ {p} : job[q][t].pc \notin Holding
    BY <1>1, TaskAssumption DEF IInv, HolderOK
  <2>3. \A q \in Procs \ {p} : job[q][t].pc \notin Done
    BY <1>1, Alone
  <2>. QED  BY <1>1, <1>2, <1>3, <2>1, <2>2, <2>3, StepKeeps
<1>5. UnsentOK'
  <2>1. row'[t].status # "planned"
    BY <1>1, <1>2 DEF Interrupted
  <2>. QED  BY <1>1, <1>3, <2>1, StepKeepsUnsent DEF world
<1>. QED  BY <1>1, <1>2, <1>3, <1>4, <1>5 DEF IInv, TypeOK, world

\* Settling a task as done, by whoever has it to himself or finds it parked.
LEMMA ResolveKeeps ==
  ASSUME IInv, NEW p \in Procs, NEW t \in Tasks, ResolveAsVerified(t),
         Finish(p, t), UNCHANGED <<world, crashes, faults>>,
         \A q \in Procs \ {p} : job[q][t].pc \notin Holding
  PROVE  IInv'
<1>1. /\ CommitKey(t) /\ drawn' = drawn \union {t} /\ AddReceipt(t, "success")
      /\ Save(t, "verified_success", "none") /\ Certify(t, "verified_success")
      /\ UNCHANGED result
  BY DEF ResolveAsVerified
<1>2. /\ "verified_success" \in Status \ (Interrupted \union {"planned"})
      /\ "none" \in Errors /\ "success" \in Receipts
  BY DEF Status, Interrupted, Errors, Receipts
<1>3. /\ commit' \in [Keys -> Tasks \union {NoTask}]
      /\ receipts' \in [Tasks -> SUBSET Receipts]
      /\ cert' \in [Tasks -> Status \union {"none"}]
  BY <1>1, <1>2, CommitKeyFacts, ReceiptFacts, CertifyFacts DEF IInv
<1>4. sends' = sends
  BY DEF world
<1>5. /\ job' \in [Procs -> [Tasks -> Job]] /\ row' \in [Tasks -> Row]
      /\ JobOK' /\ HolderOK' /\ DoneOK' /\ UnsentOK'
  BY <1>1, <1>2, <1>4, FinishSettleKeeps
<1>. QED  BY <1>1, <1>3, <1>5 DEF IInv, TypeOK, world

LEMMA RecoverResolvesKeeps ==
  ASSUME IInv, NEW p \in Procs, NEW t \in Tasks,
         RecoverObserved(p, t) \/ RecoverCommitted(p, t)
  PROVE  IInv'
<1>1. /\ ResolveAsVerified(t) /\ Finish(p, t)
      /\ UNCHANGED <<world, crashes, faults>> /\ job[p][t].pc \in Holding
  BY DEF RecoverObserved, RecoverCommitted, At, Holding, InFlight, RecoverStages
<1>. QED  BY <1>1, Alone, ResolveKeeps

LEMMA RecoverSaveKeeps ==
  ASSUME IInv, NEW p \in Procs, NEW t \in Tasks, RecoverSave(p, t)
  PROVE  IInv'
<1>1. /\ job[p][t] \in Job /\ job[p][t].pc \in Holding
      /\ Save(t, RecoveredStatus(t), "interrupted")
      /\ window' \in {window \union {t}, window}
      /\ UNCHANGED <<commit, drawn, receipts, cert, result, effect, reached,
                     sends, crashes, faults>>
  BY DEF IInv, TypeOK, RecoverSave, At, Holding, InFlight, RecoverStages
<1>2. RecoveredStatus(t) \in Status \ Interrupted /\ "interrupted" \in Errors
  BY DEF RecoveredStatus, Status, Interrupted, Errors
<1>3. /\ row' \in [Tasks -> Row] /\ row'[t].status = RecoveredStatus(t)
      /\ \A u \in Tasks \ {t} : row'[u] = row[u]
  BY <1>1, <1>2, SaveFacts DEF IInv
<1>4. PICK new \in Job :
        /\ Become(p, t, new) /\ JobOKAt(t, new)
        /\ new.pc \in {"idle", "recover_ask"}
        /\ new.pc = "recover_ask" => t \in Mutations
  <2> DEFINE asks == [job[p][t] EXCEPT !.pc = "recover_ask"]
  <2>1. asks \in Job /\ asks.pc = "recover_ask" /\ JobOKAt(t, asks)
    BY <1>1 DEF Job, Stages, InFlight, RecoverStages, JobOKAt
  <2>2. Idle \in Job /\ Idle.pc = "idle" /\ JobOKAt(t, Idle)
    BY IdleFacts DEF Idle
  <2>3. \/ Become(p, t, asks) /\ t \in Mutations
        \/ Become(p, t, Idle)
    BY TaskAssumption DEF RecoverSave, GoTo, Finish
  <2> HIDE DEF asks
  <2>. QED  BY <2>1, <2>2, <2>3
<1>5. /\ job' \in [Procs -> [Tasks -> Job]] /\ job'[p][t] = new /\ About(p, t)
  BY <1>3, <1>4, BecomeFacts DEF IInv, About
<1>6. JobOK' /\ HolderOK' /\ DoneOK'
  <2>1. new.pc \notin Holding
    BY <1>4 DEF Holding, InFlight, Running, CatchStages, RecoverStages
  <2>2. new.pc \in Done => row'[t].status \notin Interrupted \union {"planned"}
    BY <1>3, <1>4 DEF RecoveredStatus, Done, Interrupted
  <2>3. \A q \in Procs \ {p} : job[q][t].pc \notin Holding /\ job[q][t].pc \notin Done
    BY <1>1, Alone DEF IInv, HolderOK
  <2>. QED  BY <1>4, <1>5, <2>1, <2>2, <2>3, StepKeeps
<1>7. UnsentOK'
  <2>1. t \in Mutations => row'[t].status # "planned" /\ new.pc # "attempting"
    BY <1>3, <1>4 DEF RecoveredStatus
  <2>. QED  BY <1>1, <1>5, <2>1, StepKeepsUnsent
<1>. QED  BY <1>1, <1>3, <1>5, <1>6, <1>7 DEF IInv, TypeOK

LEMMA RecoverFailsKeeps ==
  ASSUME IInv, NEW p \in Procs, NEW t \in Tasks, RecoverFails(p, t)
  PROVE  IInv'
<1>1. /\ job[p][t].pc \in RecoverStages /\ Finish(p, t)
      /\ UNCHANGED <<commit, drawn, receipts, cert, result, world, crashes>>
      /\ Fault \/ UNCHANGED faults
  BY DEF RecoverFails
<1>2. PICK o \in {Nobody, p} :
        row' = [row EXCEPT ![t] = [@ EXCEPT !.owner = o]]
  BY DEF RecoverFails
<1>3. /\ row' \in [Tasks -> Row] /\ row'[t].status = row[t].status
      /\ \A u \in Tasks \ {t} : row'[u] = row[u]
  <2> DEFINE r == [row[t] EXCEPT !.owner = o]
  <2>1. row[t] \in Row
    BY DEF IInv, TypeOK
  <2>2. r \in Row /\ r.status = row[t].status
    BY <2>1 DEF Row
  <2>3. row' = [row EXCEPT ![t] = r]
    BY <1>2
  <2> HIDE DEF r
  <2>. QED  BY <2>2, <2>3 DEF IInv, TypeOK
<1>4. /\ job' \in [Procs -> [Tasks -> Job]] /\ job'[p][t] = Idle /\ About(p, t)
  BY <1>1, <1>3, IdleFacts, BecomeFacts DEF IInv, Finish, About
<1>5. JobOK' /\ HolderOK' /\ DoneOK'
  <2>1. \A q \in Procs \ {p} : job[q][t].pc \notin Holding
    <3>1. CASE job[p][t].pc \in Holding
      BY <3>1, Alone
    <3>2. CASE job[p][t].pc = "recover_ask"
      BY <3>2, Alone DEF IInv, DoneOK, Done
    <3>. QED  BY <1>1, <3>1, <3>2 DEF Holding, InFlight, RecoverStages
  <2>2. \/ \A q \in Procs \ {p} : job[q][t].pc \notin Done
        \/ row[t].status \notin Interrupted \union {"planned"}
    BY Alone
  <2>3. Idle.pc \notin Holding /\ Idle.pc \notin Done
    BY DEF Idle, Holding, InFlight, Running, CatchStages, RecoverStages, Done
  <2>. QED  BY <1>3, <1>4, <2>1, <2>2, <2>3, IdleFacts, StepKeeps
<1>6. UnsentOK'
  <2>1. Idle.pc # "attempting"
    BY DEF Idle
  <2>. QED  BY <1>1, <1>3, <1>4, <2>1, StepKeepsUnsent DEF world, IInv, UnsentOK
<1>. QED  BY <1>1, <1>3, <1>4, <1>5, <1>6 DEF IInv, TypeOK, world, Fault

LEMMA ParkedFacts ==
  ASSUME IInv, NEW t \in Tasks, Parked(t)
  PROVE  \A q \in Procs : job[q][t].pc \notin Holding
BY Alone DEF Parked, Interrupted, IInv, HolderOK

\* Parking a parked task again.
LEMMA ParkKeeps ==
  ASSUME IInv, NEW p \in Procs, NEW t \in Tasks, Parked(t),
         NEW error \in Errors, Save(t, "recovery_required", error), Finish(p, t),
         UNCHANGED <<commit, drawn, receipts, cert, result, world, crashes, faults>>
  PROVE  IInv'
<1>1. "recovery_required" \in Status \ (Interrupted \union {"planned"})
  BY DEF Status, Interrupted
<1>2. sends' = sends
  BY DEF world
<1>3. /\ job' \in [Procs -> [Tasks -> Job]] /\ row' \in [Tasks -> Row]
      /\ JobOK' /\ HolderOK' /\ DoneOK' /\ UnsentOK'
  BY <1>1, <1>2, ParkedFacts, FinishSettleKeeps
<1>. QED  BY <1>3 DEF IInv, TypeOK, world

LEMMA ReconcileStoredKeeps ==
  ASSUME IInv, NEW p \in Procs, NEW t \in Tasks,
         ReconcileCommitted(p, t) \/ ReconcileUndeclared(p, t)
  PROVE  IInv'
<1>1. CASE ReconcileCommitted(p, t)
  BY <1>1, ParkedFacts, ResolveKeeps DEF ReconcileCommitted
<1>2. CASE ReconcileUndeclared(p, t)
  BY <1>2, ParkKeeps DEF ReconcileUndeclared, Errors
<1>. QED  BY <1>1, <1>2

LEMMA ReconcileAskKeeps ==
  ASSUME IInv, NEW p \in Procs, NEW t \in Tasks, ReconcileAsk(p, t)
  PROVE  IInv'
<1>1. PICK view \in {"yes", "no", "unclear"} :
        Become(p, t, [Idle EXCEPT !.pc = "asking",
                        !.note = IF view = "no" THEN Miss(t) ELSE view])
  BY DEF ReconcileAsk
<1> DEFINE note == IF view = "no" THEN Miss(t) ELSE view
           new == [Idle EXCEPT !.pc = "asking", !.note = note]
<1>2. note \in {"yes", "no", "no_yet", "unclear"}
  BY DEF Miss
<1> HIDE DEF note
<1>3. new \in Job /\ new.pc = "asking" /\ new.note = note
  BY <1>2, IdleFacts DEF Idle, Job, Stages
<1>4. JobOKAt(t, new) /\ new.pc \notin Holding /\ new.pc \notin Done
  BY <1>2, <1>3 DEF JobOKAt, Holding, InFlight, Running, CatchStages, RecoverStages, Done
<1>5. Become(p, t, new)
  BY <1>1 DEF note
<1>6. UNCHANGED <<stored, world, crashes, faults>>
  BY DEF ReconcileAsk
<1> HIDE DEF new
<1>7. /\ job' \in [Procs -> [Tasks -> Job]]
      /\ JobOK' /\ HolderOK' /\ DoneOK' /\ UnsentOK'
  BY <1>3, <1>4, <1>5, <1>6, JobStepKeeps DEF stored, world
<1>. QED  BY <1>6, <1>7 DEF IInv, TypeOK, stored, world

LEMMA ReconcileAnswerKeeps ==
  ASSUME IInv, NEW p \in Procs, NEW t \in Tasks, ReconcileAnswer(p, t)
  PROVE  IInv'
<1>1. PICK note \in {"yes", "no", "no_yet", "unclear"} : Answer(p, t, note)
  BY DEF IInv, JobOK, JobOKAt, ReconcileAnswer, At
<1>2. Finish(p, t) /\ UNCHANGED <<world, crashes, faults>>
  BY <1>1 DEF Answer
<1>3. CASE ~StillParked(t)
  <2>1. UNCHANGED stored
    BY <1>1, <1>3 DEF Answer
  <2>2. /\ job' \in [Procs -> [Tasks -> Job]]
        /\ JobOK' /\ HolderOK' /\ DoneOK' /\ UnsentOK'
    BY <1>2, <2>1, FinishKeeps DEF stored, world
  <2>. QED  BY <1>2, <2>1, <2>2 DEF IInv, TypeOK, stored, world
<1>4. CASE StillParked(t)
  <2>1. Parked(t)
    BY <1>4 DEF StillParked
  <2>2. CASE note = "yes"
    BY <1>1, <1>2, <1>4, <2>1, <2>2, ParkedFacts, ResolveKeeps DEF Answer
  <2>3. CASE note \in {"unclear", "no_yet"}
    <3>1. PICK error \in {"unanswered", "settling"} :
            /\ Save(t, "recovery_required", error)
            /\ UNCHANGED <<commit, drawn, receipts, cert, result>>
      BY <1>1, <1>4, <2>3 DEF Answer
    <3>2. error \in Errors
      BY DEF Errors
    <3>. QED  BY <1>2, <2>1, <3>1, <3>2, ParkKeeps
  <2>4. CASE note = "no"
    <3>1. /\ Save(t, "failed", "not_applied") /\ AddReceipt(t, "not_applied")
          /\ Certify(t, "failed") /\ UNCHANGED <<commit, drawn, result>>
      BY <1>1, <1>4, <2>4 DEF Answer
    <3>2. /\ "failed" \in Status \ (Interrupted \union {"planned"})
          /\ "not_applied" \in Errors /\ "not_applied" \in Receipts
      BY DEF Status, Interrupted, Errors, Receipts
    <3>3. sends' = sends
      BY <1>2 DEF world
    <3>4. /\ job' \in [Procs -> [Tasks -> Job]] /\ row' \in [Tasks -> Row]
          /\ JobOK' /\ HolderOK' /\ DoneOK' /\ UnsentOK'
      BY <1>2, <2>1, <3>1, <3>2, <3>3, ParkedFacts, FinishSettleKeeps
    <3>5. /\ receipts' \in [Tasks -> SUBSET Receipts]
          /\ cert' \in [Tasks -> Status \union {"none"}]
      BY <3>1, <3>2, ReceiptFacts, CertifyFacts DEF IInv
    <3>. QED  BY <1>2, <3>1, <3>4, <3>5 DEF IInv, TypeOK, world
  <2>. QED  BY <2>2, <2>3, <2>4
<1>. QED  BY <1>3, <1>4

\* A task leaves "planned" without running, in no job of any process.
LEMMA LeaveKeeps ==
  ASSUME IInv, NEW t \in Tasks,
         PreventDuplicate(t) \/ Block(t) \/ Withdraw(t)
  PROVE  IInv'
<1>1. PICK status \in {"cancelled", "policy_blocked"}, error \in Errors,
           certs \in SUBSET (Status \union {"none"}) :
        Leave(t, status, error, certs)
  <2>1. row[t].error \in Errors /\ cert[t] \in Status \union {"none"}
    BY DEF IInv, TypeOK, Row
  <2>2. "duplicate" \in Errors /\ {"cancelled", "policy_blocked"} \subseteq Status
    BY DEF Errors, Status
  <2>. QED  BY <2>1, <2>2 DEF PreventDuplicate, Block, Withdraw
<1>2. /\ Save(t, status, error) /\ row[t].status = "planned"
      /\ \E c \in certs : Certify(t, c)
      /\ UNCHANGED <<commit, drawn, receipts, result, job, world, crashes, faults>>
  BY <1>1 DEF Leave, Unstarted
<1>3. status \in Status /\ status \notin Interrupted \union {"planned"}
  BY DEF Status, Interrupted
<1>4. /\ row' \in [Tasks -> Row] /\ row'[t].status = status
      /\ \A u \in Tasks \ {t} : row'[u] = row[u]
  BY <1>2, <1>3, SaveFacts DEF IInv
<1>5. cert' \in [Tasks -> Status \union {"none"}]
  BY <1>2, CertifyFacts DEF IInv
<1>6. JobOK'
  BY <1>2 DEF IInv, JobOK, JobOKAt, Attempts
<1>7. HolderOK'
  BY <1>2, <1>4, Alone DEF IInv, HolderOK, Interrupted
<1>8. DoneOK'
  BY <1>2, <1>3, <1>4 DEF IInv, DoneOK
<1>9. UnsentOK'
  BY <1>2, <1>3, <1>4, TaskAssumption DEF IInv, UnsentOK, At, world
<1>. QED  BY <1>2, <1>4, <1>5, <1>6, <1>7, <1>8, <1>9 DEF IInv, TypeOK, world

LEMMA FarEndKeeps ==
  ASSUME IInv, NEW t \in Tasks, FarEnd(t)
  PROVE  IInv'
<1>1. UNCHANGED <<stored, job, sends, crashes, faults>>
  BY DEF FarEnd, EffectLands, EffectLost, EffectShows, WindowEnds
<1>2. /\ effect' \in [Tasks -> {"none", "sent", "landed", "visible", "lost"}]
      /\ reached' \subseteq Tasks /\ window' \subseteq Tasks
  BY DEF IInv, TypeOK, FarEnd, EffectLands, EffectLost, EffectShows, WindowEnds
<1>3. TypeOK'
  BY <1>1, <1>2 DEF IInv, TypeOK, stored
<1>4. JobOK' /\ HolderOK' /\ DoneOK' /\ UnsentOK'
  BY <1>1 DEF IInv, JobOK, JobOKAt, Attempts, HolderOK, DoneOK, UnsentOK, At, stored
<1>. QED  BY <1>3, <1>4 DEF IInv

LEMMA CrashKeeps ==
  ASSUME IInv, NEW p \in Procs, Crash(p)
  PROVE  IInv'
<1>1. /\ job' = [job EXCEPT ![p] = [t \in Tasks |-> Idle]]
      /\ row' = [t \in Tasks |-> IF row[t].owner = p
                                   THEN [row[t] EXCEPT !.owner = Gone] ELSE row[t]]
      /\ crashes' = crashes + 1
      /\ UNCHANGED <<commit, drawn, receipts, cert, result, world, faults>>
  BY DEF Crash
<1>2. job' \in [Procs -> [Tasks -> Job]]
  BY <1>1, IdleFacts DEF IInv, TypeOK
<1>3. \A t \in Tasks :
        /\ job'[p][t] = Idle
        /\ \A q \in Procs \ {p} : job'[q][t] = job[q][t]
  BY <1>1 DEF IInv, TypeOK
<1>4. \A t \in Tasks :
        /\ row'[t] \in Row /\ row'[t].status = row[t].status
        /\ row[t].owner # p => row'[t].owner = row[t].owner
  <2>. TAKE t \in Tasks
  <2>1. row[t] \in Row
    BY DEF IInv, TypeOK
  <2>. QED  BY <1>1, <2>1 DEF Row
<1>5. row' \in [Tasks -> Row]
  BY <1>1, <1>4
<1>6. TypeOK'
  <2>1. /\ UNCHANGED <<commit, drawn, receipts, cert, result, faults>>
        /\ UNCHANGED <<effect, reached, sends, window>>
    BY <1>1 DEF world
  <2>2. crashes' \in Nat
    BY <1>1 DEF IInv, TypeOK
  <2>. QED  BY <1>2, <1>5, <2>1, <2>2 DEF IInv, TypeOK
<1>7. /\ Idle.pc \notin Holding /\ Idle.pc \notin Done /\ Idle.pc # "attempting"
  BY DEF Idle, Holding, InFlight, Running, CatchStages, RecoverStages, Done
<1>8. JobOK'
  <2>. SUFFICES ASSUME NEW q \in Procs, NEW t \in Tasks
                PROVE  JobOKAt(t, job'[q][t])
    BY DEF JobOK, JobOKAt, Attempts
  <2>. QED  BY <1>3, IdleFacts DEF IInv, JobOK
<1>9. HolderOK'
  <2>. SUFFICES ASSUME NEW q \in Procs, NEW t \in Tasks, job'[q][t].pc \in Holding
                PROVE  row'[t].status \in Interrupted /\ row'[t].owner = q
    BY DEF HolderOK
  <2>1. q # p
    BY <1>3, <1>7
  <2>. QED  BY <1>3, <1>4, <2>1 DEF IInv, HolderOK
<1>10. DoneOK'
  <2>. SUFFICES ASSUME NEW q \in Procs, NEW t \in Tasks, job'[q][t].pc \in Done
                PROVE  row'[t].status \notin Interrupted \union {"planned"}
    BY DEF DoneOK
  <2>1. q # p
    BY <1>3, <1>7
  <2>. QED  BY <1>3, <1>4, <2>1 DEF IInv, DoneOK
<1>11. UnsentOK'
  <2>. SUFFICES ASSUME NEW t \in Mutations
                PROVE  /\ sends'[t] <= 1
                       /\ row'[t].status = "planned" => sends'[t] = 0
                       /\ \A q \in Procs : job'[q][t].pc = "attempting" => sends'[t] = 0
    BY DEF UnsentOK, At
  <2>1. t \in Tasks /\ sends' = sends
    BY <1>1, TaskAssumption DEF world
  <2>. QED  BY <1>3, <1>4, <1>7, <2>1 DEF IInv, UnsentOK, At
<1>. QED  BY <1>6, <1>8, <1>9, <1>10, <1>11 DEF IInv

LEMMA StutterKeeps ==
  ASSUME IInv, UNCHANGED vars
  PROVE  IInv'
<1>1. UNCHANGED <<stored, job, world, crashes, faults>>
  BY DEF vars
<1>. QED
  BY <1>1 DEF IInv, TypeOK, JobOK, JobOKAt, Attempts, HolderOK, DoneOK, UnsentOK,
     At, stored, world

-----------------------------------------------------------------------------
(* The theorems.                                                           *)

\* What a job may hold, who holds a row and which changes are still unsent is
\* true of every database no task of which has started.
THEOREM InitIInv == Init => IInv
<1>. SUFFICES ASSUME Init PROVE IInv
  OBVIOUS
<1>1. Idle \in Job /\ \A t \in Tasks : JobOKAt(t, Idle)
  BY IdleFacts
<1>2. /\ Idle.pc \notin Holding /\ Idle.pc \notin Done /\ Idle.pc # "attempting"
  BY DEF Idle, Holding, InFlight, Running, CatchStages, RecoverStages, Done
<1>3. TypeOK
  BY <1>1 DEF Init, TypeOK, Row, Status, Errors
<1>4. JobOK
  BY <1>1 DEF Init, JobOK
<1>5. HolderOK /\ DoneOK
  BY <1>2 DEF Init, HolderOK, DoneOK
<1>6. UnsentOK
  BY <1>2, TaskAssumption DEF Init, UnsentOK, At
<1>. QED  BY <1>3, <1>4, <1>5, <1>6 DEF IInv

\* And stays true whatever execute, recovery, reconcile, the far end, a failed
\* write or a crash does next.
THEOREM NextIInv == IInv /\ [Next]_vars => IInv'
<1>. SUFFICES ASSUME IInv, [Next]_vars PROVE IInv'
  OBVIOUS
<1>1. ASSUME NEW p \in Procs, NEW t \in Tasks, Execute(p, t) PROVE IInv'
  BY <1>1, StartWriteKeeps, BreakerRefusesKeeps, AttemptKeeps, ReturnsKeeps,
     ThrowsKeeps, SaveResultKeeps, VerifyKeeps, ConcludeKeeps, CatchCommitKeeps,
     CatchDrawKeeps, CatchReceiptKeeps, CatchSaveKeeps, CatchCertifyKeeps
  DEF Execute
<1>2. ASSUME NEW p \in Procs, NEW t \in Tasks, Recover(p, t) PROVE IInv'
  BY <1>2, ClaimKeeps, RecoverResolvesKeeps, RecoverDrawKeeps, RecoverSaveKeeps
  DEF Recover
<1>3. ASSUME NEW p \in Procs, NEW t \in Tasks, Reconcile(p, t) PROVE IInv'
  BY <1>3, ReconcileStoredKeeps, ReconcileAskKeeps, ReconcileAnswerKeeps
  DEF Reconcile
<1>4. ASSUME NEW p \in Procs, NEW t \in Tasks, Fails(p, t) PROVE IInv'
  BY <1>4, AttemptFailsKeeps, ReturnedFailsKeeps, ConcludeFailsKeeps,
     WriteFailsKeeps, RecoverFailsKeeps
  DEF Fails
<1>5. CASE Next
  BY <1>1, <1>2, <1>3, <1>4, <1>5, StartCheckKeeps, AbortKeeps, LeaveKeeps,
     FarEndKeeps, CrashKeeps
  DEF Next
<1>6. CASE UNCHANGED vars
  BY <1>6, StutterKeeps
<1>. QED  BY <1>5, <1>6

\* Every reachable state satisfies the inductive invariant.
THEOREM Invariance == Spec => []IInv
BY InitIInv, NextIInv, PTL DEF Spec

\* Rows, jobs, receipts and the rest keep their types, in every deployment.
THEOREM TypeCorrect == Spec => []TypeOK
BY Invariance, PTL DEF IInv

\* A task is held by one process at a time (the start's compare-and-set, the
\* owner written with it, claimInterruptedTask), however many share the database
\* and however often they crash or their writes fail.
THEOREM TaskHasSoleHolder == Spec => []SoleHolder
<1>1. IInv => SoleHolder
  BY DEF IInv, HolderOK, SoleHolder
<1>. QED  BY <1>1, Invariance, PTL

\* The adapter is called at most once for a change: no retry, recovery,
\* reconcile or second process ever calls it again.
THEOREM ChangeIsSentAtMostOnce == Spec => []AtMostOnce
<1>1. IInv => AtMostOnce
  BY DEF IInv, UnsentOK, AtMostOnce
<1>. QED  BY <1>1, Invariance, PTL

-----------------------------------------------------------------------------
\* Only commitIdempotency writes the keys, in whichever step it is called.
LEMMA CommitStep ==
  ASSUME IInv, [Next]_vars
  PROVE  UNCHANGED commit \/ \E t \in Tasks : CommitKey(t)
<1>1. ASSUME NEW p \in Procs, NEW t \in Tasks, Execute(p, t)
      PROVE  UNCHANGED commit \/ CommitKey(t)
  BY <1>1 DEF Execute, StartWrite, BreakerRefuses, Attempt, Returns, Throws,
     SaveResult, Verify, Conclude, CatchCommit, CatchDraw, CatchReceipt,
     CatchSave, CatchCertify, stored
<1>2. ASSUME NEW p \in Procs, NEW t \in Tasks, Recover(p, t)
      PROVE  UNCHANGED commit \/ CommitKey(t)
  BY <1>2 DEF Recover, Claim, RecoverObserved, RecoverCommitted, RecoverDraw,
     RecoverSave, ResolveAsVerified
<1>3. ASSUME NEW p \in Procs, NEW t \in Tasks, Reconcile(p, t)
      PROVE  UNCHANGED commit \/ CommitKey(t)
  <2>1. CASE ReconcileCommitted(p, t) \/ ReconcileUndeclared(p, t) \/ ReconcileAsk(p, t)
    BY <2>1 DEF ReconcileCommitted, ReconcileUndeclared, ReconcileAsk,
       ResolveAsVerified, stored
  <2>2. CASE ReconcileAnswer(p, t)
    <3>1. PICK note \in {"yes", "no", "no_yet", "unclear"} : Answer(p, t, note)
      BY <2>2 DEF IInv, JobOK, JobOKAt, ReconcileAnswer, At
    <3>. QED  BY <3>1 DEF Answer, ResolveAsVerified, stored
  <2>. QED  BY <1>3, <2>1, <2>2 DEF Reconcile
<1>4. ASSUME NEW p \in Procs, NEW t \in Tasks, Fails(p, t)
      PROVE  UNCHANGED commit
  BY <1>4 DEF Fails, AttemptFails, ReturnedFails, ConcludeFails, WriteFails,
     RecoverFails, stored
<1>5. ASSUME NEW p \in Procs, NEW t \in Tasks,
             NEW why \in {"cancelled", "budget_exhausted"},
             StartCheck(p, t) \/ Abort(p, t, why)
      PROVE  UNCHANGED commit
  BY <1>5 DEF StartCheck, Abort, stored
<1>6. ASSUME NEW t \in Tasks,
             PreventDuplicate(t) \/ Block(t) \/ Withdraw(t) \/ FarEnd(t)
      PROVE  UNCHANGED commit
  BY <1>6 DEF PreventDuplicate, Block, Withdraw, Leave, FarEnd, EffectLands,
     EffectLost, EffectShows, WindowEnds, stored
<1>7. ASSUME NEW p \in Procs, Crash(p) PROVE UNCHANGED commit
  BY <1>7 DEF Crash
<1>8. CASE UNCHANGED vars
  BY <1>8 DEF vars, stored
<1>. QED  BY <1>1, <1>2, <1>3, <1>4, <1>5, <1>6, <1>7, <1>8 DEF Next

\* An idempotency key once committed stays with the task it is committed to:
\* commitIdempotency never takes one over.
THEOREM CommitsStand == Spec => CommitStands
<1>1. IInv /\ [Next]_vars =>
        \A k \in Keys : commit[k] # NoTask => commit'[k] = commit[k]
  BY CommitStep, CommitKeyFacts DEF IInv
<1>. QED  BY <1>1, Invariance, PTL DEF Spec, CommitStands

-----------------------------------------------------------------------------
\* A job's step that moves a settled task's status is its certificate write.
LEMMA SettledStep ==
  ASSUME IInv, NEW p \in Procs, NEW u \in Tasks, NEW t \in Tasks,
         Execute(p, u) \/ Recover(p, u) \/ Reconcile(p, u) \/ Fails(p, u),
         row[t].status \in Settled, row'[t].status # row[t].status
  PROVE  At(p, t, "catch_certify") /\ At(p, t, "idle")'
<1>1. /\ row[t].status \notin Interrupted
      /\ row[t].status # "planned" /\ row[t].status # "recovery_required"
  BY DEF Settled
<1>2. /\ \A q \in Procs : job[q][t].pc \notin Holding
      /\ row \in [Tasks -> Row]
  BY <1>1, Alone DEF IInv, TypeOK
<1>3. job[p][u].pc \notin {"attempting", "calling", "returned", "verifying",
        "deciding", "catch_commit", "catch_draw", "catch_receipt", "catch_save",
        "recovering", "recover_save"} \/ u # t
  BY <1>2 DEF Holding, InFlight, Running, CatchStages, RecoverStages
<1>4. CASE Execute(p, u)
  <2>1. CASE StartWrite(p, u)
    BY <1>1, <1>2, <2>1 DEF StartWrite, Unstarted
  <2>2. CASE SaveResult(p, u) \/ Conclude(p, u) \/ CatchSave(p, u)
    BY <1>2, <1>3, <2>2 DEF SaveResult, Conclude, CatchSave, At, Save
  <2>3. CASE CatchCertify(p, u)
    <3>1. u = t
      BY <1>2, <2>3 DEF CatchCertify, Save
    <3>2. job'[p][u] = Idle
      BY <2>3 DEF CatchCertify, Finish, Become, IInv, TypeOK
    <3>. QED  BY <2>3, <3>1, <3>2 DEF CatchCertify, At, Idle
  <2>4. CASE row' = row
    BY <2>4
  <2>. QED
    BY <1>4, <2>1, <2>2, <2>3, <2>4 DEF Execute, BreakerRefuses, Attempt,
       Returns, Throws, Verify, CatchCommit, CatchDraw, CatchReceipt, stored
<1>5. CASE Recover(p, u)
  <2>1. CASE Claim(p, u)
    BY <1>1, <1>2, <2>1 DEF Claim
  <2>2. CASE RecoverObserved(p, u) \/ RecoverCommitted(p, u) \/ RecoverSave(p, u)
    BY <1>2, <1>3, <2>2 DEF RecoverObserved, RecoverCommitted, RecoverSave, At,
       ResolveAsVerified, Save
  <2>. QED  BY <1>5, <2>1, <2>2 DEF Recover, RecoverDraw
<1>6. CASE Reconcile(p, u)
  <2>1. CASE ReconcileCommitted(p, u) \/ ReconcileUndeclared(p, u)
    BY <1>1, <1>2, <2>1 DEF ReconcileCommitted, ReconcileUndeclared, Parked,
       ResolveAsVerified, Save
  <2>2. CASE ReconcileAnswer(p, u)
    <3>1. PICK note \in {"yes", "no", "no_yet", "unclear"} : Answer(p, u, note)
      BY <2>2 DEF IInv, JobOK, JobOKAt, ReconcileAnswer, At
    <3>2. row' = row \/ row[u].status = "recovery_required"
      BY <3>1 DEF Answer, StillParked, Parked, stored
    <3>3. \E status, error : row' = row \/ Save(u, status, error)
      BY <3>1 DEF Answer, ResolveAsVerified, stored
    <3>. QED  BY <1>1, <1>2, <3>2, <3>3 DEF Save
  <2>. QED  BY <1>6, <2>1, <2>2 DEF Reconcile, ReconcileAsk, stored
<1>7. CASE Fails(p, u)
  <2>1. CASE RecoverFails(p, u)
    BY <1>2, <2>1 DEF RecoverFails, Row
  <2>. QED
    BY <1>7, <2>1 DEF Fails, AttemptFails, ReturnedFails, ConcludeFails,
       WriteFails, stored
<1>. QED  BY <1>4, <1>5, <1>6, <1>7

\* A settled task is reopened by nothing but the certificate write of the
\* execution that parked it (the last write of execute's catch): settleParked,
\* claimInterruptedTask and leaveUnstarted all refuse it.
THEOREM OnlyCertifyReopens == Spec => SettledIsReopenedByCertifyOnly
<1>1. ASSUME IInv, [Next]_vars, NEW t \in Tasks,
             row[t].status \in Settled, row'[t].status # row[t].status
      PROVE  \E p \in Procs : At(p, t, "catch_certify") /\ At(p, t, "idle")'
  <2>1. ASSUME NEW p \in Procs, NEW u \in Tasks,
               Execute(p, u) \/ Recover(p, u) \/ Reconcile(p, u) \/ Fails(p, u)
        PROVE  At(p, t, "catch_certify") /\ At(p, t, "idle")'
    BY <1>1, <2>1, SettledStep
  <2>2. ASSUME NEW p \in Procs, NEW u \in Tasks,
               NEW why \in {"cancelled", "budget_exhausted"},
               StartCheck(p, u) \/ Abort(p, u, why)
        PROVE  FALSE
    BY <1>1, <2>2 DEF StartCheck, Abort, stored
  <2>3. ASSUME NEW u \in Tasks,
               PreventDuplicate(u) \/ Block(u) \/ Withdraw(u)
        PROVE  FALSE
    <3>1. /\ row[u].status = "planned"
          /\ \E status, error : Save(u, status, error)
      BY <2>3 DEF PreventDuplicate, Block, Withdraw, Leave, Unstarted
    <3>. QED  BY <1>1, <3>1 DEF Save, Settled, IInv, TypeOK
  <2>4. ASSUME NEW u \in Tasks, FarEnd(u) PROVE FALSE
    BY <1>1, <2>4 DEF FarEnd, EffectLands, EffectLost, EffectShows, WindowEnds, stored
  <2>5. ASSUME NEW p \in Procs, Crash(p) PROVE FALSE
    BY <1>1, <2>5 DEF Crash, IInv, TypeOK, Row
  <2>6. CASE UNCHANGED vars
    BY <1>1, <2>6 DEF vars, stored
  <2>. QED  BY <1>1, <2>1, <2>2, <2>3, <2>4, <2>5, <2>6 DEF Next
<1>2. IInv /\ [Next]_vars =>
        \A t \in Tasks :
          row[t].status \in Settled /\ row'[t].status # row[t].status =>
            \E p \in Procs : At(p, t, "catch_certify") /\ At(p, t, "idle")'
  BY <1>1
<1>. QED  BY <1>2, Invariance, PTL DEF Spec, SettledIsReopenedByCertifyOnly

\* One process holds a task at a time, and over all of them the adapter is called
\* at most once for a change (the two theorems above in the form a run checks).
THEOREM TaskIsHeldByOneSentOnce == Spec => []HeldByOneSentOnce
BY TaskHasSoleHolder, ChangeIsSentAtMostOnce, PTL DEF HeldByOneSentOnce
=============================================================================
