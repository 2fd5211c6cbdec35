---------------------------- MODULE TerminalJobs ----------------------------
(***************************************************************************)
(* The commands a terminal operation runs, in packages/terminal-runtime/   *)
(* src/index.ts: a run is held until its program is over, a job is kept    *)
(* under an id for its output. Each leads a process group of its own, and  *)
(* what the program leaves in it is supervised until the group is empty:   *)
(* by the job's timer, by a watch once the program has exited, or by       *)
(* close, which stops what is left.                                        *)
(*                                                                         *)
(* A step is one event of the server's process or of the operating system. *)
(* A SIGTERM may be trapped; a SIGKILL ends every process of the group.    *)
(***************************************************************************)
EXTENDS Naturals, Sequences, FiniteSets, SequencesExt

CONSTANTS
  Commands,  \* bound: the commands run and jobs started
  MaxJobs    \* MAX_JOBS

TerminalAssumption == MaxJobs \in Nat \ {0}

VARIABLES
  command,   \* per command, its process group, timers and answer
  jobs,      \* the jobs kept, oldest first
  foreground,\* runs close waits for
  closed, closing, \* close was called; the commands it waits for
  spared     \* history: commands close could not see

terminalVars == <<command, jobs, foreground, closed, closing, spared>>

\* program: running; dead, its exit not heard of yet; exited. left: processes
\* of its group besides. kill: a SIGKILL is owed. ended: its pipes closed too.
Fresh == [kind |-> "none", program |-> "none", left |-> FALSE, timer |-> FALSE, kill |-> FALSE,
          watch |-> FALSE, ended |-> FALSE, expired |-> FALSE, timedOut |-> FALSE,
          answer |-> "none"]

Init ==
  /\ command = [c \in Commands |-> Fresh]
  /\ jobs = <<>> /\ foreground = {} /\ closed = FALSE /\ closing = {} /\ spared = {}

\* groupAlive
Alive(c) == command[c].program = "running" \/ command[c].left
LeftBehind(c) == command[c].watch /\ Alive(c)
Set(c, r) == command' = [command EXCEPT ![c] = r]
\* stopTree: SIGTERM now, SIGKILL after the grace.
Stopping(r) == [r EXCEPT !.kill = TRUE]

-----------------------------------------------------------------------------
(* The operating system *)

Forks(c) ==
  /\ command[c].program = "running" /\ ~command[c].left
  /\ Set(c, [command[c] EXCEPT !.left = TRUE])
  /\ UNCHANGED <<jobs, foreground, closed, closing, spared>>

ProgramEnds(c) ==
  /\ command[c].program = "running"
  /\ Set(c, [command[c] EXCEPT !.program = "dead"])
  /\ UNCHANGED <<jobs, foreground, closed, closing, spared>>

LeftEnd(c) ==
  /\ command[c].left
  /\ Set(c, [command[c] EXCEPT !.left = FALSE])
  /\ UNCHANGED <<jobs, foreground, closed, closing, spared>>

\* The owed SIGKILL; a job's timer marks it expired with it.
Killed(r) == [r EXCEPT !.kill = FALSE, !.left = FALSE,
                       !.program = IF @ = "running" THEN "dead" ELSE @]
Kill(c) ==
  /\ command[c].kill
  /\ Set(c, [Killed(command[c]) EXCEPT !.expired = command[c].kind = "start" /\ command[c].timedOut])
  /\ UNCHANGED <<jobs, foreground, closed, closing, spared>>

-----------------------------------------------------------------------------
(* A run *)

Spawned(kind) == [Fresh EXCEPT !.kind = kind, !.program = "running", !.timer = TRUE]
\* What close cannot see: spawned after it, or not kept yet when it looked.
Unseen(c) == spared' = IF closed THEN spared \cup {c} ELSE spared

Run(c) ==
  /\ command[c].kind = "none"
  /\ Set(c, Spawned("run")) /\ foreground' = foreground \cup {c} /\ Unseen(c)
  /\ UNCHANGED <<jobs, closed, closing>>

\* The task's cancel: answered at once, stopped meanwhile.
Cancel(c) ==
  /\ command[c].kind = "run" /\ command[c].answer = "none"
  /\ Set(c, [Stopping(command[c]) EXCEPT !.timer = FALSE, !.answer = "unknown"])
  /\ UNCHANGED <<jobs, foreground, closed, closing, spared>>

RunTimeout(c) ==
  /\ command[c].kind = "run" /\ command[c].timer
  /\ Set(c, IF command[c].program = "exited" THEN [command[c] EXCEPT !.timer = FALSE]
            ELSE [Stopping(command[c]) EXCEPT !.timer = FALSE, !.timedOut = TRUE])
  /\ UNCHANGED <<jobs, foreground, closed, closing, spared>>

\* variant: what the program left is nobody's
RunForgets(c) ==
  /\ command[c].kind = "run" /\ command[c].program = "dead"
  /\ Set(c, [command[c] EXCEPT !.program = "exited"]) /\ foreground' = foreground \ {c}
  /\ UNCHANGED <<jobs, closed, closing, spared>>

\* A run is over when its program is: what it left is told to go, and watched.
RunExit(c) ==
  /\ command[c].kind = "run" /\ command[c].program = "dead"
  /\ IF command[c].left
     THEN Set(c, [command[c] EXCEPT !.program = "exited", !.watch = TRUE]) /\ UNCHANGED foreground
     ELSE Set(c, [command[c] EXCEPT !.program = "exited"]) /\ foreground' = foreground \ {c}
  /\ UNCHANGED <<jobs, closed, closing, spared>>

RunWatch(c) ==
  /\ command[c].kind = "run" /\ command[c].watch
  /\ Set(c, [command[c] EXCEPT !.watch = FALSE, !.left = FALSE]) /\ foreground' = foreground \ {c}
  /\ UNCHANGED <<jobs, closed, closing, spared>>

\* The pipes closed too, at the latest a moment after the exit.
RunClosed(c) ==
  /\ command[c].kind = "run" /\ command[c].program = "exited" /\ ~command[c].ended
  /\ Set(c, [command[c] EXCEPT !.ended = TRUE, !.timer = FALSE,
        !.answer = IF @ # "none" THEN @ ELSE IF command[c].timedOut THEN "unknown" ELSE "exited"])
  /\ UNCHANGED <<jobs, foreground, closed, closing, spared>>

-----------------------------------------------------------------------------
(* A job *)

\* Finished, and nothing of it left running.
Room == {i \in DOMAIN jobs : command[jobs[i]].ended /\ ~LeftBehind(jobs[i])}
Oldest == CHOOSE i \in Room : \A k \in Room : i <= k

\* start: the oldest finished job makes room. It is kept once it has spawned.
Start(c) ==
  /\ command[c].kind = "none"
  /\ \/ Len(jobs) < MaxJobs /\ UNCHANGED jobs
     \/ Len(jobs) >= MaxJobs /\ Room # {} /\ jobs' = RemoveAt(jobs, Oldest)
  /\ Set(c, Spawned("start")) /\ Unseen(c)
  /\ UNCHANGED <<foreground, closed, closing>>

Started(c) ==
  /\ command[c].kind = "start" /\ command[c].answer = "none"
  /\ Set(c, [command[c] EXCEPT !.answer = "started"]) /\ jobs' = Append(jobs, c)
  /\ UNCHANGED <<foreground, closed, closing, spared>>

\* stop, by the job's id
Stop(c) ==
  /\ \E i \in DOMAIN jobs : jobs[i] = c
  /\ ~command[c].ended \/ LeftBehind(c)
  /\ Set(c, Stopping(command[c]))
  /\ UNCHANGED <<jobs, foreground, closed, closing, spared>>

JobTimeout(c) ==
  /\ command[c].kind = "start" /\ command[c].timer
  /\ Set(c, [Stopping(command[c]) EXCEPT !.timer = FALSE, !.timedOut = TRUE])
  /\ UNCHANGED <<jobs, foreground, closed, closing, spared>>

JobExit(c) ==
  /\ command[c].kind = "start" /\ command[c].program = "dead"
  /\ Set(c, [command[c] EXCEPT !.program = "exited"])
  /\ UNCHANGED <<jobs, foreground, closed, closing, spared>>

\* releaseWhenEmpty: the timer stays on what the program left.
JobClosed(c) ==
  /\ command[c].kind = "start" /\ command[c].program = "exited" /\ ~command[c].ended
  /\ Set(c, IF closed \/ ~command[c].left
            THEN [command[c] EXCEPT !.ended = TRUE, !.timer = FALSE]
            ELSE [command[c] EXCEPT !.ended = TRUE, !.watch = TRUE])
  /\ UNCHANGED <<jobs, foreground, closed, closing, spared>>

JobWatch(c) ==
  /\ command[c].kind = "start" /\ command[c].watch
  /\ ~Alive(c) \/ command[c].expired
  /\ Set(c, [command[c] EXCEPT !.watch = FALSE, !.timer = FALSE])
  /\ UNCHANGED <<jobs, foreground, closed, closing, spared>>

-----------------------------------------------------------------------------
(* close *)

Close ==
  /\ ~closed /\ closed' = TRUE
  /\ LET kept == {jobs[i] : i \in DOMAIN jobs}
         stopped == {c \in kept : ~command[c].ended \/ LeftBehind(c)}
         running == {c \in foreground : command[c].program # "exited"}
     IN /\ command' = [c \in Commands |->
             CASE c \in stopped -> [Stopping(command[c]) EXCEPT !.timer = FALSE, !.watch = FALSE]
               [] c \in kept \ stopped -> [command[c] EXCEPT !.timer = FALSE, !.watch = FALSE]
               [] c \in running -> Stopping(command[c])
               [] OTHER -> command[c]]
        /\ closing' = stopped \cup foreground
        /\ spared' = {c \in Commands : command[c].kind = "start" /\ command[c].answer = "none"}
  /\ jobs' = <<>>
  /\ UNCHANGED foreground

\* One it waited for is over, and its SIGKILL no longer owed.
ClosedOne(c) ==
  /\ c \in closing /\ ~Alive(c) /\ command[c].program = "exited"
  /\ command[c].kind = "start" => command[c].ended
  /\ closing' = closing \ {c} /\ Set(c, [command[c] EXCEPT !.kill = FALSE])
  /\ UNCHANGED <<jobs, foreground, closed, spared>>

Heard(c) == RunExit(c) \/ RunClosed(c) \/ JobExit(c) \/ JobClosed(c) \/ Started(c) \/ ClosedOne(c)
Timers(c) == RunTimeout(c) \/ JobTimeout(c) \/ RunWatch(c) \/ JobWatch(c)

Next ==
  \/ Close
  \/ \E c \in Commands :
       \/ Forks(c) \/ ProgramEnds(c) \/ LeftEnd(c) \/ Kill(c)
       \/ Run(c) \/ Cancel(c) \/ Start(c) \/ Stop(c)
       \/ Heard(c) \/ Timers(c)

\* Timers fire and events are heard; a program need never end by itself.
Spec == /\ Init /\ [][Next]_terminalVars
        /\ \A c \in Commands : /\ WF_terminalVars(Heard(c)) /\ WF_terminalVars(Timers(c))
                               /\ WF_terminalVars(Kill(c))

-----------------------------------------------------------------------------
(* Properties *)

TypeOK ==
  /\ command \in [Commands -> [kind : {"none", "run", "start"},
       program : {"none", "running", "dead", "exited"}, left : BOOLEAN, timer : BOOLEAN,
       kill : BOOLEAN, watch : BOOLEAN, ended : BOOLEAN, expired : BOOLEAN,
       timedOut : BOOLEAN, answer : {"none", "exited", "unknown", "started"}]]
  /\ foreground \cup closing \cup spared \subseteq Commands

\* Nothing a command started runs on with nobody left to stop it: while a
\* process of its group lives, its timer, its watch or an owed SIGKILL does,
\* also after the job was dropped for a newer one, and close, once it has
\* resolved, left none of those it could see (releaseWhenEmpty, MAX_JOBS, close).
NothingUnsupervised ==
  \A c \in Commands \ spared :
    /\ Alive(c) => command[c].timer \/ command[c].kill \/ command[c].watch
                   \/ (command[c].program = "dead" /\ c \in foreground)
    /\ closed /\ closing = {} => ~Alive(c)

\* A run that answers with its exit was never told to stop before it ended,
\* and no job is dropped that may still be asked for while it runs
\* (timer, onAbort, startBackground).
AnswersAreHonest ==
  \A c \in Commands :
    /\ command[c].kind = "run" /\ command[c].answer = "exited" => ~command[c].timedOut
    /\ (/\ command[c].kind = "start" /\ command[c].answer = "started" /\ ~closed
        /\ ~command[c].ended \/ LeftBehind(c)) => \E i \in DOMAIN jobs : jobs[i] = c

\* Every process of a command is over in the end, however it traps SIGTERM.
EveryGroupEnds == \A c \in Commands : Alive(c) ~> ~Alive(c) \/ c \in spared
=============================================================================
