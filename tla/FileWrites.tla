----------------------------- MODULE FileWrites -----------------------------
(***************************************************************************)
(* One read or write of a file d/f of the workspace, in packages/          *)
(* file-runtime/src/index.ts, while another process of the machine may     *)
(* replace the folder d, or the file, by a link, or swap it back: a path   *)
(* is judged by name, and what is then opened or replaced is found by      *)
(* name again. On macOS no open follows a link; on Linux what a read       *)
(* opened is judged again. A write fills a temporary file beside its       *)
(* target and renames it over; it may fail, or the process may die, at     *)
(* any step. On Windows neither guard is there: not modelled.              *)
(***************************************************************************)
EXTENDS Naturals

CONSTANTS MaxChanges  \* bound: changes the other process makes

VARIABLES
  mac,       \* whether the platform is macOS
  folder,    \* the directory the name d leads to: its own, or by a link another
  entry,     \* what f is in each directory, a link with where it leads
  whole,     \* whether each file's content is one write's, or the one it had
  file,      \* the operation: what it does and the step it is at
  spelled,   \* how it spells the directory now: through d, or one resolved
  filled,    \* its temporary holds all of the content
  temporary, \* where temporaries lie
  reads, writes, \* history: the directories whose f was read, or replaced
  fileChanges, changedSince

fileVars == <<mac, folder, entry, whole, file, spelled, filled, temporary, reads, writes,
              fileChanges, changedSince>>

\* Two directories of the workspace, one outside it and a reserved one.
Directories == {"own", "other", "outside", "reserved"}
MayTouch(d) == d \in {"own", "other"}
Kinds == [kind : {"absent", "file", "fifo"}, to : {"own"}] \cup [kind : {"link"}, to : Directories]
Plain(d) == entry[d].kind # "link"
\* Where f in a directory leads; a name that is a link once more is not followed.
Leads(d) == IF Plain(d) THEN d ELSE entry[d].to

Init ==
  /\ mac \in BOOLEAN /\ folder \in Directories
  /\ entry \in {e \in [Directories -> Kinds] :
       /\ \A d \in Directories \ {"own", "other"} : e[d].kind = "file"
       /\ \A d \in Directories : e[d].kind = "link" => e[e[d].to].kind # "link"}
  /\ whole = [d \in Directories |-> TRUE]
  /\ file = [action |-> "none", at |-> "none", answer |-> "none"]
  /\ spelled = "d" /\ filled = FALSE /\ temporary = {} /\ reads = {} /\ writes = {}
  /\ fileChanges = 0 /\ changedSince = FALSE

\* The directory a spelling leads to as the kernel looks it up now.
Now(s) == IF s \in {"d", "own"} THEN folder ELSE s

\* Another process swaps the folder, or what f is in it.
Change ==
  /\ fileChanges < MaxChanges /\ fileChanges' = fileChanges + 1 /\ changedSince' = TRUE
  /\ \/ folder' \in Directories \ {folder} /\ UNCHANGED entry
     \/ \E d \in {"own", "other"}, k \in Kinds :
          /\ k # entry[d] /\ (k.kind = "link" => Plain(k.to) /\ k.to # d)
          /\ \A o \in Directories : entry[o].kind = "link" /\ k.kind = "link" => entry[o].to # d
          /\ entry' = [entry EXCEPT ![d] = k] /\ UNCHANGED folder
  /\ UNCHANGED <<mac, whole, file, spelled, filled, temporary, reads, writes>>

Goto(s) == file' = [file EXCEPT !.at = s]
Answer(a) == file' = [file EXCEPT !.at = "done", !.answer = a]
KeepFiles == UNCHANGED <<mac, folder, entry, whole, writes, fileChanges, changedSince>>

\* resolvePath, by name.
Start(action) ==
  /\ file.at \in {"none", "done"} /\ temporary = {}
  /\ file' = [action |-> action, answer |-> IF MayTouch(Leads(folder)) THEN "none" ELSE "refused",
              at |-> IF ~MayTouch(Leads(folder)) THEN "done"
                     ELSE IF action = "read" THEN (IF mac THEN "real" ELSE "open") ELSE "link"]
  /\ spelled' = "d" /\ filled' = FALSE /\ changedSince' = FALSE
  /\ UNCHANGED <<mac, folder, entry, whole, temporary, reads, writes, fileChanges>>

-----------------------------------------------------------------------------
(* read: openRegular *)

\* macOS: the path with its links resolved is judged, then opened unfollowed.
ReadReal ==
  /\ file.at = "real" /\ file.action = "read"
  /\ spelled' = Leads(folder)
  /\ IF MayTouch(Leads(folder)) THEN Goto("open") ELSE Answer("refused")
  /\ UNCHANGED <<filled, temporary, reads>> /\ KeepFiles

Unfollowed(d) == spelled = d /\ Now(d) = d /\ Plain(d)
Open ==
  /\ file.at = "open"
  /\ LET opened == IF mac THEN spelled ELSE Leads(Now(spelled))
     IN IF mac /\ ~Unfollowed(spelled) THEN Answer("failed") /\ UNCHANGED spelled
        ELSE IF entry[opened].kind # "file" THEN Answer("failed") /\ UNCHANGED spelled
        ELSE Goto("opened") /\ spelled' = opened
  /\ UNCHANGED <<filled, temporary, reads>> /\ KeepFiles

\* Linux: where the descriptor was opened is judged. Then its bytes are read.
ReadOpened ==
  /\ file.at = "opened"
  /\ IF ~mac /\ ~MayTouch(spelled) THEN Answer("refused") /\ UNCHANGED reads
     ELSE Answer("done") /\ reads' = reads \cup {spelled}
  /\ UNCHANGED <<spelled, filled, temporary>> /\ KeepFiles

-----------------------------------------------------------------------------
(* write *)

\* A link is written through: its target is judged again; a dangling one fails.
ThroughLink ==
  /\ file.at = "link"
  /\ IF Plain(folder) THEN Goto("folder") /\ UNCHANGED spelled
     ELSE LET d == Leads(folder)
          IN IF entry[d].kind = "absent" \/ ~MayTouch(d) THEN Answer("refused") /\ UNCHANGED spelled
             ELSE Goto("folder") /\ spelled' = d
  /\ UNCHANGED <<filled, temporary, reads>> /\ KeepFiles

\* macOS: the folder with its links resolved, judged as where the file lands.
ResolveFolder ==
  /\ file.at = "folder"
  /\ IF mac
     THEN /\ spelled' = Now(spelled)
          /\ IF MayTouch(Now(spelled)) THEN Goto("create") ELSE Answer("refused")
     ELSE Goto("create") /\ UNCHANGED spelled
  /\ UNCHANGED <<filled, temporary, reads>> /\ KeepFiles

\* The exclusive create, unfollowed on macOS, has no cleanup.
Create ==
  /\ file.at = "create"
  /\ IF mac /\ Now(spelled) # spelled THEN Answer("failed") /\ UNCHANGED temporary
     ELSE Goto("fill") /\ temporary' = temporary \cup {Now(spelled)}
  /\ UNCHANGED <<spelled, filled, reads>> /\ KeepFiles

\* Through the descriptor; the disk may be full.
Fill ==
  /\ file.at = "fill"
  /\ \/ Goto("rename") /\ filled' = TRUE
     \/ Goto("clean") /\ UNCHANGED filled
  /\ UNCHANGED <<spelled, temporary, reads>> /\ KeepFiles

\* The rename replaces what is there unfollowed. A name that is gone fails it.
Rename ==
  /\ file.at = "rename"
  /\ LET d == Now(spelled)
     IN IF d \in temporary
        THEN /\ Answer("done") /\ temporary' = temporary \ {d} /\ writes' = writes \cup {d}
             /\ entry' = [entry EXCEPT ![d] = [kind |-> "file", to |-> "own"]]
             /\ whole' = [whole EXCEPT ![d] = filled]
        ELSE Goto("clean") /\ UNCHANGED <<temporary, writes, entry, whole>>
  /\ UNCHANGED <<mac, folder, spelled, filled, reads, fileChanges, changedSince>>

Clean ==
  /\ file.at = "clean"
  /\ Answer("failed") /\ temporary' = temporary \ {Now(spelled)}
  /\ UNCHANGED <<spelled, filled, reads>> /\ KeepFiles

Dies ==
  /\ file.at \notin {"none", "done"}
  /\ Answer("lost")
  /\ UNCHANGED <<spelled, filled, temporary, reads>> /\ KeepFiles

Next ==
  \/ Change \/ Start("read") \/ Start("write")
  \/ ReadReal \/ Open \/ ReadOpened
  \/ ThroughLink \/ ResolveFolder \/ Create \/ Fill \/ Rename \/ Clean \/ Dies

Spec == Init /\ [][Next]_fileVars

-----------------------------------------------------------------------------
(* Properties *)

TypeOK ==
  /\ entry \in [Directories -> Kinds] /\ whole \in [Directories -> BOOLEAN]
  /\ temporary \cup reads \cup writes \subseteq Directories
  /\ spelled \in Directories \cup {"d"}

\* No read returns a file from outside the workspace or a reserved one, and no
\* write replaces one, whatever the other process swapped in between; on Linux
\* a write has only the check by name, and keeps to it while nothing changes
\* (openRegular, openUnfollowed, resolvePath).
StaysInside ==
  /\ \A d \in reads : MayTouch(d)
  /\ (mac \/ fileChanges = 0) => \A d \in writes : MayTouch(d)

\* A file holds the whole of one write or what it held before, also when a
\* write failed or died, and one that failed left no temporary beside it
\* while nothing was swapped (the rename, and the cleanup around it).
WholeOrNothing ==
  /\ \A d \in Directories : whole[d]
  /\ file.answer = "failed" /\ ~changedSince => temporary = {}
=============================================================================
