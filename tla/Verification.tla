---------------------------- MODULE Verification ----------------------------
(***************************************************************************)
(* What the verifiers answer about an effect (packages/verifier-core/src/  *)
(* index.ts): the kernel's own checks of a file operation, against the     *)
(* disk it left, and an independent read of a provider's resource, against *)
(* the resource.                                                           *)
(*                                                                         *)
(* The disk is two folders of three names, on a file system that folds     *)
(* case or not; other programs change it around the effect. What the       *)
(* operating system and a provider do is external. Which paths lead out of *)
(* the workspace, and through which links, is FileTree.                    *)
(***************************************************************************)
EXTENDS Naturals, FiniteSets

CONSTANTS
  Nothing,    \* no entry, no operation
  MaxChanges  \* bound: changes of other programs to the disk, of the provider

VARIABLES
  folds,      \* whether the disk ignores the case of names
  at,         \* the entry listed at each path: an inode or Nothing
  kind,       \* of each inode: [is, holds]
  operation,  \* the file operation that succeeded, or Nothing
  disturbed,  \* whether another program changed the disk after it
  changes,
  provider    \* the resource and how the provider answers

verificationVars == <<folds, at, kind, operation, disturbed, changes, provider>>

-----------------------------------------------------------------------------
(* The disk and a provider (external) *)

Path(folder, name) == [folder |-> folder, name |-> name]
Paths == {Path("x", "s"), Path("x", "S"), Path("x", "t"), Path("y", "s")}
Folded(p) == [p EXCEPT !.name = IF @ = "S" THEN "s" ELSE @]
Inodes == {1, 2}
Kinds == [is : {"file"}, holds : {"wanted", "other"}] \cup [is : {"folder", "pipe"}, holds : {"other"}]

\* The path whose entry the system finds for p, spelled as it is listed.
Finds(p) == {q \in Paths : at[q] # Nothing /\ (q = p \/ (folds /\ Folded(q) = Folded(p)))}
There(p) == Finds(p) # {}
Entry(p) == at[CHOOSE q \in Finds(p) : TRUE]
Links(i) == Cardinality({q \in Paths : at[q] = i})
Is(p, what) == There(p) /\ kind[Entry(p)].is = what

Unlisted(p) == [q \in Paths |-> IF q \in Finds(p) THEN Nothing ELSE at[q]]
\* An entry replaced by a rename onto its name keeps the spelling it had; one
\* renamed takes the new one.
Renamed(p, q) ==
  LET rest == [r \in Paths |-> IF r \in Finds(p) \cup Finds(q) THEN Nothing ELSE at[r]]
      name == IF Finds(q) \in {{}, Finds(p)} THEN q ELSE CHOOSE r \in Finds(q) : TRUE
  IN [rest EXCEPT ![name] = Entry(p)]
\* Renaming one name of a file onto another name of it does nothing.
SameFile(p, q) == There(p) /\ There(q) /\ Finds(p) # Finds(q) /\ Entry(p) = Entry(q)

\* The resource: gone, or there with a body of some length that holds the
\* wanted value or another. The cap cuts a longer body off.
BodyCap == 2
Lengths == 1..3
Resources == [gone : {TRUE}, length : {1}, body : {"other"}]
               \cup [gone : {FALSE}, length : Lengths, body : {"wanted", "other"}]
Modes == {"up", "busy", "down"}  \* answers, answers 503 or 429, does not answer
\* What the result has where the URL's token reads.
Tokens == {"id", "id/..", "..", "", Nothing}

-----------------------------------------------------------------------------
(* The effect: the file adapter's operation succeeds, and other programs'    *)
(* changes before it and after                                               *)

Operations ==
  [action : {"write", "mkdir", "delete"}, path : Paths, destination : {Nothing}]
    \cup {o \in [action : {"move"}, path : Paths, destination : Paths] : o.path # o.destination}

Init ==
  /\ folds \in BOOLEAN
  /\ at \in [Paths -> Inodes \cup {Nothing}]
  /\ Cardinality({p \in Paths : at[p] # Nothing}) <= 2
  /\ \A p, q \in Paths : p # q /\ at[p] # Nothing /\ at[q] # Nothing => ~(folds /\ Folded(p) = Folded(q))
  /\ kind \in [Inodes -> Kinds]
  /\ Links(1) = 0 => Links(2) = 0
  /\ \A i \in Inodes : (Links(i) = 0 => kind[i] = [is |-> "file", holds |-> "other"])
                       /\ (Links(i) > 1 => kind[i].is = "file")
  /\ operation = Nothing /\ disturbed = FALSE /\ changes = 0
  \* A check reads a disk or a provider: one of the two is enough at a time.
  /\ provider \in IF \E p \in Paths : at[p] # Nothing THEN {Nothing}
                   ELSE [resource : Resources, mode : Modes, token : Tokens] \cup {Nothing}

Free == {i \in Inodes : Links(i) = 0}
Listed(p, i) == [at EXCEPT ![IF There(p) THEN CHOOSE q \in Finds(p) : TRUE ELSE p] = i]

Write(p) ==  \* to a temporary, then renamed over the target
  /\ ~Is(p, "folder") /\ \E i \in Free :
       at' = Listed(p, i) /\ kind' = [kind EXCEPT ![i] = [is |-> "file", holds |-> "wanted"]]
Mkdir(p) ==
  \/ Is(p, "folder") /\ UNCHANGED <<at, kind>>
  \/ /\ ~There(p)
     /\ \E i \in Free : at' = Listed(p, i) /\ kind' = [kind EXCEPT ![i] = [is |-> "folder", holds |-> "other"]]
Delete(p) == There(p) /\ at' = Unlisted(p) /\ UNCHANGED kind
Move(p, q) ==
  /\ There(p) /\ (There(q) => (Is(p, "folder") <=> Is(q, "folder")))
  /\ at' = IF SameFile(p, q) THEN at ELSE Renamed(p, q)
  /\ UNCHANGED kind

Effect ==
  /\ operation = Nothing /\ provider = Nothing
  /\ \E o \in Operations :
       /\ CASE o.action = "write" -> Write(o.path)
            [] o.action = "mkdir" -> Mkdir(o.path)
            [] o.action = "delete" -> Delete(o.path)
            [] o.action = "move" -> Move(o.path, o.destination)
       /\ operation' = o
  /\ UNCHANGED <<folds, disturbed, changes, provider>>

Disturb ==
  /\ operation # Nothing /\ changes < MaxChanges /\ changes' = changes + 1 /\ disturbed' = TRUE
  /\ \E p \in Paths :
       \/ Delete(p)
       \/ ~There(p) /\ UNCHANGED kind
            /\ \E i \in Inodes : (Links(i) = 0 \/ kind[i].is = "file") /\ at' = [at EXCEPT ![p] = i]
       \/ \E q \in Paths \ {p} : Move(p, q)
  /\ UNCHANGED <<folds, operation, provider>>

-----------------------------------------------------------------------------
(* The verifiers' reads of the disk *)

FileHash(p) == Is(p, "file") /\ kind[Entry(p)].holds = "wanted"
DirectoryExists(p) == Is(p, "folder")
FilePresent(p) == There(p)

\* variant: the inode is enough
RenamedByInode(p) ==
  /\ operation # Nothing /\ operation.action = "move" /\ operation.path = p
  /\ There(operation.destination) /\ Entry(operation.destination) = Entry(p)

\* A path that reaches the entry its own move made, which a disk that folds
\* case still finds under the old spelling. A file with other names is that
\* entry only under the same folded name of the same folder.
RenamedByCase(p) ==
  /\ operation # Nothing /\ operation.action = "move" /\ operation.path = p
  /\ There(operation.destination) /\ Entry(operation.destination) = Entry(p)
  /\ kind[Entry(p)].is # "folder" /\ Links(Entry(p)) # 1 => Folded(p) = Folded(operation.destination)
  /\ at[p] = Nothing

FileAbsent(p) == ~There(p) \/ RenamedByCase(p)

\* kernelChecksFor: what is checked of an effect whatever the caller declared.
KernelChecksHold(o) ==
  CASE o.action = "write" -> FileHash(o.path)
    [] o.action = "mkdir" -> DirectoryExists(o.path)
    [] o.action = "delete" -> FileAbsent(o.path)
    [] o.action = "move" -> FileAbsent(o.path) /\ FilePresent(o.destination)

-----------------------------------------------------------------------------
(* An independent read of a provider *)

ChangeProvider ==
  /\ provider # Nothing /\ changes < MaxChanges /\ changes' = changes + 1
  /\ \/ \E mode \in Modes \ {provider.mode} : provider' = [provider EXCEPT !.mode = mode]
     \/ \E r \in Resources \ {provider.resource} : provider' = [provider EXCEPT !.resource = r]
  /\ UNCHANGED <<folds, at, kind, operation, disturbed>>

\* A predicate: a path into the response and the value wanted there.
Predicates == [path : {"status"}, value : {200, 404}]
                \cup [path : {"json"}, value : {"wanted"}]
                \cup [path : {"bytes"}, value : Lengths]
                \cup [path : {"content"}, value : [length : Lengths, body : {"wanted", "other"}]]

\* What the whole, healthy response says there.
Says(path) ==
  LET r == provider.resource
  IN CASE path = "status" -> IF r.gone THEN 404 ELSE 200
       [] path = "json" -> r.body
       [] path = "bytes" -> r.length
       [] path = "content" -> [length |-> r.length, body |-> r.body]

\* interpolate: a token is percent-encoded and may not be empty or a dot
\* segment. Anything else is refused before the read.
TokenRefused == provider.token \in {"..", "", Nothing}

Cut == provider.mode = "up" /\ provider.resource.length > BodyCap
Arrived == IF Cut THEN BodyCap ELSE provider.resource.length

\* httpResourceMatches. A cut JSON body is not parsed, and a cut body is
\* neither the content nor the length there is.
Matches(pred) ==
  /\ provider.mode = "up" /\ ~(Cut /\ pred.path \in {"json", "content", "bytes"})
  /\ Says(pred.path) = pred.value
Unknowable(pred) ==
  CASE pred.path = "content" -> pred.value.length > Arrived
    [] pred.path = "bytes" -> pred.value > Arrived
    [] OTHER -> pred.path = "json"

HttpResourceMatches(pred) ==
  CASE TokenRefused -> "unanswerable"
    [] ~TokenRefused /\ provider.mode = "down" -> "inconclusive"
    [] ~TokenRefused /\ provider.mode # "down" /\ Matches(pred) -> "passed"
    [] ~TokenRefused /\ provider.mode = "busy" -> "inconclusive"
    [] OTHER -> IF Cut /\ Unknowable(pred) THEN "inconclusive" ELSE "denied"

Next == Effect \/ Disturb \/ ChangeProvider

Spec == Init /\ [][Next]_verificationVars

-----------------------------------------------------------------------------
(* Properties *)

TypeOK ==
  /\ at \in [Paths -> Inodes \cup {Nothing}] /\ kind \in [Inodes -> Kinds]
  /\ operation \in Operations \cup {Nothing}
  /\ changes \in 0..MaxChanges

\* An effect nothing disturbed passes the kernel's checks of it, a move that
\* only changes a name's case on a disk that folds it included; unless the
\* system did nothing, renaming one name of a file onto another of the same
\* file (kernelChecksFor, renamedByCase).
DoneIsVerified ==
  operation # Nothing /\ ~disturbed =>
    KernelChecksHold(operation)
      \/ (operation.action = "move" /\ SameFile(operation.path, operation.destination))

\* What passes is so, whatever others did meanwhile: the content asked for is
\* there, or no entry is listed under the old name and none is found under it
\* but the one the move made (fileHash, fileAbsent, filePresent).
VerifiedIsSo ==
  \A p \in Paths :
    /\ FileHash(p) => \E q \in Finds(p) : kind[at[q]] = [is |-> "file", holds |-> "wanted"]
    /\ FileAbsent(p) =>
         /\ at[p] = Nothing
         /\ There(p) => /\ operation # Nothing /\ operation.action = "move" /\ operation.path = p
                        /\ Finds(p) = Finds(operation.destination)

\* A provider's resource is denied only when it is not as asked, and confirmed
\* only when it is, at the URL the caller wrote: not by a provider that is
\* down or busy, and not for a body cut off before what was asked about
\* (httpResourceMatches, interpolate).
AnswersAreTheProviders ==
  provider # Nothing =>
    \A pred \in Predicates :
      LET answer == HttpResourceMatches(pred)
          fits == pred.path = "status" \/ ~provider.resource.gone
      IN fits => /\ answer = "passed" => Says(pred.path) = pred.value /\ provider.token \in {"id", "id/.."}
                 /\ answer = "denied" => Says(pred.path) # pred.value
=============================================================================
