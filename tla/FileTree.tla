------------------------------ MODULE FileTree ------------------------------
(***************************************************************************)
(* What file effects may do to a workspace over a sequence of calls, in    *)
(* packages/file-runtime/src/index.ts: each is refused or performed by     *)
(* itself, judged by the name it was given, by where that leads through    *)
(* the links a person made, and by what the tree holds then.               *)
(*                                                                         *)
(* A step is one call; FileWrites has what happens within one. A path is   *)
(* the sequence of its names below the root, outside it begins with        *)
(* Outside. A person's links name places that are no links themselves.     *)
(***************************************************************************)
EXTENDS Naturals, Sequences, SequencesExt

CONSTANTS
  Names, Git, Outside,  \* names of entries; a git directory's; what lies outside
  Config,               \* a listed config file: a folder's name, and its own
  Key,                  \* a reserved file's path
  Trees,                \* the workspaces a person may have made
  MaxCalls              \* bound: calls that changed something; a path has two names

VARIABLES
  tree,   \* per path below the root, what is there and who wrote it
  calls

treeVars == <<tree, calls>>

Paths == UNION {[1..n -> Names] : n \in 1..2}
Absent == [kind |-> "absent", to |-> <<>>, by |-> "nobody"]
Node(k) == [kind |-> k, to |-> <<>>, by |-> "effect"]
At(p) == IF p = <<>> THEN [Absent EXCEPT !.kind = "dir"]
         ELSE IF p \in Paths THEN tree[p] ELSE Absent

Init == tree \in Trees /\ calls = 0

-----------------------------------------------------------------------------
(* Where a path leads *)

Follow(p) == IF At(p).kind = "link" THEN At(p).to ELSE p
\* The entry itself, in the directory its path leads to; and what it leads to.
Place(p) == IF Len(p) < 2 THEN p ELSE Append(Follow(Front(p)), Last(p))
Real(p) == Follow(Place(p))

IsOutside(p) == p # <<>> /\ Head(p) = Outside
Within(p, q) == IsPrefix(q, p)
Below(p) == {q \in Paths : Within(q, p) /\ q # p /\ At(q).kind # "absent"}

-----------------------------------------------------------------------------
(* resolvePath *)

\* harnessConfig: the listed file, or with holding the folder it sits in.
Listed(p, holding) ==
  \/ Len(p) >= 2 /\ SubSeq(p, Len(p) - 1, Len(p)) = Config
  \/ holding /\ p # <<>> /\ Last(p) = Config[1]

\* harnessLinks: listed places at the root a link leads elsewhere.
HarnessLinks ==
  {[to |-> Real(p), listed |-> p] : p \in {q \in {<<Config[1]>>, Config} : Real(q) # q}}
Mapped(p, link) == link.listed \o SubSeq(p, Len(link.to) + 1, Len(p))
\* variant: not through the links a person made
RefusedByName(p, holding) == \E at \in {p, Place(p), Real(p)} : Listed(at, holding)

HarnessRefuses(p, holding) ==
  \E at \in {p, Place(p), Real(p)} :
    \/ Listed(at, holding)
    \/ \E link \in HarnessLinks :
         IF Within(at, link.to) THEN Listed(Mapped(at, link), holding)
         ELSE holding /\ Within(link.to, at) /\ Listed(link.listed, TRUE)

Reserved(p) == \E at \in {p, Place(p), Real(p)} : Within(at, Key)
HoldsReserved(p) == At(p).kind = "dir" /\ Within(Key, p)

\* How an effect uses a path: makes something there, changes it, takes along
\* what it holds.
MayUse(p, creating, holding) ==
  /\ ~Reserved(p) /\ ~IsOutside(Real(p)) /\ ~IsOutside(Place(p))
  /\ ~creating => ~HoldsReserved(Real(p))
  /\ creating => \A i \in DOMAIN Real(p) : Real(p)[i] # Git
  /\ ~HarnessRefuses(p, holding)

-----------------------------------------------------------------------------
(* The effects *)

Parent(p) == Real(Front(p))
\* mkdir -p of the directory an entry goes to.
CanHold(p) == Len(p) = 1 \/ At(Parent(p)).kind \in {"dir", "absent"}
Made(p) == IF Len(p) = 2 /\ At(Parent(p)).kind = "absent" /\ Parent(p) \in Paths THEN {Parent(p)} ELSE {}

\* A link is written through, judged again by where it leads.
Write(p) ==
  LET target == Real(p)
  IN /\ MayUse(p, TRUE, FALSE) /\ CanHold(p)
     /\ At(Place(p)).kind = "link" => At(target).kind # "absent" /\ MayUse(target, TRUE, FALSE)
     /\ At(target).kind # "dir" /\ target \in Paths
     /\ tree' = [q \in Paths |-> IF q = target THEN Node("file")
                            ELSE IF q \in Made(p) THEN Node("dir") ELSE tree[q]]

Mkdir(p) ==
  /\ MayUse(p, TRUE, FALSE) /\ CanHold(p)
  /\ At(Place(p)).kind = "absent" /\ Place(p) \in Paths
  /\ tree' = [q \in Paths |-> IF q \in Made(p) \cup {Place(p)} THEN Node("dir") ELSE tree[q]]

RemovedAlone(p) == {Place(p)}  \* variant: what it held stays

\* rm: the entry itself, a link too, and all below it.
Removed(p) == {q \in Paths : Within(q, Place(p))}
Delete(p) ==
  /\ MayUse(p, FALSE, TRUE) /\ At(Place(p)).kind # "absent"
  /\ tree' = [q \in Paths |-> IF q \in Removed(p) THEN Absent ELSE tree[q]]

\* rename: onto nothing, a file onto a file or a link, a directory onto an
\* empty one.
Replaces(from, to) ==
  \/ At(to).kind = "absent"
  \/ At(from).kind # "dir" /\ At(to).kind # "dir"
  \/ At(from).kind = "dir" /\ At(to).kind = "dir" /\ Below(to) = {}

Move(p) ==
  LET from == Place(p)
  IN /\ At(from).kind # "absent" /\ MayUse(p, FALSE, TRUE)
     /\ \E d \in Paths :
          LET to == Place(d)
              Moved(q) == from \o SubSeq(q, Len(to) + 1, Len(q))
          IN /\ to \in Paths /\ ~Within(to, from) /\ ~Within(from, to) /\ Replaces(from, to)
             /\ MayUse(d, TRUE, TRUE) /\ CanHold(d)
             /\ Len(to) = 2 => Below(from) = {}
             /\ tree' = [q \in Paths |-> IF Within(q, to) THEN At(Moved(q))
                                        ELSE IF Within(q, from) THEN Absent
                                        ELSE IF q \in Made(d) THEN Node("dir") ELSE tree[q]]

Next ==
  /\ calls < MaxCalls
  /\ \E p \in Paths : Write(p) \/ Mkdir(p) \/ Delete(p) \/ Move(p)
  /\ tree' # tree /\ calls' = calls + 1

Spec == Init /\ [][Next]_treeVars

-----------------------------------------------------------------------------
(* Properties *)

TypeOK == \A p \in Paths :
  /\ tree[p].kind \in {"absent", "dir", "file", "link"}
  /\ Len(p) = 2 /\ tree[p].kind # "absent" => tree[Front(p)].kind = "dir"

\* Whatever sequence of writes, moves, deletes and new directories is allowed,
\* git never finds anything they wrote where a git directory is, and an
\* agent's harness never loads a configuration they wrote, at its listed place
\* or through a person's link there; a reserved file stays as it was
\* (resolvePath, harnessConfig, harnessLinks, holdsReserved).
ProtectedStaysAPersons ==
  \A p \in Paths :
    /\ (\E i \in DOMAIN p : p[i] = Git) => At(Real(p)).by # "effect"
    /\ Listed(p, FALSE) /\ (Len(p) = 2 \/ p \in {Config}) => At(Real(p)).by # "effect"
    /\ p = Key => At(p).by = "person"
=============================================================================
