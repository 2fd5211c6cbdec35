------------------------------- MODULE Memory -------------------------------
(***************************************************************************)
(* Scoped memory (packages/memory over the `memories` table of             *)
(* packages/storage-sqlite): records that correct earlier ones. A record   *)
(* names the one it supersedes, and that one names it back and is retired; *)
(* an edit or a delete that takes a correction away makes what it replaced *)
(* live again, unless the correction had expired. Every put compacts its   *)
(* scope afterwards, in a transaction of its own.                          *)
(*                                                                         *)
(* A step is one write transaction of one client, or a day passing. Keys,  *)
(* values and tags are left out; a record is the links and dates the rules *)
(* read. Callers choose record ids, so an id may be used again.            *)
(***************************************************************************)
EXTENDS Naturals, FiniteSets, FiniteSetsExt

CONSTANTS
  Clients,      \* bound: puts under way in a scope, each a caller's of its own
  Ids, Scopes,
  Never,        \* no expiry
  NoMemory,     \* no record, no link
  MaxAge,       \* retention.maxAgeDays
  MaxPerScope,  \* retention.maxPerScope; 0 is no ceiling
  MaxDay        \* bound: days that pass

MemoryAssumption ==
  /\ NoMemory \notin Ids \cup Scopes /\ Never \notin Nat /\ Clients \in Nat
  /\ MaxAge \in Nat /\ MaxPerScope \in Nat /\ MaxDay \in Nat

VARIABLES
  memories,   \* the record under each id, or NoMemory
  today,
  compacting, \* per scope: the puts that have written and still to compact it
  lapsed      \* history: ids that expired, were evicted or lost their record

memoryVars == <<memories, today, compacting, lapsed>>

Days == 0..MaxDay + 1
Record == [scope : Scopes, expires : Days \cup {Never}, supersedes : Ids \cup {NoMemory},
           by : Ids \cup {NoMemory}, updated : Days]

Kept(m) == {i \in Ids : m[i] # NoMemory}
Expired(r) == r.expires # Never /\ r.expires <= today

\* supersedeMemory and unsupersedeMemory: a compare-and-set on superseded_by.
SetBy(m, i, scope, from, to) ==
  IF i \in Kept(m) /\ m[i].scope = scope /\ m[i].by = from
  THEN [m EXCEPT ![i].by = to, ![i].updated = today] ELSE m

Init ==
  /\ memories = [i \in Ids |-> NoMemory] /\ today = 0
  /\ compacting = [scope \in Scopes |-> 0] /\ lapsed = {}

\* put refuses a record of another scope, one already replaced, and to
\* supersede a record that is missing, of another scope, itself or replaced by
\* another.
PutRefused(i, scope, target) ==
  \/ i \in Kept(memories) /\ (memories[i].scope # scope \/ memories[i].by # NoMemory)
  \/ /\ target # NoMemory
     /\ \/ target \notin Kept(memories) \/ target = i
        \/ memories[target].scope # scope
        \/ memories[target].by \notin {NoMemory, i}

\* What the write leaves: the record, what it supersedes retired by it, and
\* what an edit no longer supersedes handed back.
AfterPut(i, scope, expires, target) ==
  LET old == memories[i]
      put == [memories EXCEPT ![i] = [scope |-> scope, expires |-> expires,
                supersedes |-> target, by |-> NoMemory, updated |-> today]]
      retired == IF target = NoMemory \/ memories[target].by = i THEN put
                 ELSE SetBy(put, target, scope, NoMemory, i)
  IN IF old # NoMemory /\ old.supersedes \notin {NoMemory, target} /\ ~Expired(old)
     THEN SetBy(retired, old.supersedes, scope, i, NoMemory) ELSE retired

Put(i, scope, expires, target) ==
  /\ compacting[scope] < Clients /\ ~PutRefused(i, scope, target)
  /\ memories' = AfterPut(i, scope, expires, target)
  /\ compacting' = [compacting EXCEPT ![scope] = @ + 1]
  /\ lapsed' = IF expires # Never /\ expires <= today THEN lapsed \cup {i} ELSE lapsed
  /\ UNCHANGED today

\* The eviction keeps the newest; of one day's, any.
Evicted(m, scope) ==
  LET live == {i \in Kept(m) : m[i].scope = scope /\ m[i].by = NoMemory}
  IN IF MaxPerScope = 0 \/ Cardinality(live) <= MaxPerScope THEN {{}}
     ELSE {gone \in SUBSET live :
             /\ Cardinality(gone) = Cardinality(live) - MaxPerScope
             /\ \A i \in gone, j \in live \ gone : m[i].updated <= m[j].updated}

Without(m, ids) == [i \in Ids |-> IF i \in ids THEN NoMemory ELSE m[i]]

\* compactMemories: the expired, then the retired of a while ago unless
\* something live replaced them, then the oldest over the ceiling.
Compact(scope) ==
  /\ compacting[scope] > 0
  /\ LET expired == {i \in Kept(memories) : memories[i].scope = scope /\ Expired(memories[i])}
         m1 == Without(memories, expired)
         held == {m1[j].supersedes : j \in {k \in Kept(m1) : m1[k].scope = scope /\ m1[k].by = NoMemory}}
         old == {i \in Kept(m1) : /\ m1[i].scope = scope /\ m1[i].by # NoMemory
                                  /\ m1[i].updated + MaxAge <= today /\ i \notin held}
         m2 == Without(m1, old)
     IN \E gone \in Evicted(m2, scope) :
          /\ memories' = Without(m2, gone)
          /\ lapsed' = lapsed \cup gone \cup expired
  /\ compacting' = [compacting EXCEPT ![scope] = @ - 1]
  /\ UNCHANGED today

\* The process ends between the put's write and its compaction.
Interrupt(scope) ==
  /\ compacting[scope] > 0
  /\ compacting' = [compacting EXCEPT ![scope] = @ - 1]
  /\ UNCHANGED <<memories, today, lapsed>>

\* deleteMemory: what a live correction replaced is revived, or linked to
\* what replaced the correction.
AfterDelete(i, scope) ==
  LET r == memories[i]
      gone == Without(memories, {i})
      old == r.supersedes
      linked == IF old \in Kept(gone) /\ gone[old].scope = scope /\ gone[old].by = i
                THEN [gone EXCEPT ![old].by = r.by] ELSE gone
  IN IF Expired(r) \/ old = NoMemory THEN gone
     ELSE IF r.by = NoMemory THEN SetBy(gone, old, scope, i, NoMemory)
     ELSE IF r.by \in Kept(linked) /\ linked[r.by].scope = scope /\ linked[r.by].supersedes = i
          THEN [linked EXCEPT ![r.by].supersedes = old] ELSE linked

Delete(i) ==
  /\ i \in Kept(memories)
  /\ memories' = AfterDelete(i, memories[i].scope)
  /\ UNCHANGED <<today, compacting, lapsed>>

\* clearMemories: no link crosses scopes, so nothing else is touched.
Clear(scope) ==
  /\ memories' = Without(memories, {i \in Kept(memories) : memories[i].scope = scope})
  /\ UNCHANGED <<today, compacting, lapsed>>

NextDay ==
  /\ today < MaxDay /\ today' = today + 1
  /\ lapsed' = lapsed \cup {i \in Kept(memories) : memories[i].expires = today'}
  /\ UNCHANGED <<memories, compacting>>

\* A put may set an expiry that is already past, today's end, or none.
Next ==
  \/ \E i \in Ids, scope \in Scopes, expires \in {Never, today, today + 1},
        target \in Ids \cup {NoMemory} : Put(i, scope, expires, target)
  \/ \E scope \in Scopes : Compact(scope) \/ Interrupt(scope) \/ Clear(scope)
  \/ \E i \in Ids : Delete(i)
  \/ NextDay

Spec == Init /\ [][Next]_memoryVars

-----------------------------------------------------------------------------
(* Properties *)

TypeOK ==
  /\ memories \in [Ids -> Record \cup {NoMemory}] /\ today \in 0..MaxDay
  /\ compacting \in [Scopes -> 0..Clients] /\ lapsed \subseteq Ids

\* A retired record is never lost: unless what replaced it has lapsed, the
\* record it names is stored, in its scope, and names it back, so deleting or
\* editing that one revives it. And the links never go round, so the latest
\* of a chain is live. This holds for any order of put, edit, delete and
\* compaction, of any ids (execute, deleteMemory, compactMemories).
RetiredIsReplaced ==
  \A i \in Kept(memories) :
    LET j == memories[i].by
    IN j \notin lapsed \cup {NoMemory} =>
         /\ j \in Kept(memories)
         /\ memories[j].supersedes = i /\ memories[j].scope = memories[i].scope

\* Links that go round would leave no record of their chain live.
NoCircle ==
  \A ring \in SUBSET Kept(memories) \ {{}} : \E i \in ring : memories[i].by \notin ring

MemorySafe == RetiredIsReplaced /\ NoCircle

=============================================================================
