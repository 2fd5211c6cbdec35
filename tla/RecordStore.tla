---------------------------- MODULE RecordStore ----------------------------
(***************************************************************************)
(* The append-only records of packages/storage-sqlite and the chain that   *)
(* seals them (migrations 7 to 9): each link of `record_chain` is a keyed  *)
(* hash of the link before it, its record's digest and whether a start     *)
(* swept it. A store that holds the key seals a record in the transaction  *)
(* that writes it; what a store without it wrote is sealed, in batches, by *)
(* the next start that has it (sealRecords). An operator may keep the      *)
(* chain's head elsewhere, and verifyChain walks the chain against it.     *)
(*                                                                         *)
(* A step is one write transaction. A record's content is what its writer  *)
(* bound, so two writers of one key bind two contents; a keyed hash is the *)
(* list of what it was taken over, which only a holder of the key can      *)
(* extend. Damage stands for an edit of the file by anything that is not   *)
(* MELRA.                                                                  *)
(***************************************************************************)
EXTENDS Naturals, Sequences, FiniteSets, FiniteSetsExt, SequencesExt

CONSTANTS
  Stores,     \* processes with the database open for writing
  Old,        \* those of an older MELRA, which knows no chain
  Keys,       \* keys of the tables whose records are written once
  Aborting,   \* those of tables where a repeat is an error, not ignored
  Certs,      \* the ids of the certificates one task is given
  Batch,      \* records sealed in one transaction of a sweep
  None, Edited,  \* no record; the content of a record someone edited
  MaxStarts,  \* bound: starts of a store
  MaxDamage   \* bound: edits of the file

RecordAssumption ==
  /\ Old \subseteq Stores /\ Aborting \subseteq Keys /\ Keys \cap Certs = {}
  /\ Batch \in Nat \ {0}
  /\ None \notin Stores /\ Edited \notin Stores /\ None # Edited

Records == Keys \cup Certs

VARIABLES
  migrated,   \* the database has a record_chain table
  open,       \* stores that have it open
  keyed,      \* stores with a chainKey
  pending,    \* per store: records its sweep has listed and not sealed yet
  row,        \* the content under each key; a certificate's, replaced or not
  current,    \* the certificate in `certificates`; the others are history
  chain,      \* record_chain, in the order of its sequence
  kept,       \* the head an operator keeps, with what was sealed then (history)
  listed,     \* history: the records stored when each store's sweep listed them
  unsealed,   \* history: records a store without a key wrote
  starts, damage

vars == <<migrated, open, keyed, pending, row, current, chain, kept, listed,
          unsealed, starts, damage>>

Stored == {r \in Records : row[r] # None}
Digest(r) == <<r, row[r]>>
Sealed == {chain[i].record : i \in DOMAIN chain}
UnsealedKeys == IF migrated THEN Stored \ Sealed ELSE Stored

Genesis == [sequence |-> 0, link |-> <<>>]
ChainHead ==
  IF chain = <<>> THEN Genesis
  ELSE [sequence |-> Last(chain).sequence, link |-> Last(chain).link]

ChainLink(previous, digest, swept) == Append(previous, <<digest, swept>>)

LinkAfter(head, r, content, swept) ==
  [sequence |-> head.sequence + 1, record |-> r, digest |-> <<r, content>>,
   previous |-> head.link, swept |-> swept,
   link |-> ChainLink(head.link, <<r, content>>, swept)]

\* variant: seal without asking whether the record is sealed already
SealAgain(links, rows, r, swept) ==
  IF rows[r] = None THEN links
  ELSE LET head == IF links = <<>> THEN Genesis
                   ELSE [sequence |-> Last(links).sequence, link |-> Last(links).link]
       IN Append(links, LinkAfter(head, r, rows[r], swept))

\* seal: one link for a stored record no link seals; `rows` is what is stored.
Seal(links, rows, r, swept) ==
  IF rows[r] = None \/ \E i \in DOMAIN links : links[i].record = r THEN links
  ELSE LET head == IF links = <<>> THEN Genesis
                   ELSE [sequence |-> Last(links).sequence, link |-> Last(links).link]
       IN Append(links, LinkAfter(head, r, rows[r], swept))

-----------------------------------------------------------------------------
(* verifyChain *)

LinkBreak(last, l) ==
  CASE l.sequence # last.sequence + 1 -> "sequence_gap"
    [] l.previous # last.link \/ l.link # ChainLink(last.link, l.digest, l.swept) -> "link_forged"
    [] row[l.record] = None -> "record_removed"
    [] Digest(l.record) # l.digest -> "record_changed"
    [] OTHER -> "none"

Passes(head, last) == head = None \/ head.sequence # last.sequence \/ head.link = last.link

Before(i) == IF i = 1 THEN Genesis
             ELSE [sequence |-> chain[i-1].sequence, link |-> chain[i-1].link]

\* The first link at which the walk stops, or the one past the last.
FirstBroken(head) ==
  LET Broken(i) == \/ LinkBreak(Before(i), chain[i]) # "none"
                   \/ ~Passes(head, [sequence |-> chain[i].sequence, link |-> chain[i].link])
  IN Min({i \in DOMAIN chain : Broken(i)} \cup {Len(chain) + 1})

VerifyChain(head) ==
  LET at == FirstBroken(head)
  IN CASE ~Passes(head, Genesis) -> "head_mismatch"
       [] Passes(head, Genesis) /\ at <= Len(chain) ->
            IF LinkBreak(Before(at), chain[at]) # "none" THEN LinkBreak(Before(at), chain[at])
            ELSE "head_mismatch"
       [] OTHER ->
            IF head # None /\ head.sequence > ChainHead.sequence THEN "head_truncated"
            ELSE IF UnsealedKeys # {} THEN "unsealed_rows" ELSE "none"

-----------------------------------------------------------------------------
Init ==
  /\ migrated = FALSE /\ open = {} /\ keyed = {}
  /\ pending = [s \in Stores |-> {}] /\ listed = [s \in Stores |-> {}]
  /\ row = [r \in Records |-> None] /\ current = None
  /\ chain = <<>> /\ kept = None
  /\ unsealed = {} /\ starts = 0 /\ damage = 0

\* The constructor: applyMigration runs each version once. An older MELRA
\* knows the versions before the chain's.
Open(s) ==
  /\ s \notin open /\ starts < MaxStarts
  /\ open' = open \cup {s}
  /\ migrated' = (migrated \/ s \notin Old)
  /\ starts' = starts + 1
  /\ UNCHANGED <<keyed, pending, row, current, chain, kept, listed, unsealed, damage>>

\* sealRecords sets the key and lists what no link seals, in no transaction.
SealRecords(s) ==
  /\ s \in open \ (keyed \cup Old)
  /\ keyed' = keyed \cup {s}
  /\ pending' = [pending EXCEPT ![s] = UnsealedKeys]
  /\ listed' = [listed EXCEPT ![s] = Stored]
  /\ UNCHANGED <<migrated, open, row, current, chain, kept, unsealed, starts, damage>>

\* One batch of what it listed; a record someone sealed meanwhile is skipped.
SealBatch(s) ==
  /\ pending[s] # {}
  /\ \E batch \in SUBSET pending[s] :
       /\ Cardinality(batch) = Min({Batch, Cardinality(pending[s])})
       /\ chain' = FoldSet(LAMBDA r, links : Seal(links, row, r, 1), chain, batch)
       /\ pending' = [pending EXCEPT ![s] = @ \ batch]
  /\ UNCHANGED <<migrated, open, keyed, row, current, kept, listed, unsealed, starts, damage>>

Close(s) ==
  /\ s \in open
  /\ open' = open \ {s} /\ keyed' = keyed \ {s}
  /\ pending' = [pending EXCEPT ![s] = {}]
  /\ listed' = [listed EXCEPT ![s] = {}]
  /\ UNCHANGED <<migrated, row, current, chain, kept, unsealed, starts, damage>>

\* A store does nothing else while it sweeps: sealRecords is synchronous.
Ready(s) == s \in open /\ pending[s] = {}

\* sealing: the record a keyed store wrote is sealed with it, and only when
\* what is stored under the key is what this write bound.
Sealing(s, r, rows, wrote) ==
  /\ row' = rows
  /\ chain' = IF s \in keyed /\ rows[r] = s THEN Seal(chain, rows, r, 0) ELSE chain
  /\ unsealed' = IF wrote /\ s \notin keyed THEN unsealed \cup {r} ELSE unsealed

\* recordApprovalDecision, recordRefusal, recordCapabilityUse, saveReceipt ...:
\* the first insert under a key stays; a repeat is ignored, or an error.
Write(s, r) ==
  /\ Ready(s)
  /\ row[r] = None \/ r \notin Aborting
  /\ Sealing(s, r, IF row[r] = None THEN [row EXCEPT ![r] = s] ELSE row, row[r] = None)
  /\ UNCHANGED <<migrated, open, keyed, pending, current, kept, listed, starts, damage>>

\* saveCertificate: in place of the one the task had, which a trigger keeps in
\* certificate_history; with ifAbsent the one there stays.
SaveCertificate(s, c, ifAbsent) ==
  /\ Ready(s) /\ row[c] = None
  /\ LET writes == current = None \/ ~ifAbsent
     IN /\ current' = IF writes THEN c ELSE current
        /\ Sealing(s, c, IF writes THEN [row EXCEPT ![c] = s] ELSE row, writes)
  /\ UNCHANGED <<migrated, open, keyed, pending, kept, listed, starts, damage>>

\* `melra audit head`: what the operator keeps outside MELRA.
KeepHead ==
  /\ kept = None /\ chain # <<>> /\ damage = 0
  /\ kept' = [head |-> ChainHead, records |-> [r \in Sealed |-> row[r]]]
  /\ UNCHANGED <<migrated, open, keyed, pending, row, current, chain, listed, unsealed,
                 starts, damage>>

\* The file is edited: a record, links of the chain, or both.
Damage ==
  /\ kept # None /\ damage < MaxDamage /\ damage' = damage + 1
  /\ row' \in {row} \cup {[row EXCEPT ![r] = content] : r \in Stored, content \in {None, Edited}}
  /\ chain' \in {chain} \cup {RemoveAt(chain, i) : i \in DOMAIN chain}
                        \cup {SubSeq(chain, 1, i - 1) : i \in DOMAIN chain}
  /\ <<row, chain>>' # <<row, chain>>
  /\ UNCHANGED <<migrated, open, keyed, pending, current, kept, listed, unsealed, starts>>

Next ==
  \/ \E s \in Stores : Open(s) \/ SealRecords(s) \/ SealBatch(s) \/ Close(s)
  \/ \E s \in Stores, r \in Keys : Write(s, r)
  \/ \E s \in Stores, c \in Certs, ifAbsent \in BOOLEAN : SaveCertificate(s, c, ifAbsent)
  \/ KeepHead
  \/ Damage

\* A sweep that has begun goes on: sealRecords never waits for anything.
Spec == Init /\ [][Next]_vars /\ \A s \in Stores : WF_vars(SealBatch(s))

-----------------------------------------------------------------------------
(* Properties *)

TypeOK ==
  /\ migrated \in BOOLEAN /\ open \subseteq Stores /\ keyed \subseteq open
  /\ pending \in [Stores -> SUBSET Records] /\ listed \in [Stores -> SUBSET Records]
  /\ row \in [Records -> Stores \cup {None, Edited}]
  /\ current \in Certs \cup {None}
  /\ \A i \in DOMAIN chain : chain[i].record \in Records /\ chain[i].swept \in {0, 1}
  /\ unsealed \subseteq Records

\* Sweeps of several stores beside writers of their own leave a chain that
\* verifies: no gap, no record sealed twice, every link by the one before it,
\* and no record missed. A record is unsealed only if a store without the key
\* wrote it, and a sweep that is over has sealed everything stored when it
\* began (sealRecords, seal, sealing).
ChainIsWhole ==
  damage = 0 =>
    /\ VerifyChain(None) \in {"none", "unsealed_rows"}
    /\ Cardinality(Sealed) = Len(chain)
    /\ UnsealedKeys \subseteq unsealed
    /\ \A i \in DOMAIN chain : chain[i].swept = 1 => chain[i].record \in unsealed
    /\ \A s \in keyed : listed[s] \subseteq Sealed \cup pending[s]

\* Against a head the operator kept, a chain that verifies shows every record
\* sealed by then as it was: none changed, removed or unsealed since, however
\* the file was edited and whatever was swept again after (verifyChain).
KeptHeadHolds ==
  kept # None /\ VerifyChain(kept.head) \in {"none", "unsealed_rows"} =>
    \A r \in DOMAIN kept.records : row[r] = kept.records[r] /\ r \in Sealed
=============================================================================
