---------------------------- MODULE EffectLedger ----------------------------
(***************************************************************************)
(* What the runtime promises of the changes it is asked to make, with no   *)
(* process, database row or crash in sight: a ledger nothing is ever taken *)
(* back from.  A change is sent at most once.  It is committed only after  *)
(* it happened, confirmed only after it happened and was paid for, and     *)
(* refuted only when it did not happen and never will.                     *)
(***************************************************************************)
EXTENDS Naturals

CONSTANTS Changes, KeyOf, NoKey

VARIABLES sent, happened, charged, committed, confirmed, refuted

vars == <<sent, happened, charged, committed, confirmed, refuted>>

Init ==
  /\ sent = {} /\ happened = {} /\ charged = {}
  /\ committed = {} /\ confirmed = {} /\ refuted = {}

\* The adapter is called.
Send(c) ==
  /\ c \notin sent \union refuted
  /\ sent' = sent \union {c}
  /\ UNCHANGED <<happened, charged, committed, confirmed, refuted>>

\* The far end does it.
Happen(c) ==
  /\ c \in sent \ (happened \union refuted)
  /\ happened' = happened \union {c}
  /\ UNCHANGED <<sent, charged, committed, confirmed, refuted>>

\* No other change holds its key.
KeyFree(c) ==
  \A d \in committed \ {c} : KeyOf[d] # KeyOf[c]

\* Its grant is drawn, its key committed, its success confirmed: each on its
\* own or together, the last never before the draw.
Charges(c) == charged' = charged \/ charged' = charged \union {c}
Commits(c) ==
  \/ committed' = committed
  \/ /\ c \in happened /\ KeyOf[c] # NoKey /\ KeyFree(c)
     /\ committed' = committed \union {c}
Confirms(c) ==
  \/ confirmed' = confirmed
  \/ /\ c \in happened /\ c \in charged'
     /\ confirmed' = confirmed \union {c}
Record(c) ==
  /\ Charges(c) /\ Commits(c) /\ Confirms(c)
  /\ UNCHANGED <<sent, happened, refuted>>

\* The far end says it did not happen: it stays so.
Refute(c) ==
  /\ c \notin happened \union committed \union confirmed
  /\ refuted' = refuted \union {c}
  /\ UNCHANGED <<sent, happened, charged, committed, confirmed>>

Next == \E c \in Changes : Send(c) \/ Happen(c) \/ Record(c) \/ Refute(c)

Spec == Init /\ [][Next]_vars

-----------------------------------------------------------------------------
\* Nothing is both confirmed and refuted, only what was sent happened, and a
\* key is committed to one change.
LedgerConsistent ==
  /\ happened \subseteq sent
  /\ committed \union confirmed \subseteq happened
  /\ confirmed \subseteq charged
  /\ refuted \intersect (happened \union committed \union confirmed) = {}
  /\ \A c, d \in committed : KeyOf[c] = KeyOf[d] => c = d
=============================================================================
