----------------------------- MODULE Wildcards -----------------------------
(***************************************************************************)
(* wildcardMatch and find of packages/receipt-schema/src/index.ts, which   *)
(* decide whether a grant covers a target, a credential its host and a     *)
(* check its address: each run of a pattern between two stars goes where   *)
(* it first fits, found without stepping back over the value. Positions    *)
(* count from 0, as the code's do.                                         *)
(***************************************************************************)
EXTENDS Integers, Sequences

CONSTANTS
  Letters,            \* the plain characters
  MaxValue, MaxPattern \* bounds: their lengths

VARIABLES value, pattern
wildcardVars == <<value, pattern>>

NewLine == "newline"
Star == "*"

-----------------------------------------------------------------------------
(* find: Knuth, Morris and Pratt *)

\* The longest proper prefix of `part` that ends its first i characters.
Border(part) ==
  LET border[i \in DOMAIN part] ==
        IF i = 1 THEN 0
        ELSE LET back[k \in 0..(i - 1)] == IF k > 0 /\ part[i] # part[k + 1] THEN back[border[k]] ELSE k
                 k == back[border[i - 1]]
             IN IF part[i] = part[k + 1] THEN k + 1 ELSE k
  IN border

\* How much of `part` ends at each position of the text read from `from`.
Reading(text, part, from, to) ==
  LET border == Border(part)
      read[i \in from..to] ==
        IF i = from THEN 0
        ELSE IF read[i - 1] = Len(part) THEN Len(part)
        ELSE LET back[k \in 0..(Len(part) - 1)] ==
                   IF k > 0 /\ text[i] # part[k + 1] THEN back[border[k]] ELSE k
                 k == back[read[i - 1]]
             IN IF text[i] = part[k + 1] THEN k + 1 ELSE k
  IN read

Find(text, part, from, to) ==
  IF part = <<>> THEN IF from <= to THEN from ELSE -1
  ELSE IF to < from \/ \A i \in from..to : Reading(text, part, from, to)[i] # Len(part) THEN -1
  ELSE (CHOOSE i \in from..to :
          /\ Reading(text, part, from, to)[i] = Len(part)
          /\ \A j \in from..(i - 1) : Reading(text, part, from, to)[j] # Len(part)) - Len(part)

-----------------------------------------------------------------------------
(* wildcardMatch *)

\* The runs of plain characters between the stars.
Stars(p) == {i \in DOMAIN p : p[i] = Star}
RECURSIVE Parts(_)
Parts(p) ==
  IF Stars(p) = {} THEN <<p>>
  ELSE LET first == CHOOSE i \in Stars(p) : \A j \in Stars(p) : i <= j
       IN <<SubSeq(p, 1, first - 1)>> \o Parts(SubSeq(p, first + 1, Len(p)))

\* The first end of a line at or after a position.
LineEnd(text, at) ==
  LET ends == {i \in at..Len(text) : i = Len(text) \/ text[i + 1] = NewLine}
  IN CHOOSE i \in ends : \A j \in ends : i <= j

\* Where the run before the n-th star ends: -1 once a run fits nowhere.
Placed(text, parts) ==
  LET end == Len(text) - Len(parts[Len(parts)])
      lesser(a, b) == IF a <= b THEN a ELSE b
      at[n \in 1..(Len(parts) - 1)] ==
        IF n = 1 THEN Len(parts[1])
        ELSE IF at[n - 1] = -1 THEN -1
        ELSE LET found == Find(text, parts[n], at[n - 1],
                               lesser(end, LineEnd(text, at[n - 1]) + Len(parts[n])))
             IN IF found = -1 THEN -1 ELSE found + Len(parts[n])
  IN at

Match(text, p) ==
  LET parts == Parts(p)
      head == parts[1]
      tail == parts[Len(parts)]
      end == Len(text) - Len(tail)
      last == Placed(text, parts)[Len(parts) - 1]
  IN IF Len(parts) = 1 THEN Len(text) = Len(head) /\ Find(text, head, 0, Len(head)) = 0
     ELSE /\ end >= Len(head)
          /\ Find(text, head, 0, Len(head)) = 0
          /\ Find(text, tail, end, Len(text)) = end
          /\ last # -1
          /\ LineEnd(text, last) >= end

-----------------------------------------------------------------------------
(* Every value and every pattern *)

Init == value = <<>> /\ pattern = <<>>
LongerValue ==
  /\ Len(value) < MaxValue
  /\ \E c \in Letters \union {NewLine} : value' = Append(value, c)
  /\ UNCHANGED pattern
LongerPattern ==
  /\ Len(pattern) < MaxPattern
  /\ \E c \in Letters \union {Star, NewLine} : pattern' = Append(pattern, c)
  /\ UNCHANGED value
Next == LongerValue \/ LongerPattern
Spec == Init /\ [][Next]_wildcardVars

-----------------------------------------------------------------------------
(* Properties *)

\* What a pattern means: each star is some run of characters of one line.
Means(text, p) ==
  LET means[i \in 0..Len(text), j \in 0..Len(p)] ==
        IF j = 0 THEN i = 0
        ELSE IF p[j] = Star THEN means[i, j - 1] \/ (i > 0 /\ text[i] # NewLine /\ means[i - 1, j])
        ELSE i > 0 /\ text[i] = p[j] /\ means[i - 1, j - 1]
  IN means[Len(text), Len(p)]

\* The linear match answers what the pattern means, for every short value and
\* pattern (wildcardMatch's claim to answer as the `.*` expression did).
MatchesAsMeant == Match(value, pattern) <=> Means(value, pattern)
=============================================================================
