---------------------------- MODULE Server_proofs ----------------------------
(***************************************************************************)
(* Proofs about MCServer: what a process serves in and with which key,     *)
(* what an MCP caller acts on and how often, which HTTP sessions end, and  *)
(* what a revoke of the client register takes back. Each part has its own  *)
(* inductive invariant, and the last theorem puts three of them together.  *)
(***************************************************************************)
EXTENDS MCServer, FiniteSetTheorems, WellFoundedInduction, SequenceTheorems, TLAPS

-----------------------------------------------------------------------------
(* Counting: the least of some numbers, and the elements of a sequence at  *)
(* some of its places.                                                     *)

\* A family that has the empty set, and with each set its extensions by one
\* element of a finite S, has S.
LEMMA GrowingFamily ==
  ASSUME NEW S, IsFiniteSet(S), NEW F, {} \in F,
         \A T \in SUBSET S : \A x \in S \ T : T \in F => T \union {x} \in F
  PROVE  S \in F
<1> SUFFICES ASSUME S \notin F PROVE FALSE
  OBVIOUS
<1> DEFINE Out == {T \in SUBSET S : T \notin F}
<1>1. \E T \in Out : \A U \in Out : <<U, T>> \notin StrictSubsetOrdering(S)
  <2>1. IsWellFoundedOn(StrictSubsetOrdering(S), FiniteSubsetsOf(S))
    BY FS_StrictSubsetOrderingWellFounded
  <2>2. Out \subseteq FiniteSubsetsOf(S) /\ Out # {}
    BY FS_FiniteSubsetsOfFinite
  <2> HIDE DEF Out
  <2>. QED  BY <2>1, <2>2, WFMin
<1>2. PICK T \in Out : \A U \in Out : <<U, T>> \notin StrictSubsetOrdering(S)
  BY <1>1
<1>3. PICK x \in T : TRUE
  OBVIOUS
<1>4. <<T \ {x}, T>> \in StrictSubsetOrdering(S)
  BY <1>3 DEF StrictSubsetOrdering
<1>5. T \ {x} \in F
  BY <1>2, <1>4
<1>6. (T \ {x}) \union {x} = T
  BY <1>3
<1>. QED  BY <1>3, <1>5, <1>6

LEMMA LeastOf ==
  ASSUME NEW K \in SUBSET Nat, IsFiniteSet(K), K # {}
  PROVE  \E m \in K : \A n \in K : m <= n
<1> DEFINE F == {T \in SUBSET K : T = {} \/ \E m \in T : \A n \in T : m <= n}
<1>1. ASSUME NEW T \in SUBSET K, NEW x \in K \ T, T \in F
      PROVE  T \union {x} \in F
  <2>1. CASE T = {}
    BY <2>1
  <2>2. CASE T # {}
    <3>1. PICK m \in T : \A n \in T : m <= n
      BY <1>1, <2>2
    <3>2. CASE m <= x
      BY <3>1, <3>2
    <3>3. CASE ~(m <= x)
      <4>1. \A n \in T : x <= n
        BY <3>1, <3>3
      <4>. QED  BY <4>1
    <3>. QED  BY <3>2, <3>3
  <2>. QED  BY <2>1, <2>2
<1>2. {} \in F
  OBVIOUS
<1> HIDE DEF F
<1>3. K \in F
  BY <1>1, <1>2, GrowingFamily
<1>. QED  BY <1>3 DEF F

Places(K, n) == IsFiniteSet(K) /\ \A i \in K : i \in Nat /\ 1 <= i /\ i <= n
UpTo(j, K) == {i \in K : i <= j}
Rank(j, K) == Cardinality(UpTo(j, K))

LEMMA RankInfo ==
  ASSUME NEW K, IsFiniteSet(K)
  PROVE  /\ Cardinality(K) \in Nat
         /\ \A j : Rank(j, K) \in Nat /\ IsFiniteSet(UpTo(j, K)) /\ Rank(j, K) <= Cardinality(K)
<1>1. Cardinality(K) \in Nat
  BY FS_CardinalityType
<1>2. ASSUME NEW j
      PROVE  Rank(j, K) \in Nat /\ IsFiniteSet(UpTo(j, K)) /\ Rank(j, K) <= Cardinality(K)
  <2>1. UpTo(j, K) \in SUBSET K
    BY DEF UpTo
  <2>2. IsFiniteSet(UpTo(j, K)) /\ Cardinality(UpTo(j, K)) <= Cardinality(K)
    BY <2>1, FS_Subset
  <2>. QED  BY <2>2, FS_CardinalityType DEF Rank
<1>. QED  BY <1>1, <1>2

\* The places of K have the ranks 1 to its size, one each.
LEMMA RankOf ==
  ASSUME NEW n \in Nat, NEW K, Places(K, n), NEW k \in 1..Cardinality(K)
  PROVE  \E j \in K : Rank(j, K) = k
<1>a. IsFiniteSet(K) /\ \A i \in K : i \in Nat /\ 1 <= i /\ i <= n
  BY DEF Places
<1>b. Cardinality(K) \in Nat /\ \A j : Rank(j, K) \in Nat /\ IsFiniteSet(UpTo(j, K))
  BY <1>a, RankInfo
<1>1. k \in Nat /\ k > 0 /\ k <= Cardinality(K)
  BY <1>b
<1> DEFINE M == {m \in 0..n : Rank(m, K) >= k}
<1>2. UpTo(n, K) = K
  BY <1>a DEF UpTo
<1>3. n \in M
  BY <1>1, <1>2 DEF Rank
<1>4. IsFiniteSet(M) /\ M \in SUBSET Nat
  <2>1. IsFiniteSet(0..n)
    BY FS_Interval
  <2>2. M \in SUBSET (0..n)
    OBVIOUS
  <2>3. IsFiniteSet(M)
    BY <2>1, <2>2, FS_Subset
  <2>. QED  BY <2>2, <2>3
<1>5. PICK m \in M : \A l \in M : m <= l
  <2> HIDE DEF M
  <2>1. M # {}
    BY <1>3
  <2>. QED  BY <1>4, <2>1, LeastOf
<1>6. m \in Nat /\ m <= n /\ Rank(m, K) >= k
  BY <1>5
<1>7. m # 0
  <2>1. UpTo(0, K) = {}
    BY <1>a DEF UpTo
  <2>2. Rank(0, K) = 0
    BY <2>1, FS_EmptySet DEF Rank
  <2>. QED  BY <1>1, <1>6, <2>2
<1>8. m - 1 \in 0..n /\ m - 1 \notin M
  BY <1>5, <1>6, <1>7
<1>9. m - 1 \in Nat /\ Rank(m - 1, K) \in Nat /\ Rank(m, K) \in Nat /\ IsFiniteSet(UpTo(m - 1, K))
  BY <1>b, <1>6, <1>8
<1>10. Rank(m - 1, K) < k
  BY <1>1, <1>8, <1>9
<1>11. m \in K
  <2> SUFFICES ASSUME m \notin K PROVE FALSE
    OBVIOUS
  <2>1. UpTo(m, K) = UpTo(m - 1, K)
    BY <1>a, <1>6 DEF UpTo
  <2>2. Rank(m, K) = Rank(m - 1, K)
    BY <2>1 DEF Rank
  <2>. QED  BY <1>6, <1>10, <1>9, <1>1, <2>2
<1>12. UpTo(m, K) = UpTo(m - 1, K) \union {m} /\ m \notin UpTo(m - 1, K)
  <2>1. \A i \in K : i <= m <=> (i <= m - 1 \/ i = m)
    BY <1>a, <1>6
  <2>2. ~(m <= m - 1)
    BY <1>6
  <2>. QED  BY <1>11, <2>1, <2>2 DEF UpTo
<1>13. Cardinality(UpTo(m - 1, K) \union {m}) = Cardinality(UpTo(m - 1, K)) + 1
  BY <1>9, <1>12, FS_AddElement
<1>14. Rank(m, K) = Rank(m - 1, K) + 1
  BY <1>12, <1>13 DEF Rank
<1>. QED  BY <1>1, <1>6, <1>9, <1>10, <1>11, <1>14

\* A later place is of a higher rank.
LEMMA RanksGrow ==
  ASSUME NEW n \in Nat, NEW K, Places(K, n), NEW i \in K, NEW j \in K
  PROVE  /\ i <= j => Rank(i, K) <= Rank(j, K)
         /\ i < j => Rank(i, K) # Rank(j, K)
<1>1. IsFiniteSet(K) /\ i \in Nat /\ j \in Nat /\ \A x \in K : x \in Nat
  BY DEF Places
<1>2. IsFiniteSet(UpTo(j, K))
  BY <1>1, RankInfo
<1>3. ASSUME i <= j PROVE UpTo(i, K) \in SUBSET UpTo(j, K)
  <2>1. \A x \in K : x <= i => x <= j
    BY <1>1, <1>3
  <2>. QED  BY <2>1 DEF UpTo
<1>4. ASSUME i < j PROVE j \notin UpTo(i, K) /\ j \in UpTo(j, K)
  BY <1>1, <1>4 DEF UpTo
<1>5. ASSUME i <= j PROVE Rank(i, K) <= Rank(j, K)
  BY <1>2, <1>3, <1>5, FS_Subset DEF Rank
<1>6. ASSUME i < j PROVE Rank(i, K) # Rank(j, K)
  <2>1. UpTo(i, K) \in SUBSET UpTo(j, K) /\ UpTo(i, K) # UpTo(j, K)
    BY <1>1, <1>3, <1>4, <1>6
  <2>. QED  BY <1>2, <2>1, FS_Subset DEF Rank
<1>. QED  BY <1>5, <1>6

\* The first places of K: as many as asked, or all there are.
LEMMA FirstRanks ==
  ASSUME NEW n \in Nat, NEW K, Places(K, n), NEW m \in Nat
  PROVE  LET first == {j \in K : Rank(j, K) <= m}
         IN  IF m <= Cardinality(K) THEN Cardinality(first) = m ELSE first = K
<1> DEFINE first == {j \in K : Rank(j, K) <= m}
<1>1. IsFiniteSet(K) /\ \A j \in K : j \in Nat /\ 1 <= j
  BY DEF Places
<1>2. Cardinality(K) \in Nat /\ \A j : Rank(j, K) \in Nat /\ IsFiniteSet(UpTo(j, K)) /\ Rank(j, K) <= Cardinality(K)
  BY <1>1, RankInfo
<1>3. CASE m = 0
  <2>1. ASSUME NEW j \in K PROVE Rank(j, K) # 0
    <3>1. j \in UpTo(j, K)
      BY <1>1 DEF UpTo
    <3>. QED  BY <1>2, <3>1, FS_EmptySet DEF Rank
  <2>2. \A j \in K : ~(Rank(j, K) <= m)
    BY <1>2, <1>3, <2>1
  <2>3. first = {}
    BY <2>2
  <2>. QED  BY <1>2, <1>3, <2>3, FS_EmptySet
<1>4. CASE m > 0 /\ m <= Cardinality(K)
  <2>1. PICK l \in K : Rank(l, K) = m
    BY <1>2, <1>4, RankOf
  <2>2. ASSUME NEW j \in K PROVE Rank(j, K) <= m <=> j <= l
    <3>1. j <= l => Rank(j, K) <= Rank(l, K)
      BY RanksGrow
    <3>2. l < j => Rank(l, K) # Rank(j, K) /\ Rank(l, K) <= Rank(j, K)
      BY <1>1, RanksGrow
    <3>. QED  BY <1>1, <1>2, <2>1, <3>1, <3>2
  <2>3. first = UpTo(l, K)
    BY <2>2 DEF UpTo
  <2>. QED  BY <1>4, <2>1, <2>3 DEF Rank
<1>5. CASE m > Cardinality(K)
  <2>1. \A j \in K : Rank(j, K) <= m
    BY <1>2, <1>5
  <2>2. first = K
    BY <2>1
  <2>. QED  BY <1>2, <1>5, <2>2
<1>. QED  BY <1>2, <1>3, <1>4, <1>5

\* The elements of a sequence at the places K, in their order.
Kept(s, K) == [k \in 1..Cardinality(K) |-> s[CHOOSE i \in K : Rank(i, K) = k]]

LEMMA KeptIs ==
  ASSUME NEW S, NEW s \in Seq(S), NEW K, K \in SUBSET DOMAIN s
  PROVE  /\ Kept(s, K) \in Seq(S) /\ Len(Kept(s, K)) = Cardinality(K) /\ Cardinality(K) \in Nat
         /\ \E J \in [1..Cardinality(K) -> K] :
              /\ \A k \in 1..Cardinality(K) : Kept(s, K)[k] = s[J[k]]
              /\ \A k, l \in 1..Cardinality(K) : k # l => J[k] # J[l]
              /\ \A i \in K : \E k \in 1..Cardinality(K) : J[k] = i
<1>1. Len(s) \in Nat /\ DOMAIN s = 1..Len(s)
  OBVIOUS
<1>2. Places(K, Len(s))
  <2>1. IsFiniteSet(1..Len(s))
    BY <1>1, FS_Interval
  <2>2. K \in SUBSET (1..Len(s))
    BY <1>1
  <2>3. IsFiniteSet(K)
    BY <2>1, <2>2, FS_Subset
  <2>. QED  BY <1>1, <2>2, <2>3 DEF Places
<1>3. Cardinality(K) \in Nat /\ \A i \in K : Rank(i, K) \in Nat /\ Rank(i, K) <= Cardinality(K)
  BY <1>2, RankInfo DEF Places
<1> DEFINE J == [k \in 1..Cardinality(K) |-> CHOOSE i \in K : Rank(i, K) = k]
<1>4. ASSUME NEW k \in 1..Cardinality(K) PROVE J[k] \in K /\ Rank(J[k], K) = k
  <2>1. \E i \in K : Rank(i, K) = k
    BY <1>1, <1>2, RankOf
  <2>. QED  BY <2>1
<1>5. \A k \in 1..Cardinality(K) : Kept(s, K)[k] = s[J[k]]
  BY DEF Kept
<1>6. DOMAIN J = 1..Cardinality(K) /\ J = [k \in DOMAIN J |-> J[k]]
  OBVIOUS
<1> HIDE DEF J
<1>7. J \in [1..Cardinality(K) -> K]
  BY <1>4, <1>6
<1>8. \A k, l \in 1..Cardinality(K) : k # l => J[k] # J[l]
  BY <1>4
<1>9. ASSUME NEW i \in K PROVE \E k \in 1..Cardinality(K) : J[k] = i
  <2>1. Rank(i, K) \in 1..Cardinality(K)
    <3>1. Rank(i, K) # 0
      <4>1. IsFiniteSet(UpTo(i, K))
        BY <1>2, RankInfo DEF Places
      <4>2. i \in UpTo(i, K)
        BY <1>2 DEF UpTo, Places
      <4>. QED  BY <4>1, <4>2, FS_EmptySet DEF Rank
    <3>. QED  BY <1>3, <3>1
  <2>2. J[Rank(i, K)] \in K /\ Rank(J[Rank(i, K)], K) = Rank(i, K)
    BY <1>4, <2>1
  <2>3. ~(i < J[Rank(i, K)]) /\ ~(J[Rank(i, K)] < i)
    BY <1>1, <1>2, <2>2, RanksGrow
  <2>4. J[Rank(i, K)] = i
    BY <1>2, <2>2, <2>3 DEF Places
  <2>. QED  BY <2>1, <2>4
<1>10. \A k \in 1..Cardinality(K) : Kept(s, K)[k] \in S
  <2> TAKE k \in 1..Cardinality(K)
  <2>1. J[k] \in DOMAIN s
    BY <1>4
  <2>2. s[J[k]] \in S
    BY <2>1
  <2>. QED  BY <1>5, <2>2
<1>11. Kept(s, K) \in [1..Cardinality(K) -> S]
  BY <1>10 DEF Kept
<1>12. Kept(s, K) \in Seq(S) /\ Len(Kept(s, K)) = Cardinality(K)
  BY <1>3, <1>11
<1>. QED  BY <1>3, <1>5, <1>7, <1>8, <1>9, <1>12

-----------------------------------------------------------------------------
(* Home: the one key of a home.                                            *)

Keys == Starters \union {OwnKey, NoKey}

StartingStates ==
  [at : {"loading", "reading"}, given : {OwnKey, NoKey}, mint : BOOLEAN, sample : Keys, serves : BOOLEAN]
ServingStates == [at : {"serving"}, key : Keys \ {NoKey}]
OffStates == [at : {"off"}]

Starting(p) == process[p] \in StartingStates
Serving(p) == process[p] \in ServingStates

\* Everything stored and held is of the shape it should be, and a start waits
\* for the file another minted only when none was set or found.
HomeShape ==
  /\ keyFile \in Keys /\ environment \in {OwnKey, NoKey} /\ losses \in Nat
  /\ sealedWith \in SUBSET (Keys \ {NoKey})
  /\ process \in [Starters -> OffStates \union StartingStates \union ServingStates]
  /\ \A p \in Starters : Starting(p) /\ process[p].at = "reading" =>
       process[p].given = NoKey /\ process[p].sample = NoKey

\* The key a home that has sealed nothing yet will come to use.
NextKey == IF environment = NoKey THEN keyFile ELSE environment

\* While the environment is the one every process was started in: all that is
\* sealed and held is of one key; what a start found sealed is sealed, and one
\* that found nothing is outrun only by the key it will itself arrive at, since
\* no key file is lost from under it; and a key held is the environment's, the
\* file's, or one a lost file's payloads are sealed under.
OneHome ==
  /\ \A k, l \in sealedWith : k = l
  /\ \A p \in Starters, k \in sealedWith : Serving(p) => process[p].key = k
  /\ \A p, q \in Starters : Serving(p) /\ Serving(q) => process[p].key = process[q].key
  /\ losses > 0 => sealedWith # {}
  /\ \A p \in Starters : Starting(p) =>
       /\ process[p].given = environment
       /\ process[p].sample # NoKey => process[p].sample \in sealedWith
       /\ process[p].sample = NoKey => losses = 0 /\ sealedWith \subseteq {NextKey}
  /\ \A p \in Starters : Serving(p) =>
       process[p].key = NextKey \/ (losses > 0 /\ environment = NoKey /\ process[p].key \in sealedWith)

\* A process of one shape is of no other.
LEMMA Shapes ==
  ASSUME HomeShape, NEW p \in Starters
  PROVE  /\ process[p].at = "off" <=> process[p] = Home!Off
         /\ process[p].at = "serving" <=> Serving(p)
         /\ process[p].at \in {"loading", "reading"} <=> Starting(p)
  BY DEF HomeShape, OffStates, Starting, Serving, StartingStates, ServingStates, Home!Off

\* A start goes off, or on to serve with the key it arrived at.
LEMMA CheckedShape ==
  ASSUME HomeShape, NEW p \in Starters, Starting(p), NEW key \in Keys \ {NoKey}
  PROVE  \/ Home!Checked(p, key) = Home!Off
         \/ /\ process[p].sample \in {NoKey, key}
            /\ Home!Checked(p, key) = [at |-> "serving", key |-> key]
            /\ Home!Checked(p, key) \in ServingStates
<1>1. [at |-> "serving", key |-> key] \in ServingStates
  BY DEF ServingStates
<1>. QED  BY <1>1 DEF Home!Checked

LEMMA HomeShapeFinish ==
  ASSUME HomeShape, NEW p \in Starters, Starting(p), NEW key \in Keys \ {NoKey}, Home!Finish(p, key),
         keyFile' \in Keys, UNCHANGED <<sealedWith, environment, losses>>
  PROVE  HomeShape'
<1>1. process' = [process EXCEPT ![p] = Home!Checked(p, key)]
  BY DEF Home!Finish
<1>2. Home!Checked(p, key) \in OffStates \union ServingStates
  BY CheckedShape DEF Home!Off, OffStates
<1>3. process' \in [Starters -> OffStates \union StartingStates \union ServingStates]
  BY <1>1, <1>2 DEF HomeShape
<1>4. OffStates \cap StartingStates = {} /\ ServingStates \cap StartingStates = {}
  BY DEF OffStates, StartingStates, ServingStates
<1>5. \A q \in Starters : process'[q] = IF q = p THEN Home!Checked(p, key) ELSE process[q]
  BY <1>1 DEF HomeShape
<1>6. \A q \in Starters : process'[q] \in StartingStates /\ process'[q].at = "reading" =>
        process'[q].given = NoKey /\ process'[q].sample = NoKey
  BY <1>2, <1>4, <1>5 DEF HomeShape, Starting
<1>. QED  BY <1>3, <1>6 DEF HomeShape, Starting

LEMMA HomeShapeStep ==
  ASSUME HomeShape, Home!Next
  PROVE  HomeShape'
<1>1. ASSUME NEW p \in Starters, NEW s \in Home!Given(p), NEW mint \in BOOLEAN, Home!Start(p, s, mint)
      PROVE  HomeShape'
  <2>1. s \in Home!Settings
    BY DEF Home!Given, Home!Settings, Home!Uses, Home!Layouts
  <2>2. PICK sample \in IF sealedWith = {} THEN {NoKey} ELSE sealedWith :
          process' = [process EXCEPT ![p] =
            [at |-> "loading", given |-> environment, mint |-> mint, sample |-> sample,
             serves |-> mint /\ ~Home!LayoutRefused(s)]]
    BY <1>1 DEF Home!Start
  <2>3. UNCHANGED <<keyFile, sealedWith, environment, losses>>
    BY <1>1 DEF Home!Start
  <2> DEFINE new == [at |-> "loading", given |-> environment, mint |-> mint, sample |-> sample,
                     serves |-> mint /\ ~Home!LayoutRefused(s)]
  <2>4. sample \in Keys /\ (mint /\ ~Home!LayoutRefused(s)) \in BOOLEAN
    BY <2>1 DEF HomeShape, Keys, Home!LayoutRefused
  <2>5. new \in StartingStates /\ new.at = "loading"
    BY <2>4 DEF StartingStates, HomeShape
  <2> HIDE DEF new
  <2>6. process' = [process EXCEPT ![p] = new]
    BY <2>2 DEF new
  <2>. QED  BY <2>3, <2>5, <2>6 DEF HomeShape, Starting
<1>2. ASSUME NEW p \in Starters, Home!UseEnvironment(p)
      PROVE  HomeShape'
  <2>1. Starting(p) /\ process[p].given \in Keys \ {NoKey}
    BY <1>2, Shapes DEF Home!UseEnvironment, Home!At, Starting, StartingStates, Keys
  <2>. QED  BY <1>2, <2>1, HomeShapeFinish DEF Home!UseEnvironment, HomeShape
<1>3. ASSUME NEW p \in Starters, Home!ReadKey(p) \/ Home!ReadMinted(p)
      PROVE  HomeShape'
  <2>1. Starting(p) /\ UNCHANGED <<keyFile, sealedWith, environment, losses>>
    BY <1>3, Shapes DEF Home!ReadKey, Home!ReadMinted, Home!At
  <2>2. CASE keyFile = NoKey
    <3>1. process' = [process EXCEPT ![p] = Home!Off]
      BY <1>3, <2>2 DEF Home!ReadKey, Home!ReadMinted
    <3>2. Home!Off \in OffStates /\ Home!Off \notin StartingStates /\ Home!Off \notin ServingStates
      BY DEF Home!Off, OffStates, StartingStates, ServingStates
    <3>. QED  BY <2>1, <3>1, <3>2 DEF HomeShape, Starting, Serving
  <2>3. CASE keyFile # NoKey
    <3>1. Home!Finish(p, keyFile) /\ keyFile \in Keys \ {NoKey} /\ keyFile' \in Keys
      BY <1>3, <2>1, <2>3 DEF Home!ReadKey, Home!ReadMinted, HomeShape
    <3>. QED  BY <2>1, <3>1, HomeShapeFinish
  <2>. QED  BY <2>2, <2>3
<1>4. ASSUME NEW p \in Starters, Home!MintKey(p)
      PROVE  HomeShape'
  <2>1. /\ Starting(p) /\ process[p].sample = NoKey /\ process[p].given = NoKey /\ process[p].mint
        /\ UNCHANGED <<sealedWith, environment, losses>>
    BY <1>4, Shapes DEF Home!MintKey, Home!At
  <2>2. CASE keyFile = NoKey
    <3>1. Home!Finish(p, Home!Fresh(p)) /\ keyFile' = Home!Fresh(p)
      BY <1>4, <2>2 DEF Home!MintKey
    <3>2. Home!Fresh(p) \in Keys \ {NoKey}
      BY ServerAssumption DEF ServerAssumption, Home!HomeAssumption, Home!Fresh, Keys
    <3>. QED  BY <2>1, <3>1, <3>2, HomeShapeFinish
  <2>3. CASE keyFile # NoKey
    <3>1. keyFile' = keyFile /\ process' = [process EXCEPT ![p] = [process[p] EXCEPT !.at = "reading"]]
      BY <1>4, <2>3 DEF Home!MintKey
    <3> DEFINE new == [process[p] EXCEPT !.at = "reading"]
    <3>2. new \in StartingStates /\ new \notin ServingStates
      BY <2>1 DEF Starting, StartingStates, ServingStates
    <3>3. new.given = NoKey /\ new.sample = NoKey
      BY <2>1 DEF Starting, StartingStates
    <3> HIDE DEF new
    <3>4. process' = [process EXCEPT ![p] = new]
      BY <3>1 DEF new
    <3>. QED  BY <2>1, <3>1, <3>2, <3>3, <3>4 DEF HomeShape, Starting, Serving
  <2>. QED  BY <2>2, <2>3
<1>5. ASSUME NEW p \in Starters, Home!Seal(p)
      PROVE  HomeShape'
  <2>1. Serving(p) /\ sealedWith' = sealedWith \union {process[p].key}
        /\ UNCHANGED <<keyFile, process, environment, losses>>
    BY <1>5, Shapes DEF Home!Seal, Home!At
  <2>2. process[p].key \in Keys \ {NoKey}
    BY <2>1 DEF Serving, ServingStates
  <2>. QED  BY <2>1, <2>2 DEF HomeShape, Starting, Serving
<1>6. ASSUME NEW p \in Starters, Home!Stop(p)
      PROVE  HomeShape'
  <2>1. Home!Off \in OffStates /\ Home!Off \notin StartingStates /\ Home!Off \notin ServingStates
    BY DEF Home!Off, OffStates, StartingStates, ServingStates
  <2>. QED  BY <1>6, <2>1 DEF Home!Stop, HomeShape, Starting, Serving
<1>7. ASSUME Home!LoseKey \/ Home!RestoreKey \/ Home!ChangeEnvironment
      PROVE  HomeShape'
  <2>1. keyFile' \in Keys /\ environment' \in {OwnKey, NoKey} /\ losses' \in Nat
        /\ UNCHANGED <<sealedWith, process>>
    BY <1>7 DEF Home!LoseKey, Home!RestoreKey, Home!ChangeEnvironment, HomeShape, Keys
  <2>. QED  BY <2>1 DEF HomeShape, Starting, Serving
<1>. QED  BY <1>1, <1>2, <1>3, <1>4, <1>5, <1>6, <1>7 DEF Home!Next


\* A start that ends with the one key of its home leaves the home with one.
LEMMA OneHomeFinish ==
  ASSUME HomeShape, OneHome, NEW p \in Starters, Starting(p), NEW key \in Keys \ {NoKey}, Home!Finish(p, key),
         UNCHANGED <<sealedWith, environment, losses>>,
         keyFile' = keyFile \/ (sealedWith = {} /\ \A q \in Starters : ~Serving(q)),
         process[p].sample \in {NoKey, key} =>
           /\ key = NextKey'
           /\ \A k \in sealedWith : k = key
           /\ \A q \in Starters : Serving(q) => process[q].key = key
  PROVE  OneHome'
<1> DEFINE new == Home!Checked(p, key)
<1>1. process' = [process EXCEPT ![p] = new]
  BY DEF Home!Finish
<1>2. new \notin StartingStates /\ (new \in ServingStates => new.key = key /\ process[p].sample \in {NoKey, key})
  <2>1. Home!Off \notin StartingStates /\ Home!Off \notin ServingStates
    BY DEF Home!Off, StartingStates, ServingStates
  <2>2. [at |-> "serving", key |-> key] \notin StartingStates
    BY DEF StartingStates
  <2>. QED  BY <2>1, <2>2, CheckedShape
<1> HIDE DEF new
<1>3. \A q \in Starters : process'[q] = IF q = p THEN new ELSE process[q]
  BY <1>1 DEF HomeShape
<1>4. NextKey' = NextKey \/ (sealedWith = {} /\ \A q \in Starters : ~Serving(q))
  BY DEF NextKey
<1>. QED  BY <1>2, <1>3, <1>4 DEF OneHome, Starting, Serving

\* With the environment changed only while nothing runs, a home keeps to one key.
LEMMA OneHomeStep ==
  ASSUME Together, HomeShape, OneHome, Home!Next
  PROVE  OneHome'
<1>a. OwnKey # NoKey
  BY ServerAssumption DEF ServerAssumption, Home!HomeAssumption
<1>b. NoKey \notin sealedWith /\ \A q \in Starters : Serving(q) => process[q].key # NoKey
  BY DEF HomeShape, Serving, ServingStates
<1>1. ASSUME NEW p \in Starters, NEW s \in Home!Given(p), NEW mint \in BOOLEAN, Home!Start(p, s, mint)
      PROVE  OneHome'
  <2>1. PICK sample \in IF sealedWith = {} THEN {NoKey} ELSE sealedWith :
          process' = [process EXCEPT ![p] =
            [at |-> "loading", given |-> environment, mint |-> mint, sample |-> sample,
             serves |-> mint /\ ~Home!LayoutRefused(s)]]
    BY <1>1 DEF Home!Start
  <2> DEFINE new == [at |-> "loading", given |-> environment, mint |-> mint, sample |-> sample,
                     serves |-> mint /\ ~Home!LayoutRefused(s)]
  <2>2. UNCHANGED <<keyFile, sealedWith, environment, losses>>
    BY <1>1 DEF Home!Start
  <2>3. new \notin ServingStates /\ new.given = environment /\ new.sample = sample
    BY DEF ServingStates
  <2>4. process' = [process EXCEPT ![p] = new]
    BY <2>1
  <2> HIDE DEF new
  <2>5. \A q \in Starters : process'[q] = IF q = p THEN new ELSE process[q]
    BY <2>4 DEF HomeShape
  <2>6. losses \in Nat /\ NextKey' = NextKey
    BY <2>2 DEF HomeShape, NextKey
  <2>7. /\ sample # NoKey => sample \in sealedWith
        /\ sample = NoKey => losses = 0 /\ sealedWith = {}
    BY <1>b, <2>1, <2>6 DEF OneHome
  <2>. QED  BY <2>2, <2>3, <2>5, <2>6, <2>7 DEF OneHome, Starting, Serving
<1>2. ASSUME NEW p \in Starters, Home!UseEnvironment(p)
      PROVE  OneHome'
  <2>1. Starting(p) /\ process[p].given # NoKey /\ Home!Finish(p, process[p].given)
        /\ UNCHANGED <<keyFile, sealedWith, environment, losses>>
    BY <1>2, Shapes DEF Home!UseEnvironment, Home!At
  <2>2. environment = process[p].given /\ environment \in Keys \ {NoKey}
    BY <2>1 DEF OneHome, HomeShape, Keys
  <2>3. NextKey = environment /\ NextKey' = environment
    BY <2>1, <2>2 DEF NextKey
  <2>4. \A q \in Starters : Serving(q) => process[q].key = environment
    BY <2>2, <2>3 DEF OneHome
  <2>5. process[p].sample \in {NoKey, environment} => \A k \in sealedWith : k = environment
    BY <2>1, <2>2, <2>3 DEF OneHome
  <2>. QED  BY <2>1, <2>2, <2>3, <2>4, <2>5, OneHomeFinish
<1>3. ASSUME NEW p \in Starters, Home!ReadKey(p) \/ Home!ReadMinted(p)
      PROVE  OneHome'
  <2>1. Starting(p) /\ UNCHANGED <<keyFile, sealedWith, environment, losses>>
    BY <1>3, Shapes DEF Home!ReadKey, Home!ReadMinted, Home!At
  <2>2. process[p].given = NoKey
    BY <1>3, <2>1 DEF Home!ReadKey, Home!ReadMinted, Home!At, HomeShape
  <2>3. environment = NoKey /\ NextKey = keyFile /\ NextKey' = keyFile
    BY <2>1, <2>2 DEF OneHome, NextKey
  <2>4. CASE keyFile = NoKey
    <3>1. process' = [process EXCEPT ![p] = Home!Off]
      BY <1>3, <2>4 DEF Home!ReadKey, Home!ReadMinted
    <3>2. Home!Off \notin StartingStates /\ Home!Off \notin ServingStates
      BY DEF Home!Off, StartingStates, ServingStates
    <3>3. \A q \in Starters : process'[q] = IF q = p THEN Home!Off ELSE process[q]
      BY <3>1 DEF HomeShape
    <3>. QED  BY <2>1, <2>3, <3>2, <3>3 DEF OneHome, Starting, Serving
  <2>5. CASE keyFile # NoKey
    <3>1. Home!Finish(p, keyFile) /\ keyFile \in Keys \ {NoKey}
      BY <1>3, <2>1, <2>5 DEF Home!ReadKey, Home!ReadMinted, HomeShape
    <3>2. CASE process[p].sample = NoKey
      <4>1. losses = 0 /\ sealedWith \subseteq {keyFile}
        BY <2>1, <2>3, <3>2 DEF OneHome
      <4>2. \A q \in Starters : Serving(q) => process[q].key = keyFile
        BY <2>3, <4>1 DEF OneHome
      <4>. QED  BY <2>1, <2>3, <3>1, <4>1, <4>2, OneHomeFinish
    <3>3. CASE process[p].sample # NoKey /\ process[p].sample = keyFile
      <4>1. keyFile \in sealedWith
        BY <2>1, <3>3 DEF OneHome
      <4>2. (\A k \in sealedWith : k = keyFile) /\ \A q \in Starters : Serving(q) => process[q].key = keyFile
        BY <4>1 DEF OneHome
      <4>. QED  BY <2>1, <2>3, <3>1, <4>2, OneHomeFinish
    <3>4. CASE process[p].sample \notin {NoKey, keyFile}
      BY <2>1, <3>1, <3>4, OneHomeFinish
    <3>. QED  BY <3>2, <3>3, <3>4
  <2>. QED  BY <2>4, <2>5
<1>4. ASSUME NEW p \in Starters, Home!MintKey(p)
      PROVE  OneHome'
  <2>1. /\ Starting(p) /\ process[p].sample = NoKey /\ process[p].given = NoKey
        /\ UNCHANGED <<sealedWith, environment, losses>>
    BY <1>4, Shapes DEF Home!MintKey, Home!At
  <2>2. environment = NoKey /\ NextKey = keyFile /\ NextKey' = keyFile' /\ losses = 0 /\ sealedWith \subseteq {keyFile}
    BY <2>1 DEF OneHome, NextKey
  <2>3. CASE keyFile = NoKey
    <3>1. Home!Finish(p, Home!Fresh(p)) /\ keyFile' = Home!Fresh(p)
      BY <1>4, <2>3 DEF Home!MintKey
    <3>2. Home!Fresh(p) \in Keys \ {NoKey}
      BY ServerAssumption DEF ServerAssumption, Home!HomeAssumption, Home!Fresh, Keys
    <3>3. sealedWith = {} /\ \A q \in Starters : ~Serving(q)
      BY <1>b, <2>2, <2>3 DEF OneHome
    <3>. QED  BY <2>1, <2>2, <3>1, <3>2, <3>3, OneHomeFinish
  <2>4. CASE keyFile # NoKey
    <3>1. keyFile' = keyFile /\ process' = [process EXCEPT ![p] = [process[p] EXCEPT !.at = "reading"]]
      BY <1>4, <2>4 DEF Home!MintKey
    <3> DEFINE new == [process[p] EXCEPT !.at = "reading"]
    <3>2. new \notin ServingStates /\ new.given = NoKey /\ new.sample = NoKey
      BY <2>1 DEF Starting, StartingStates, ServingStates
    <3> HIDE DEF new
    <3>3. \A q \in Starters : process'[q] = IF q = p THEN new ELSE process[q]
      BY <3>1 DEF new, HomeShape
    <3>. QED  BY <2>1, <2>2, <3>1, <3>2, <3>3 DEF OneHome, Starting, Serving
  <2>. QED  BY <2>3, <2>4
<1>5. ASSUME NEW p \in Starters, Home!Seal(p)
      PROVE  OneHome'
  <2>1. Serving(p) /\ sealedWith' = sealedWith \union {process[p].key}
        /\ UNCHANGED <<keyFile, process, environment, losses>>
    BY <1>5, Shapes DEF Home!Seal, Home!At
  <2>2. NextKey' = NextKey
    BY <2>1 DEF NextKey
  <2>3. losses = 0 => process[p].key = NextKey
    BY <2>1 DEF OneHome
  <2>. QED  BY <2>1, <2>2, <2>3 DEF OneHome, Starting, Serving
<1>6. ASSUME NEW p \in Starters, Home!Stop(p)
      PROVE  OneHome'
  <2>1. Home!Off \notin StartingStates /\ Home!Off \notin ServingStates
    BY DEF Home!Off, StartingStates, ServingStates
  <2>2. \A q \in Starters : process'[q] = IF q = p THEN Home!Off ELSE process[q]
    BY <1>6 DEF Home!Stop, HomeShape
  <2>3. UNCHANGED <<sealedWith, environment, losses>> /\ NextKey' = NextKey
    BY <1>6 DEF Home!Stop, NextKey
  <2>. QED  BY <2>1, <2>2, <2>3 DEF OneHome, Starting, Serving
<1>7. ASSUME Home!LoseKey
      PROVE  OneHome'
  <2>1. keyFile' = NoKey /\ losses' = losses + 1 /\ sealedWith # {} /\ UNCHANGED <<sealedWith, process, environment>>
    BY <1>7 DEF Home!LoseKey
  <2>2. \A q \in Starters : ~Starting(q)
    BY <1>7, Shapes DEF Home!LoseKey, Home!At
  <2>3. \A q \in Starters : Serving(q) => process[q].key \in sealedWith
    BY <2>1 DEF OneHome
  <2>4. losses' > 0
    BY <2>1 DEF HomeShape
  <2>5. \A q \in Starters : Serving(q) => process[q].key = NextKey' \/ environment = NoKey
    BY <2>1 DEF OneHome, NextKey
  <2>. QED  BY <2>1, <2>2, <2>3, <2>4, <2>5 DEF OneHome, Starting, Serving
<1>8. ASSUME Home!RestoreKey
      PROVE  OneHome'
  <2>1. keyFile' \in sealedWith /\ losses > 0 /\ UNCHANGED <<sealedWith, process, environment, losses>>
    BY <1>8 DEF Home!RestoreKey
  <2>2. losses # 0
    BY <2>1
  <2>3. \A q \in Starters : Serving(q) => process[q].key \in sealedWith
    BY <2>1 DEF OneHome
  <2>4. \A q \in Starters : Serving(q) => process[q].key = NextKey' \/ environment = NoKey
    BY <2>1 DEF OneHome, NextKey
  <2>. QED  BY <2>1, <2>2, <2>3, <2>4 DEF OneHome, Starting, Serving
<1>9. ASSUME Home!ChangeEnvironment
      PROVE  OneHome'
  <2>1. \A q \in Starters : ~Starting(q) /\ ~Serving(q)
    BY <1>9, Shapes DEF Home!ChangeEnvironment, Home!At
  <2>. QED  BY <1>9, <2>1 DEF Home!ChangeEnvironment, OneHome, Starting, Serving
<1>. QED  BY <1>1, <1>2, <1>3, <1>4, <1>5, <1>6, <1>7, <1>8, <1>9 DEF Home!Next

LEMMA HomeStays ==
  ASSUME UNCHANGED homePart
  PROVE  (HomeShape => HomeShape') /\ (OneHome => OneHome')
<1>1. UNCHANGED <<keyFile, sealedWith, process, environment, losses>>
  BY DEF homePart
<1>. QED  BY <1>1 DEF HomeShape, OneHome, NextKey, Starting, Serving

LEMMA HomeInit ==
  ASSUME Init
  PROVE  HomeShape /\ OneHome
<1>1. Home!Init
  BY DEF Init
<1>2. Home!Off \in OffStates /\ Home!Off \notin StartingStates /\ Home!Off \notin ServingStates
  BY DEF Home!Off, OffStates, StartingStates, ServingStates
<1>. QED  BY <1>1, <1>2 DEF Home!Init, HomeShape, OneHome, Starting, Serving, Keys

\* While the environment is changed only between runs, a process serves with
\* the one key of its home.
LEMMA HomeKept ==
  ASSUME HomeShape, OneHome
  PROVE  Home!OneKey
<1> DEFINE all == Home!HeldKeys \union sealedWith
<1>1. \A k, l \in all : k = l
  BY Shapes DEF OneHome, Home!HeldKeys, Home!At
<1>2. all = {} \/ \E k : all = {k}
  BY <1>1
<1>3. Cardinality(all) = Home!Cardinality(all)
  BY DEF Cardinality, Home!Cardinality
<1> HIDE DEF all
<1>4. Cardinality(all) <= 1
  <2>1. CASE all = {}
    BY <2>1, FS_EmptySet
  <2>2. CASE \E k : all = {k}
    BY <2>2, FS_Singleton
  <2>. QED  BY <1>2, <2>1, <2>2
<1>. QED  BY <1>3, <1>4 DEF Home!OneKey, all

LEMMA HomeNext ==
  ASSUME [Next]_serverVars
  PROVE  Home!Next \/ UNCHANGED homePart
  BY DEF Next, serverVars

\* A home has one key (HomeHolds), when the environment is changed only while
\* nothing runs: starts at one moment end with one, none mints a second beside
\* sealed payloads, and a lost key file splits nothing (homeCipher).
THEOREM HomeIsHeld ==
  ASSUME Together
  PROVE  Spec => []HomeHolds
<1>1. Init => HomeShape /\ OneHome
  BY HomeInit
<1>2. HomeShape /\ OneHome /\ [Next]_serverVars => (HomeShape /\ OneHome)'
  BY HomeNext, HomeShapeStep, OneHomeStep, HomeStays
<1>3. HomeShape /\ OneHome => HomeHolds
  BY HomeKept DEF HomeHolds
<1>. QED  BY <1>1, <1>2, <1>3, PTL DEF Spec

-----------------------------------------------------------------------------
(* Mcp: whose a record is, and how often a caller is served.               *)

CallerNames == {agent, Operator}
Planners == CallerNames \union {NoPlanner}
Chains == Seq({agent, Operator, Unknown})
TaskRecords == [planner : Planners, chain : Chains]
RunRecords == [planner : Planners, requests : {<<>>} \union [{"step", "both"} -> Seq(Chains)]]
Buckets == [units : Nat, at : Nat]

\* The outermost name of a chain.
Names(names, client) == names # <<>> /\ names[1] = client

\* A record, and each request of a stored run, names the agent that planned it.
RecordsName ==
  /\ tasks \in Seq(TaskRecords) /\ runs \in Seq(RunRecords)
  /\ \A t \in DOMAIN tasks : tasks[t].planner = agent => Names(tasks[t].chain, agent)
  /\ \A r \in DOMAIN runs : runs[r].planner = agent =>
       \A n \in DOMAIN runs[r].requests : \A k \in DOMAIN runs[r].requests[n] :
         Names(runs[r].requests[n][k], agent)

\* The l calls at `times`, with u units left at t of a bucket of m.
Room(times, l, u, t, m) ==
  \A i \in 1..l : times[i] <= t /\ 2 * (l - i + 1) + u <= 2 * m + (t - times[i])
Rate(times, m) ==
  \A i, j \in DOMAIN times : i <= j => 2 * (j - i + 1) <= 2 * m + (times[j] - times[i])

\* What a caller has left in its bucket, and the calls it was served since any
\* one of them, fit in a full bucket and what was refilled since then.
BucketCovers(c) ==
  /\ bucket[c] = NoBucket => served[c] = <<>>
  /\ bucket[c] # NoBucket =>
       /\ bucket[c].at <= now /\ bucket[c].units <= 2 * MaxCallsPerMinute
       /\ Room(served[c], Len(served[c]), bucket[c].units, bucket[c].at, MaxCallsPerMinute)

CallsShape ==
  /\ mcpSession \in [McpSessions -> CallerNames \union {Closed}]
  /\ now \in Nat
  /\ bucket \in [CallerNames \union McpSessions -> Buckets \union {NoBucket}]
  /\ served \in [CallerNames -> Seq(Nat)]

CallsCovered ==
  /\ CallsShape
  /\ \A c \in CallerNames : BucketCovers(c)
  /\ Mcp!RateHolds

LEMMA McpConstants ==
  /\ Operator # agent /\ Closed \notin CallerNames /\ NoPlanner \notin CallerNames
  /\ NoBucket \notin Buckets /\ MaxCallsPerMinute \in Nat \ {0}
  /\ Mcp!Callers = CallerNames
  BY ServerAssumption DEF ServerAssumption, Mcp!McpAssumption, Mcp!Callers, CallerNames, Buckets

-----------------------------------------------------------------------------
(* The rate.                                                               *)

\* The arithmetic of one earlier call, at x, when the bucket is refilled and
\* when one more call is served.
LEMMA StillFits ==
  ASSUME NEW x \in Nat, NEW k \in Nat, NEW l \in Nat, NEW u \in Nat, NEW v \in Nat, NEW t \in Nat,
         NEW n \in Nat, NEW m \in Nat, x <= t, t <= n, v <= u + (n - t),
         2 * (l - k + 1) + u <= 2 * m + (t - x)
  PROVE  x <= n /\ 2 * (l - k + 1) + v <= 2 * m + (n - x)
  OBVIOUS

LEMMA OneMoreFits ==
  ASSUME NEW x \in Nat, NEW k \in Nat, NEW l \in Nat, NEW u \in Nat, NEW t \in Nat, NEW m \in Nat,
         u >= 2, 2 * (l - k + 1) + u <= 2 * m + (t - x)
  PROVE  /\ 2 * ((l + 1) - k + 1) + (u - 2) <= 2 * m + (t - x)
         /\ 2 * ((l + 1) - k + 1) <= 2 * m + (t - x)
  OBVIOUS

LEMMA RoomRefilled ==
  ASSUME NEW times \in Seq(Nat), NEW u \in Nat, NEW t \in Nat, NEW v \in Nat, NEW n \in Nat, NEW m \in Nat,
         t <= n, v <= u + (n - t), Room(times, Len(times), u, t, m)
  PROVE  Room(times, Len(times), v, n, m)
<1>1. PICK l \in Nat : l = Len(times)
  OBVIOUS
<1>2. \A i \in 1..l : times[i] \in Nat /\ i \in Nat
  BY <1>1
<1>3. \A i \in 1..l : times[i] <= t /\ 2 * (l - i + 1) + u <= 2 * m + (t - times[i])
  BY <1>1 DEF Room
<1>4. \A i \in 1..l : times[i] <= n /\ 2 * (l - i + 1) + v <= 2 * m + (n - times[i])
  BY <1>1, <1>2, <1>3, StillFits
<1>. QED  BY <1>1, <1>4 DEF Room

LEMMA RoomSpent ==
  ASSUME NEW times \in Seq(Nat), NEW u \in Nat, NEW t \in Nat, NEW m \in Nat,
         u >= 2, u <= 2 * m, Room(times, Len(times), u, t, m), Rate(times, m)
  PROVE  /\ Append(times, t) \in Seq(Nat)
         /\ Room(Append(times, t), Len(Append(times, t)), u - 2, t, m)
         /\ Rate(Append(times, t), m)
<1> DEFINE more == Append(times, t)
<1>1. PICK l \in Nat : l = Len(times)
  OBVIOUS
<1>2. /\ more \in Seq(Nat) /\ Len(more) = l + 1
      /\ DOMAIN more = 1..(l + 1) /\ DOMAIN times = 1..l
      /\ more[l + 1] = t /\ \A i \in 1..l : more[i] = times[i] /\ times[i] \in Nat /\ i \in Nat
  BY <1>1
<1>3. \A i \in 1..l : times[i] <= t /\ 2 * (l - i + 1) + u <= 2 * m + (t - times[i])
  BY <1>1 DEF Room
<1>4. \A i, j \in 1..l : i <= j => 2 * (j - i + 1) <= 2 * m + (times[j] - times[i])
  BY <1>2 DEF Rate
<1> HIDE DEF more
<1>5. \A i \in 1..l : /\ more[i] <= t
                      /\ 2 * ((l + 1) - i + 1) + (u - 2) <= 2 * m + (t - more[i])
                      /\ 2 * ((l + 1) - i + 1) <= 2 * m + (t - more[i])
  <2> TAKE i \in 1..l
  <2>1. PICK x \in Nat : x = times[i] /\ x = more[i] /\ i \in Nat
    BY <1>2
  <2>2. x <= t /\ 2 * (l - i + 1) + u <= 2 * m + (t - x)
    BY <1>3, <2>1
  <2>3. /\ 2 * ((l + 1) - i + 1) + (u - 2) <= 2 * m + (t - x)
        /\ 2 * ((l + 1) - i + 1) <= 2 * m + (t - x)
    BY <1>1, <2>1, <2>2, OneMoreFits
  <2>. QED  BY <2>1, <2>2, <2>3
<1>6. 2 * ((l + 1) - (l + 1) + 1) + (u - 2) <= 2 * m + (t - t) /\ 2 * ((l + 1) - (l + 1) + 1) <= 2 * m + (t - t)
  BY <1>1
<1>7. \A i \in 1..(l + 1) : i = l + 1 \/ i \in 1..l
  BY <1>1
<1>8. Room(more, l + 1, u - 2, t, m)
  <2> SUFFICES ASSUME NEW i \in 1..(l + 1)
               PROVE  more[i] <= t /\ 2 * ((l + 1) - i + 1) + (u - 2) <= 2 * m + (t - more[i])
    BY DEF Room
  <2>1. CASE i = l + 1
    <3>1. more[i] = t /\ t <= t
      BY <1>2, <2>1
    <3>. QED  BY <1>6, <2>1, <3>1
  <2>2. CASE i \in 1..l
    BY <1>5, <2>2
  <2>. QED  BY <1>7, <2>1, <2>2
<1>9. Rate(more, m)
  <2> SUFFICES ASSUME NEW i \in 1..(l + 1), NEW j \in 1..(l + 1), i <= j
               PROVE  2 * (j - i + 1) <= 2 * m + (more[j] - more[i])
    BY <1>2 DEF Rate
  <2>1. CASE i \in 1..l /\ j \in 1..l
    <3>1. more[i] = times[i] /\ more[j] = times[j]
      BY <1>2, <2>1
    <3>. QED  BY <1>4, <2>1, <3>1
  <2>2. CASE i \in 1..l /\ j = l + 1
    <3>1. more[j] = t
      BY <1>2, <2>2
    <3>. QED  BY <1>5, <2>2, <3>1
  <2>3. CASE i = l + 1
    <3>1. j = l + 1
      BY <1>1, <2>3
    <3>2. more[j] = t /\ more[i] = t
      BY <1>2, <2>3, <3>1
    <3>. QED  BY <1>6, <2>3, <3>1, <3>2
  <2>. QED  BY <1>7, <2>1, <2>2, <2>3
<1>. QED  BY <1>2, <1>8, <1>9 DEF more

LEMMA RefilledBucket ==
  ASSUME CallsCovered, NEW c \in CallerNames
  PROVE  \E u \in Nat : /\ Mcp!Refilled(bucket[c]) = [units |-> u, at |-> now]
                       /\ u <= 2 * MaxCallsPerMinute
                       /\ Room(served[c], Len(served[c]), u, now, MaxCallsPerMinute)
<1>1. now \in Nat /\ MaxCallsPerMinute \in Nat /\ served[c] \in Seq(Nat) /\ BucketCovers(c)
  BY McpConstants DEF CallsCovered, CallsShape
<1>2. CASE bucket[c] = NoBucket
  <2>1. Mcp!Refilled(bucket[c]) = [units |-> 2 * MaxCallsPerMinute, at |-> now]
    BY <1>2 DEF Mcp!Refilled, Mcp!Full
  <2>2. served[c] = <<>>
    BY <1>1, <1>2 DEF BucketCovers
  <2>3. Room(served[c], Len(served[c]), 2 * MaxCallsPerMinute, now, MaxCallsPerMinute)
    BY <2>2 DEF Room
  <2>. QED  BY <1>1, <2>1, <2>3
<1>3. CASE bucket[c] # NoBucket
  <2>1. bucket[c] \in Buckets
    BY <1>3 DEF CallsCovered, CallsShape
  <2>2. PICK u \in Nat, t \in Nat : bucket[c] = [units |-> u, at |-> t]
    BY <2>1 DEF Buckets
  <2>3. t <= now /\ Room(served[c], Len(served[c]), u, t, MaxCallsPerMinute)
    BY <1>1, <1>3, <2>2 DEF BucketCovers
  <2> DEFINE v == IF u + (now - t) > 2 * MaxCallsPerMinute THEN 2 * MaxCallsPerMinute ELSE u + (now - t)
  <2>4. Mcp!Refilled(bucket[c]) = [units |-> v, at |-> now]
    BY <1>3, <2>2 DEF Mcp!Refilled, Mcp!Full
  <2>5. v \in Nat /\ v <= 2 * MaxCallsPerMinute /\ v <= u + (now - t)
    BY <1>1, <2>2, <2>3
  <2> HIDE DEF v
  <2>6. Room(served[c], Len(served[c]), v, now, MaxCallsPerMinute)
    BY <1>1, <2>2, <2>3, <2>5, RoomRefilled
  <2>. QED  BY <2>4, <2>5, <2>6
<1>. QED  BY <1>2, <1>3

\* Of a step that changes one caller's bucket and calls, all that is to be
\* shown is that they still fit.
LEMMA CallerCovered ==
  ASSUME CallsCovered, NEW c \in CallerNames, NEW u \in Nat, NEW times \in Seq(Nat),
         u <= 2 * MaxCallsPerMinute,
         Room(times, Len(times), u, now, MaxCallsPerMinute), Rate(times, MaxCallsPerMinute),
         bucket' = [bucket EXCEPT ![c] = [units |-> u, at |-> now]],
         served' = [served EXCEPT ![c] = times],
         UNCHANGED <<mcpSession, now>>
  PROVE  CallsCovered'
<1>1. now \in Nat /\ [units |-> u, at |-> now] \in Buckets /\ CallsShape
  BY DEF CallsCovered, CallsShape, Buckets
<1>2. CallsShape'
  BY <1>1 DEF CallsShape
<1>3. \A d \in CallerNames : /\ bucket'[d] = IF d = c THEN [units |-> u, at |-> now] ELSE bucket[d]
                            /\ served'[d] = IF d = c THEN times ELSE served[d]
  BY <1>1 DEF CallsShape
<1>4. ASSUME NEW d \in CallerNames PROVE BucketCovers(d)' /\ Rate(served'[d], MaxCallsPerMinute)
  <2>1. CASE d # c
    BY <1>3, <2>1, McpConstants DEF CallsCovered, BucketCovers, Mcp!RateHolds, Rate
  <2>2. CASE d = c
    <3>1. bucket'[d] = [units |-> u, at |-> now] /\ served'[d] = times
      BY <1>3, <2>2
    <3>2. bucket'[d] # NoBucket
      BY <1>1, <3>1, McpConstants
    <3>. QED  BY <1>1, <3>1, <3>2 DEF BucketCovers
  <2>. QED  BY <2>1, <2>2
<1>5. Mcp!RateHolds'
  BY <1>4, McpConstants DEF Mcp!RateHolds, Rate
<1>. QED  BY <1>2, <1>4, <1>5 DEF CallsCovered

\* A call that is served, and one that is not, keep their caller covered.
LEMMA TakeCovered ==
  ASSUME CallsCovered, NEW s \in McpSessions, Mcp!Take(s) \/ Mcp!RateLimited(s)
  PROVE  CallsCovered'
<1> DEFINE c == mcpSession[s]
<1>1. c \in CallerNames
  BY DEF CallsCovered, CallsShape, Mcp!Take, Mcp!RateLimited
<1>2. PICK u \in Nat : /\ Mcp!Refilled(bucket[c]) = [units |-> u, at |-> now]
                      /\ u <= 2 * MaxCallsPerMinute
                      /\ Room(served[c], Len(served[c]), u, now, MaxCallsPerMinute)
  BY <1>1, RefilledBucket
<1>3. /\ now \in Nat /\ MaxCallsPerMinute \in Nat /\ served[c] \in Seq(Nat)
      /\ Rate(served[c], MaxCallsPerMinute) /\ served = [served EXCEPT ![c] = served[c]]
  BY <1>1, McpConstants DEF CallsCovered, CallsShape, Mcp!RateHolds, Rate
<1>4. CASE Mcp!Take(s)
  <2>1. u >= 2
    BY <1>2, <1>4 DEF Mcp!Take, Mcp!Spends, Mcp!BucketOf
  <2>2. [Mcp!Refilled(bucket[c]) EXCEPT !.units = @ - 2] = [units |-> u - 2, at |-> now]
    BY <1>2
  <2>3. /\ bucket' = [bucket EXCEPT ![c] = [units |-> u - 2, at |-> now]]
        /\ served' = [served EXCEPT ![c] = Append(served[c], now)]
        /\ UNCHANGED <<mcpSession, now>>
    BY <1>4, <2>2 DEF Mcp!Take, Mcp!BucketOf
  <2>4. /\ Append(served[c], now) \in Seq(Nat)
        /\ Room(Append(served[c], now), Len(Append(served[c], now)), u - 2, now, MaxCallsPerMinute)
        /\ Rate(Append(served[c], now), MaxCallsPerMinute)
    BY <1>2, <1>3, <2>1, RoomSpent
  <2>5. u - 2 \in Nat /\ u - 2 <= 2 * MaxCallsPerMinute
    BY <1>2, <1>3, <2>1
  <2>. QED  BY <1>1, <2>3, <2>4, <2>5, CallerCovered
<1>5. CASE Mcp!RateLimited(s)
  <2>1. bucket' = [bucket EXCEPT ![c] = [units |-> u, at |-> now]] /\ UNCHANGED <<mcpSession, served, now>>
    BY <1>2, <1>5 DEF Mcp!RateLimited, Mcp!BucketOf
  <2>2. served' = [served EXCEPT ![c] = served[c]]
    BY <1>3, <2>1
  <2>. QED  BY <1>1, <1>2, <1>3, <2>1, <2>2, CallerCovered
<1>. QED  BY <1>4, <1>5


LEMMA CallsStep ==
  ASSUME CallsCovered, Mcp!Next
  PROVE  CallsCovered'
<1>1. CASE Mcp!Tick
  <2>1. now \in Nat /\ now' = now + 1 /\ UNCHANGED <<mcpSession, bucket, served>>
    BY <1>1 DEF Mcp!Tick, CallsCovered, CallsShape
  <2>2. ASSUME NEW c \in CallerNames PROVE BucketCovers(c)'
    <3>1. BucketCovers(c) /\ (bucket[c] # NoBucket => bucket[c] \in Buckets)
      BY DEF CallsCovered, CallsShape
    <3>2. bucket[c] # NoBucket => bucket[c].at \in Nat
      BY <3>1 DEF Buckets
    <3>3. bucket[c] # NoBucket => bucket[c].at <= now + 1
      BY <2>1, <3>1, <3>2 DEF BucketCovers
    <3>. QED  BY <2>1, <3>1, <3>3 DEF BucketCovers
  <2>. QED  BY <2>1, <2>2 DEF CallsCovered, CallsShape, Mcp!RateHolds
<1>2. CASE Mcp!Restart
  <2>1. /\ mcpSession' = [s \in McpSessions |-> Closed] /\ now' = now
        /\ bucket' = [c \in CallerNames \union McpSessions |-> NoBucket]
        /\ served' = [c \in CallerNames |-> <<>>]
    BY <1>2, McpConstants DEF Mcp!Restart
  <2>2. CallsShape'
    BY <2>1 DEF CallsCovered, CallsShape
  <2>3. \A c \in CallerNames : BucketCovers(c)'
    BY <2>1 DEF BucketCovers
  <2>4. Mcp!RateHolds'
    BY <2>1, McpConstants DEF Mcp!RateHolds
  <2>. QED  BY <2>2, <2>3, <2>4 DEF CallsCovered
<1>3. CASE \E s \in McpSessions : (\E c \in CallerNames : Mcp!Open(s, c)) \/ Mcp!Close(s)
  <2>1. mcpSession' \in [McpSessions -> CallerNames \union {Closed}] /\ UNCHANGED <<bucket, served, now>>
    BY <1>3 DEF CallsCovered, CallsShape, Mcp!Open, Mcp!Close
  <2>2. \A c \in CallerNames : BucketCovers(c)'
    BY <2>1 DEF CallsCovered, BucketCovers
  <2>. QED  BY <2>1, <2>2 DEF CallsCovered, CallsShape, Mcp!RateHolds
<1>4. CASE \E s \in McpSessions : Mcp!Take(s) \/ Mcp!RateLimited(s)
  BY <1>4, TakeCovered
<1>. QED  BY <1>1, <1>2, <1>3, <1>4, McpConstants
          DEF Mcp!Next, Mcp!HarnessTool, Mcp!MelraPlan, Mcp!OnTask, Mcp!MelraReceipt, Mcp!WorkflowPlan,
              Mcp!OnRun, Mcp!WorkflowAdvance

-----------------------------------------------------------------------------
(* Whose a record is.                                                      *)

\* Adding a record that names its planner, or adding none.
LEMMA TaskAdded ==
  ASSUME RecordsName, NEW record \in TaskRecords, record.planner = agent => Names(record.chain, agent),
         tasks' = Mcp!Adds(tasks, record), UNCHANGED runs
  PROVE  RecordsName'
<1>1. tasks' = tasks \/ tasks' = Append(tasks, record)
  BY DEF Mcp!Adds
<1>2. CASE tasks' = tasks
  BY <1>2 DEF RecordsName
<1>3. CASE tasks' = Append(tasks, record)
  <2>1. tasks' \in Seq(TaskRecords) /\ DOMAIN tasks' = 1..(Len(tasks) + 1) /\ DOMAIN tasks = 1..Len(tasks)
        /\ \A t \in 1..(Len(tasks) + 1) : tasks'[t] = IF t = Len(tasks) + 1 THEN record ELSE tasks[t]
    BY <1>3 DEF RecordsName
  <2>2. \A t \in DOMAIN tasks' : tasks'[t] = record \/ (t \in DOMAIN tasks /\ tasks'[t] = tasks[t])
    BY <2>1 DEF RecordsName
  <2>. QED  BY <2>1, <2>2 DEF RecordsName
<1>. QED  BY <1>1, <1>2, <1>3

LEMMA RunAdded ==
  ASSUME RecordsName, NEW record \in RunRecords,
         record.planner = agent =>
           \A n \in DOMAIN record.requests : \A k \in DOMAIN record.requests[n] : Names(record.requests[n][k], agent),
         runs' = Mcp!Adds(runs, record), UNCHANGED tasks
  PROVE  RecordsName'
<1>1. runs' = runs \/ runs' = Append(runs, record)
  BY DEF Mcp!Adds
<1>2. CASE runs' = runs
  BY <1>2 DEF RecordsName
<1>3. CASE runs' = Append(runs, record)
  <2>1. runs' \in Seq(RunRecords) /\ DOMAIN runs' = 1..(Len(runs) + 1) /\ DOMAIN runs = 1..Len(runs)
        /\ \A t \in 1..(Len(runs) + 1) : runs'[t] = IF t = Len(runs) + 1 THEN record ELSE runs[t]
    BY <1>3 DEF RecordsName
  <2>2. \A t \in DOMAIN runs' : runs'[t] = record \/ (t \in DOMAIN runs /\ runs'[t] = runs[t])
    BY <2>1 DEF RecordsName
  <2>. QED  BY <2>1, <2>2 DEF RecordsName
<1>. QED  BY <1>1, <1>2, <1>3

\* What a caller declares, under the name it is attributed to.
LEMMA AttributedNames ==
  ASSUME NEW c \in CallerNames, NEW declared \in Chains
  PROVE  /\ Mcp!Attributed(c, declared) \in Chains
         /\ Mcp!AttributeTo(c, declared) \in Chains
         /\ Names(Mcp!AttributeTo(c, declared), c)
         /\ c = agent => Names(Mcp!Attributed(c, declared), agent)
<1>1. <<c>> \in Chains /\ Len(<<c>>) = 1 /\ <<c>>[1] = c
  BY DEF Chains, CallerNames
<1>2. <<c>> \o declared \in Chains
  BY <1>1 DEF Chains
<1>3. (<<c>> \o declared)[1] = c /\ <<c>> \o declared # <<>>
  BY <1>1 DEF Chains
<1>. QED  BY <1>2, <1>3, McpConstants DEF Mcp!Attributed, Mcp!AttributeTo, Names

LEMMA RecordsStep ==
  ASSUME CallsShape, RecordsName, Mcp!Next
  PROVE  RecordsName'
<1>1. CASE UNCHANGED <<tasks, runs>>
  BY <1>1 DEF RecordsName
<1>2. ASSUME NEW s \in McpSessions, Mcp!Take(s)
      PROVE  mcpSession[s] \in CallerNames
  BY <1>2 DEF CallsShape, Mcp!Take
<1>3. ASSUME NEW s \in McpSessions, NEW d \in {<<Unknown>>, <<agent, Unknown>>}, Mcp!MelraPlan(s, d)
      PROVE  RecordsName'
  <2>a. d \in Chains
    <3>1. <<Unknown>> \in Chains /\ <<agent, Unknown>> \in Chains
      BY DEF Chains
    <3>. QED  BY <3>1
  <2>1. mcpSession[s] \in CallerNames /\ d \in Chains
    BY <1>2, <1>3, <2>a DEF Mcp!MelraPlan
  <2>2. [planner |-> mcpSession[s], chain |-> Mcp!Attributed(mcpSession[s], d)] \in TaskRecords
    BY <2>1, AttributedNames DEF TaskRecords, Planners
  <2>. QED  BY <1>1, <1>3, <2>1, <2>2, AttributedNames, TaskAdded DEF Mcp!MelraPlan, Mcp!Refuses
<1>4. ASSUME NEW s \in McpSessions, Mcp!HarnessTool(s)
      PROVE  RecordsName'
  <2>1. mcpSession[s] \in CallerNames /\ <<>> \in Chains
    BY <1>2, <1>4 DEF Mcp!HarnessTool, Chains
  <2>2. [planner |-> mcpSession[s], chain |-> Mcp!Attributed(mcpSession[s], <<>>)] \in TaskRecords
    BY <2>1, AttributedNames DEF TaskRecords, Planners
  <2>. QED  BY <1>4, <2>1, <2>2, AttributedNames, TaskAdded DEF Mcp!HarnessTool
<1>5. ASSUME NEW s \in McpSessions,
             NEW d \in {[n \in {"step", "both"} |->
                           [kind |-> IF n = "step" THEN "operation" ELSE "parallel", requests |-> << <<Unknown>> >>]]},
             Mcp!WorkflowPlan(s, d)
      PROVE  RecordsName'
  <2>1. mcpSession[s] \in CallerNames
    BY <1>2, <1>5 DEF Mcp!WorkflowPlan
  <2> DEFINE c == mcpSession[s]
             asked == IF c = Operator THEN [n \in DOMAIN d |-> d[n].requests] ELSE Mcp!AttributeRequests(d, c)
  <2>2. DOMAIN d = {"step", "both"} /\ \A n \in {"step", "both"} : d[n].requests = << <<Unknown>> >>
    OBVIOUS
  <2>3. <<Unknown>> \in Chains /\ << <<Unknown>> >> \in Seq(Chains)
    BY DEF Chains
  <2>4. CASE c = Operator
    <3>1. asked = [n \in {"step", "both"} |-> << <<Unknown>> >>]
      BY <2>2, <2>4
    <3>2. [planner |-> c, requests |-> asked] \in RunRecords
      BY <2>1, <2>3, <3>1 DEF RunRecords, Planners
    <3>3. c # agent
      BY <2>4, McpConstants
    <3> HIDE DEF asked
    <3>4. UNCHANGED <<tasks, runs>> \/ (runs' = Mcp!Adds(runs, [planner |-> c, requests |-> asked]) /\ UNCHANGED tasks)
      BY <1>5 DEF Mcp!WorkflowPlan, Mcp!Refuses, asked
    <3>. QED  BY <1>1, <3>2, <3>3, <3>4, RunAdded
  <2>5. CASE c # Operator
    <3> DEFINE names == Mcp!AttributeTo(c, <<Unknown>>)
    <3>1. names \in Chains /\ Names(names, c)
      BY <2>1, <2>3, AttributedNames
    <3> HIDE DEF names
    <3>2. << names >> \in Seq(Chains) /\ DOMAIN << names >> = 1..1 /\ << names >>[1] = names
      BY <3>1
    <3>3. \A n \in {"step", "both"} :
            [k \in DOMAIN d[n].requests |-> Mcp!AttributeTo(c, d[n].requests[k])] = << names >>
      BY <2>2 DEF names
    <3>4. asked = [n \in {"step", "both"} |-> << names >>]
      BY <2>2, <2>5, <3>3 DEF Mcp!AttributeRequests
    <3>5. [planner |-> c, requests |-> asked] \in RunRecords
      BY <2>1, <3>2, <3>4 DEF RunRecords, Planners
    <3>6. \A n \in DOMAIN asked : \A k \in DOMAIN asked[n] : Names(asked[n][k], c)
      BY <3>1, <3>2, <3>4
    <3>7. UNCHANGED <<tasks, runs>> \/ (runs' = Mcp!Adds(runs, [planner |-> c, requests |-> asked]) /\ UNCHANGED tasks)
      BY <1>5 DEF Mcp!WorkflowPlan, Mcp!Refuses
    <3> HIDE DEF asked
    <3>. QED  BY <1>1, <3>5, <3>6, <3>7, RunAdded
  <2>. QED  BY <2>4, <2>5
<1>6. ASSUME NEW s \in McpSessions, NEW r \in DOMAIN runs, Mcp!WorkflowAdvance(s, r)
      PROVE  RecordsName'
  <2>1. CASE UNCHANGED <<tasks, runs>>
    BY <1>1, <2>1
  <2>2. CASE ~UNCHANGED <<tasks, runs>>
    <3>1. PICK n \in DOMAIN runs[r].requests : \E k \in DOMAIN runs[r].requests[n] :
            /\ tasks' = Mcp!Adds(tasks, [planner |-> runs[r].planner, chain |-> runs[r].requests[n][k]])
            /\ UNCHANGED runs
      BY <1>6, <2>2 DEF Mcp!WorkflowAdvance, Mcp!Refuses
    <3>2. PICK k \in DOMAIN runs[r].requests[n] :
            /\ tasks' = Mcp!Adds(tasks, [planner |-> runs[r].planner, chain |-> runs[r].requests[n][k]])
            /\ UNCHANGED runs
      BY <3>1
    <3>3. runs[r] \in RunRecords
      BY DEF RecordsName
    <3>4. runs[r].requests[n] \in Seq(Chains) /\ runs[r].planner \in Planners
      BY <3>1, <3>3 DEF RunRecords
    <3>5. runs[r].requests[n][k] \in Chains
      BY <3>2, <3>4
    <3>6. [planner |-> runs[r].planner, chain |-> runs[r].requests[n][k]] \in TaskRecords
      BY <3>4, <3>5 DEF TaskRecords
    <3>7. runs[r].planner = agent => Names(runs[r].requests[n][k], agent)
      BY <3>1, <3>2 DEF RecordsName
    <3>. QED  BY <3>2, <3>6, <3>7, TaskAdded
  <2>. QED  BY <2>1, <2>2
<1>. QED  BY <1>1, <1>3, <1>4, <1>5, <1>6
          DEF Mcp!Next, Mcp!Tick, Mcp!Restart, Mcp!Open, Mcp!Close, Mcp!RateLimited, Mcp!OnTask, Mcp!Refuses,
              Mcp!MelraReceipt, Mcp!OnRun

\* Whoever is let act is the planner's own, or holds the machine's key.
LEMMA ActsStep ==
  ASSUME Mcp!Next
  PROVE  Mcp!ActsOnItsOwn'
<1>1. ASSUME NEW c, NEW planner, c = planner \/ Mcp!Mine(c, planner), Mcp!Acts(c, planner)
      PROVE  Mcp!ActsOnItsOwn'
  BY <1>1, McpConstants DEF Mcp!Mine, Mcp!Acts, Mcp!ActsOnItsOwn
<1>2. CASE Mcp!Idle
  BY <1>2 DEF Mcp!Idle, Mcp!ActsOnItsOwn
<1>. QED  BY <1>1, <1>2
          DEF Mcp!Next, Mcp!Tick, Mcp!Restart, Mcp!Open, Mcp!Close, Mcp!RateLimited, Mcp!HarnessTool, Mcp!MelraPlan,
              Mcp!OnTask, Mcp!MelraReceipt, Mcp!OwnerOf, Mcp!Answered, Mcp!WorkflowPlan, Mcp!OnRun,
              Mcp!WorkflowAdvance, Mcp!Refuses

\* What is said of MCP callers, with what makes it inductive.
McpHeld == CallsCovered /\ RecordsName /\ Mcp!ActsOnItsOwn

LEMMA McpHeldInit ==
  ASSUME Init
  PROVE  McpHeld
<1>1. Mcp!Init
  BY DEF Init
<1>2. CallsCovered
  <2>1. CallsShape
    BY <1>1, McpConstants DEF Mcp!Init, CallsShape
  <2>2. \A c \in CallerNames : bucket[c] = NoBucket /\ served[c] = <<>>
    BY <1>1, McpConstants DEF Mcp!Init
  <2>. QED  BY <2>1, <2>2, McpConstants DEF CallsCovered, BucketCovers, Mcp!RateHolds
<1>3. RecordsName
  <2>1. [planner |-> NoPlanner, chain |-> <<>>] \in TaskRecords /\ [planner |-> NoPlanner, requests |-> <<>>] \in RunRecords
    BY DEF TaskRecords, RunRecords, Planners, Chains
  <2>2. tasks \in Seq(TaskRecords) /\ runs \in Seq(RunRecords)
    BY <1>1, <2>1 DEF Mcp!Init
  <2>3. /\ \A t \in DOMAIN tasks : tasks[t].planner = NoPlanner
        /\ \A r \in DOMAIN runs : runs[r].planner = NoPlanner
    BY <1>1 DEF Mcp!Init
  <2>4. agent # NoPlanner
    BY McpConstants DEF CallerNames
  <2>. QED  BY <2>2, <2>3, <2>4 DEF RecordsName
<1>4. Mcp!ActsOnItsOwn
  BY <1>1 DEF Mcp!Init, Mcp!ActsOnItsOwn
<1>. QED  BY <1>2, <1>3, <1>4 DEF McpHeld

LEMMA McpHeldNext ==
  ASSUME McpHeld, [Next]_serverVars
  PROVE  McpHeld'
<1>1. Mcp!Next \/ UNCHANGED mcpPart
  BY DEF Next, serverVars
<1>2. CASE Mcp!Next
  BY <1>2, CallsStep, RecordsStep, ActsStep DEF McpHeld, CallsCovered
<1>3. CASE UNCHANGED mcpPart
  BY <1>3 DEF mcpPart, McpHeld, CallsCovered, CallsShape, BucketCovers, RecordsName, Mcp!RateHolds, Mcp!ActsOnItsOwn
<1>. QED  BY <1>1, <1>2, <1>3

LEMMA McpHeldShows ==
  ASSUME McpHeld
  PROVE  Mcp!ActsOnItsOwn /\ Mcp!NamesItsCaller /\ Mcp!RateHolds
<1>1. Mcp!NamesItsCaller
  BY DEF McpHeld, RecordsName, Names, Mcp!NamesItsCaller
<1>. QED  BY <1>1 DEF McpHeld, CallsCovered

\* An agent acts on and reads only what it planned itself, every task it
\* planned names it outermost, and it is served no faster than its bucket
\* allows, over any number of sessions and restarts.
THEOREM CallersActAsThemselves == Spec => [](Mcp!ActsOnItsOwn /\ Mcp!NamesItsCaller /\ Mcp!RateHolds)
<1>1. Init => McpHeld
  BY McpHeldInit
<1>2. McpHeld /\ [Next]_serverVars => McpHeld'
  BY McpHeldNext
<1>3. McpHeld => Mcp!ActsOnItsOwn /\ Mcp!NamesItsCaller /\ Mcp!RateHolds
  BY McpHeldShows
<1>. QED  BY <1>1, <1>2, <1>3, PTL DEF Spec

-----------------------------------------------------------------------------
(* Http: the sessions in use, and the pages that decide.                   *)

Entries == [id : Nat, client : HttpCallers, busy : Nat]
Requests == [n : Nat, session : Nat, held : BOOLEAN, ends : SUBSET Http!Ends]
Held(some, i) == {r \in some : r.session = i /\ r.held}

\* Sessions have ids of their own, and each counts the requests that hold it.
SessionsCount ==
  /\ opened \in Nat /\ sessions \in Seq(Entries)
  /\ IsFiniteSet(requests) /\ requests \in SUBSET Requests
  /\ \A r \in requests : r.session <= opened /\ (r.held <=> r.ends = Http!Ends)
  /\ \A k \in DOMAIN sessions : /\ sessions[k].id <= opened
                               /\ sessions[k].busy = Cardinality(Held(requests, sessions[k].id))
  /\ \A k, l \in DOMAIN sessions : sessions[k].id = sessions[l].id => k = l
  /\ \A e \in crowded : e.served = 0

\* What a page was let in to decide, or decided, it was as the one page paired.
OnePage ==
  /\ session \in Pages \union {Unpaired, Left}
  /\ session = Unpaired => deciding = {} /\ deciders = {}
  /\ session \in Pages => deciding \union deciders \subseteq {session}
  /\ session = Left => \E page : deciding \union deciders \subseteq {page}
  /\ server.console => opened = 0
  /\ session # Unpaired => server.console

LEMMA HttpCounts ==
  ASSUME NEW S
  PROVE  Http!Cardinality(S) = Cardinality(S)
  BY DEF Http!Cardinality, Cardinality

LEMMA HttpConstants ==
  /\ MaxSessions \in Nat \ {0} /\ MaxRequests \in Nat
  /\ Operator \in HttpCallers /\ Unpaired \notin Pages /\ Left \notin Pages /\ Unpaired # Left
  BY ServerAssumption DEF ServerAssumption, Http!HttpAssumption

LEMMA HeldInfo ==
  ASSUME IsFiniteSet(requests), NEW i
  PROVE  IsFiniteSet(Held(requests, i)) /\ Cardinality(Held(requests, i)) \in Nat /\ Http!Busy(i) = Cardinality(Held(requests, i))
<1>1. Held(requests, i) \in SUBSET requests
  BY DEF Held
<1>2. IsFiniteSet(Held(requests, i))
  BY <1>1, FS_Subset
<1>3. Http!Busy(i) = Cardinality(Held(requests, i))
  BY HttpCounts DEF Http!Busy, Held
<1>. QED  BY <1>2, <1>3, FS_CardinalityType

\* There is a number no request under way has.
LEMMA NextRequestIsFree ==
  ASSUME SessionsCount, Http!Cardinality(requests) < MaxRequests, NEW i \in Nat
  PROVE  Http!Request(i) \in Requests /\ Http!Request(i) \notin requests
<1> DEFINE used == {r.n : r \in requests}
           f == [r \in requests |-> r.n]
<1>1. IsFiniteSet(requests) /\ Cardinality(requests) < MaxRequests /\ MaxRequests \in Nat
  BY HttpCounts, HttpConstants DEF SessionsCount
<1>2. IsFiniteSet(used) /\ Cardinality(used) <= Cardinality(requests)
  <2>1. f \in Surjection(requests, used)
    BY DEF Surjection
  <2>. QED  BY <1>1, <2>1, FS_Surjection
<1>3. IsFiniteSet(1..MaxRequests) /\ Cardinality(1..MaxRequests) = MaxRequests
  BY <1>1, FS_Interval
<1>4. Cardinality(used) \in Nat /\ Cardinality(requests) \in Nat
  BY <1>1, <1>2, FS_CardinalityType
<1>5. \E n \in 1..MaxRequests : n \notin used
  <2> SUFFICES ASSUME (1..MaxRequests) \subseteq used PROVE FALSE
    OBVIOUS
  <2>1. Cardinality(1..MaxRequests) <= Cardinality(used)
    BY <1>2, FS_Subset
  <2>. QED  BY <1>1, <1>2, <1>3, <1>4, <2>1
<1>6. Http!NextRequest = CHOOSE n \in 1..MaxRequests : n \notin used
  BY DEF Http!NextRequest
<1> HIDE DEF used
<1>7. Http!NextRequest \in 1..MaxRequests /\ Http!NextRequest \notin used
  BY <1>5, <1>6
<1>8. Http!Request(i) = [n |-> Http!NextRequest, session |-> i, held |-> TRUE, ends |-> Http!Ends]
  BY DEF Http!Request
<1>9. Http!NextRequest \in Nat
  BY <1>1, <1>7
<1>10. Http!Request(i).n \notin used
  BY <1>7, <1>8
<1>. QED  BY <1>8, <1>9, <1>10 DEF Requests, used

\* A request that begins holds its session; one that ends or is given up holds
\* it no more.
LEMMA HeldBegins ==
  ASSUME IsFiniteSet(requests), NEW i, NEW x, x \notin requests, x.session = i, x.held = TRUE,
         requests' = requests \union {x}
  PROVE  /\ IsFiniteSet(requests')
         /\ \A j : Cardinality(Held(requests', j))
                   = IF j = i THEN Cardinality(Held(requests, j)) + 1 ELSE Cardinality(Held(requests, j))
<1>1. IsFiniteSet(requests')
  BY FS_AddElement
<1>2. ASSUME NEW j
      PROVE  Cardinality(Held(requests', j))
                = IF j = i THEN Cardinality(Held(requests, j)) + 1 ELSE Cardinality(Held(requests, j))
  <2>1. IsFiniteSet(Held(requests, j)) /\ x \notin Held(requests, j)
    BY HeldInfo DEF Held
  <2>2. Held(requests', j) = IF j = i THEN Held(requests, j) \union {x} ELSE Held(requests, j)
    BY DEF Held
  <2>. QED  BY <2>1, <2>2, FS_AddElement
<1>. QED  BY <1>1, <1>2

LEMMA HeldEnds ==
  ASSUME IsFiniteSet(requests), NEW r \in requests, NEW rest, IsFiniteSet(rest), \A x \in rest : x.held = FALSE,
         r.held \in BOOLEAN, requests' = (requests \ {r}) \union rest
  PROVE  /\ IsFiniteSet(requests')
         /\ \A j : Cardinality(Held(requests', j)) =
                IF r.held /\ j = r.session THEN Cardinality(Held(requests, j)) - 1 ELSE Cardinality(Held(requests, j))
<1>1. IsFiniteSet(requests')
  BY FS_RemoveElement, FS_Union
<1>2. ASSUME NEW j
      PROVE  Cardinality(Held(requests', j)) =
               IF r.held /\ j = r.session THEN Cardinality(Held(requests, j)) - 1 ELSE Cardinality(Held(requests, j))
  <2>1. IsFiniteSet(Held(requests, j))
    BY HeldInfo
  <2>2. Held(requests', j) = Held(requests, j) \ {r}
    BY DEF Held
  <2>3. r \in Held(requests, j) <=> r.held /\ j = r.session
    BY DEF Held
  <2>. QED  BY <2>1, <2>2, <2>3, FS_RemoveElement
<1>. QED  BY <1>1, <1>2

Apart(entries) == \A k, l \in DOMAIN entries : entries[k].id = entries[l].id => k = l

LEMMA LessOne ==
  ASSUME NEW S, NEW s \in Seq(S), NEW p \in 1..Len(s)
  PROVE  SubSeq(s, 1, p - 1) \o SubSeq(s, p + 1, Len(s))
           = [k \in 1..(Len(s) - 1) |-> IF k < p THEN s[k] ELSE s[k + 1]]
<1> DEFINE a == SubSeq(s, 1, p - 1)
           b == SubSeq(s, p + 1, Len(s))
<1>1. Len(s) \in Nat /\ p \in Nat /\ 1 <= p /\ p <= Len(s)
  OBVIOUS
<1>2. /\ a \in Seq(S) /\ Len(a) = p - 1
      /\ \A k \in 1..(p - 1) : a[k] = s[k]
  BY <1>1
<1>3. /\ b \in Seq(S) /\ Len(b) = Len(s) - p
      /\ \A k \in 1..(Len(s) - p) : b[k] = s[p + k]
  BY <1>1
<1> HIDE DEF a, b
<1>4. a \o b \in Seq(S) /\ Len(a \o b) = Len(s) - 1 /\ DOMAIN (a \o b) = 1..(Len(s) - 1)
  <2>1. a \o b \in Seq(S) /\ Len(a \o b) = Len(a) + Len(b)
    BY <1>2, <1>3, ConcatProperties
  <2>2. Len(a) + Len(b) = Len(s) - 1
    BY <1>1, <1>2, <1>3
  <2>. QED  BY <2>1, <2>2
<1>5. ASSUME NEW k \in 1..(Len(s) - 1)
      PROVE  (a \o b)[k] = IF k < p THEN s[k] ELSE s[k + 1]
  <2>1. CASE k < p
    <3>1. k \in 1..Len(a) /\ k \in 1..(p - 1)
      BY <1>1, <1>2, <2>1
    <3>2. (a \o b)[k] = a[k]
      BY <1>2, <1>3, <3>1, ConcatProperties
    <3>. QED  BY <1>2, <2>1, <3>1, <3>2
  <2>2. CASE ~(k < p)
    <3>1. k - Len(a) \in 1..(Len(s) - p) /\ k - Len(a) = k - (p - 1) /\ p + (k - (p - 1)) = k + 1 /\ k > Len(a)
          /\ k \in 1..(Len(a) + Len(b))
      BY <1>1, <1>2, <1>3, <2>2
    <3>2. (a \o b)[k] = b[k - Len(a)]
      <4>1. \A i \in 1..(Len(a) + Len(b)) : (a \o b)[i] = IF i <= Len(a) THEN a[i] ELSE b[i - Len(a)]
        BY <1>2, <1>3, ConcatProperties
      <4>2. ~(k <= Len(a))
        BY <1>1, <1>2, <3>1
      <4>. QED  BY <3>1, <4>1, <4>2
    <3>. QED  BY <1>3, <2>2, <3>1, <3>2
  <2>. QED  BY <2>1, <2>2
<1>6. a \o b = [k \in 1..(Len(s) - 1) |-> IF k < p THEN s[k] ELSE s[k + 1]]
  <2> DEFINE c == a \o b
  <2>1. c \in Seq(S)
    BY <1>4
  <2> HIDE DEF c
  <2>2. c = [k \in DOMAIN c |-> c[k]]
    BY <2>1
  <2>. QED  BY <1>4, <1>5, <2>2 DEF c
<1>. QED  BY <1>6 DEF a, b

\* The sessions less one of them.
LEMMA TheRest ==
  ASSUME SessionsCount, NEW i, Http!IsOpen(i)
  PROVE  /\ Http!Entry(i) \in Entries /\ Http!Entry(i).id = i /\ Http!Entry(i).id <= opened
         /\ Http!Entry(i).busy = Cardinality(Held(requests, i))
         /\ Http!Rest(i) \in Seq(Entries) /\ Len(Http!Rest(i)) = Len(sessions) - 1 /\ Len(sessions) - 1 \in Nat
         /\ \A k \in 1..(Len(sessions) - 1) : \E j \in DOMAIN sessions :
              Http!Rest(i)[k] = sessions[j] /\ sessions[j].id # i
         /\ Apart(Http!Rest(i))
<1> DEFINE p == Http!Position(i)
           n == Len(sessions)
<1>1. n \in Nat /\ DOMAIN sessions = 1..n /\ \A k \in 1..n : sessions[k] \in Entries
  BY DEF SessionsCount
<1>2. p \in 1..n /\ sessions[p].id = i
  <2>1. \E k \in DOMAIN sessions : sessions[k].id = i
    BY DEF Http!IsOpen
  <2>. QED  BY <1>1, <2>1 DEF Http!Position
<1>3. Http!Entry(i) = sessions[p] /\ Http!Rest(i) = [k \in 1..(n - 1) |-> IF k < p THEN sessions[k] ELSE sessions[k + 1]]
  <2>1. Http!Rest(i) = Http!RemoveAt(sessions, p)
    BY DEF Http!Rest
  <2>2. Http!RemoveAt(sessions, p) = SubSeq(sessions, 1, p - 1) \o SubSeq(sessions, p + 1, n)
    BY DEF Http!RemoveAt
  <2>3. sessions \in Seq(Entries)
    BY DEF SessionsCount
  <2>4. Http!Entry(i) = sessions[p]
    BY DEF Http!Entry
  <2> HIDE DEF p
  <2>. QED  BY <1>2, <2>1, <2>2, <2>3, <2>4, LessOne
<1> HIDE DEF p, n
<1> DEFINE q(k) == IF k < p THEN k ELSE k + 1
<1>4. n - 1 \in Nat /\ \A k \in 1..(n - 1) : q(k) \in 1..n /\ q(k) # p /\ Http!Rest(i)[k] = sessions[q(k)]
  BY <1>1, <1>2, <1>3
<1>5. \A k, l \in 1..(n - 1) : q(k) = q(l) => k = l
  BY <1>1, <1>2
<1> HIDE DEF q
<1>6. \A k \in 1..(n - 1) : sessions[q(k)].id # i
  BY <1>1, <1>2, <1>4 DEF SessionsCount
<1>7. Http!Rest(i) \in Seq(Entries) /\ Len(Http!Rest(i)) = n - 1
  <2>1. \A k \in 1..(n - 1) : Http!Rest(i)[k] \in Entries
    BY <1>1, <1>4
  <2>2. Http!Rest(i) \in [1..(n - 1) -> Entries]
    BY <1>3, <2>1
  <2>. QED  BY <1>4, <2>2
<1>8. Apart(Http!Rest(i))
  <2>1. DOMAIN Http!Rest(i) = 1..(n - 1)
    BY <1>3
  <2>2. ASSUME NEW k \in 1..(n - 1), NEW l \in 1..(n - 1), Http!Rest(i)[k].id = Http!Rest(i)[l].id
        PROVE  k = l
    <3>1. sessions[q(k)].id = sessions[q(l)].id /\ q(k) \in DOMAIN sessions /\ q(l) \in DOMAIN sessions
      BY <1>1, <1>4, <2>2
    <3>2. q(k) = q(l)
      BY <3>1 DEF SessionsCount
    <3>. QED  BY <1>5, <3>2
  <2>. QED  BY <2>1, <2>2 DEF Apart
<1>9. \A k \in 1..(n - 1) : \E j \in DOMAIN sessions : Http!Rest(i)[k] = sessions[j] /\ sessions[j].id # i
  BY <1>1, <1>4, <1>6
<1>10. /\ Http!Entry(i) \in Entries
       /\ Http!Entry(i).id = i
       /\ Http!Entry(i).id <= opened
       /\ Http!Entry(i).busy = Cardinality(Held(requests, i))
  BY <1>1, <1>2, <1>3 DEF SessionsCount
<1>. QED  BY <1>4, <1>7, <1>8, <1>9, <1>10 DEF n

LEMMA EndSessionCounts ==
  ASSUME SessionsCount, NEW r, Http!EndSession(r)
  PROVE  SessionsCount'
<1> DEFINE i == r.session
<1>1. Http!IsOpen(i) /\ sessions' = Http!Rest(i) /\ requests' = requests /\ opened' = opened /\ crowded' = crowded
  BY DEF Http!EndSession
<1> HIDE DEF i
<1>2. /\ Http!Rest(i) \in Seq(Entries) /\ Len(Http!Rest(i)) = Len(sessions) - 1 /\ Len(sessions) - 1 \in Nat
      /\ \A k \in 1..(Len(sessions) - 1) : \E j \in DOMAIN sessions :
              Http!Rest(i)[k] = sessions[j] /\ sessions[j].id # i
      /\ Apart(Http!Rest(i))
  BY <1>1, TheRest
<1>3. DOMAIN sessions' = 1..(Len(sessions) - 1)
  BY <1>1, <1>2
<1>4. \A j : Held(requests', j) = Held(requests, j)
  BY <1>1 DEF Held
<1>5. ASSUME NEW k \in DOMAIN sessions'
      PROVE  sessions'[k].id <= opened' /\ sessions'[k].busy = Cardinality(Held(requests', sessions'[k].id))
  <2>1. PICK j \in DOMAIN sessions : sessions'[k] = sessions[j]
    BY <1>1, <1>2, <1>3, <1>5
  <2>2. sessions[j].id <= opened /\ sessions[j].busy = Cardinality(Held(requests, sessions[j].id))
    BY DEF SessionsCount
  <2>. QED  BY <1>1, <1>4, <2>1, <2>2
<1>6. Apart(sessions)'
  BY <1>1, <1>2 DEF Apart
<1>. QED  BY <1>1, <1>2, <1>5, <1>6 DEF SessionsCount, Apart

LEMMA UseCounts ==
  ASSUME SessionsCount, NEW caller, NEW i \in Nat, Http!Use(caller, i)
  PROVE  SessionsCount'
<1> DEFINE x == Http!Request(i)
           e == Http!Hold(Http!Entry(i))
           n == Len(sessions) - 1
<1>1. /\ Http!IsOpen(i) /\ Http!Cardinality(requests) < MaxRequests
      /\ sessions' = Append(Http!Rest(i), e)
      /\ requests' = requests \union {x} /\ opened' = opened /\ crowded' = crowded
  BY DEF Http!Use
<1>2. /\ Http!Entry(i) \in Entries /\ Http!Entry(i).id = i /\ Http!Entry(i).id <= opened
      /\ Http!Entry(i).busy = Cardinality(Held(requests, i))
      /\ Http!Rest(i) \in Seq(Entries) /\ Len(Http!Rest(i)) = n /\ n \in Nat
      /\ \A k \in 1..n : \E j \in DOMAIN sessions :
              Http!Rest(i)[k] = sessions[j] /\ sessions[j].id # i
      /\ Apart(Http!Rest(i))
  BY <1>1, TheRest
<1>3. x \in Requests /\ x \notin requests
  BY <1>1, NextRequestIsFree
<1>4. x.session = i /\ x.held = TRUE /\ x.ends = Http!Ends
  BY DEF Http!Request
<1>5. e \in Entries /\ e.id = i /\ e.busy = Cardinality(Held(requests, i)) + 1
  BY <1>2 DEF Http!Hold, Entries
<1> HIDE DEF x, e, n
<1>6. /\ IsFiniteSet(requests')
      /\ \A j : Cardinality(Held(requests', j))
                = IF j = i THEN Cardinality(Held(requests, j)) + 1 ELSE Cardinality(Held(requests, j))
  <2>1. IsFiniteSet(requests)
    BY DEF SessionsCount
  <2>. QED  BY <1>1, <1>3, <1>4, <2>1, HeldBegins
<1>7. /\ sessions' \in Seq(Entries) /\ DOMAIN sessions' = 1..(n + 1) /\ sessions'[n + 1] = e
      /\ \A k \in 1..n : sessions'[k] = Http!Rest(i)[k]
  BY <1>1, <1>2, <1>5
<1>8. ASSUME NEW k \in DOMAIN sessions'
      PROVE  sessions'[k].id <= opened' /\ sessions'[k].busy = Cardinality(Held(requests', sessions'[k].id))
  <2>1. CASE k = n + 1
    BY <1>1, <1>2, <1>5, <1>6, <1>7, <2>1
  <2>2. CASE k \in 1..n
    <3>1. PICK j \in DOMAIN sessions : sessions'[k] = sessions[j] /\ sessions[j].id # i
      BY <1>2, <1>7, <2>2
    <3>2. sessions[j].id <= opened /\ sessions[j].busy = Cardinality(Held(requests, sessions[j].id))
      BY DEF SessionsCount
    <3>. QED  BY <1>1, <1>6, <3>1, <3>2
  <2>. QED  BY <1>2, <1>7, <1>8, <2>1, <2>2
<1>9. Apart(sessions)'
  <2>1. \A k \in 1..n : sessions'[k].id # i
    BY <1>2, <1>7
  <2>2. sessions'[n + 1].id = i
    BY <1>5, <1>7
  <2>3. \A k, l \in 1..n : sessions'[k].id = sessions'[l].id => k = l
    BY <1>2, <1>7 DEF Apart
  <2>4. \A k \in DOMAIN sessions' : k \in 1..n \/ k = n + 1
    BY <1>2, <1>7
  <2>. QED  BY <2>1, <2>2, <2>3, <2>4 DEF Apart
<1>10. requests' \in SUBSET Requests /\ \A r \in requests' : r.session <= opened' /\ (r.held <=> r.ends = Http!Ends)
  BY <1>1, <1>2, <1>3, <1>4 DEF SessionsCount
<1>. QED  BY <1>1, <1>6, <1>7, <1>8, <1>9, <1>10 DEF SessionsCount, Apart

LEMMA CountsThen ==
  ASSUME opened' \in Nat, sessions' \in Seq(Entries), IsFiniteSet(requests'), requests' \in SUBSET Requests,
         \A x \in requests' : x.session <= opened' /\ (x.held <=> x.ends = Http!Ends),
         \A k \in DOMAIN sessions' : /\ sessions'[k].id <= opened'
                                     /\ sessions'[k].busy = Cardinality(Held(requests', sessions'[k].id)),
         \A k, l \in DOMAIN sessions' : sessions'[k].id = sessions'[l].id => k = l,
         \A e \in crowded' : e.served = 0
  PROVE  SessionsCount'
  BY DEF SessionsCount

\* A request that ends lets its session go, once.
LEMMA ClosingCounts ==
  ASSUME SessionsCount, NEW r \in requests, NEW rest, rest \in SUBSET Requests, IsFiniteSet(rest),
         \A x \in rest : x.held = FALSE /\ x.session = r.session /\ x.ends # Http!Ends,
         requests' = (requests \ {r}) \union rest,
         sessions' = [k \in DOMAIN sessions |->
            IF r.held /\ sessions[k].id = r.session THEN [sessions[k] EXCEPT !.busy = @ - 1] ELSE sessions[k]],
         opened' = opened, crowded' = crowded
  PROVE  SessionsCount'
<1>1. /\ IsFiniteSet(requests) /\ requests \in SUBSET Requests /\ r.held \in BOOLEAN
      /\ opened \in Nat /\ sessions \in Seq(Entries) /\ r.session <= opened
  BY DEF SessionsCount, Requests
<1>2. /\ IsFiniteSet(requests')
      /\ \A j : Cardinality(Held(requests', j)) =
           IF r.held /\ j = r.session THEN Cardinality(Held(requests, j)) - 1 ELSE Cardinality(Held(requests, j))
  BY <1>1, HeldEnds
<1>3. r.held => IsFiniteSet(Held(requests, r.session)) /\ Held(requests, r.session) # {}
  BY <1>1, HeldInfo DEF Held
<1>4. r.held => Cardinality(Held(requests, r.session)) \in Nat \ {0}
  BY <1>3, FS_CardinalityType, FS_EmptySet
<1>5. ASSUME NEW k \in DOMAIN sessions
      PROVE  /\ sessions'[k] \in Entries /\ sessions'[k].id = sessions[k].id
             /\ sessions'[k].busy = Cardinality(Held(requests', sessions'[k].id))
  <2>1. sessions[k] \in Entries /\ sessions[k].busy = Cardinality(Held(requests, sessions[k].id))
    BY <1>1 DEF SessionsCount
  <2>2. CASE r.held /\ sessions[k].id = r.session
    <3>1. sessions'[k] = [sessions[k] EXCEPT !.busy = @ - 1]
      BY <2>2
    <3>2. sessions[k].busy - 1 \in Nat
      BY <1>4, <2>1, <2>2
    <3>3. sessions'[k].id = sessions[k].id /\ sessions'[k].busy = sessions[k].busy - 1 /\ sessions'[k] \in Entries
      BY <2>1, <3>1, <3>2 DEF Entries
    <3>. QED  BY <1>2, <2>1, <2>2, <3>3
  <2>3. CASE ~(r.held /\ sessions[k].id = r.session)
    <3>1. sessions'[k] = sessions[k]
      BY <2>3
    <3>. QED  BY <1>2, <2>1, <2>3, <3>1
  <2>. QED  BY <2>2, <2>3
<1>6. DOMAIN sessions' = DOMAIN sessions /\ sessions' \in Seq(Entries)
  <2>1. Len(sessions) \in Nat /\ DOMAIN sessions = 1..Len(sessions)
    BY <1>1
  <2>2. sessions' \in [1..Len(sessions) -> Entries]
    BY <1>5, <2>1
  <2>. QED  BY <2>1, <2>2
<1>7. requests' \in SUBSET Requests /\ \A x \in requests' : x.session <= opened /\ (x.held <=> x.ends = Http!Ends)
  BY <1>1 DEF SessionsCount
<1>8. \A k, l \in DOMAIN sessions' : sessions'[k].id = sessions'[l].id => k = l
  BY <1>5, <1>6 DEF SessionsCount
<1>9. \A k \in DOMAIN sessions' : sessions'[k].id <= opened
  BY <1>5, <1>6 DEF SessionsCount
<1>10. \A e \in crowded' : e.served = 0
  BY DEF SessionsCount
<1>11. /\ opened' \in Nat
       /\ \A x \in requests' : x.session <= opened' /\ (x.held <=> x.ends = Http!Ends)
       /\ \A k \in DOMAIN sessions' : /\ sessions'[k].id <= opened'
                                      /\ sessions'[k].busy = Cardinality(Held(requests', sessions'[k].id))
  BY <1>1, <1>5, <1>6, <1>7, <1>9
<1>. QED  BY <1>2, <1>6, <1>7, <1>8, <1>10, <1>11, CountsThen

LEMMA CloseCounts ==
  ASSUME SessionsCount, NEW r \in requests, NEW end \in Http!Ends, Http!Close(r, end)
  PROVE  SessionsCount'
<1> DEFINE rest == IF r.ends = {end} THEN {} ELSE {[r EXCEPT !.held = FALSE, !.ends = @ \ {end}]}
<1>1. r \in Requests
  BY DEF SessionsCount
<1>2. /\ end \in r.ends /\ opened' = opened /\ crowded' = crowded
      /\ requests' = (requests \ {r}) \union rest
      /\ sessions' = [k \in DOMAIN sessions |->
            IF r.held /\ sessions[k].id = r.session THEN [sessions[k] EXCEPT !.busy = @ - 1] ELSE sessions[k]]
  BY DEF Http!Close
<1>3. rest \in SUBSET Requests /\ \A x \in rest : x.held = FALSE /\ x.session = r.session /\ x.ends # Http!Ends
  <2> DEFINE x == [r EXCEPT !.held = FALSE, !.ends = @ \ {end}]
  <2>1. x \in Requests /\ x.held = FALSE /\ x.session = r.session /\ x.ends = r.ends \ {end}
    BY <1>1 DEF Requests
  <2>2. x.ends # Http!Ends
    BY <2>1
  <2> HIDE DEF x
  <2>. QED  BY <2>1, <2>2 DEF x
<1>4. IsFiniteSet(rest)
  BY FS_EmptySet, FS_Singleton
<1> HIDE DEF rest
<1>. QED  BY <1>2, <1>3, <1>4, ClosingCounts

LEMMA NeverClosesCounts ==
  ASSUME SessionsCount, NEW r \in requests, Http!NeverCloses(r)
  PROVE  SessionsCount'
<1>1. r.ends # Http!Ends
  BY DEF Http!NeverCloses, Http!Ends
<1>2. ~r.held
  BY <1>1 DEF SessionsCount
<1>3. /\ opened' = opened /\ crowded' = crowded /\ requests' = (requests \ {r}) \union {} /\ sessions' = sessions
  BY DEF Http!NeverCloses
<1>4. sessions \in Seq(Entries)
  BY DEF SessionsCount
<1>5. sessions = [k \in DOMAIN sessions |-> sessions[k]]
  BY <1>4
<1>6. sessions' = [k \in DOMAIN sessions |->
            IF r.held /\ sessions[k].id = r.session THEN [sessions[k] EXCEPT !.busy = @ - 1] ELSE sessions[k]]
  BY <1>2, <1>3, <1>5
<1>. QED  BY <1>3, <1>6, ClosingCounts, FS_EmptySet

LEMMA KeepingIsKept ==
  ASSUME NEW s, NEW K
  PROVE  Http!Keeping(s, K) = Kept(s, K)
<1>1. Http!Cardinality(K) = Cardinality(K)
  BY HttpCounts
<1> DEFINE A(k) == CHOOSE i \in K : Http!Cardinality({j \in K : j <= i}) = k
           B(k) == CHOOSE i \in K : Rank(i, K) = k
<1>2. ASSUME NEW k PROVE A(k) = B(k)
  <2>1. \A i \in K : Http!Cardinality({j \in K : j <= i}) = Rank(i, K)
    BY HttpCounts DEF Rank, UpTo
  <2>. QED  BY <2>1
<1>3. Http!Keeping(s, K) = [k \in 1..Cardinality(K) |-> s[A(k)]]
  BY <1>1 DEF Http!Keeping
<1>4. Kept(s, K) = [k \in 1..Cardinality(K) |-> s[B(k)]]
  BY DEF Kept
<1> HIDE DEF A, B
<1>. QED  BY <1>2, <1>3, <1>4

\* What stays of a sequence are elements of it, and stay apart.
LEMMA KeepingKeeps ==
  ASSUME NEW s \in Seq(Entries), NEW K, K \in SUBSET DOMAIN s
  PROVE  /\ Http!Keeping(s, K) \in Seq(Entries)
         /\ \A k \in DOMAIN Http!Keeping(s, K) : \E j \in K : Http!Keeping(s, K)[k] = s[j]
         /\ Len(Http!Keeping(s, K)) = Cardinality(K) /\ Cardinality(K) \in Nat
         /\ Apart(s) => Apart(Http!Keeping(s, K))
<1>1. Http!Keeping(s, K) = Kept(s, K)
  BY KeepingIsKept
<1>2. /\ Kept(s, K) \in Seq(Entries) /\ Len(Kept(s, K)) = Cardinality(K) /\ Cardinality(K) \in Nat
      /\ \E J \in [1..Cardinality(K) -> K] :
           /\ \A k \in 1..Cardinality(K) : Kept(s, K)[k] = s[J[k]]
           /\ \A k, l \in 1..Cardinality(K) : k # l => J[k] # J[l]
           /\ \A i \in K : \E k \in 1..Cardinality(K) : J[k] = i
  BY KeptIs
<1>3. PICK J \in [1..Cardinality(K) -> K] :
           /\ \A k \in 1..Cardinality(K) : Kept(s, K)[k] = s[J[k]]
           /\ \A k, l \in 1..Cardinality(K) : k # l => J[k] # J[l]
  BY <1>2
<1>4. DOMAIN Kept(s, K) = 1..Cardinality(K)
  BY DEF Kept
<1>5. ASSUME Apart(s) PROVE Apart(Kept(s, K))
  <2>1. ASSUME NEW k \in 1..Cardinality(K), NEW l \in 1..Cardinality(K), Kept(s, K)[k].id = Kept(s, K)[l].id
        PROVE  k = l
    <3>1. J[k] \in DOMAIN s /\ J[l] \in DOMAIN s /\ s[J[k]].id = s[J[l]].id
      BY <1>3, <2>1
    <3>2. J[k] = J[l]
      BY <1>5, <3>1 DEF Apart
    <3>. QED  BY <1>3, <3>2
  <2>. QED  BY <1>4, <2>1 DEF Apart
<1>6. ASSUME NEW k \in DOMAIN Kept(s, K) PROVE \E j \in K : Kept(s, K)[k] = s[j]
  BY <1>3, <1>4, <1>6
<1>. QED  BY <1>1, <1>2, <1>5, <1>6

LEMMA InitializeCounts ==
  ASSUME SessionsCount, NEW caller \in HttpCallers, Http!Initialize(caller)
  PROVE  SessionsCount'
<1> DEFINE new == [id |-> opened + 1, client |-> caller, busy |-> 1]
           all == Append(sessions, new)
           stay == (DOMAIN all) \ Http!Crowded(all)
           x == Http!Request(opened + 1)
<1>1. /\ Http!Cardinality(requests) < MaxRequests
      /\ sessions' = Http!Keeping(all, stay)
      /\ crowded' = crowded \union {[id |-> all[k].id, served |-> Http!Busy(all[k].id)] : k \in Http!Crowded(all)}
      /\ requests' = requests \union {x} /\ opened' = opened + 1
  BY DEF Http!Initialize
<1>2. opened \in Nat /\ opened + 1 \in Nat /\ IsFiniteSet(requests) /\ requests \in SUBSET Requests
  BY DEF SessionsCount
<1>a. new \in Entries /\ sessions \in Seq(Entries) /\ Len(sessions) \in Nat
  BY <1>2 DEF SessionsCount, Entries
<1>b. /\ all \in Seq(Entries) /\ DOMAIN all = 1..(Len(sessions) + 1)
      /\ all[Len(sessions) + 1] = new /\ \A k \in 1..Len(sessions) : all[k] = sessions[k]
  <2> HIDE DEF new
  <2>. QED  BY <1>a
<1>c. stay \in SUBSET DOMAIN all
  OBVIOUS
<1>d. new.busy = 1
  OBVIOUS
<1>3. /\ \A k \in Http!Crowded(all) : k \in 1..Len(sessions) /\ all[k].busy = 0
      /\ Http!Keeping(all, stay) \in Seq(Entries)
      /\ \A k \in DOMAIN Http!Keeping(all, stay) : \E j \in stay : Http!Keeping(all, stay)[k] = all[j]
      /\ Apart(all) => Apart(Http!Keeping(all, stay))
  <2> HIDE DEF all, new, stay
  <2>1. ASSUME NEW k \in Http!Crowded(all) PROVE k \in 1..Len(sessions) /\ all[k].busy = 0
    <3>1. k \in DOMAIN all /\ all[k].busy = 0
      BY DEF Http!Crowded
    <3>2. k # Len(sessions) + 1
      BY <1>b, <1>d, <3>1
    <3>. QED  BY <1>a, <1>b, <3>1, <3>2
  <2>. QED  BY <1>b, <1>c, <2>1, KeepingKeeps
<1>4. x \in Requests /\ x \notin requests
  BY <1>1, <1>2, NextRequestIsFree
<1>5. x.session = opened + 1 /\ x.held = TRUE /\ x.ends = Http!Ends
  BY DEF Http!Request
<1>6. new.id = opened + 1 /\ new.busy = 1
  OBVIOUS
<1>7. stay \in SUBSET (DOMAIN all)
  OBVIOUS
<1> HIDE DEF new, all, stay, x
<1>8. /\ IsFiniteSet(requests')
      /\ \A j : Cardinality(Held(requests', j))
                  = IF j = opened + 1 THEN Cardinality(Held(requests, j)) + 1 ELSE Cardinality(Held(requests, j))
  BY <1>1, <1>2, <1>4, <1>5, HeldBegins
<1>9. \A r \in requests : r.session <= opened /\ r.session \in Nat
  BY <1>2 DEF SessionsCount, Requests
<1>10. Cardinality(Held(requests, opened + 1)) = 0
  <2>1. Held(requests, opened + 1) = {}
    BY <1>2, <1>9 DEF Held
  <2>. QED  BY <2>1, FS_EmptySet
<1>11. \A k \in 1..Len(sessions) : /\ sessions[k].id <= opened /\ sessions[k].id \in Nat
                                   /\ sessions[k].busy = Cardinality(Held(requests, sessions[k].id))
  <2>1. sessions \in Seq(Entries) /\ DOMAIN sessions = 1..Len(sessions)
    BY DEF SessionsCount
  <2>2. \A k \in 1..Len(sessions) : sessions[k] \in Entries
    BY <2>1
  <2>. QED  BY <2>1, <2>2 DEF SessionsCount, Entries
<1>12. ASSUME NEW j \in DOMAIN all
       PROVE  all[j].id <= opened + 1 /\ all[j].busy = Cardinality(Held(requests', all[j].id))
  <2>1. CASE j = Len(sessions) + 1
    BY <1>2, <1>b, <1>6, <1>8, <1>10, <2>1
  <2>2. CASE j \in 1..Len(sessions)
    <3>1. all[j] = sessions[j] /\ sessions[j].id <= opened /\ sessions[j].id \in Nat
          /\ sessions[j].busy = Cardinality(Held(requests, sessions[j].id))
      BY <1>b, <1>11, <2>2
    <3>2. sessions[j].id # opened + 1 /\ sessions[j].id <= opened + 1
      BY <1>2, <3>1
    <3>. QED  BY <1>8, <3>1, <3>2
  <2>. QED  BY <1>a, <1>b, <2>1, <2>2
<1>13. Apart(all)
  <2>1. \A k, l \in 1..Len(sessions) : all[k].id = all[l].id => k = l
    <3>1. DOMAIN sessions = 1..Len(sessions)
      BY DEF SessionsCount
    <3>. QED  BY <1>b, <3>1 DEF SessionsCount
  <2>2. \A k \in 1..Len(sessions) : all[k].id # all[Len(sessions) + 1].id
    BY <1>2, <1>a, <1>b, <1>6, <1>11
  <2>3. \A k \in DOMAIN all : k \in 1..Len(sessions) \/ k = Len(sessions) + 1
    BY <1>a, <1>b
  <2>. QED  BY <2>1, <2>2, <2>3 DEF Apart
<1>14. /\ sessions' \in Seq(Entries)
       /\ \A k \in DOMAIN sessions' : /\ sessions'[k].id <= opened'
                                      /\ sessions'[k].busy = Cardinality(Held(requests', sessions'[k].id))
  <2>1. ASSUME NEW k \in DOMAIN sessions'
        PROVE  sessions'[k].id <= opened' /\ sessions'[k].busy = Cardinality(Held(requests', sessions'[k].id))
    <3>1. PICK j \in stay : sessions'[k] = all[j]
      BY <1>1, <1>3, <2>1
    <3>2. j \in DOMAIN all
      BY <1>7, <3>1
    <3>. QED  BY <1>1, <1>12, <3>1, <3>2
  <2>. QED  BY <1>1, <1>3, <2>1
<1>15. Apart(sessions')
  BY <1>1, <1>3, <1>13
<1>16. \A e \in crowded' : e.served = 0
  <2>1. ASSUME NEW k \in Http!Crowded(all) PROVE Http!Busy(all[k].id) = 0
    <3>1. k \in 1..Len(sessions) /\ all[k].busy = 0
      BY <1>3
    <3>2. Cardinality(Held(requests, all[k].id)) = 0
      BY <1>b, <1>11, <3>1
    <3>. QED  BY <1>2, <3>2, HeldInfo
  <2>. QED  BY <1>1, <2>1 DEF SessionsCount
<1>17. requests' \in SUBSET Requests /\ \A r \in requests' : r.session <= opened' /\ (r.held <=> r.ends = Http!Ends)
  <2>1. \A r \in requests : r.session <= opened + 1 /\ (r.held <=> r.ends = Http!Ends)
    BY <1>2, <1>9 DEF SessionsCount
  <2>. QED  BY <1>1, <1>2, <1>4, <1>5, <2>1
<1>. QED  BY <1>1, <1>2, <1>8, <1>14, <1>15, <1>16, <1>17, CountsThen DEF Apart

LEMMA CountsStep ==
  ASSUME SessionsCount, [Next]_serverVars
  PROVE  SessionsCount'
<1>1. Http!Next \/ UNCHANGED httpPart
  BY DEF Next, serverVars
<1>2. CASE Http!Next
  <2>0. opened \in Nat
    BY DEF SessionsCount
  <2>1. CASE \E caller \in HttpCallers \union Strangers : Http!Initialize(caller)
    <3>1. PICK caller \in HttpCallers \union Strangers : Http!Initialize(caller)
      BY <2>1
    <3>2. Http!Authenticated(caller)
      BY <3>1 DEF Http!Initialize
    <3>3. caller \in HttpCallers
      BY <3>2, HttpConstants DEF Http!Authenticated
    <3>. QED  BY <3>1, <3>3, InitializeCounts
  <2>2. CASE \E caller \in HttpCallers \union Strangers, i \in 1..opened : Http!Use(caller, i)
    <3>1. PICK caller \in HttpCallers \union Strangers, i \in 1..opened : Http!Use(caller, i)
      BY <2>2
    <3>2. i \in Nat
      BY <2>0, <3>1
    <3>. QED  BY <3>1, <3>2, UseCounts
  <2>3. CASE \E r \in requests : \/ \E end \in Http!Ends : Http!Close(r, end)
                               \/ Http!NeverCloses(r) \/ Http!EndSession(r)
    BY <2>3, CloseCounts, NeverClosesCounts, EndSessionCounts
  <2>4. CASE \E page \in Pages : Http!Pair(page) \/ Http!Unpair(page) \/ Http!LetIn(page) \/ Http!DecideTask(page)
    <3>1. UNCHANGED <<sessions, requests, opened, crowded>>
      BY <2>4 DEF Http!Pair, Http!Unpair, Http!LetIn, Http!DecideTask
    <3>. QED  BY <3>1 DEF SessionsCount
  <2>. QED  BY <1>2, <2>1, <2>2, <2>3, <2>4 DEF Http!Next
<1>3. CASE UNCHANGED httpPart
  BY <1>3 DEF httpPart, SessionsCount
<1>. QED  BY <1>1, <1>2, <1>3

LEMMA OnePageStep ==
  ASSUME OnePage, opened \in Nat, [Next]_serverVars
  PROVE  OnePage'
<1>1. Http!Next \/ UNCHANGED httpPart
  BY DEF Next, serverVars
<1>2. CASE UNCHANGED httpPart
  BY <1>2 DEF httpPart, OnePage
<1>3. ASSUME NEW caller, Http!Initialize(caller)
      PROVE  OnePage'
  BY <1>3 DEF Http!Initialize, OnePage
<1>4. ASSUME NEW caller, NEW i, Http!Use(caller, i)
      PROVE  OnePage'
  BY <1>4 DEF Http!Use, OnePage
<1>5. ASSUME NEW r, NEW end, Http!Close(r, end) \/ Http!NeverCloses(r) \/ Http!EndSession(r)
      PROVE  OnePage'
  BY <1>5 DEF Http!Close, Http!NeverCloses, Http!EndSession, OnePage
<1>6. ASSUME NEW page \in Pages, Http!Pair(page)
      PROVE  OnePage'
  BY <1>6, HttpConstants DEF Http!Pair, OnePage
<1>7. ASSUME NEW page \in Pages, Http!Unpair(page)
      PROVE  OnePage'
  BY <1>7, HttpConstants DEF Http!Unpair, OnePage
<1>8. ASSUME NEW page \in Pages, Http!LetIn(page)
      PROVE  OnePage'
  BY <1>8, HttpConstants DEF Http!LetIn, OnePage
<1>9. ASSUME NEW page \in Pages, Http!DecideTask(page)
      PROVE  OnePage'
  BY <1>9, HttpConstants DEF Http!DecideTask, OnePage
<1>. QED  BY <1>1, <1>2, <1>3, <1>4, <1>5, <1>6, <1>7, <1>8, <1>9 DEF Http!Next

LEMMA HttpInit ==
  ASSUME Init
  PROVE  SessionsCount /\ OnePage
<1>1. Http!Init
  BY DEF Init
<1>2. IsFiniteSet(requests)
  BY <1>1, FS_EmptySet DEF Http!Init
<1>3. sessions = <<>> /\ DOMAIN sessions = {} /\ sessions \in Seq(Entries)
  BY <1>1 DEF Http!Init
<1>4. opened = 0 /\ requests = {} /\ crowded = {}
  BY <1>1 DEF Http!Init
<1>5. SessionsCount
  BY <1>2, <1>3, <1>4 DEF SessionsCount
<1>6. OnePage
  BY <1>1, HttpConstants DEF Http!Init, OnePage
<1>. QED  BY <1>5, <1>6

LEMMA HttpShows ==
  ASSUME SessionsCount, OnePage
  PROVE  Http!ServingIsKept
<1>1. \A k \in DOMAIN sessions : sessions[k].busy = Http!Busy(sessions[k].id)
  BY HeldInfo DEF SessionsCount
<1>2. \E page : deciders \subseteq {page}
  BY DEF OnePage
<1>3. PICK page : deciders \subseteq {page}
  BY <1>2
<1>4. deciders = {} \/ deciders = {page}
  BY <1>3
<1>5. Cardinality(deciders) = 0 \/ Cardinality(deciders) = 1
  BY <1>4, FS_EmptySet, FS_Singleton
<1>6. Http!Cardinality(deciders) <= 1
  BY <1>5, HttpCounts
<1>7. deciders # {} => opened = 0
  BY DEF OnePage
<1>8. \A e \in crowded : e.served = 0
  BY DEF SessionsCount
<1>. QED  BY <1>1, <1>6, <1>7, <1>8 DEF Http!ServingIsKept

\* No session is ended to make room while it serves a request, however its
\* requests overlap and whichever end of each closes first, and one page at
\* most decides, on a console no agent can reach.
THEOREM ServingStays == Spec => []Http!ServingIsKept
<1>1. Init => SessionsCount /\ OnePage
  BY HttpInit
<1>2. SessionsCount /\ OnePage /\ [Next]_serverVars => (SessionsCount /\ OnePage)'
  <2>1. SessionsCount => opened \in Nat
    BY DEF SessionsCount
  <2>. QED  BY <2>1, CountsStep, OnePageStep
<1>3. SessionsCount /\ OnePage => Http!ServingIsKept
  BY HttpShows
<1>. QED  BY <1>1, <1>2, <1>3, PTL DEF Spec

\* The idle sessions that go are the first ones: as many as are over the cap,
\* or all of them.
LEMMA RoomIsMade ==
  ASSUME NEW all \in Seq(Entries)
  PROVE  LET stay == (DOMAIN all) \ Http!Crowded(all)
         IN  \/ Cardinality(stay) <= MaxSessions
             \/ \A k \in stay : all[k].busy > 0
<1> DEFINE free == {k \in DOMAIN all : all[k].busy = 0}
           n == Len(all)
           over == n - MaxSessions
           gone == {j \in free : Rank(j, free) <= over}
           stay == (DOMAIN all) \ gone
<1>1. n \in Nat /\ DOMAIN all = 1..n /\ MaxSessions \in Nat /\ \A k \in 1..n : all[k].busy \in Nat
  <2>1. Len(all) \in Nat /\ DOMAIN all = 1..Len(all) /\ \A k \in DOMAIN all : all[k] \in Entries
    OBVIOUS
  <2>2. \A k \in DOMAIN all : all[k].busy \in Nat
    BY <2>1 DEF Entries
  <2>. QED  BY <2>1, <2>2, HttpConstants
<1>2. Http!Crowded(all) = gone
  <2>1. ASSUME NEW k \in DOMAIN all
        PROVE  Http!Cardinality({j \in 1..k : all[j].busy = 0}) = Rank(k, free)
    <3>1. \A j : j \in 1..k <=> j \in 1..n /\ j <= k
      BY <1>1, <2>1
    <3>2. {j \in 1..k : all[j].busy = 0} = UpTo(k, free)
      BY <1>1, <3>1 DEF UpTo
    <3>. QED  BY <3>2, HttpCounts DEF Rank
  <2>2. Http!Crowded(all) = {k \in DOMAIN all : all[k].busy = 0 /\ Http!Cardinality({j \in 1..k : all[j].busy = 0}) <= over}
    BY DEF Http!Crowded
  <2> HIDE DEF over
  <2>. QED  BY <2>1, <2>2
<1>3. IsFiniteSet(1..n) /\ Cardinality(1..n) = n
  BY <1>1, FS_Interval
<1>4. gone \in SUBSET (1..n) /\ free \in SUBSET (1..n) /\ stay \in SUBSET (1..n)
  BY <1>1
<1>5. IsFiniteSet(free) /\ Cardinality(free) \in Nat /\ Cardinality(stay) \in Nat /\ Cardinality(stay) <= n
  BY <1>1, <1>3, <1>4, FS_Subset, FS_CardinalityType
<1>6. Places(free, n)
  BY <1>1, <1>5 DEF Places
<1>7. CASE n <= MaxSessions
  <2> HIDE DEF stay, n
  <2>1. Cardinality(stay) <= MaxSessions
    BY <1>1, <1>5, <1>7
  <2>. QED  BY <1>2, <2>1 DEF stay
<1>8. CASE ~(n <= MaxSessions)
  <2>1. over \in Nat
    BY <1>1, <1>8
  <2>2. IF over <= Cardinality(free) THEN Cardinality(gone) = over ELSE gone = free
    <3> HIDE DEF free, over
    <3>1. n \in Nat
      BY <1>1
    <3>. QED  BY <1>6, <2>1, <3>1, FirstRanks
  <2>3. CASE gone = free
    <3>1. \A k \in stay : all[k].busy > 0
      BY <1>1, <2>3
    <3>. QED  BY <1>2, <3>1
  <2>4. CASE Cardinality(gone) = over
    <3>1. Cardinality((1..n) \ gone) = Cardinality(1..n) - Cardinality((1..n) \cap gone)
      <4> HIDE DEF gone, n
      <4>. QED  BY <1>3, FS_Difference
    <3>2. (1..n) \cap gone = gone
      BY <1>4
    <3>3. stay = (1..n) \ gone
      BY <1>1
    <3>4. Cardinality(stay) = n - over
      <4> HIDE DEF stay, gone, n, over
      <4>. QED  BY <1>3, <2>4, <3>1, <3>2, <3>3
    <3>5. Cardinality(stay) = MaxSessions
      <4> HIDE DEF stay, gone, n
      <4>. QED  BY <1>1, <3>4 DEF over
    <3> HIDE DEF stay
    <3>6. Cardinality(stay) <= MaxSessions
      BY <1>1, <3>5
    <3>. QED  BY <1>2, <3>6 DEF stay
  <2>. QED  BY <2>2, <2>3, <2>4
<1>. QED  BY <1>7, <1>8

LEMMA BackToTheCapStep ==
  ASSUME SessionsCount, [Next]_serverVars
  PROVE  opened' # opened => \/ Len(sessions') <= MaxSessions
                             \/ \A k \in DOMAIN sessions' : sessions'[k].busy > 0
<1> SUFFICES ASSUME opened' # opened
             PROVE  \/ Len(sessions') <= MaxSessions
                    \/ \A k \in DOMAIN sessions' : sessions'[k].busy > 0
  OBVIOUS
<1>1. Http!Next
  BY DEF Next, serverVars, httpPart
<1>2. \E caller \in HttpCallers \union Strangers : Http!Initialize(caller)
  BY <1>1 DEF Http!Next, Http!Use, Http!EndSession, Http!Close, Http!NeverCloses, Http!Pair, Http!Unpair,
              Http!LetIn, Http!DecideTask
<1>3. PICK caller \in HttpCallers \union Strangers : Http!Initialize(caller)
  BY <1>2
<1>4. caller \in HttpCallers
  BY <1>3, HttpConstants DEF Http!Initialize, Http!Authenticated
<1> DEFINE new == [id |-> opened + 1, client |-> caller, busy |-> 1]
           all == Append(sessions, new)
           stay == (DOMAIN all) \ Http!Crowded(all)
<1>5. sessions' = Http!Keeping(all, stay)
  BY <1>3 DEF Http!Initialize
<1>6. all \in Seq(Entries)
  <2>1. new \in Entries /\ sessions \in Seq(Entries)
    BY <1>4 DEF SessionsCount, Entries
  <2>. QED  BY <2>1
<1>7. stay \in SUBSET DOMAIN all
  OBVIOUS
<1>8. Cardinality(stay) <= MaxSessions \/ \A k \in stay : all[k].busy > 0
  <2> HIDE DEF all
  <2>. QED  BY <1>6, RoomIsMade
<1> HIDE DEF new, all, stay
<1>9. /\ \A k \in DOMAIN Http!Keeping(all, stay) : \E j \in stay : Http!Keeping(all, stay)[k] = all[j]
      /\ Len(Http!Keeping(all, stay)) = Cardinality(stay)
  BY <1>6, <1>7, KeepingKeeps
<1>. QED  BY <1>5, <1>8, <1>9

\* The session map comes back to its cap: once a session is opened it is over
\* the cap only if every session serves a request.
THEOREM CapIsMet == Spec => BackToTheCap
<1>1. Init => SessionsCount
  BY HttpInit
<1>2. SessionsCount /\ [Next]_serverVars => SessionsCount'
  BY CountsStep
<1>3. SessionsCount /\ [Next]_serverVars
        => [opened' # opened => \/ Len(sessions') <= MaxSessions
                                \/ \A k \in DOMAIN sessions' : sessions'[k].busy > 0]_(Http!httpVars)
  BY BackToTheCapStep
<1>. QED  BY <1>1, <1>2, <1>3, PTL DEF Spec, BackToTheCap, Http!BackToTheCap

-----------------------------------------------------------------------------
(* Sign-in: the register's content, and what each update makes of it.      *)

ClientRecs == [id : Nat, approval : Nat]
ApprovalRecs == [client : Nat, approval : Nat]
Contents == [clients : Seq(ClientRecs), tokens : Seq(ApprovalRecs)]

\* Of approvals `made` and not `over`, the tokens, each of a client there is,
\* and the approval each client has.
Good(c, made, over) ==
  /\ \A i \in DOMAIN c.tokens : /\ c.tokens[i] \in made /\ c.tokens[i] \notin over
                                /\ c.tokens[i].client \in SignIn!ClientsOf(c)
  /\ \A i \in DOMAIN c.clients :
       \/ c.clients[i].approval = 0
       \/ /\ [client |-> c.clients[i].id, approval |-> c.clients[i].approval] \in made
          /\ [client |-> c.clients[i].id, approval |-> c.clients[i].approval] \notin over

LEMMA ApproveIs ==
  ASSUME NEW clients \in Seq(ClientRecs), NEW ids, NEW a \in Nat
  PROVE  /\ SignIn!Approve(clients, ids, a) \in Seq(ClientRecs)
         /\ DOMAIN SignIn!Approve(clients, ids, a) = DOMAIN clients
         /\ \A i \in DOMAIN clients :
              /\ SignIn!Approve(clients, ids, a)[i].id = clients[i].id
              /\ SignIn!Approve(clients, ids, a)[i].approval
                   = IF clients[i].id \in ids THEN a ELSE clients[i].approval
<1>1. Len(clients) \in Nat /\ DOMAIN clients = 1..Len(clients) /\ \A i \in DOMAIN clients : clients[i] \in ClientRecs
  OBVIOUS
<1> DEFINE f == SignIn!Approve(clients, ids, a)
<1>2. f = [i \in DOMAIN clients |-> IF clients[i].id \in ids THEN [clients[i] EXCEPT !.approval = a] ELSE clients[i]]
  BY DEF SignIn!Approve
<1> HIDE DEF f
<1>3. ASSUME NEW i \in DOMAIN clients
      PROVE  /\ f[i] \in ClientRecs /\ f[i].id = clients[i].id
             /\ f[i].approval = IF clients[i].id \in ids THEN a ELSE clients[i].approval
  BY <1>1, <1>2 DEF ClientRecs
<1>4. f \in [1..Len(clients) -> ClientRecs]
  BY <1>1, <1>2, <1>3
<1>5. f \in Seq(ClientRecs) /\ DOMAIN f = DOMAIN clients
  BY <1>1, <1>2, <1>4
<1>. QED  BY <1>3, <1>5 DEF f

LEMMA ApproveKeepsClients ==
  ASSUME NEW c, NEW d, DOMAIN d.clients = DOMAIN c.clients,
         \A i \in DOMAIN c.clients : d.clients[i].id = c.clients[i].id
  PROVE  SignIn!ClientsOf(d) = SignIn!ClientsOf(c)
  BY DEF SignIn!ClientsOf

LEMMA SignInKeepingIsKept ==
  ASSUME NEW s, NEW K
  PROVE  SignIn!Keeping(s, K) = Kept(s, K)
<1>0. ASSUME NEW X PROVE SignIn!Cardinality(X) = Cardinality(X)
  BY DEF SignIn!Cardinality, Cardinality
<1> DEFINE A(k) == CHOOSE i \in K : SignIn!Cardinality({j \in K : j <= i}) = k
           B(k) == CHOOSE i \in K : Rank(i, K) = k
<1>1. SignIn!Cardinality(K) = Cardinality(K)
  BY <1>0
<1>2. ASSUME NEW k PROVE A(k) = B(k)
  <2>1. \A i \in K : SignIn!Cardinality({j \in K : j <= i}) = Rank(i, K)
    BY <1>0 DEF Rank, UpTo
  <2>. QED  BY <2>1
<1>3. SignIn!Keeping(s, K) = [k \in 1..Cardinality(K) |-> s[A(k)]]
  BY <1>1 DEF SignIn!Keeping
<1>4. Kept(s, K) = [k \in 1..Cardinality(K) |-> s[B(k)]]
  BY DEF Kept
<1> HIDE DEF A, B
<1>. QED  BY <1>2, <1>3, <1>4

\* What is kept of a sequence is of it.
LEMMA KeptAre ==
  ASSUME NEW S, NEW s \in Seq(S), NEW K, K \in SUBSET DOMAIN s
  PROVE  Kept(s, K) \in Seq(S) /\ \A i \in DOMAIN Kept(s, K) : \E j \in K : Kept(s, K)[i] = s[j]
<1>1. /\ Kept(s, K) \in Seq(S)
      /\ \E J \in [1..Cardinality(K) -> K] :
              /\ \A k \in 1..Cardinality(K) : Kept(s, K)[k] = s[J[k]]
              /\ \A k, l \in 1..Cardinality(K) : k # l => J[k] # J[l]
              /\ \A i \in K : \E k \in 1..Cardinality(K) : J[k] = i
  BY KeptIs
<1>2. DOMAIN Kept(s, K) = 1..Cardinality(K)
  BY DEF Kept
<1>. QED  BY <1>1, <1>2

\* The last tokens are tokens.
LEMMA LastTokensAre ==
  ASSUME NEW S, NEW tokens \in Seq(S)
  PROVE  /\ SignIn!LastTokens(tokens) \in Seq(S)
         /\ \A i \in DOMAIN SignIn!LastTokens(tokens) : \E j \in DOMAIN tokens : SignIn!LastTokens(tokens)[i] = tokens[j]
<1> DEFINE n == Len(tokens)
           m == 1 + (IF n > TokenSlots THEN n - TokenSlots ELSE 0)
           l == SubSeq(tokens, m, n)
<1>1. n \in Nat /\ DOMAIN tokens = 1..n /\ TokenSlots \in Nat \ {0}
  BY ServerAssumption DEF ServerAssumption, SignIn!OAuthAssumption
<1>2. m \in Nat /\ 1 <= m /\ m <= n + 1
  BY <1>1
<1>3. SignIn!LastTokens(tokens) = l
  BY DEF SignIn!LastTokens
<1> HIDE DEF m
<1>4. l \in Seq(S) /\ \A i \in DOMAIN l : m + i - 1 \in 1..n /\ l[i] = tokens[m + i - 1]
  BY <1>1, <1>2
<1> HIDE DEF l
<1>. QED  BY <1>1, <1>3, <1>4

LEMMA RegisterGood ==
  ASSUME NEW made, NEW over, NEW c \in Contents, Good(c, made, over), NEW client \in Nat,
         \A g \in made : g.client # client,
         SignIn!RoomFor(c, [id |-> client, approval |-> 0]) # <<>>
  PROVE  LET room == SignIn!RoomFor(c, [id |-> client, approval |-> 0])
             d == [c EXCEPT !.clients = room]
         IN  /\ d \in Contents /\ Good(d, made, over)
             /\ SignIn!ClientsOf(d) \subseteq SignIn!ClientsOf(c) \union {client}
<1> DEFINE new == [id |-> client, approval |-> 0]
           clients == Append(c.clients, new)
           n == Len(c.clients) + 1
           spare == {i \in DOMAIN clients : clients[i].id \notin SignIn!Holding(c)}
           oldest == CHOOSE i \in spare : \A j \in spare : i <= j
           room == SignIn!RoomFor(c, new)
           d == [c EXCEPT !.clients = room]
<1>1. c.clients \in Seq(ClientRecs) /\ c.tokens \in Seq(ApprovalRecs) /\ Len(c.clients) \in Nat
  BY DEF Contents
<1>2. new \in ClientRecs /\ new.id = client /\ new.approval = 0
  BY DEF ClientRecs
<1>3. room = IF Len(clients) <= ClientSlots THEN clients
             ELSE IF oldest = Len(clients) THEN <<>> ELSE SignIn!RemoveAt(clients, oldest)
  BY DEF SignIn!RoomFor
<1>4. room # <<>>
  OBVIOUS
<1> HIDE DEF new
<1>5. /\ clients \in Seq(ClientRecs) /\ Len(clients) = n /\ DOMAIN clients = 1..n /\ n \in Nat /\ 1 <= n
      /\ clients[n] = new /\ \A i \in 1..(n - 1) : clients[i] = c.clients[i]
      /\ DOMAIN c.clients = 1..(n - 1)
  BY <1>1, <1>2
<1> HIDE DEF clients, n
<1>6. client \notin SignIn!Holding(c)
  BY DEF Good, SignIn!Holding
<1>7. oldest \in spare
  <2>1. n \in spare
    BY <1>2, <1>5, <1>6
  <2>2. spare \in SUBSET (1..n) /\ IsFiniteSet(1..n)
    BY <1>5, FS_Interval
  <2>3. IsFiniteSet(spare) /\ spare \in SUBSET Nat
    BY <1>5, <2>2, FS_Subset
  <2> HIDE DEF spare
  <2>4. \E m \in spare : \A j \in spare : m <= j
    BY <2>1, <2>3, LeastOf
  <2>. QED  BY <2>4
<1>8. oldest \in 1..n /\ clients[oldest].id \notin SignIn!Holding(c)
  BY <1>5, <1>7
<1> HIDE DEF oldest, room
\* What is left are the clients and the new one, those that hold a token among them.
<1>9. /\ room \in Seq(ClientRecs)
      /\ \A k \in DOMAIN room : \E j \in 1..n : room[k] = clients[j]
      /\ \A j \in 1..(n - 1) : clients[j].id \in SignIn!Holding(c) => \E k \in DOMAIN room : room[k] = clients[j]
  <2>1. CASE room = clients
    BY <1>5, <2>1
  <2>2. CASE room = SignIn!RemoveAt(clients, oldest)
    <3>1. room = [k \in 1..(n - 1) |-> IF k < oldest THEN clients[k] ELSE clients[k + 1]]
      <4>1. SignIn!RemoveAt(clients, oldest) = SubSeq(clients, 1, oldest - 1) \o SubSeq(clients, oldest + 1, Len(clients))
        BY DEF SignIn!RemoveAt
      <4>2. SubSeq(clients, 1, oldest - 1) \o SubSeq(clients, oldest + 1, Len(clients))
              = [k \in 1..(Len(clients) - 1) |-> IF k < oldest THEN clients[k] ELSE clients[k + 1]]
        BY <1>5, <1>8, LessOne
      <4>. QED  BY <1>5, <2>2, <4>1, <4>2
    <3>2. n - 1 \in Nat /\ DOMAIN room = 1..(n - 1)
      BY <1>1, <3>1 DEF n
    <3>3. \A k \in 1..(n - 1) : room[k] = clients[IF k < oldest THEN k ELSE k + 1] /\ (IF k < oldest THEN k ELSE k + 1) \in 1..n
      BY <1>5, <1>8, <3>1
    <3>4. \A k \in 1..(n - 1) : room[k] \in ClientRecs
      BY <1>5, <3>3
    <3>5. room \in [1..(n - 1) -> ClientRecs]
      BY <3>1, <3>4
    <3>6. room \in Seq(ClientRecs)
      BY <3>2, <3>5
    <3>7. ASSUME NEW j \in 1..(n - 1), clients[j].id \in SignIn!Holding(c)
          PROVE  \E k \in DOMAIN room : room[k] = clients[j]
      <4>1. j # oldest
        BY <1>8, <3>7
      <4>2. CASE j < oldest
        BY <3>1, <3>2, <4>2
      <4>3. CASE ~(j < oldest)
        <5>1. j - 1 \in 1..(n - 1) /\ ~(j - 1 < oldest) /\ (j - 1) + 1 = j
          BY <1>5, <1>8, <4>1, <4>3
        <5>2. room[j - 1] = clients[j]
          BY <3>1, <5>1
        <5>. QED  BY <3>2, <5>1, <5>2
      <4>. QED  BY <4>2, <4>3
    <3>. QED  BY <3>2, <3>3, <3>6, <3>7
  <2>. QED  BY <1>3, <1>4, <2>1, <2>2
<1>10. d.clients = room /\ d.tokens = c.tokens /\ d \in Contents
  BY <1>9 DEF Contents
<1> HIDE DEF d
<1>11. ASSUME NEW i \in DOMAIN d.tokens
       PROVE  d.tokens[i] \in made /\ d.tokens[i] \notin over /\ d.tokens[i].client \in SignIn!ClientsOf(d)
  <2>1. c.tokens[i] \in made /\ c.tokens[i] \notin over /\ c.tokens[i].client \in SignIn!ClientsOf(c)
    BY <1>10 DEF Good
  <2>2. PICK j \in DOMAIN c.clients : c.clients[j].id = c.tokens[i].client
    BY <2>1 DEF SignIn!ClientsOf
  <2>3. c.clients[j].id \in SignIn!Holding(c)
    BY <1>10, <2>2 DEF SignIn!Holding
  <2>4. PICK k \in DOMAIN room : room[k] = clients[j]
    BY <1>5, <1>9, <2>2, <2>3
  <2>5. d.clients[k].id = c.tokens[i].client /\ k \in DOMAIN d.clients
    BY <1>5, <1>10, <2>2, <2>4
  <2>. QED  BY <1>10, <2>1, <2>5 DEF SignIn!ClientsOf
<1>12. ASSUME NEW k \in DOMAIN d.clients
       PROVE  /\ \/ d.clients[k].approval = 0
                 \/ /\ [client |-> d.clients[k].id, approval |-> d.clients[k].approval] \in made
                    /\ [client |-> d.clients[k].id, approval |-> d.clients[k].approval] \notin over
              /\ d.clients[k].id \in SignIn!ClientsOf(c) \union {client}
  <2>1. PICK j \in 1..n : d.clients[k] = clients[j]
    BY <1>9, <1>10
  <2>2. CASE j = n
    BY <1>2, <1>5, <2>1, <2>2
  <2>3. CASE j # n
    <3>1. j \in DOMAIN c.clients /\ d.clients[k] = c.clients[j]
      BY <1>5, <2>1, <2>3
    <3>. QED  BY <3>1 DEF Good, SignIn!ClientsOf
  <2>. QED  BY <2>2, <2>3
<1>13. Good(d, made, over)
  BY <1>11, <1>12 DEF Good
<1>14. SignIn!ClientsOf(d) \subseteq SignIn!ClientsOf(c) \union {client}
  BY <1>12 DEF SignIn!ClientsOf
<1>. QED  BY <1>10, <1>13, <1>14 DEF d, room, new

LEMMA DecideGood ==
  ASSUME NEW made, NEW over, NEW c \in Contents, Good(c, made, over),
         NEW x \in ApprovalRecs, x \notin over, NEW more, made \subseteq more, x \in more,
         NEW ids, \A i : i \in ids <=> i = x.client,
         NEW d, d = [c EXCEPT !.clients = SignIn!Approve(c.clients, ids, x.approval)]
  PROVE  /\ d \in Contents /\ Good(d, more, over)
         /\ SignIn!ClientsOf(d) = SignIn!ClientsOf(c)
<1> DEFINE clients == SignIn!Approve(c.clients, ids, x.approval)
<1>0. x.client \in Nat /\ x.approval \in Nat /\ x = [client |-> x.client, approval |-> x.approval]
  BY DEF ApprovalRecs
<1>1. c.clients \in Seq(ClientRecs) /\ c.tokens \in Seq(ApprovalRecs)
  BY DEF Contents
<1>2. /\ clients \in Seq(ClientRecs) /\ DOMAIN clients = DOMAIN c.clients
      /\ \A i \in DOMAIN c.clients : /\ clients[i].id = c.clients[i].id
                                     /\ clients[i].approval =
                                                IF c.clients[i].id = x.client THEN x.approval ELSE c.clients[i].approval
  <2> HIDE DEF clients
  <2>1. /\ SignIn!Approve(c.clients, ids, x.approval) \in Seq(ClientRecs)
        /\ DOMAIN SignIn!Approve(c.clients, ids, x.approval) = DOMAIN c.clients
        /\ \A i \in DOMAIN c.clients :
             /\ SignIn!Approve(c.clients, ids, x.approval)[i].id = c.clients[i].id
             /\ SignIn!Approve(c.clients, ids, x.approval)[i].approval
                  = IF c.clients[i].id \in ids THEN x.approval ELSE c.clients[i].approval
    BY <1>0, <1>1, ApproveIs
  <2>. QED  BY <2>1 DEF clients
<1>3. d.clients = clients /\ d.tokens = c.tokens /\ d \in Contents
  BY <1>2 DEF Contents
<1> HIDE DEF clients
<1>4. SignIn!ClientsOf(d) = SignIn!ClientsOf(c)
  BY <1>2, <1>3, ApproveKeepsClients
<1>5. Good(d, more, over)
  <2>1. \A i \in DOMAIN d.tokens : /\ d.tokens[i] \in more /\ d.tokens[i] \notin over
                                   /\ d.tokens[i].client \in SignIn!ClientsOf(d)
    BY <1>3, <1>4 DEF Good
  <2>2. ASSUME NEW i \in DOMAIN d.clients
        PROVE \/ d.clients[i].approval = 0
              \/ /\ [client |-> d.clients[i].id, approval |-> d.clients[i].approval] \in more
                 /\ [client |-> d.clients[i].id, approval |-> d.clients[i].approval] \notin over
    <3>1. CASE c.clients[i].id = x.client
      BY <1>0, <1>2, <1>3, <3>1
    <3>2. CASE c.clients[i].id # x.client
      <4>1. d.clients[i].id = c.clients[i].id /\ d.clients[i].approval = c.clients[i].approval /\ i \in DOMAIN c.clients
        BY <1>2, <1>3, <3>2
      <4>. QED  BY <4>1 DEF Good
    <3>. QED  BY <3>1, <3>2
  <2>. QED  BY <2>1, <2>2 DEF Good
<1>. QED  BY <1>3, <1>4, <1>5

LEMMA TokenGood ==
  ASSUME NEW made, NEW over, NEW c \in Contents, Good(c, made, over), NEW client \in Nat, NEW a \in Nat \ {0},
         SignIn!ApprovalOf(c, client) = a
  PROVE  LET d == [c EXCEPT !.tokens = SignIn!LastTokens(Append(c.tokens, [client |-> client, approval |-> a]))]
         IN  /\ d \in Contents /\ Good(d, made, over)
             /\ SignIn!ClientsOf(d) = SignIn!ClientsOf(c)
<1> DEFINE x == [client |-> client, approval |-> a]
           all == Append(c.tokens, x)
           tokens == SignIn!LastTokens(all)
           d == [c EXCEPT !.tokens = tokens]
           found == {i \in DOMAIN c.clients : c.clients[i].id = client}
<1>1. c.clients \in Seq(ClientRecs) /\ c.tokens \in Seq(ApprovalRecs) /\ x \in ApprovalRecs /\ Len(c.tokens) \in Nat
  BY DEF Contents, ApprovalRecs
<1>2. x \in made /\ x \notin over /\ client \in SignIn!ClientsOf(c)
  <2>1. found # {} /\ c.clients[CHOOSE i \in found : TRUE].approval = a
    BY DEF SignIn!ApprovalOf, SignIn!NoApproval
  <2>2. PICK i \in found : c.clients[i].approval = a
    BY <2>1
  <2>3. i \in DOMAIN c.clients /\ c.clients[i].id = client
    OBVIOUS
  <2>. QED  BY <2>2, <2>3 DEF Good, SignIn!ClientsOf
<1> HIDE DEF x, found
<1>3. all \in Seq(ApprovalRecs) /\ DOMAIN all = 1..(Len(c.tokens) + 1) /\ all[Len(c.tokens) + 1] = x
      /\ \A i \in 1..Len(c.tokens) : all[i] = c.tokens[i]
  BY <1>1
<1>4. /\ tokens \in Seq(ApprovalRecs) /\ \A i \in DOMAIN tokens : \E j \in DOMAIN all : tokens[i] = all[j]
  <2> HIDE DEF all
  <2>. QED  BY <1>3, LastTokensAre
<1> HIDE DEF all, tokens
<1>5. d.clients = c.clients /\ d.tokens = tokens /\ d \in Contents
  BY <1>1, <1>4 DEF Contents
<1> HIDE DEF d
<1>6. SignIn!ClientsOf(d) = SignIn!ClientsOf(c)
  BY <1>5 DEF SignIn!ClientsOf
<1>7. ASSUME NEW j \in DOMAIN all
      PROVE  all[j] \in made /\ all[j] \notin over /\ all[j].client \in SignIn!ClientsOf(c)
  <2>1. CASE j = Len(c.tokens) + 1
    BY <1>2, <1>3, <2>1 DEF x
  <2>2. CASE j \in 1..Len(c.tokens)
    <3>1. j \in DOMAIN c.tokens /\ all[j] = c.tokens[j]
      BY <1>1, <1>3, <2>2
    <3>. QED  BY <3>1 DEF Good
  <2>. QED  BY <1>1, <1>3, <2>1, <2>2
<1>8. Good(d, made, over)
  <2>1. \A i \in DOMAIN d.tokens : /\ d.tokens[i] \in made /\ d.tokens[i] \notin over
                                   /\ d.tokens[i].client \in SignIn!ClientsOf(d)
    BY <1>4, <1>5, <1>6, <1>7
  <2>. QED  BY <1>5, <2>1 DEF Good
<1>. QED  BY <1>5, <1>6, <1>8 DEF d, tokens, all, x

\* Of some clients, no token and no approval.
NothingOf(c, clients) ==
  /\ \A i \in DOMAIN c.tokens : c.tokens[i].client \notin clients
  /\ \A i \in DOMAIN c.clients : c.clients[i].id \in clients => c.clients[i].approval = 0

\* The places of the tokens of other clients.
OthersTokens(c, clients) == {i \in DOMAIN c.tokens : c.tokens[i].client \notin clients}

LEMMA RevokedIs ==
  ASSUME NEW c \in Contents, NEW clients, NEW K, K \in SUBSET DOMAIN c.tokens
  PROVE  [clients |-> SignIn!Approve(c.clients, clients, 0), tokens |-> SignIn!Keeping(c.tokens, K)] \in Contents
<1>1. c.clients \in Seq(ClientRecs) /\ c.tokens \in Seq(ApprovalRecs)
  BY DEF Contents
<1>2. SignIn!Approve(c.clients, clients, 0) \in Seq(ClientRecs)
  BY <1>1, ApproveIs
<1>3. SignIn!Keeping(c.tokens, K) \in Seq(ApprovalRecs)
  BY <1>1, SignInKeepingIsKept, KeptAre
<1>. QED  BY <1>2, <1>3 DEF Contents

LEMMA RevokeGood ==
  ASSUME NEW made, NEW over, NEW c \in Contents, Good(c, made, over), NEW clients,
         NEW d \in Contents, d.clients = SignIn!Approve(c.clients, clients, 0),
         d.tokens = SignIn!Keeping(c.tokens, OthersTokens(c, clients))
  PROVE  /\ Good(d, made, over) /\ NothingOf(d, clients)
         /\ SignIn!ClientsOf(d) = SignIn!ClientsOf(c)
<1> DEFINE K == OthersTokens(c, clients)
<1>0. \A i : i \in K <=> i \in DOMAIN c.tokens /\ c.tokens[i].client \notin clients
  BY DEF OthersTokens
<1> HIDE DEF K
<1>1. c.clients \in Seq(ClientRecs) /\ c.tokens \in Seq(ApprovalRecs)
  BY DEF Contents
<1>2. /\ d.clients \in Seq(ClientRecs) /\ DOMAIN d.clients = DOMAIN c.clients
      /\ \A i \in DOMAIN c.clients : /\ d.clients[i].id = c.clients[i].id
                                     /\ d.clients[i].approval = IF c.clients[i].id \in clients THEN 0 ELSE c.clients[i].approval
  <2>1. d.clients = SignIn!Approve(c.clients, clients, 0)
    OBVIOUS
  <2>. QED  BY <1>1, <2>1, ApproveIs
<1>3. d.tokens = Kept(c.tokens, K)
  <2>1. d.tokens = SignIn!Keeping(c.tokens, K)
    BY DEF K
  <2>. QED  BY <2>1, SignInKeepingIsKept
<1>5. K \in SUBSET DOMAIN c.tokens
  BY <1>0
<1>6. /\ d.tokens \in Seq(ApprovalRecs)
      /\ \A i \in DOMAIN d.tokens : \E j \in K : d.tokens[i] = c.tokens[j]
  <2>1. /\ Kept(c.tokens, K) \in Seq(ApprovalRecs)
        /\ \A i \in DOMAIN Kept(c.tokens, K) : \E j \in K : Kept(c.tokens, K)[i] = c.tokens[j]
    BY <1>1, <1>5, KeptAre
  <2>. QED  BY <1>3, <2>1
<1>8. SignIn!ClientsOf(d) = SignIn!ClientsOf(c)
  BY <1>2, ApproveKeepsClients
<1>9. ASSUME NEW i \in DOMAIN d.tokens
      PROVE  /\ d.tokens[i] \in made /\ d.tokens[i] \notin over
             /\ d.tokens[i].client \in SignIn!ClientsOf(d) /\ d.tokens[i].client \notin clients
  <2>1. PICK j \in K : d.tokens[i] = c.tokens[j]
    BY <1>6
  <2>. QED  BY <1>0, <1>8, <2>1 DEF Good
<1>10. ASSUME NEW i \in DOMAIN d.clients
       PROVE  /\ \/ d.clients[i].approval = 0
                 \/ /\ [client |-> d.clients[i].id, approval |-> d.clients[i].approval] \in made
                    /\ [client |-> d.clients[i].id, approval |-> d.clients[i].approval] \notin over
              /\ d.clients[i].id \in clients => d.clients[i].approval = 0
  BY <1>2 DEF Good
<1>. QED  BY <1>8, <1>9, <1>10 DEF Good, NothingOf

-----------------------------------------------------------------------------
(* Sign-in: the copies of the register, its lock, and those who wait.      *)

Versioned == [content : Contents, version : Nat]
Updates == [op : {"idle", "register", "decide", "token", "revoke"}, stage : {"waiting", "locked", "written"},
            client : Nat, approval : Nat, clients : SUBSET Nat, ends : SUBSET ApprovalRecs]

RegisterShape ==
  /\ register \in Versioned /\ state \in [SignIn!Processes -> Versioned]
  /\ update \in [SignIn!Processes -> Updates]
  /\ \A p \in SignIn!Processes : update[p].op = "idle" => update[p] = SignIn!Idle
  /\ minted \in Nat /\ writes \in Nat
  /\ given \in SUBSET ApprovalRecs /\ IsFiniteSet(given)
  /\ \A a \in given : a.approval # 0 /\ a.approval <= Cardinality(given)
  /\ DOMAIN codes = Servers /\ \A s \in Servers : codes[s] \subseteq given

\* The lock is of the one process inside an update.
LockHeld ==
  /\ stale = {} /\ lock \in SignIn!Processes \union {Unlocked}
  /\ \A p \in SignIn!Processes : update[p].stage # "waiting" <=> lock = p

\* The file is good; a copy of its version is good, whatever a failed write
\* left in it; an older copy is read again before it is used; and what is
\* about to be renamed is newer, good, and holds nothing of whom it revokes.
CopiesGood ==
  /\ ended \subseteq given
  /\ Good(register.content, given, ended) /\ register.version <= writes
  /\ \A p \in SignIn!Processes : update[p].stage # "written" =>
       /\ state[p].version <= register.version
       /\ state[p].version = register.version => Good(state[p].content, given, ended)
  /\ \A p \in SignIn!Processes : update[p].stage = "written" =>
       /\ register.version < state[p].version /\ state[p].version <= writes
       /\ Good(state[p].content, given, ended)
       /\ update[p].ends \subseteq given
       /\ update[p].op = "revoke" => NothingOf(state[p].content, update[p].clients)

Registers(p) == update[p].op = "register" /\ update[p].stage # "written"

\* A client that waits to be registered is nobody yet.
NewcomersAreNew ==
  /\ \A i \in SignIn!ClientsOf(register.content) : i <= minted
  /\ \A p \in SignIn!Processes : \A i \in SignIn!ClientsOf(state[p].content) : i <= minted
  /\ \A a \in given : a.client <= minted
  /\ \A p \in SignIn!Processes : update[p].op = "token" => update[p].approval # 0
  /\ \A p \in SignIn!Processes : Registers(p) =>
       /\ update[p].client <= minted
       /\ update[p].client \notin SignIn!ClientsOf(register.content)
       /\ \A q \in SignIn!Processes : update[p].client \notin SignIn!ClientsOf(state[q].content)
       /\ \A a \in given : a.client # update[p].client
       /\ \A q \in SignIn!Processes : Registers(q) /\ p # q => update[p].client # update[q].client

SignInNow == RegisterShape /\ LockHeld /\ CopiesGood /\ NewcomersAreNew

LEMMA SignInCounts ==
  ASSUME NEW S
  PROVE  SignIn!Cardinality(S) = Cardinality(S)
  BY DEF SignIn!Cardinality, Cardinality

LEMMA IdleIs ==
  /\ SignIn!Idle \in Updates /\ SignIn!Idle.op = "idle" /\ SignIn!Idle.stage = "waiting"
  BY DEF SignIn!Idle, SignIn!Update, SignIn!NoApproval, Updates

LEMMA LockConstants ==
  /\ Unlocked \notin SignIn!Processes /\ Dead \notin SignIn!Processes /\ Unlocked # Dead
  /\ Servers \subseteq SignIn!Processes
  BY ServerAssumption DEF ServerAssumption, SignIn!OAuthAssumption, SignIn!Processes

LEMMA ClientIdsAre ==
  ASSUME NEW c \in Contents
  PROVE  \A i \in SignIn!ClientsOf(c) : i \in Nat
<1>1. c.clients \in Seq(ClientRecs)
  BY DEF Contents
<1>2. \A k \in DOMAIN c.clients : c.clients[k] \in ClientRecs
  BY <1>1
<1>. QED  BY <1>2 DEF SignIn!ClientsOf, ClientRecs

\* A process asks for an update, goes on with it short of writing, or gives it
\* up, with its copy as it was or the file's.
LEMMA AskStep ==
  ASSUME SignInNow, NEW p \in SignIn!Processes, NEW u \in Updates,
         update' = [update EXCEPT ![p] = u],
         u.stage # "written", update[p].stage # "written",
         u.op = "idle" => u = SignIn!Idle,
         u.op = "token" => u.approval # 0,
         minted' \in Nat, minted <= minted',
         \/ u.op # "register"
         \/ update[p].op = "register" /\ u.client = update[p].client
         \/ u.client = minted + 1 /\ minted' = minted + 1,
         NEW v, v = state[p] \/ v = register, state' = [state EXCEPT ![p] = v],
         register' = register, given' = given, ended' = ended, writes' = writes,
         DOMAIN codes' = Servers, \A s \in Servers : codes'[s] \subseteq given
  PROVE  RegisterShape' /\ CopiesGood' /\ NewcomersAreNew'
<1>1. /\ \A q \in SignIn!Processes : update'[q] = IF q = p THEN u ELSE update[q]
      /\ \A q \in SignIn!Processes : state'[q] = IF q = p THEN v ELSE state[q]
      /\ register \in Versioned /\ \A q \in SignIn!Processes : state[q] \in Versioned
  BY DEF SignInNow, RegisterShape
<1>2. RegisterShape'
  BY <1>1 DEF SignInNow, RegisterShape
<1>3. register.version \in Nat /\ v \in Versioned
  BY <1>1 DEF Versioned
<1>4. CopiesGood'
  <2>1. /\ v.version <= register.version
        /\ v.version = register.version => Good(v.content, given, ended)
    BY <1>3 DEF SignInNow, CopiesGood
  <2>2. ASSUME NEW q \in SignIn!Processes, update'[q].stage # "written"
        PROVE  /\ state'[q].version <= register.version
               /\ state'[q].version = register.version => Good(state'[q].content, given, ended)
    BY <1>1, <2>1, <2>2 DEF SignInNow, CopiesGood
  <2>3. ASSUME NEW q \in SignIn!Processes, update'[q].stage = "written"
        PROVE  q # p /\ update'[q] = update[q] /\ state'[q] = state[q]
    BY <1>1, <2>3
  <2>. QED  BY <2>2, <2>3 DEF SignInNow, CopiesGood
<1>5. NewcomersAreNew'
  <2>1. \A i \in SignIn!ClientsOf(register.content) : i \in Nat /\ i <= minted
    BY <1>1, ClientIdsAre DEF Versioned, SignInNow, NewcomersAreNew
  <2>2. ASSUME NEW q \in SignIn!Processes
        PROVE  \A i \in SignIn!ClientsOf(state[q].content) : i \in Nat /\ i <= minted
    BY <1>1, ClientIdsAre DEF Versioned, SignInNow, NewcomersAreNew
  <2>3. minted \in Nat /\ \A a \in given : a.client \in Nat /\ a.client <= minted
    BY DEF SignInNow, RegisterShape, NewcomersAreNew, ApprovalRecs
  <2>4. /\ \A i \in SignIn!ClientsOf(register.content) : i <= minted'
        /\ \A q \in SignIn!Processes : \A i \in SignIn!ClientsOf(state'[q].content) : i <= minted'
        /\ \A a \in given : a.client <= minted'
    BY <1>1, <2>1, <2>2, <2>3
  <2>5. \A q \in SignIn!Processes : update'[q].op = "token" => update'[q].approval # 0
    BY <1>1 DEF SignInNow, NewcomersAreNew
  <2>6. ASSUME NEW q \in SignIn!Processes, Registers(q)
        PROVE  /\ update[q].client \in Nat /\ update[q].client <= minted
               /\ update[q].client \notin SignIn!ClientsOf(register.content)
               /\ \A r \in SignIn!Processes : update[q].client \notin SignIn!ClientsOf(state[r].content)
               /\ \A a \in given : a.client # update[q].client
               /\ \A r \in SignIn!Processes : Registers(r) /\ q # r => update[q].client # update[r].client
    BY <2>6 DEF SignInNow, RegisterShape, Updates, NewcomersAreNew
  <2>7. ASSUME NEW q \in SignIn!Processes, update'[q].op = "register", update'[q].stage # "written"
        PROVE  /\ update'[q].client <= minted'
               /\ update'[q].client \notin SignIn!ClientsOf(register.content)
               /\ \A r \in SignIn!Processes : update'[q].client \notin SignIn!ClientsOf(state[r].content)
               /\ \A a \in given : a.client # update'[q].client
               /\ \/ Registers(q) /\ update'[q].client = update[q].client
                  \/ q = p /\ update'[q].client = minted + 1
    <3>1. CASE Registers(q) /\ update'[q].client = update[q].client
      BY <2>3, <2>6, <3>1
    <3>2. CASE q = p /\ update'[q].client = minted + 1 /\ minted' = minted + 1
      BY <2>1, <2>2, <2>3, <3>2
    <3>. QED  BY <1>1, <2>7, <3>1, <3>2 DEF Registers
  <2>8. ASSUME NEW q \in SignIn!Processes, update'[q].op = "register", update'[q].stage # "written",
               NEW r \in SignIn!Processes, update'[r].op = "register", update'[r].stage # "written", q # r
        PROVE  update'[q].client # update'[r].client
    <3>1. CASE Registers(q) /\ update'[q].client = update[q].client /\ Registers(r) /\ update'[r].client = update[r].client
      BY <2>6, <2>8, <3>1
    <3>2. CASE q = p /\ update'[q].client = minted + 1 /\ Registers(r) /\ update'[r].client = update[r].client
      BY <2>3, <2>6, <3>2
    <3>3. CASE r = p /\ update'[r].client = minted + 1 /\ Registers(q) /\ update'[q].client = update[q].client
      BY <2>3, <2>6, <3>3
    <3>. QED  BY <2>7, <2>8, <3>1, <3>2, <3>3
  <2>9. \A q \in SignIn!Processes : \A r \in SignIn!Processes : update'[q].op = "register" /\ update'[q].stage # "written"
           => update'[q].client \notin SignIn!ClientsOf(state'[r].content)
    BY <1>1, <2>7
  <2>. QED  BY <2>4, <2>5, <2>7, <2>8, <2>9 DEF NewcomersAreNew, Registers
<1>. QED  BY <1>2, <1>4, <1>5

LEMMA SignInShapes ==
  ASSUME SignInNow, NEW p \in SignIn!Processes
  PROVE  /\ register \in Versioned /\ state[p] \in Versioned /\ update[p] \in Updates
         /\ state = [state EXCEPT ![p] = state[p]] /\ minted \in Nat
         /\ DOMAIN update = SignIn!Processes /\ lock \in SignIn!Processes \union {Unlocked} /\ stale = {}
         /\ update[p].stage # "waiting" <=> lock = p
         /\ DOMAIN codes = Servers /\ \A s \in Servers : codes[s] \subseteq given
  BY DEF SignInNow, RegisterShape, LockHeld

\* A request waits, or is given up.
LEMMA WaitStep ==
  ASSUME SignInNow, NEW p \in SignIn!Processes, NEW u \in Updates,
         update' = [update EXCEPT ![p] = u],
         u.stage = "waiting", update[p].stage = "waiting",
         u.op = "idle" => u = SignIn!Idle,
         u.op = "token" => u.approval # 0,
         minted' \in Nat, minted <= minted',
         \/ u.op # "register"
         \/ update[p].op = "register" /\ u.client = update[p].client
         \/ u.client = minted + 1 /\ minted' = minted + 1,
         NEW v, v = state[p] \/ v = register, state' = [state EXCEPT ![p] = v],
         register' = register, given' = given, ended' = ended, writes' = writes,
         DOMAIN codes' = Servers, \A s \in Servers : codes'[s] \subseteq given,
         lock' = lock, stale' = stale
  PROVE  SignInNow'
<1>1. RegisterShape' /\ CopiesGood' /\ NewcomersAreNew'
  BY AskStep
<1>2. LockHeld'
  <2>1. \A q \in SignIn!Processes : update'[q].stage = update[q].stage
    BY DEF SignInNow, RegisterShape
  <2>. QED  BY <2>1 DEF SignInNow, LockHeld
<1>. QED  BY <1>1, <1>2 DEF SignInNow

LEMMA RegisterStep ==
  ASSUME SignInNow, NEW s \in Servers, SignIn!Register(s)
  PROVE  SignInNow'
<1> DEFINE u == SignIn!Update("register", minted + 1, 0, {})
<1>1. /\ minted' = minted + 1 /\ update[s] = SignIn!Idle /\ update' = [update EXCEPT ![s] = u]
      /\ UNCHANGED <<register, state, lock, stale, codes, given, ended, writes>>
  BY DEF SignIn!Register, SignIn!Ask, SignIn!NoApproval
<1>2. s \in SignIn!Processes
  BY LockConstants
<1>3. /\ minted \in Nat
      /\ state = [state EXCEPT ![s] = state[s]]
      /\ DOMAIN codes = Servers
      /\ \A r \in Servers : codes[r] \subseteq given
  BY <1>2, SignInShapes
<1>4. u \in Updates /\ u.op = "register" /\ u.stage = "waiting" /\ u.client = minted + 1
  BY <1>3 DEF SignIn!Update, Updates
<1> HIDE DEF u
<1>5. update[s].stage = "waiting"
  BY <1>1, IdleIs
<1>6. minted' \in Nat /\ minted <= minted' /\ state' = [state EXCEPT ![s] = state[s]]
  BY <1>1, <1>3
<1>. QED  BY <1>1, <1>2, <1>3, <1>4, <1>5, <1>6, WaitStep

LEMMA ReloadedIs ==
  ASSUME SignInNow, NEW p \in SignIn!Processes, update[p].stage # "written"
  PROVE  LET v == SignIn!Reloaded(p)
         IN  /\ v = state[p] \/ v = register
             /\ v \in Versioned /\ v.version = register.version /\ Good(v.content, given, ended)
             /\ \A i \in SignIn!ClientsOf(v.content) : i \in Nat /\ i <= minted
             /\ \A q \in SignIn!Processes : Registers(q) => update[q].client \notin SignIn!ClientsOf(v.content)
<1> DEFINE v == SignIn!Reloaded(p)
<1>1. register \in Versioned /\ state[p] \in Versioned
  BY SignInShapes
<1>2. v = IF register.version = state[p].version THEN state[p] ELSE register
  BY DEF SignIn!Reloaded
<1> HIDE DEF v
<1>3. v = state[p] \/ v = register
  BY <1>2
<1>4. v \in Versioned /\ v.version = register.version
  BY <1>1, <1>2
<1>5. Good(v.content, given, ended)
  BY <1>2 DEF SignInNow, CopiesGood
<1>6. \A i \in SignIn!ClientsOf(v.content) : i <= minted
  BY <1>3 DEF SignInNow, NewcomersAreNew
<1>7. \A i \in SignIn!ClientsOf(v.content) : i \in Nat
  BY <1>4, ClientIdsAre DEF Versioned
<1>8. \A q \in SignIn!Processes : Registers(q) => update[q].client \notin SignIn!ClientsOf(v.content)
  BY <1>3 DEF SignInNow, NewcomersAreNew
<1>. QED  BY <1>3, <1>4, <1>5, <1>6, <1>7, <1>8 DEF v

LEMMA DecideStep ==
  ASSUME SignInNow, NEW s \in Servers, NEW client, SignIn!Decide(s, client)
  PROVE  SignInNow'
<1> DEFINE u == SignIn!Update("decide", client, 0, {})
           v == SignIn!Reloaded(s)
<1>1. /\ client \in SignIn!ClientsOf(v.content)
      /\ state' = [state EXCEPT ![s] = v]
      /\ update[s] = SignIn!Idle /\ update' = [update EXCEPT ![s] = u]
      /\ UNCHANGED <<register, lock, stale, codes, given, ended, minted, writes>>
  BY DEF SignIn!Decide, SignIn!Ask, SignIn!NoApproval
<1>2. s \in SignIn!Processes /\ update[s].stage = "waiting"
  BY <1>1, LockConstants, IdleIs
<1>3. minted \in Nat /\ DOMAIN codes = Servers /\ \A r \in Servers : codes[r] \subseteq given
  BY <1>2, SignInShapes
<1>4. /\ v = state[s] \/ v = register
      /\ \A i \in SignIn!ClientsOf(v.content) : i \in Nat
  BY <1>2, ReloadedIs
<1>5. u \in Updates /\ u.op = "decide" /\ u.stage = "waiting"
  BY <1>1, <1>4 DEF SignIn!Update, Updates
<1> HIDE DEF u, v
<1>6. minted' \in Nat /\ minted <= minted'
  BY <1>1, <1>3
<1>. QED  BY <1>1, <1>2, <1>3, <1>4, <1>5, <1>6, WaitStep

LEMMA TokenStep ==
  ASSUME SignInNow, NEW s \in Servers, NEW code \in codes[s], NEW good \in BOOLEAN, SignIn!Token(s, code, good)
  PROVE  SignInNow'
<1> DEFINE u == IF good THEN SignIn!Update("token", code.client, code.approval, {}) ELSE SignIn!Idle
<1>1. /\ update[s] = SignIn!Idle
      /\ update' = [update EXCEPT ![s] = u] \/ (u = SignIn!Idle /\ update' = update)
      /\ codes' = [codes EXCEPT ![s] = @ \ {code}]
      /\ UNCHANGED <<register, state, lock, stale, given, ended, minted, writes>>
  BY DEF SignIn!Token, SignIn!Ask
<1>2. s \in SignIn!Processes /\ update[s].stage = "waiting"
  BY <1>1, LockConstants, IdleIs
<1>3. /\ minted \in Nat /\ state = [state EXCEPT ![s] = state[s]] /\ DOMAIN update = SignIn!Processes
      /\ DOMAIN codes = Servers /\ \A r \in Servers : codes[r] \subseteq given
  BY <1>2, SignInShapes
<1>4. update' = [update EXCEPT ![s] = u]
  <2>1. update = [update EXCEPT ![s] = update[s]]
    BY DEF SignInNow, RegisterShape
  <2> HIDE DEF u
  <2>. QED  BY <1>1, <2>1
<1>5. code \in ApprovalRecs /\ code.approval # 0
  BY <1>3 DEF SignInNow, RegisterShape
<1>6. u \in Updates /\ u.stage = "waiting" /\ (u.op = "token" => u.approval # 0) /\ u.op # "register"
      /\ (u.op = "idle" => u = SignIn!Idle)
  <2>1. CASE good
    BY <1>5, <2>1 DEF SignIn!Update, Updates, ApprovalRecs
  <2>2. CASE ~good
    BY <2>2, IdleIs
  <2>. QED  BY <2>1, <2>2
<1> HIDE DEF u
<1>7. DOMAIN codes' = Servers /\ \A r \in Servers : codes'[r] \subseteq given
  <2>1. DOMAIN codes' = Servers /\ \A r \in Servers : codes'[r] \subseteq codes[r]
    BY <1>1, <1>3
  <2>. QED  BY <1>3, <2>1
<1>8. minted' \in Nat /\ minted <= minted' /\ state' = [state EXCEPT ![s] = state[s]]
  BY <1>1, <1>3
<1>. QED  BY <1>1, <1>2, <1>4, <1>6, <1>7, <1>8, WaitStep

LEMMA RevokeStep ==
  ASSUME SignInNow, NEW o \in Operators, NEW clients \in SUBSET Nat, SignIn!Revoke(o, clients)
  PROVE  SignInNow'
<1> DEFINE u == SignIn!Update("revoke", 0, 0, clients)
<1>1. /\ update[o] = SignIn!Idle /\ update' = [update EXCEPT ![o] = u]
      /\ UNCHANGED <<register, state, lock, stale, codes, given, ended, minted, writes>>
  BY DEF SignIn!Revoke, SignIn!Ask, SignIn!NoApproval
<1>2. o \in SignIn!Processes /\ update[o].stage = "waiting"
  BY <1>1, IdleIs DEF SignIn!Processes
<1>3. /\ minted \in Nat
      /\ state = [state EXCEPT ![o] = state[o]]
      /\ DOMAIN codes = Servers
      /\ \A r \in Servers : codes[r] \subseteq given
  BY <1>2, SignInShapes
<1>4. u \in Updates /\ u.op = "revoke" /\ u.stage = "waiting"
  BY DEF SignIn!Update, Updates
<1> HIDE DEF u
<1>5. minted' \in Nat /\ minted <= minted' /\ state' = [state EXCEPT ![o] = state[o]]
  BY <1>1, <1>3
<1>. QED  BY <1>1, <1>2, <1>3, <1>4, <1>5, WaitStep

LEMMA GiveUpStep ==
  ASSUME SignInNow, NEW p \in SignIn!Processes, SignIn!GiveUp(p)
  PROVE  SignInNow'
<1>1. /\ update[p].stage = "waiting" /\ update' = [update EXCEPT ![p] = SignIn!Idle]
      /\ stale' = stale \ {p}
      /\ UNCHANGED <<register, state, lock, codes, given, ended, minted, writes>>
  BY DEF SignIn!GiveUp, SignIn!Waiting
<1>2. /\ minted \in Nat
      /\ state = [state EXCEPT ![p] = state[p]]
      /\ DOMAIN codes = Servers
      /\ (\A r \in Servers : codes[r] \subseteq given)
      /\ stale = {}
  BY SignInShapes
<1>3. minted' \in Nat /\ minted <= minted' /\ state' = [state EXCEPT ![p] = state[p]] /\ stale' = stale
  BY <1>1, <1>2
<1>. QED  BY <1>1, <1>2, <1>3, IdleIs, WaitStep

\* A process ends between updates, and starts again from the file.
LEMMA RestartStep ==
  ASSUME SignInNow, NEW p \in SignIn!Processes, SignIn!Restart(p), update[p] = SignIn!Idle, lock' = lock
  PROVE  SignInNow'
<1>1. /\ update' = [update EXCEPT ![p] = SignIn!Idle] /\ state' = [state EXCEPT ![p] = register]
      /\ codes' = [s \in Servers |-> IF s = p THEN {} ELSE codes[s]]
      /\ UNCHANGED <<register, stale, given, ended, minted, writes>>
  BY DEF SignIn!Restart
<1>2. minted \in Nat /\ DOMAIN codes = Servers /\ \A r \in Servers : codes[r] \subseteq given
  BY SignInShapes
<1>3. minted' \in Nat /\ minted <= minted' /\ DOMAIN codes' = Servers /\ \A r \in Servers : codes'[r] \subseteq given
  BY <1>1, <1>2
<1>. QED  BY <1>1, <1>3, IdleIs, WaitStep

LEMMA TakeLockStep ==
  ASSUME SignInNow, NEW p \in SignIn!Processes, SignIn!TakeLock(p)
  PROVE  SignInNow'
<1> DEFINE u == [update[p] EXCEPT !.stage = "locked"]
<1>1. /\ update[p] # SignIn!Idle /\ update[p].stage = "waiting" /\ lock = Unlocked /\ lock' = p
      /\ update' = [update EXCEPT ![p] = u]
      /\ UNCHANGED <<register, state, stale, codes, given, ended, minted, writes>>
  BY DEF SignIn!TakeLock, SignIn!Waiting
<1>2. /\ minted \in Nat
      /\ state = [state EXCEPT ![p] = state[p]]
      /\ DOMAIN codes = Servers
      /\ (\A r \in Servers : codes[r] \subseteq given)
      /\ update[p] \in Updates /\ (update[p].op = "idle" => update[p] = SignIn!Idle)
      /\ (update[p].op = "token" => update[p].approval # 0)
  BY SignInShapes DEF SignInNow, RegisterShape, NewcomersAreNew
<1>3. u \in Updates /\ u.op = update[p].op /\ u.client = update[p].client /\ u.approval = update[p].approval /\ u.stage = "locked"
  BY <1>2 DEF Updates
<1> HIDE DEF u
<1>4. minted' \in Nat /\ minted <= minted' /\ state' = [state EXCEPT ![p] = state[p]]
  BY <1>1, <1>2
<1>5. RegisterShape' /\ CopiesGood' /\ NewcomersAreNew'
  BY <1>1, <1>2, <1>3, <1>4, AskStep
<1>6. LockHeld'
  <2>1. \A q \in SignIn!Processes : update'[q] = IF q = p THEN u ELSE update[q]
    BY <1>1 DEF SignInNow, RegisterShape
  <2>. QED  BY <1>1, <1>3, <2>1, LockConstants DEF SignInNow, LockHeld
<1>. QED  BY <1>5, <1>6 DEF SignInNow

LEMMA GoodGrows ==
  ASSUME NEW c, NEW made, NEW more, NEW over, made \subseteq more, Good(c, made, over)
  PROVE  Good(c, more, over)
  BY DEF Good

\* What is made of content c by update u: content d, and approvals `made`.
Makes(c, u, d, made) ==
  /\ d \in Contents /\ Good(d, made, ended)
  /\ \A i \in SignIn!ClientsOf(d) : i \in SignIn!ClientsOf(c) \/ (u.op = "register" /\ i = u.client)
  /\ u.op = "revoke" => NothingOf(d, u.clients)
  /\ made \in SUBSET ApprovalRecs /\ IsFiniteSet(made) /\ given \subseteq made
  /\ \A a \in made : a.approval # 0 /\ a.approval <= Cardinality(made)
  /\ \A a \in made : a \in given \/ a.client \in SignIn!ClientsOf(c)

LEMMA GivenGrows ==
  ASSUME SignInNow, NEW x \in ApprovalRecs, x.approval = Cardinality(given) + 1,
         NEW made, made = given \union {x}
  PROVE  /\ made \in SUBSET ApprovalRecs /\ IsFiniteSet(made) /\ given \subseteq made
         /\ \A a \in made : a.approval # 0 /\ a.approval <= Cardinality(made)
         /\ x \notin ended /\ Cardinality(given) + 1 \in Nat
<1>1. /\ given \in SUBSET ApprovalRecs /\ IsFiniteSet(given) /\ ended \subseteq given
      /\ \A a \in given : a.approval \in Nat /\ a.approval # 0 /\ a.approval <= Cardinality(given)
  BY DEF SignInNow, RegisterShape, CopiesGood, ApprovalRecs
<1>2. Cardinality(given) \in Nat
  BY <1>1, FS_CardinalityType
<1>3. x \in ApprovalRecs /\ x.approval = Cardinality(given) + 1
  OBVIOUS
<1>4. x \notin given
  BY <1>1, <1>2, <1>3
<1>5. IsFiniteSet(made) /\ Cardinality(made) = Cardinality(given) + 1
  <2>1. IsFiniteSet(given \union {x}) /\ Cardinality(given \union {x}) = Cardinality(given) + 1
    BY <1>1, <1>4, FS_AddElement
  <2>. QED  BY <2>1
<1>6. \A a \in made : a.approval # 0 /\ a.approval <= Cardinality(made)
  <2>1. \A a \in given : a.approval # 0 /\ a.approval <= Cardinality(given) + 1
    BY <1>1, <1>2
  <2>2. x.approval # 0 /\ x.approval <= Cardinality(given) + 1
    BY <1>2, <1>3
  <2>. QED  BY <1>5, <2>1, <2>2
<1>. QED  BY <1>1, <1>2, <1>3, <1>4, <1>5, <1>6

\* The update a process is in, once its change is made, and the approvals then.
Asked(p) == [update[p] EXCEPT !.stage = "written", !.ends = given,
               !.approval = IF update[p].op = "decide" THEN SignIn!Cardinality(given) + 1 ELSE update[p].approval]
Made(u) == IF u.op = "decide" THEN given \union {[client |-> u.client, approval |-> u.approval]} ELSE given

LEMMA UpdateMakes ==
  ASSUME SignInNow, NEW c \in Contents, Good(c, given, ended),
         NEW u \in Updates, u.op # "idle", u.op = "token" => u.approval # 0,
         u.op = "register" => \A g \in given : g.client # u.client,
         u.op = "decide" => u.approval = Cardinality(given) + 1,
         ~SignIn!Refused(u, c)
  PROVE  Makes(c, u, SignIn!Changed(u, c), Made(u))
<1> DEFINE d == SignIn!Changed(u, c)
           x == [client |-> u.client, approval |-> u.approval]
           made == Made(u)
<1>2. /\ given \in SUBSET ApprovalRecs /\ IsFiniteSet(given)
      /\ \A a \in given : a.approval # 0 /\ a.approval <= Cardinality(given)
  BY DEF SignInNow, RegisterShape
<1>8. u.client \in Nat /\ u.approval \in Nat
  BY DEF Updates
<1>b. d = SignIn!Changed(u, c)
  OBVIOUS
<1>c. made = IF u.op = "decide" THEN given \union {x} ELSE given
  BY DEF Made
<1>d. x = [client |-> u.client, approval |-> u.approval]
  OBVIOUS
<1> HIDE DEF d, x, made
<1>a. SUFFICES Makes(c, u, d, made)
  BY DEF d, made
<1>9. CASE u.op = "register"
  <2>1. SignIn!RoomFor(c, [id |-> u.client, approval |-> 0]) # <<>>
    BY <1>9 DEF SignIn!Refused, SignIn!NoApproval
  <2>2. d = [c EXCEPT !.clients = SignIn!RoomFor(c, [id |-> u.client, approval |-> 0])]
    BY <1>b, <1>9 DEF SignIn!Changed, SignIn!NoApproval
  <2>3. \A g \in given : g.client # u.client
    BY <1>9
  <2>4. d \in Contents /\ Good(d, given, ended) /\ SignIn!ClientsOf(d) \subseteq SignIn!ClientsOf(c) \union {u.client}
    BY <1>8, <2>1, <2>2, <2>3, RegisterGood
  <2>5. Makes(c, u, d, given)
    BY <1>2, <1>9, <2>4 DEF Makes
  <2>. QED  BY <1>9, <1>c, <2>5
<1>10. CASE u.op = "decide"
  <2>1. made = given \union {x} /\ x \in ApprovalRecs /\ x.client = u.client /\ x.approval = Cardinality(given) + 1
        /\ x.approval = u.approval
    BY <1>8, <1>c, <1>d, <1>10 DEF ApprovalRecs
  <2>2. /\ made \in SUBSET ApprovalRecs /\ IsFiniteSet(made) /\ given \subseteq made
        /\ \A a \in made : a.approval # 0 /\ a.approval <= Cardinality(made)
        /\ x \notin ended
    BY <2>1, GivenGrows
  <2> DEFINE ids == {u.client}
  <2>3. d = [c EXCEPT !.clients = SignIn!Approve(c.clients, ids, x.approval)] /\ \A i : i \in ids <=> i = x.client
    BY <1>b, <1>10, <2>1 DEF SignIn!Changed
  <2> HIDE DEF ids
  <2>4. d \in Contents /\ Good(d, made, ended) /\ SignIn!ClientsOf(d) = SignIn!ClientsOf(c)
    BY <2>1, <2>2, <2>3, DecideGood
  <2>5. u.client \in SignIn!ClientsOf(c)
    BY <1>10 DEF SignIn!Refused
  <2>6. \A a \in made : a \in given \/ a.client \in SignIn!ClientsOf(c)
    BY <2>1, <2>5
  <2>. QED  BY <1>10, <2>2, <2>4, <2>6 DEF Makes
<1>11. CASE u.op = "token"
  <2>1. SignIn!ApprovalOf(c, u.client) = u.approval /\ u.approval \in Nat \ {0}
    BY <1>8, <1>11 DEF SignIn!Refused
  <2>2. d = [c EXCEPT !.tokens = SignIn!LastTokens(Append(c.tokens, [client |-> u.client, approval |-> u.approval]))]
    BY <1>b, <1>11 DEF SignIn!Changed
  <2>3. d \in Contents /\ Good(d, given, ended) /\ SignIn!ClientsOf(d) = SignIn!ClientsOf(c)
    BY <1>8, <2>1, <2>2, TokenGood
  <2>4. Makes(c, u, d, given)
    BY <1>2, <1>11, <2>3 DEF Makes
  <2>. QED  BY <1>11, <1>c, <2>4
<1>12. CASE u.op = "revoke"
  <2>1. d = [clients |-> SignIn!Approve(c.clients, u.clients, 0),
             tokens |-> SignIn!Keeping(c.tokens, OthersTokens(c, u.clients))]
    BY <1>b, <1>12 DEF SignIn!Changed, SignIn!NoApproval, OthersTokens
  <2>a. OthersTokens(c, u.clients) \in SUBSET DOMAIN c.tokens
    BY DEF OthersTokens
  <2>b. /\ d \in Contents /\ d.clients = SignIn!Approve(c.clients, u.clients, 0)
        /\ d.tokens = SignIn!Keeping(c.tokens, OthersTokens(c, u.clients))
    BY <2>1, <2>a, RevokedIs
  <2>2. Good(d, given, ended) /\ NothingOf(d, u.clients) /\ SignIn!ClientsOf(d) = SignIn!ClientsOf(c)
    BY <2>b, RevokeGood
  <2>3. Makes(c, u, d, given)
    BY <1>2, <1>12, <2>2, <2>b DEF Makes
  <2>. QED  BY <1>12, <1>c, <2>3
<1>13. u.op \in {"register", "decide", "token", "revoke"}
  BY DEF Updates
<1>. QED  BY <1>9, <1>10, <1>11, <1>12, <1>13

LEMMA ChangedIs ==
  ASSUME SignInNow, NEW p \in SignIn!Processes, update[p] # SignIn!Idle, update[p].stage = "locked",
         ~SignIn!Refused(Asked(p), SignIn!Reloaded(p).content)
  PROVE  /\ Asked(p) \in Updates /\ Asked(p).stage = "written" /\ Asked(p).ends = given
         /\ Asked(p).op = update[p].op /\ Asked(p).client = update[p].client
         /\ (Asked(p).op = "token" => Asked(p).approval # 0) /\ Asked(p).op # "idle"
         /\ Makes(SignIn!Reloaded(p).content, Asked(p), SignIn!Changed(Asked(p), SignIn!Reloaded(p).content), Made(Asked(p)))
<1> DEFINE u == Asked(p)
<1>1. update[p] \in Updates /\ update[p].op # "idle" /\ given \in SUBSET ApprovalRecs /\ IsFiniteSet(given)
  BY DEF SignInNow, RegisterShape
<1>2. SignIn!Cardinality(given) = Cardinality(given) /\ Cardinality(given) + 1 \in Nat
  BY <1>1, SignInCounts, FS_CardinalityType
<1>3. /\ u \in Updates /\ u.stage = "written" /\ u.ends = given /\ u.op = update[p].op /\ u.client = update[p].client
      /\ u.approval = IF u.op = "decide" THEN Cardinality(given) + 1 ELSE update[p].approval
  BY <1>1, <1>2 DEF Updates, Asked
<1>7. ~SignIn!Refused(u, SignIn!Reloaded(p).content)
  OBVIOUS
<1> HIDE DEF u
<1>4. SignIn!Reloaded(p).content \in Contents /\ Good(SignIn!Reloaded(p).content, given, ended)
  BY ReloadedIs DEF Versioned
<1>5. /\ u.op = "token" => u.approval # 0
      /\ u.op = "register" => \A g \in given : g.client # u.client
      /\ u.op = "decide" => u.approval = Cardinality(given) + 1
      /\ u.op # "idle"
  BY <1>1, <1>3 DEF SignInNow, NewcomersAreNew, Registers
<1>6. Makes(SignIn!Reloaded(p).content, u, SignIn!Changed(u, SignIn!Reloaded(p).content), Made(u))
  BY <1>3, <1>4, <1>5, <1>7, UpdateMakes
<1>. QED  BY <1>3, <1>5, <1>6 DEF u

\* A change is written, to be renamed, or stays in the copy it was made in.
LEMMA ChangedStep ==
  ASSUME SignInNow, NEW p \in SignIn!Processes, update[p].stage = "locked",
         NEW d, NEW made, NEW u \in Updates, u.op = update[p].op, u.client = update[p].client,
         Makes(SignIn!Reloaded(p).content, u, d, made),
         NEW v, v.content = d, NEW w \in Updates,
         v \in Versioned,
         \/ /\ w = u /\ u.stage = "written" /\ u.ends = given /\ u.op # "idle" /\ (u.op = "token" => u.approval # 0)
            /\ v.version = writes + 1 /\ writes' = writes + 1
         \/ w = SignIn!Idle /\ v.version = register.version /\ writes' = writes,
         update' = [update EXCEPT ![p] = w], state' = [state EXCEPT ![p] = v],
         register' = register, ended' = ended, minted' = minted, given' = made,
         DOMAIN codes' = Servers, \A s \in Servers : codes'[s] \subseteq made
  PROVE  RegisterShape' /\ CopiesGood' /\ NewcomersAreNew'
<1> DEFINE c == SignIn!Reloaded(p).content
<1>1. /\ \A q \in SignIn!Processes : update'[q] = IF q = p THEN w ELSE update[q]
      /\ \A q \in SignIn!Processes : state'[q] = IF q = p THEN v ELSE state[q]
      /\ register \in Versioned /\ register.version \in Nat /\ writes \in Nat /\ minted \in Nat
      /\ register.version <= writes
  BY DEF SignInNow, RegisterShape, CopiesGood, Versioned
<1>2. /\ d \in Contents /\ Good(d, made, ended) /\ given \subseteq made
      /\ \A i \in SignIn!ClientsOf(d) : i \in SignIn!ClientsOf(c) \/ (u.op = "register" /\ i = u.client)
      /\ u.op = "revoke" => NothingOf(d, u.clients)
      /\ made \in SUBSET ApprovalRecs /\ IsFiniteSet(made)
      /\ \A a \in made : a.approval # 0 /\ a.approval <= Cardinality(made)
      /\ \A a \in made : a \in given \/ a.client \in SignIn!ClientsOf(c)
  BY DEF Makes
<1>3. /\ \A i \in SignIn!ClientsOf(c) : i \in Nat /\ i <= minted
      /\ \A q \in SignIn!Processes : Registers(q) => update[q].client \notin SignIn!ClientsOf(c)
  BY ReloadedIs
<1> HIDE DEF c
<1>4. w.op = "idle" => w = SignIn!Idle
  OBVIOUS
<1>5. RegisterShape'
  BY <1>1, <1>2, <1>4 DEF SignInNow, RegisterShape
<1>6. \A q \in SignIn!Processes : q # p => update[q].stage = "waiting"
  BY DEF SignInNow, LockHeld
<1>7. CopiesGood'
  <2>1. ASSUME NEW q \in SignIn!Processes, update'[q].stage # "written"
        PROVE  /\ state'[q].version <= register.version
               /\ state'[q].version = register.version => Good(state'[q].content, made, ended)
    <3>1. CASE q = p
      BY <1>1, <1>2, <2>1, <3>1
    <3>2. CASE q # p
      <4>1. /\ state[q].version <= register.version
            /\ state[q].version = register.version => Good(state[q].content, given, ended)
        BY <1>6, <3>2 DEF SignInNow, CopiesGood
      <4>. QED  BY <1>1, <1>2, <3>2, <4>1, GoodGrows
    <3>. QED  BY <3>1, <3>2
  <2>2. ASSUME NEW q \in SignIn!Processes, update'[q].stage = "written"
        PROVE  /\ register.version < state'[q].version /\ state'[q].version <= writes'
               /\ Good(state'[q].content, made, ended)
               /\ update'[q].ends \subseteq made
               /\ update'[q].op = "revoke" => NothingOf(state'[q].content, update'[q].clients)
    <3>1. q = p /\ w.stage = "written"
      BY <1>1, <1>6, <2>2
    <3>2. w = u /\ u.ends = given /\ v.version = writes + 1 /\ writes' = writes + 1
      BY <3>1, IdleIs
    <3>3. update'[q] = u /\ state'[q] = v
      BY <1>1, <3>1, <3>2
    <3>. QED  BY <1>1, <1>2, <3>2, <3>3
  <2>3. Good(register.content, made, ended) /\ register.version <= writes' /\ ended \subseteq made
    <3>1. Good(register.content, given, ended) /\ ended \subseteq given
      BY DEF SignInNow, CopiesGood
    <3>. QED  BY <1>1, <1>2, <3>1, GoodGrows
  <2>. QED  BY <2>1, <2>2, <2>3 DEF CopiesGood
<1>8. NewcomersAreNew'
  <2>1. \A q \in SignIn!Processes : update'[q].op = "register" /\ update'[q].stage # "written"
                => q # p /\ Registers(q) /\ update'[q] = update[q]
    BY <1>1, IdleIs DEF Registers
  <2>2. \A i \in SignIn!ClientsOf(d) : i <= minted
    BY <1>2, <1>3 DEF SignInNow, NewcomersAreNew, Registers
  <2>3. \A a \in made : a.client <= minted
    BY <1>2, <1>3 DEF SignInNow, NewcomersAreNew
  <2>4. \A q \in SignIn!Processes : update'[q].op = "token" => update'[q].approval # 0
    BY <1>1, IdleIs DEF SignInNow, NewcomersAreNew
  <2>5. /\ \A i \in SignIn!ClientsOf(register.content) : i <= minted
        /\ \A q \in SignIn!Processes : \A i \in SignIn!ClientsOf(state'[q].content) : i <= minted
    BY <1>1, <2>2 DEF SignInNow, NewcomersAreNew
  <2>6. ASSUME NEW q \in SignIn!Processes, q # p, Registers(q)
        PROVE  /\ update[q].client <= minted
               /\ update[q].client \notin SignIn!ClientsOf(register.content)
               /\ \A r \in SignIn!Processes : update[q].client \notin SignIn!ClientsOf(state'[r].content)
               /\ \A a \in made : a.client # update[q].client
               /\ \A r \in SignIn!Processes : Registers(r) /\ q # r => update[q].client # update[r].client
    <3>1. update[q].client \notin SignIn!ClientsOf(d)
      <4>1. u.op = "register" => Registers(p)
        BY DEF Registers
      <4>2. Registers(p) => update[q].client # update[p].client
        BY <2>6 DEF SignInNow, NewcomersAreNew
      <4>. QED  BY <1>2, <1>3, <2>6, <4>1, <4>2
    <3>2. \A r \in SignIn!Processes : update[q].client \notin SignIn!ClientsOf(state'[r].content)
      BY <1>1, <2>6, <3>1 DEF SignInNow, NewcomersAreNew
    <3>3. \A a \in made : a.client # update[q].client
      BY <1>2, <1>3, <2>6 DEF SignInNow, NewcomersAreNew
    <3>. QED  BY <2>6, <3>2, <3>3 DEF SignInNow, NewcomersAreNew
  <2>. QED  BY <2>1, <2>3, <2>4, <2>5, <2>6 DEF NewcomersAreNew, Registers
<1>. QED  BY <1>5, <1>7, <1>8

LEMMA ChangeStep ==
  ASSUME SignInNow, NEW p \in SignIn!Processes, SignIn!Change(p)
  PROVE  SignInNow'
<1> DEFINE mine == SignIn!Reloaded(p)
           u == Asked(p)
           d == SignIn!Changed(u, mine.content)
           code == [client |-> u.client, approval |-> u.approval]
           made == Made(u)
           written == [content |-> d, version |-> writes + 1]
           failed == [content |-> d, version |-> mine.version]
<1>1. /\ update[p] # SignIn!Idle /\ update[p].stage = "locked"
      /\ UNCHANGED <<register, stale, ended, minted>>
  BY DEF SignIn!Change
<1>2. \/ /\ SignIn!Refused(u, mine.content)
         /\ state' = [state EXCEPT ![p] = mine]
         /\ update' = [update EXCEPT ![p] = SignIn!Idle] /\ lock' = Unlocked
         /\ UNCHANGED <<codes, given, writes>>
      \/ /\ ~SignIn!Refused(u, mine.content)
         /\ IF u.op # "decide" THEN UNCHANGED <<codes, given>>
            ELSE codes' = [codes EXCEPT ![p] = @ \union {code}] /\ given' = given \union {code}
         /\ \/ /\ state' = [state EXCEPT ![p] = written] /\ writes' = writes + 1
               /\ update' = [update EXCEPT ![p] = u] /\ lock' = lock
            \/ /\ state' = [state EXCEPT ![p] = failed] /\ writes' = writes
               /\ update' = [update EXCEPT ![p] = SignIn!Idle] /\ lock' = Unlocked
  BY DEF SignIn!Change, Asked
<1>3. /\ minted \in Nat /\ lock = p /\ DOMAIN codes = Servers /\ \A s \in Servers : codes[s] \subseteq given
  BY <1>1, SignInShapes
<1>4. /\ mine = state[p] \/ mine = register
      /\ mine \in Versioned /\ mine.version = register.version
  BY <1>1, ReloadedIs
<1>5. minted' \in Nat /\ minted <= minted'
  BY <1>1, <1>3
<1>6. CASE SignIn!Refused(u, mine.content)
  <2>1. /\ state' = [state EXCEPT ![p] = mine]
        /\ update' = [update EXCEPT ![p] = SignIn!Idle] /\ lock' = Unlocked
        /\ UNCHANGED <<codes, given, writes>>
    BY <1>2, <1>6
  <2> HIDE DEF mine, u
  <2>2. RegisterShape' /\ CopiesGood' /\ NewcomersAreNew'
    BY <1>1, <1>3, <1>4, <1>5, <2>1, IdleIs, AskStep
  <2>3. LockHeld'
    <3>1. \A q \in SignIn!Processes : update'[q] = IF q = p THEN SignIn!Idle ELSE update[q]
      BY <2>1 DEF SignInNow, RegisterShape
    <3>. QED  BY <1>1, <1>3, <2>1, <3>1, IdleIs, LockConstants DEF SignInNow, LockHeld
  <2>. QED  BY <2>2, <2>3 DEF SignInNow
<1>7. CASE ~SignIn!Refused(u, mine.content)
  <2>1. /\ u \in Updates /\ u.stage = "written" /\ u.ends = given /\ u.op = update[p].op /\ u.client = update[p].client
        /\ (u.op = "token" => u.approval # 0) /\ u.op # "idle"
        /\ Makes(mine.content, u, d, made)
    BY <1>1, <1>7, ChangedIs
  <2>2. d \in Contents /\ given \subseteq made
    BY <2>1 DEF Makes
  <2>3. written \in Versioned /\ failed \in Versioned /\ written.content = d /\ failed.content = d
        /\ written.version = writes + 1 /\ failed.version = register.version
    <3>1. writes \in Nat /\ register.version \in Nat
      BY <1>4 DEF SignInNow, RegisterShape, Versioned
    <3>2. register.version = mine.version
      BY <1>4
    <3> HIDE DEF d, mine
    <3>. QED  BY <2>2, <3>1, <3>2 DEF Versioned
  <2>4. given' = made /\ DOMAIN codes' = Servers /\ \A s \in Servers : codes'[s] \subseteq made
    <3>1. CASE u.op # "decide"
      BY <1>2, <1>3, <1>7, <3>1 DEF Made
    <3>2. CASE u.op = "decide"
      <4>1. codes' = [codes EXCEPT ![p] = @ \union {code}] /\ given' = given \union {code} /\ made = given \union {code}
        BY <1>2, <1>7, <3>2 DEF Made
      <4> HIDE DEF code, u, made
      <4>2. DOMAIN codes' = Servers /\ \A s \in Servers : codes'[s] \subseteq codes[s] \union {code}
        <5>1. codes' = [codes EXCEPT ![p] = codes[p] \union {code}]
          BY <4>1
        <5>2. \A s \in Servers : codes'[s] = IF s = p THEN codes[p] \union {code} ELSE codes[s]
          BY <1>3, <5>1
        <5>. QED  BY <1>3, <5>1, <5>2
      <4>. QED  BY <1>3, <4>1, <4>2
    <3>. QED  BY <3>1, <3>2
  <2>5. \/ /\ state' = [state EXCEPT ![p] = written] /\ writes' = writes + 1
           /\ update' = [update EXCEPT ![p] = u] /\ lock' = lock
        \/ /\ state' = [state EXCEPT ![p] = failed] /\ writes' = writes
           /\ update' = [update EXCEPT ![p] = SignIn!Idle] /\ lock' = Unlocked
    BY <1>2, <1>7
  <2> HIDE DEF u, d, code, made, written, failed
  <2>6. RegisterShape' /\ CopiesGood' /\ NewcomersAreNew'
    <3>1. CASE state' = [state EXCEPT ![p] = written] /\ writes' = writes + 1 /\ update' = [update EXCEPT ![p] = u]
      BY <1>1, <2>1, <2>3, <2>4, <3>1, ChangedStep
    <3>2. CASE state' = [state EXCEPT ![p] = failed] /\ writes' = writes /\ update' = [update EXCEPT ![p] = SignIn!Idle]
      BY <1>1, <2>1, <2>3, <2>4, <3>2, IdleIs, ChangedStep
    <3>. QED  BY <2>5, <3>1, <3>2
  <2>7. LockHeld'
    <3>1. CASE update' = [update EXCEPT ![p] = u] /\ lock' = lock
      <4>1. \A q \in SignIn!Processes : update'[q] = IF q = p THEN u ELSE update[q]
        BY <3>1 DEF SignInNow, RegisterShape
      <4>. QED  BY <1>1, <1>3, <2>1, <3>1, <4>1 DEF SignInNow, LockHeld
    <3>2. CASE update' = [update EXCEPT ![p] = SignIn!Idle] /\ lock' = Unlocked
      <4>1. \A q \in SignIn!Processes : update'[q] = IF q = p THEN SignIn!Idle ELSE update[q]
        BY <3>2 DEF SignInNow, RegisterShape
      <4>. QED  BY <1>1, <1>3, <3>2, <4>1, IdleIs, LockConstants DEF SignInNow, LockHeld
    <3>. QED  BY <2>5, <3>1, <3>2
  <2>. QED  BY <2>6, <2>7 DEF SignInNow
<1>. QED  BY <1>6, <1>7

\* What holds nothing of some clients is good when their approvals are over.
LEMMA StillGood ==
  ASSUME NEW c, NEW made, NEW over, NEW clients, NEW ends, Good(c, made, over), NothingOf(c, clients)
  PROVE  Good(c, made, over \union {a \in ends : a.client \in clients})
<1> DEFINE more == over \union {a \in ends : a.client \in clients}
<1>1. \A a : a \in more => a \in over \/ a.client \in clients
  OBVIOUS
<1> HIDE DEF more
<1>2. \A i \in DOMAIN c.tokens : c.tokens[i] \notin more
  BY <1>1 DEF Good, NothingOf
<1>3. ASSUME NEW i \in DOMAIN c.clients, c.clients[i].approval # 0
      PROVE  /\ [client |-> c.clients[i].id, approval |-> c.clients[i].approval] \in made
             /\ [client |-> c.clients[i].id, approval |-> c.clients[i].approval] \notin more
  <2> DEFINE x == [client |-> c.clients[i].id, approval |-> c.clients[i].approval]
  <2>1. x \in made /\ x \notin over
    BY <1>3 DEF Good
  <2>2. x.client \notin clients
    BY <1>3 DEF NothingOf
  <2>. QED  BY <1>1, <2>1, <2>2
<1>4. Good(c, made, more)
  BY <1>2, <1>3 DEF Good
<1>. QED  BY <1>4 DEF more

LEMMA RenameStep ==
  ASSUME SignInNow, NEW p \in SignIn!Processes, SignIn!Rename(p)
  PROVE  SignInNow'
<1> DEFINE over == IF update[p].op # "revoke" THEN ended
                   ELSE ended \union {a \in update[p].ends : a.client \in update[p].clients}
<1>1. /\ update[p].stage = "written" /\ register' = state[p] /\ ended' = over
      /\ update' = [update EXCEPT ![p] = SignIn!Idle] /\ lock' = Unlocked
      /\ UNCHANGED <<state, stale, codes, given, minted, writes>>
  BY DEF SignIn!Rename
<1>2. /\ lock = p /\ state[p] \in Versioned /\ register \in Versioned
  BY <1>1, SignInShapes
<1>3. \A q \in SignIn!Processes : update'[q] = IF q = p THEN SignIn!Idle ELSE update[q]
  BY <1>1 DEF SignInNow, RegisterShape
<1>4. \A q \in SignIn!Processes : q # p => update[q].stage = "waiting"
  BY <1>2 DEF SignInNow, LockHeld
<1>5. /\ register.version < state[p].version /\ state[p].version <= writes
      /\ Good(state[p].content, given, ended) /\ update[p].ends \subseteq given /\ ended \subseteq given
      /\ update[p].op = "revoke" => NothingOf(state[p].content, update[p].clients)
  BY <1>1 DEF SignInNow, CopiesGood
<1>6. Good(state[p].content, given, over) /\ over \subseteq given
  <2>1. CASE update[p].op # "revoke"
    BY <1>5, <2>1
  <2>2. CASE update[p].op = "revoke"
    BY <1>5, <2>2, StillGood
  <2>. QED  BY <2>1, <2>2
<1> HIDE DEF over
<1>7. RegisterShape'
  BY <1>1, <1>2, <1>3, IdleIs DEF SignInNow, RegisterShape
<1>8. LockHeld'
  BY <1>1, <1>2, <1>3, IdleIs, LockConstants DEF SignInNow, LockHeld
<1>9. CopiesGood'
  <2>1. \A q \in SignIn!Processes : update'[q].stage = "waiting"
    BY <1>3, <1>4, IdleIs
  <2>2. ASSUME NEW q \in SignIn!Processes
        PROVE  /\ state[q].version <= state[p].version
               /\ state[q].version = state[p].version => Good(state[q].content, given, over)
    <3>1. CASE q = p
      BY <1>2, <1>6, <3>1 DEF Versioned
    <3>2. CASE q # p
      <4>1. state[q].version <= register.version
        BY <1>4, <3>2 DEF SignInNow, CopiesGood
      <4>2. state[q].version \in Nat /\ register.version \in Nat /\ state[p].version \in Nat
        BY <1>2 DEF SignInNow, RegisterShape, Versioned
      <4>. QED  BY <1>5, <4>1, <4>2
    <3>. QED  BY <3>1, <3>2
  <2>. QED  BY <1>1, <1>5, <1>6, <2>1, <2>2 DEF CopiesGood
<1>10. NewcomersAreNew'
  <2>1. \A q \in SignIn!Processes : update'[q].op \in {"register", "token"} => q # p /\ update'[q] = update[q]
    BY <1>3, IdleIs
  <2>. QED  BY <1>1, <2>1 DEF SignInNow, NewcomersAreNew, Registers
<1>. QED  BY <1>7, <1>8, <1>9, <1>10 DEF SignInNow

\* While no process has died inside an update; none can take it back.
SignInHeld == deaths \in Nat /\ (deaths = 0 => SignInNow)

LEMMA SignInStep ==
  ASSUME SignInHeld, [Next]_serverVars
  PROVE  SignInHeld'
<1>1. SignIn!Next \/ UNCHANGED signInPart
  BY DEF Next, serverVars
<1>2. CASE UNCHANGED signInPart
  <2>1. deaths' = deaths /\ (SignInNow => SignInNow')
    BY <1>2 DEF signInPart, SignInNow, RegisterShape, LockHeld, CopiesGood, NewcomersAreNew, Registers
  <2>. QED  BY <2>1 DEF SignInHeld
<1>3. ASSUME NEW s \in Servers, SignIn!Register(s)
      PROVE  SignInHeld'
  BY <1>3, RegisterStep DEF SignInHeld, SignIn!Register
<1>4. ASSUME NEW s \in Servers, NEW client, SignIn!Decide(s, client)
      PROVE  SignInHeld'
  BY <1>4, DecideStep DEF SignInHeld, SignIn!Decide
<1>5. ASSUME NEW s \in Servers, NEW code \in codes[s], NEW good \in BOOLEAN, SignIn!Token(s, code, good)
      PROVE  SignInHeld'
  BY <1>5, TokenStep DEF SignInHeld, SignIn!Token
<1>6. ASSUME NEW o \in Operators, NEW clients \in {{c} : c \in 1..minted} \union {1..minted}, SignIn!Revoke(o, clients)
      PROVE  SignInHeld'
  <2>2. deaths' = deaths
    BY <1>6 DEF SignIn!Revoke
  <2>3. SignInNow => clients \in SUBSET Nat
    <3>1. SignInNow => minted \in Nat
      BY DEF SignInNow, RegisterShape
    <3>2. \A c \in 1..minted : {c} \in SUBSET (1..minted)
      OBVIOUS
    <3>3. clients \in SUBSET (1..minted)
      BY <3>2
    <3>4. minted \in Nat => \A i \in 1..minted : i \in Nat
      OBVIOUS
    <3>. QED  BY <3>1, <3>3, <3>4
  <2>. QED  BY <1>6, <2>2, <2>3, RevokeStep DEF SignInHeld
<1>7. ASSUME NEW p \in SignIn!Processes, SignIn!TakeLock(p)
      PROVE  SignInHeld'
  BY <1>7, TakeLockStep DEF SignInHeld, SignIn!TakeLock
<1>8. ASSUME NEW p \in SignIn!Processes, SignIn!JudgeStale(p)
      PROVE  SignInHeld'
  <2>1. ~SignInNow /\ deaths' = deaths
    BY <1>8, LockConstants DEF SignIn!JudgeStale, SignInNow, LockHeld
  <2>. QED  BY <2>1 DEF SignInHeld
<1>9. ASSUME NEW p \in SignIn!Processes, SignIn!RemoveStale(p)
      PROVE  SignInHeld'
  <2>1. ~SignInNow /\ deaths' = deaths
    BY <1>9 DEF SignIn!RemoveStale, SignInNow, LockHeld
  <2>. QED  BY <2>1 DEF SignInHeld
<1>10. ASSUME NEW p \in SignIn!Processes, SignIn!GiveUp(p)
       PROVE  SignInHeld'
  BY <1>10, GiveUpStep DEF SignInHeld, SignIn!GiveUp
<1>11. ASSUME NEW p \in SignIn!Processes, SignIn!Change(p)
       PROVE  SignInHeld'
  <2>1. deaths' = deaths
    BY <1>11 DEF SignIn!Change
  <2>. QED  BY <1>11, <2>1, ChangeStep DEF SignInHeld
<1>12. ASSUME NEW p \in SignIn!Processes, SignIn!Rename(p)
       PROVE  SignInHeld'
  <2>1. deaths' = deaths
    BY <1>12 DEF SignIn!Rename
  <2>. QED  BY <1>12, <2>1, RenameStep DEF SignInHeld
<1>13. ASSUME NEW p \in SignIn!Processes, SignIn!Restart(p)
       PROVE  SignInHeld'
  <2>1. \/ update[p] = SignIn!Idle /\ lock' = lock /\ deaths' = deaths
        \/ deaths' = deaths + 1
    BY <1>13 DEF SignIn!Restart
  <2>2. CASE deaths' = deaths + 1
    BY <2>2 DEF SignInHeld
  <2>3. CASE update[p] = SignIn!Idle /\ lock' = lock /\ deaths' = deaths
    BY <1>13, <2>3, RestartStep DEF SignInHeld
  <2>. QED  BY <2>1, <2>2, <2>3
<1>. QED  BY <1>1, <1>2, <1>3, <1>4, <1>5, <1>6, <1>7, <1>8, <1>9, <1>10, <1>11, <1>12, <1>13 DEF SignIn!Next

LEMMA SignInInit ==
  ASSUME Init
  PROVE  SignInHeld
<1> DEFINE none == [clients |-> <<>>, tokens |-> <<>>]
           start == [content |-> none, version |-> 0]
<1>1. /\ register = start /\ state = [p \in SignIn!Processes |-> start]
      /\ lock = Unlocked /\ stale = {} /\ update = [p \in SignIn!Processes |-> SignIn!Idle]
      /\ codes = [s \in Servers |-> {}] /\ given = {} /\ ended = {}
      /\ minted = 0 /\ writes = 0 /\ deaths = 0
  BY DEF Init, SignIn!Init, SignIn!Empty
<1>2. none \in Contents /\ DOMAIN none.clients = {} /\ DOMAIN none.tokens = {}
  <2>1. <<>> \in Seq(ClientRecs) /\ <<>> \in Seq(ApprovalRecs)
    OBVIOUS
  <2>. QED  BY <2>1 DEF Contents
<1>3. Good(none, {}, {}) /\ SignIn!ClientsOf(none) = {}
  BY <1>2 DEF Good, SignIn!ClientsOf
<1> HIDE DEF none
<1>4. start \in Versioned /\ start.version = 0 /\ start.content = none
  BY <1>2 DEF Versioned
<1> HIDE DEF start
<1>5. \A p \in SignIn!Processes : state[p] = start /\ update[p] = SignIn!Idle
  BY <1>1
<1>6. RegisterShape
  BY <1>1, <1>4, <1>5, IdleIs, FS_EmptySet DEF RegisterShape
<1>7. LockHeld
  BY <1>1, <1>5, IdleIs, LockConstants DEF LockHeld
<1>8. CopiesGood
  BY <1>1, <1>3, <1>4, <1>5, IdleIs DEF CopiesGood
<1>9. NewcomersAreNew
  BY <1>1, <1>3, <1>4, <1>5, IdleIs DEF NewcomersAreNew, Registers
<1>. QED  BY <1>1, <1>6, <1>7, <1>8, <1>9 DEF SignInHeld, SignInNow

LEMMA SignInShows ==
  ASSUME SignInHeld
  PROVE  SignIn!RegisterSafe
<1> SUFFICES ASSUME deaths = 0
             PROVE  SignIn!RevokedStaysRevoked /\ SignIn!HoldersKeepTheirSlot
  BY DEF SignIn!RegisterSafe
<1>1. Good(register.content, given, ended)
  BY DEF SignInHeld, SignInNow, CopiesGood
<1>. QED  BY <1>1 DEF Good, SignIn!Tokens, SignIn!RevokedStaysRevoked, SignIn!HoldersKeepTheirSlot

\* While no process has died inside an update of the client register, what a
\* finished revoke took back stays back, however redemptions, approvals,
\* registrations, failed writes and restarts of any number of processes fall
\* around it, and whoever holds a token keeps its registration.
THEOREM RevokesStand == Spec => []SignIn!RegisterSafe
<1>1. Init => SignInHeld
  BY SignInInit
<1>2. SignInHeld /\ [Next]_serverVars => SignInHeld'
  BY SignInStep
<1>3. SignInHeld => SignIn!RegisterSafe
  BY SignInShows
<1>. QED  BY <1>1, <1>2, <1>3, PTL DEF Spec

-----------------------------------------------------------------------------
(* The three together.                                                     *)

\* A finished revoke holds and a holder of a token keeps its registration, no
\* session is ended while it serves, and a caller acts on its own tasks, under
\* its own name and within its own rate.
THEOREM CallersStayApart == Spec => []CallersKeepApart
<1>1. Init => SignInHeld /\ SessionsCount /\ OnePage /\ McpHeld
  BY SignInInit, HttpInit, McpHeldInit
<1>2. SignInHeld /\ SessionsCount /\ OnePage /\ McpHeld /\ [Next]_serverVars
        => (SignInHeld /\ SessionsCount /\ OnePage /\ McpHeld)'
  <2>1. SessionsCount => opened \in Nat
    BY DEF SessionsCount
  <2>. QED  BY <2>1, SignInStep, CountsStep, OnePageStep, McpHeldNext
<1>3. SignInHeld /\ SessionsCount /\ OnePage /\ McpHeld => CallersKeepApart
  BY SignInShows, HttpShows, McpHeldShows DEF CallersKeepApart
<1>. QED  BY <1>1, <1>2, <1>3, PTL DEF Spec
=============================================================================
