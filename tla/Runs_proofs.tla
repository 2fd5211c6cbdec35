---------------------------- MODULE Runs_proofs ----------------------------
(***************************************************************************)
(* Proofs about MCRuns. Of Grants: sums over sets of tasks, that a task at *)
(* rest whose effect may have gone out is on record, and that the one      *)
(* grant of one process never funds more than it says. Of a run: that its  *)
(* steps take effect in their order, an operator's halt is ended by an     *)
(* operator only, and a condition is decided once. Of judgements: that a   *)
(* task ends as it was answered, and that an answer stands.                *)
(***************************************************************************)
EXTENDS MCRuns, FiniteSetTheorems, SequenceTheorems, WellFoundedInduction, TLAPS


-----------------------------------------------------------------------------
(* Sums over finite sets.                                                  *)

\* A family that has the empty set, and with each set its extensions by one
\* element of a finite S, has S.
LEMMA GrowingFamily ==
  ASSUME NEW S, IsFiniteSet(S), NEW F, {} \in F,
         \A T \in SUBSET S : \A x \in S \ T : T \in F => T \union {x} \in F
  PROVE  S \in F
<1> SUFFICES ASSUME S \notin F PROVE FALSE
  OBVIOUS
<1> DEFINE Out == {T \in SUBSET S : T \notin F}
<1>1. \E T \in Out : \A U \in Out : <<U, T>> \notin StrictSubsetOrdering(S)
  <2>1. IsWellFoundedOn(StrictSubsetOrdering(S), FiniteSubsetsOf(S))
    BY FS_StrictSubsetOrderingWellFounded
  <2>2. Out \subseteq FiniteSubsetsOf(S) /\ Out # {}
    BY FS_FiniteSubsetsOfFinite
  <2> HIDE DEF Out
  <2>. QED  BY <2>1, <2>2, WFMin
<1>2. PICK T \in Out : \A U \in Out : <<U, T>> \notin StrictSubsetOrdering(S)
  BY <1>1
<1>3. PICK x \in T : TRUE
  OBVIOUS
<1>4. <<T \ {x}, T>> \in StrictSubsetOrdering(S)
  BY <1>3 DEF StrictSubsetOrdering
<1>5. T \ {x} \in F
  BY <1>2, <1>4
<1>6. (T \ {x}) \union {x} = T
  BY <1>3
<1>. QED  BY <1>3, <1>5, <1>6

\* f adds up the amounts of every set of tasks in S, in whatever order.
Totals(f, S) ==
  /\ f \in [SUBSET S -> Nat]
  /\ f[{}] = 0
  /\ \A s \in SUBSET S : \A x \in s : f[s] = Amount[x] + f[s \ {x}]

LEMMA TotalsExist ==
  ASSUME NEW S \in SUBSET Tasks, IsFiniteSet(S)
  PROVE  \E f : Totals(f, S)
<1> DEFINE F == {T \in SUBSET S : \E f : Totals(f, T)}
<1>1. {} \in F
  <2>1. Totals([s \in {{}} |-> 0], {})
    BY DEF Totals
  <2>. QED  BY <2>1
<1>2. ASSUME NEW T \in SUBSET S, NEW a \in S \ T, T \in F
      PROVE  T \union {a} \in F
  <2>1. PICK f : Totals(f, T)
    BY <1>2
  <2> DEFINE g == [s \in SUBSET (T \union {a}) |-> IF a \in s THEN Amount[a] + f[s \ {a}] ELSE f[s]]
  <2>2. \A s \in SUBSET (T \union {a}) : s \ {a} \in SUBSET T /\ f[s \ {a}] \in Nat
    BY <2>1 DEF Totals
  <2>3. \A x \in Tasks : Amount[x] \in Nat
    BY GrantAssumption
  <2>4. g \in [SUBSET (T \union {a}) -> Nat] /\ g[{}] = 0
    <3>1. ASSUME NEW s \in SUBSET (T \union {a}), a \notin s PROVE f[s] \in Nat
      BY <2>1, <3>1 DEF Totals
    <3>. QED  BY <2>1, <2>2, <2>3, <3>1 DEF Totals
  <2>5. ASSUME NEW s \in SUBSET (T \union {a}), NEW x \in s
        PROVE  g[s] = Amount[x] + g[s \ {x}]
    <3>1. CASE x = a
      <4>1. a \notin s \ {x} /\ s \ {x} \in SUBSET (T \union {a})
        BY <3>1
      <4>. QED  BY <3>1, <4>1
    <3>2. CASE x # a /\ a \in s
      <4>1. a \in s \ {x} /\ s \ {x} \in SUBSET (T \union {a}) /\ (s \ {x}) \ {a} = (s \ {a}) \ {x}
        BY <3>2
      <4>2. s \ {a} \in SUBSET T /\ x \in s \ {a}
        BY <3>2
      <4>3. f[s \ {a}] = Amount[x] + f[(s \ {a}) \ {x}] /\ f[(s \ {a}) \ {x}] \in Nat
        BY <2>1, <4>2 DEF Totals
      <4>4. g[s] = Amount[a] + f[s \ {a}] /\ g[s \ {x}] = Amount[a] + f[(s \ {a}) \ {x}]
        BY <3>2, <4>1
      <4> HIDE DEF g
      <4>. QED  BY <2>3, <4>3, <4>4
    <3>3. CASE x # a /\ a \notin s
      <4>1. s \in SUBSET T /\ s \ {x} \in SUBSET (T \union {a}) /\ a \notin s \ {x}
        BY <3>3
      <4>2. f[s] = Amount[x] + f[s \ {x}]
        BY <2>1, <4>1 DEF Totals
      <4>. QED  BY <3>3, <4>1, <4>2
    <3>. QED  BY <3>1, <3>2, <3>3
  <2>6. Totals(g, T \union {a})
    <3> HIDE DEF g
    <3>. QED  BY <2>4, <2>5 DEF Totals
  <2>. QED  BY <2>6
<1> HIDE DEF F
<1>3. S \in F
  BY <1>1, <1>2, GrowingFamily
<1>. QED  BY <1>3 DEF F

\* What Spent computes, by its recursive definition, is what such an f says.
LEMMA SpentIsTotal ==
  ASSUME NEW S \in SUBSET Tasks, IsFiniteSet(S), NEW f, Totals(f, S), NEW T \in SUBSET S
  PROVE  Spent(T) = f[T]
<1> DEFINE Chosen(s) == CHOOSE x \in s : TRUE
           Eq(h) == h = [s \in SUBSET T |-> IF s = {} THEN 0 ELSE Amount[Chosen(s)] + h[s \ {Chosen(s)}]]
           g == CHOOSE h : Eq(h)
           f0 == [s \in SUBSET T |-> f[s]]
<1>1. Spent(T) = g[T]
  BY DEF Spent, MapThenSumSet, MapThenFoldSet
<1>2. \A s \in SUBSET T : s # {} => Chosen(s) \in s
  OBVIOUS
<1>3. Eq(f0)
  <2>1. ASSUME NEW s \in SUBSET T
        PROVE  f0[s] = IF s = {} THEN 0 ELSE Amount[Chosen(s)] + f0[s \ {Chosen(s)}]
    <3> HIDE DEF Chosen
    <3>. QED  BY <1>2 DEF Totals
  <2> HIDE DEF Chosen
  <2>. QED  BY <2>1
<1>4. Eq(g)
  <2> HIDE DEF Eq, f0
  <2>. QED  BY <1>3
<1> DEFINE Wrong == {s \in SUBSET T : g[s] # f[s]}
<1>5. SUFFICES ASSUME Wrong # {} PROVE FALSE
  BY <1>1
<1>6. PICK s \in Wrong : \A u \in Wrong : <<u, s>> \notin StrictSubsetOrdering(T)
  <2>1. IsWellFoundedOn(StrictSubsetOrdering(T), FiniteSubsetsOf(T)) /\ IsFiniteSet(T)
    BY FS_StrictSubsetOrderingWellFounded, FS_Subset
  <2>2. Wrong \subseteq FiniteSubsetsOf(T)
    BY <2>1, FS_FiniteSubsetsOfFinite
  <2> HIDE DEF Wrong
  <2>. QED  BY <1>5, <2>1, <2>2, WFMin
<1>7. s # {}
  <2>1. g[{}] = 0
    BY <1>4
  <2>. QED  BY <2>1 DEF Totals
<1> DEFINE x == Chosen(s)
           u == s \ {x}
<1>8. x \in s /\ u \in SUBSET T /\ <<u, s>> \in StrictSubsetOrdering(T)
  BY <1>2, <1>6, <1>7 DEF StrictSubsetOrdering
<1>9. g[u] = f[u]
  <2> HIDE DEF g, u
  <2>. QED  BY <1>6, <1>8
<1>10. g[s] = Amount[x] + g[u]
  BY <1>4, <1>6, <1>7
<1>11. f[s] = Amount[x] + f[u]
  BY <1>6, <1>8 DEF Totals
<1> HIDE DEF g, u, x
<1>. QED  BY <1>6, <1>9, <1>10, <1>11

\* The sum over a finite set of tasks is a number, and grows by what one more
\* task declares.
LEMMA SpentType ==
  ASSUME NEW S \in SUBSET Tasks, IsFiniteSet(S)
  PROVE  Spent(S) \in Nat /\ Spent({}) = 0
<1>1. PICK f : Totals(f, S)
  BY TotalsExist
<1>2. \A T \in SUBSET S : Spent(T) = f[T]
  BY <1>1, SpentIsTotal
<1>3. Spent(S) = f[S] /\ Spent({}) = f[{}]
  <2>1. S \in SUBSET S /\ {} \in SUBSET S
    OBVIOUS
  <2>. QED  BY <1>2, <2>1
<1>. QED
  <2>1. S \in SUBSET S
    OBVIOUS
  <2>2. f[S] \in Nat /\ f[{}] = 0
    BY <1>1, <2>1 DEF Totals
  <2>. QED  BY <1>3, <2>2

LEMMA SpentAdds ==
  ASSUME NEW S \in SUBSET Tasks, IsFiniteSet(S), NEW t \in Tasks
  PROVE  Spent(S \union {t}) = IF t \in S THEN Spent(S) ELSE Spent(S) + Amount[t]
<1>1. IsFiniteSet(S \union {t}) /\ S \union {t} \in SUBSET Tasks
  BY FS_AddElement
<1>2. PICK f : Totals(f, S \union {t})
  BY <1>1, TotalsExist
<1>3. Spent(S \union {t}) = f[S \union {t}] /\ Spent(S) = f[S] /\ f[S] \in Nat
  <2>1. ASSUME NEW T \in SUBSET (S \union {t}) PROVE Spent(T) = f[T] /\ f[T] \in Nat
    <3>1. Spent(T) = f[T]
      BY <1>1, <1>2, SpentIsTotal
    <3>2. f[T] \in Nat
      BY <1>2 DEF Totals
    <3>. QED  BY <3>1, <3>2
  <2>2. S \union {t} \in SUBSET (S \union {t}) /\ S \in SUBSET (S \union {t})
    OBVIOUS
  <2>. QED  BY <2>1, <2>2
<1>4. CASE t \in S
  <2>1. S \union {t} = S
    BY <1>4
  <2>. QED  BY <1>4, <2>1
<1>5. CASE t \notin S
  <2>1. (S \union {t}) \ {t} = S
    BY <1>5
  <2>2. f[S \union {t}] = Amount[t] + f[S]
    BY <1>2, <2>1 DEF Totals
  <2>3. Amount[t] \in Nat
    BY GrantAssumption
  <2>. QED  BY <1>3, <1>5, <2>2, <2>3
<1>. QED  BY <1>4, <1>5

\* A set spends no less than a part of it, and a union no more than both.
LEMMA SpentMonotone ==
  ASSUME NEW S \in SUBSET Tasks, IsFiniteSet(S), NEW T \in SUBSET S
  PROVE  Spent(T) <= Spent(S)
<1> DEFINE F == {U \in SUBSET S : Spent(T) <= Spent(T \union U)}
<1>1. IsFiniteSet(T) /\ T \in SUBSET Tasks
  BY FS_Subset
<1>2. {} \in F
  <2>1. T \union {} = T /\ Spent(T) \in Nat
    BY <1>1, SpentType
  <2>. QED  BY <2>1
<1>3. ASSUME NEW U \in SUBSET S, NEW x \in S \ U, U \in F
      PROVE  U \union {x} \in F
  <2>1. IsFiniteSet(T \union U) /\ T \union U \in SUBSET Tasks
    BY FS_Subset
  <2>2. T \union (U \union {x}) = (T \union U) \union {x} /\ x \in Tasks
    OBVIOUS
  <2>3. /\ Spent((T \union U) \union {x}) = IF x \in T \union U THEN Spent(T \union U) ELSE Spent(T \union U) + Amount[x]
        /\ Spent(T \union U) \in Nat /\ Spent(T) \in Nat /\ Amount[x] \in Nat
    BY <1>1, <2>1, <2>2, SpentAdds, SpentType, GrantAssumption
  <2>4. Spent(T) <= Spent((T \union U) \union {x})
    BY <1>3, <2>3
  <2>. QED  BY <2>2, <2>4
<1> HIDE DEF F
<1>4. S \in F
  BY <1>2, <1>3, GrowingFamily
<1>. QED
  <2>1. T \union S = S
    OBVIOUS
  <2>. QED  BY <1>4, <2>1 DEF F

LEMMA SpentOfUnion ==
  ASSUME NEW S \in SUBSET Tasks, NEW T \in SUBSET Tasks, IsFiniteSet(S), IsFiniteSet(T)
  PROVE  Spent(S \union T) <= Spent(S) + Spent(T)
<1> DEFINE F == {U \in SUBSET T : Spent(S \union U) <= Spent(S) + Spent(U)}
<1>1. {} \in F
  <2>1. S \union {} = S /\ Spent(S) \in Nat /\ Spent({}) = 0
    BY SpentType
  <2>. QED  BY <2>1
<1>2. ASSUME NEW U \in SUBSET T, NEW x \in T \ U, U \in F
      PROVE  U \union {x} \in F
  <2>1. /\ IsFiniteSet(U) /\ IsFiniteSet(S \union U) /\ x \in Tasks
        /\ U \in SUBSET Tasks /\ S \union U \in SUBSET Tasks
    BY FS_Subset, FS_Union
  <2>2. S \union (U \union {x}) = (S \union U) \union {x}
    OBVIOUS
  <2>3. /\ Spent((S \union U) \union {x}) = IF x \in S \union U THEN Spent(S \union U) ELSE Spent(S \union U) + Amount[x]
        /\ Spent(U \union {x}) = IF x \in U THEN Spent(U) ELSE Spent(U) + Amount[x]
    BY <2>1, SpentAdds
  <2>4. Spent(S \union U) \in Nat /\ Spent(S) \in Nat /\ Spent(U) \in Nat /\ Amount[x] \in Nat
    BY <2>1, SpentType, GrantAssumption
  <2>5. Spent((S \union U) \union {x}) <= Spent(S) + Spent(U \union {x})
    BY <1>2, <2>3, <2>4
  <2>. QED  BY <2>2, <2>5
<1> HIDE DEF F
<1>3. T \in F
  BY <1>1, <1>2, GrowingFamily
<1>. QED  BY <1>3 DEF F

-----------------------------------------------------------------------------
(* Types.                                                                  *)

\* The first grant of some is one of them.
LEMMA FirstIsOne ==
  ASSUME NEW gs \in SUBSET GrantIds
  PROVE  IF gs = {} THEN First(gs) = NoGrant ELSE First(gs) \in gs
<1> DEFINE HasLeast(T) == \E m \in T : \A n \in T : m <= n
           F == {T \in SUBSET gs : T = {} \/ HasLeast(T)}
<1>1. IsFiniteSet(gs) /\ \A n \in gs : n \in Nat
  <2>1. IsFiniteSet(GrantIds)
    BY GrantAssumption, FS_Interval DEF GrantIds
  <2>2. IsFiniteSet(gs)
    BY <2>1, FS_Subset
  <2>3. \A n \in GrantIds : n \in Nat
    BY GrantAssumption DEF GrantIds
  <2>. QED  BY <2>2, <2>3
<1>2. ASSUME NEW T \in SUBSET gs, NEW x \in gs \ T, T \in F
      PROVE  T \union {x} \in F
  <2>1. CASE T = {}
    BY <1>1, <2>1
  <2>2. CASE HasLeast(T)
    <3>1. PICK m \in T : \A n \in T : m <= n
      BY <2>2
    <3>2. CASE m <= x
      BY <3>1, <3>2
    <3>3. CASE ~(m <= x)
      <4>1. m \in Nat /\ x \in Nat /\ \A n \in T : n \in Nat
        BY <1>1
      <4>2. x <= x /\ \A n \in T : x <= n
        BY <3>1, <3>3, <4>1
      <4>. QED  BY <4>2
    <3>. QED  BY <3>2, <3>3
  <2>. QED  BY <1>2, <2>1, <2>2
<1>3. {} \in F
  OBVIOUS
<1>4. gs \in F
  <2> HIDE DEF F
  <2>. QED  BY <1>1, <1>2, <1>3, GrowingFamily
<1>. QED  BY <1>4 DEF First, Min

LEMMA GrantedType ==
  ASSUME NEW p, NEW t
  PROVE  /\ Granted(p, t) \in GrantIds \union {NoGrant}
         /\ Granted(p, t) # NoGrant => CanPay(Granted(p, t), t, Usage(p, Granted(p, t)))
<1> DEFINE gs == {g \in GrantIds : CanPay(g, t, Usage(p, g))}
<1>1. IF gs = {} THEN First(gs) = NoGrant ELSE First(gs) \in gs
  BY FirstIsOne
<1>2. Granted(p, t) = First(gs)
  BY DEF Granted
<1> HIDE DEF gs
<1>3. Granted(p, t) = NoGrant \/ Granted(p, t) \in gs
  BY <1>1, <1>2
<1>. QED  BY <1>3 DEF gs

\* A task some grant could pay for, were nothing drawn, is granted one then.
LEMMA GrantedUnspentType ==
  ASSUME NEW t
  PROVE  /\ GrantedUnspent(t) \in GrantIds \union {NoGrant}
         /\ (\E g \in GrantIds : CanPay(g, t, [operations |-> 0, amount |-> 0])) =>
              GrantedUnspent(t) \in GrantIds
<1> DEFINE gs == {g \in GrantIds : CanPay(g, t, [operations |-> 0, amount |-> 0])}
<1>1. IF gs = {} THEN First(gs) = NoGrant ELSE First(gs) \in gs
  BY FirstIsOne
<1>2. GrantedUnspent(t) = First(gs)
  BY DEF GrantedUnspent
<1>3. (\E g \in GrantIds : CanPay(g, t, [operations |-> 0, amount |-> 0])) => gs # {}
  OBVIOUS
<1>4. gs \subseteq GrantIds
  OBVIOUS
<1> HIDE DEF gs
<1>. QED  BY <1>1, <1>2, <1>3, <1>4

-----------------------------------------------------------------------------
(* What each write leaves.                                                 *)



LEMMA GoToFacts ==
  ASSUME TypeOK, NEW p \in Procs, NEW t \in Tasks, NEW stage \in Stages, GoTo(p, t, stage)
  PROVE  /\ job' \in [Procs -> [Tasks -> [pc : Stages, grant : GrantIds \union {NoGrant}]]]
         /\ job'[p][t] = [pc |-> stage, grant |-> job[p][t].grant]
         /\ \A q \in Procs, u \in Tasks : <<q, u>> # <<p, t>> => job'[q][u] = job[q][u]
<1> DEFINE J == [pc : Stages, grant : GrantIds \union {NoGrant}]
           v == [job[p][t] EXCEPT !.pc = stage]
<1>1. v \in J /\ v = [pc |-> stage, grant |-> job[p][t].grant]
  <2>1. job[p][t] \in J
    BY DEF TypeOK
  <2>. QED  BY <2>1
<1>2. job' = [job EXCEPT ![p] = [job[p] EXCEPT ![t] = v]]
  BY DEF GoTo
<1>3. job \in [Procs -> [Tasks -> J]]
  BY DEF TypeOK
<1> HIDE DEF J, v
<1>4. job' \in [Procs -> [Tasks -> J]]
  BY <1>1, <1>2, <1>3
<1>5. job'[p][t] = v /\ \A q \in Procs, u \in Tasks : <<q, u>> # <<p, t>> => job'[q][u] = job[q][u]
  BY <1>2, <1>3
<1>. QED  BY <1>1, <1>4, <1>5 DEF J

LEMMA FinishFacts ==
  ASSUME TypeOK, NEW p \in Procs, NEW t \in Tasks, Finish(p, t)
  PROVE  /\ job' \in [Procs -> [Tasks -> [pc : Stages, grant : GrantIds \union {NoGrant}]]]
         /\ job'[p][t] = Idle
         /\ \A q \in Procs, u \in Tasks : <<q, u>> # <<p, t>> => job'[q][u] = job[q][u]
<1> DEFINE J == [pc : Stages, grant : GrantIds \union {NoGrant}]
<1>1. Idle \in J
  BY DEF Idle, Stages
<1>2. job' = [job EXCEPT ![p] = [job[p] EXCEPT ![t] = Idle]]
  BY DEF Finish
<1>3. job \in [Procs -> [Tasks -> J]]
  BY DEF TypeOK
<1> HIDE DEF J
<1>4. job' \in [Procs -> [Tasks -> J]]
  BY <1>1, <1>2, <1>3
<1>5. job'[p][t] = Idle /\ \A q \in Procs, u \in Tasks : <<q, u>> # <<p, t>> => job'[q][u] = job[q][u]
  BY <1>2, <1>3
<1>. QED  BY <1>4, <1>5 DEF J

LEMMA SetStatusFacts ==
  ASSUME TypeOK, NEW t \in Tasks, NEW status \in Status, SetStatus(t, status)
  PROVE  /\ row' \in [Tasks -> [status : Status, owner : Procs \union {Nobody, Gone}]]
         /\ row'[t] = [status |-> status, owner |-> row[t].owner]
         /\ \A u \in Tasks \ {t} : row'[u] = row[u]
  BY DEF TypeOK, SetStatus

LEMMA DrawFacts ==
  ASSUME TypeOK, NEW g \in GrantIds \union {NoGrant}, NEW t \in Tasks, Draw(g, t)
  PROVE  /\ uses' \in [GrantIds -> SUBSET Tasks]
         /\ \A h \in GrantIds : uses'[h] = IF h = g THEN uses[h] \union {t} ELSE uses[h]
  BY DEF TypeOK, Draw

LEMMA ReleaseFacts ==
  ASSUME TypeOK, NEW p \in Procs, NEW t \in Tasks, Release(p, t)
  PROVE  /\ reserved' \in [Procs -> [GrantIds -> SUBSET Tasks]]
         /\ \A q \in Procs, g \in GrantIds :
              reserved'[q][g] = IF q = p /\ g = job[p][t].grant THEN reserved[q][g] \ {t} ELSE reserved[q][g]
<1> DEFINE d == job[p][t].grant
           G == [GrantIds -> SUBSET Tasks]
<1>1. reserved' = [reserved EXCEPT ![p] = [reserved[p] EXCEPT ![d] = @ \ {t}]]
  BY DEF Release
<1>2. reserved \in [Procs -> G]
  BY DEF TypeOK
<1> HIDE DEF d
<1>3. [reserved[p] EXCEPT ![d] = @ \ {t}] \in G
  BY <1>2
<1>4. \A g \in GrantIds : [reserved[p] EXCEPT ![d] = @ \ {t}][g] =
        IF g = d THEN reserved[p][g] \ {t} ELSE reserved[p][g]
  BY <1>2
<1>. QED  BY <1>1, <1>2, <1>3, <1>4 DEF d

LEMMA HoldFacts ==
  ASSUME TypeOK, NEW p \in Procs, NEW t \in Tasks, NEW d \in GrantIds, Hold(p, d, t)
  PROVE  /\ reserved' \in [Procs -> [GrantIds -> SUBSET Tasks]]
         /\ \A q \in Procs, g \in GrantIds :
              reserved'[q][g] = IF q = p /\ g = d THEN reserved[q][g] \union {t} ELSE reserved[q][g]
<1> DEFINE G == [GrantIds -> SUBSET Tasks]
<1>1. reserved' = [reserved EXCEPT ![p] = [reserved[p] EXCEPT ![d] = @ \union {t}]]
  BY DEF Hold
<1>2. reserved \in [Procs -> G]
  BY DEF TypeOK
<1>3. [reserved[p] EXCEPT ![d] = @ \union {t}] \in G
  BY <1>2
<1>4. \A g \in GrantIds : [reserved[p] EXCEPT ![d] = @ \union {t}][g] =
        IF g = d THEN reserved[p][g] \union {t} ELSE reserved[p][g]
  BY <1>2
<1>. QED  BY <1>1, <1>2, <1>3, <1>4

LEMMA DrawGrantFacts ==
  ASSUME TypeOK, NEW p \in Procs, NEW t \in Tasks, DrawGrant(p, t)
  PROVE  /\ uses' \in [GrantIds -> SUBSET Tasks]
         /\ reserved' \in [Procs -> [GrantIds -> SUBSET Tasks]]
         /\ \A g \in GrantIds :
              uses'[g] = IF ~HasUse(t) /\ g = GrantedUnspent(t) THEN uses[g] \union {t} ELSE uses[g]
         /\ \A q \in Procs, g \in GrantIds :
              reserved'[q][g] = IF q = p THEN reserved[q][g] \ {t} ELSE reserved[q][g]
<1>1. \A g \in GrantIds : g # NoGrant
  BY DEF GrantIds, NoGrant
<1>2. GrantedUnspent(t) \in GrantIds \union {NoGrant}
  BY GrantedUnspentType
<1>3. /\ uses' \in [GrantIds -> SUBSET Tasks]
      /\ \A g \in GrantIds :
           uses'[g] = IF ~HasUse(t) /\ g = GrantedUnspent(t) THEN uses[g] \union {t} ELSE uses[g]
  BY <1>1, <1>2, DrawFacts DEF DrawGrant, TypeOK
<1>4. reserved' = [reserved EXCEPT ![p] = [g \in GrantIds |-> reserved[p][g] \ {t}]]
  BY DEF DrawGrant
<1>5. /\ reserved' \in [Procs -> [GrantIds -> SUBSET Tasks]]
      /\ \A q \in Procs, g \in GrantIds :
           reserved'[q][g] = IF q = p THEN reserved[q][g] \ {t} ELSE reserved[q][g]
  BY <1>4 DEF TypeOK
<1>. QED  BY <1>3, <1>5

-----------------------------------------------------------------------------

LEMMA InitType == Init => TypeOK
  BY GrantAssumption DEF Init, TypeOK, Status, Stages, Idle

Jobs == [Procs -> [Tasks -> [pc : Stages, grant : GrantIds \union {NoGrant}]]]
Rows == [Tasks -> [status : Status, owner : Procs \union {Nobody, Gone}]]
Breakers == [Procs -> [count : 0..Threshold, cooled : BOOLEAN]]
Draws == [GrantIds -> SUBSET Tasks]

\* Where a process counts for or against its target, the count keeps its type.
LEMMA BreakerType ==
  ASSUME TypeOK, NEW p \in Procs,
         RecordFailure(p) \/ RecordSuccess(p) \/ UNCHANGED breaker
  PROVE  breaker' \in Breakers
<1>1. CASE RecordFailure(p)
  <2> DEFINE new == [count  |-> IF breaker[p].count = Threshold THEN Threshold ELSE breaker[p].count + 1,
                     cooled |-> FALSE]
  <2>1. breaker' = [breaker EXCEPT ![p] = new]
    BY <1>1 DEF RecordFailure
  <2>2. breaker[p].count \in 0..Threshold
    BY DEF TypeOK
  <2>3. new.count \in 0..Threshold
    BY <2>2, GrantAssumption
  <2>4. new \in [count : 0..Threshold, cooled : BOOLEAN]
    BY <2>3
  <2> HIDE DEF new
  <2>. QED  BY <2>1, <2>4 DEF TypeOK, Breakers
<1>2. CASE RecordSuccess(p)
  BY <1>2, GrantAssumption DEF RecordSuccess, TypeOK, Breakers
<1>3. CASE UNCHANGED breaker
  BY <1>3 DEF TypeOK, Breakers
<1>. QED  BY <1>1, <1>2, <1>3

LEMMA NextType == TypeOK /\ [Next]_vars => TypeOK'
<1> SUFFICES ASSUME TypeOK, [Next]_vars PROVE TypeOK'
  OBVIOUS
<1>0. /\ row \in Rows /\ uses \in Draws /\ serving \subseteq Procs
      /\ reserved \in [Procs -> Draws] /\ job \in Jobs /\ breaker \in Breakers
      /\ under \in Draws /\ crashes \in Nat /\ faults \in Nat
  BY DEF TypeOK, Rows, Draws, Jobs, Breakers
<1> DEFINE Typed == /\ row' \in Rows /\ uses' \in Draws /\ serving' \subseteq Procs
      /\ reserved' \in [Procs -> Draws] /\ job' \in Jobs /\ breaker' \in Breakers
      /\ under' \in Draws /\ crashes' \in Nat /\ faults' \in Nat
<1>01. \A p \in Procs, t \in Tasks : job[p][t] \in [pc : Stages, grant : GrantIds \union {NoGrant}]
  BY DEF TypeOK
<1>1. ASSUME UNCHANGED vars PROVE Typed
  BY <1>0, <1>1 DEF vars, memory
<1>2. ASSUME NEW p \in Procs, Serve(p) \/ CoolDown(p) \/ Crash(p)
      PROVE  Typed
  <2>1. CASE Serve(p)
    BY <1>0, <2>1 DEF Serve
  <2>2. CASE CoolDown(p)
    <3>1. breaker' \in Breakers
      BY <1>0, <2>2 DEF CoolDown, Breakers
    <3>. QED  BY <1>0, <2>2, <3>1 DEF CoolDown
  <2>3. CASE Crash(p)
    <3>1. row' \in Rows
      BY <1>0, <2>3 DEF Crash, Rows
    <3>2. job' \in Jobs
      BY <1>0, <2>3 DEF Crash, Jobs, Idle, Stages
    <3>3. breaker' \in Breakers
      BY <1>0, <2>3, GrantAssumption DEF Crash, Breakers
    <3>4. reserved' \in [Procs -> Draws]
      BY <1>0, <2>3 DEF Crash, Draws
    <3>. QED  BY <1>0, <2>3, <3>1, <3>2, <3>3, <3>4 DEF Crash
  <2>. QED  BY <1>2, <2>1, <2>2, <2>3
<1>3. ASSUME NEW p \in Procs, NEW t \in Tasks, Block(p, t) \/ Reserve(p, t)
      PROVE  Typed
  <2>1. CASE Block(p, t)
    <3>1. row' \in Rows
      BY <2>1, SetStatusFacts DEF Block, Status, Rows
    <3>. QED  BY <1>0, <2>1, <3>1 DEF Block, memory
  <2>2. CASE Reserve(p, t)
    <3>1. Granted(p, t) \in GrantIds
      BY <2>2, GrantedType DEF Reserve
    <3>2. reserved' \in [Procs -> Draws]
      BY <2>2, <3>1, HoldFacts DEF Reserve, Draws
    <3>3. [pc |-> "starting", grant |-> Granted(p, t)] \in [pc : Stages, grant : GrantIds \union {NoGrant}]
      BY <3>1 DEF Stages
    <3>4. job' \in Jobs
      BY <1>0, <2>2, <3>3 DEF Reserve, Jobs
    <3>. QED  BY <1>0, <2>2, <3>2, <3>4 DEF Reserve
  <2>. QED  BY <1>3, <2>1, <2>2
<1>4. ASSUME NEW p \in Procs, NEW t \in Tasks, Execute(p, t)
      PROVE  Typed
  <2>1. ASSUME NEW stage \in Stages, GoTo(p, t, stage) PROVE job' \in Jobs
    BY <2>1, GoToFacts DEF Jobs
  <2>2. ASSUME Finish(p, t) PROVE job' \in Jobs
    BY <2>2, FinishFacts DEF Jobs
  <2>3. ASSUME Release(p, t) PROVE reserved' \in [Procs -> Draws]
    BY <2>3, ReleaseFacts DEF Draws
  <2>4. ASSUME Draw(job[p][t].grant, t) PROVE uses' \in Draws
    BY <1>01, <2>4, DrawFacts DEF Draws
  <2>5. CASE Start(p, t)
    <3>1. CASE row[t].status = "planned"
      <4>1. job' \in Jobs
        BY <2>1, <2>5, <3>1 DEF Start, Stages
      <4>2. row' \in Rows
        BY <1>0, <2>5, <3>1 DEF Start, Rows, Status
      <4>. QED  BY <1>0, <2>5, <3>1, <4>1, <4>2 DEF Start
    <3>2. CASE row[t].status # "planned"
      BY <1>0, <2>2, <2>3, <2>5, <3>2 DEF Start
    <3>. QED  BY <3>1, <3>2
  <2>6. CASE NotCalled(p, t)
    <3>1. breaker' \in Breakers
      BY <2>6, BreakerType DEF NotCalled
    <3>. QED  BY <1>0, <2>1, <2>3, <2>6, <3>1 DEF NotCalled, Stages
  <2>7. CASE Call(p, t)
    <3>1. under' \in Draws
      BY <1>0, <2>7 DEF Call, Draws
    <3>. QED  BY <1>0, <2>1, <2>7, <3>1 DEF Call, Stages
  <2>8. CASE \E success \in BOOLEAN : Returns(p, t, success)
    <3>1. breaker' \in Breakers
      BY <2>8, BreakerType DEF Returns
    <3>. QED  BY <1>0, <2>1, <2>8, <3>1 DEF Returns, Stages
  <2>9. CASE ThrowsUnknown(p, t)
    <3>1. breaker' \in Breakers
      BY <2>9, BreakerType DEF ThrowsUnknown
    <3>. QED  BY <1>0, <2>1, <2>9, <3>1 DEF ThrowsUnknown, Stages
  <2>10. CASE ThrowsNotSent(p, t)
    <3>1. breaker' \in Breakers
      BY <2>10, BreakerType DEF ThrowsNotSent
    <3>2. under' \in Draws
      BY <1>0, <2>10 DEF ThrowsNotSent, Draws
    <3>. QED  BY <1>0, <2>1, <2>3, <2>10, <3>1, <3>2 DEF ThrowsNotSent, Stages
  <2>11. CASE Conclude(p, t)
    <3>1. row' \in Rows
      BY <2>11, SetStatusFacts DEF Conclude, Status, Rows
    <3>. QED  BY <1>0, <2>2, <2>3, <2>4, <2>11, <3>1 DEF Conclude
  <2>12. CASE CatchDraw(p, t)
    <3>1. job' \in Jobs
      BY <2>1, <2>12 DEF CatchDraw, Stages
    <3>. QED  BY <1>0, <2>3, <2>4, <2>12, <3>1 DEF CatchDraw
  <2>13. CASE CatchSave(p, t)
    <3>1. row' \in Rows
      BY <2>13, SetStatusFacts DEF CatchSave, Status, Rows
    <3>. QED  BY <1>0, <2>2, <2>13, <3>1 DEF CatchSave
  <2>. QED  BY <1>4, <2>5, <2>6, <2>7, <2>8, <2>9, <2>10, <2>11, <2>12, <2>13 DEF Execute
<1>5. ASSUME NEW p \in Procs, NEW t \in Tasks, Recover(p, t)
      PROVE  Typed
  <2>1. ASSUME NEW stage \in Stages, GoTo(p, t, stage) PROVE job' \in Jobs
    BY <2>1, GoToFacts DEF Jobs
  <2>2. ASSUME Finish(p, t) PROVE job' \in Jobs
    BY <2>2, FinishFacts DEF Jobs
  <2>3. ASSUME DrawGrant(p, t) PROVE uses' \in Draws /\ reserved' \in [Procs -> Draws]
    BY <2>3, DrawGrantFacts DEF Draws
  <2>4. CASE Claim(p, t)
    <3>1. row' \in Rows
      BY <1>0, <2>4 DEF Claim, Rows
    <3>. QED  BY <1>0, <2>1, <2>4, <3>1 DEF Claim, Stages
  <2>5. CASE RecoverSettled(p, t)
    <3>1. row' \in Rows
      BY <2>5, SetStatusFacts DEF RecoverSettled, Status, Rows
    <3>. QED  BY <1>0, <2>2, <2>3, <2>5, <3>1 DEF RecoverSettled
  <2>6. CASE RecoverDraw(p, t)
    BY <1>0, <2>1, <2>3, <2>6 DEF RecoverDraw, Stages
  <2>7. CASE RecoverSave(p, t)
    <3>1. row' \in Rows
      BY <2>7, SetStatusFacts DEF RecoverSave, Status, Rows
    <3>. QED  BY <1>0, <2>2, <2>7, <3>1 DEF RecoverSave
  <2>. QED  BY <1>5, <2>4, <2>5, <2>6, <2>7 DEF Recover
<1>6. ASSUME NEW p \in Procs, NEW t \in Tasks, Fails(p, t)
      PROVE  Typed
  <2>1. ASSUME NEW stage \in Stages, GoTo(p, t, stage) PROVE job' \in Jobs
    BY <2>1, GoToFacts DEF Jobs
  <2>2. ASSUME Finish(p, t) PROVE job' \in Jobs
    BY <2>2, FinishFacts DEF Jobs
  <2>3. ASSUME Release(p, t) PROVE reserved' \in [Procs -> Draws]
    BY <2>3, ReleaseFacts DEF Draws
  <2>4. ASSUME Fault PROVE faults' \in Nat
    BY <1>0, <2>4 DEF Fault
  <2>5. CASE StartFails(p, t)
    BY <1>0, <2>2, <2>3, <2>4, <2>5 DEF StartFails
  <2>6. CASE ReturnedFails(p, t)
    BY <1>0, <2>1, <2>4, <2>6 DEF ReturnedFails, Stages
  <2>7. CASE CatchFails(p, t)
    BY <1>0, <2>2, <2>4, <2>7 DEF CatchFails
  <2>8. CASE RecoverFails(p, t)
    <3>1. row' \in Rows
      BY <1>0, <2>8 DEF RecoverFails, Rows
    <3>. QED  BY <1>0, <2>2, <2>4, <2>8, <3>1 DEF RecoverFails
  <2>. QED  BY <1>6, <2>5, <2>6, <2>7, <2>8 DEF Fails
<1>7. ASSUME NEW p \in Procs, NEW t \in Tasks, NEW happened \in BOOLEAN, Reconcile(p, t, happened)
      PROVE  Typed
  <2>1. row' \in Rows
    BY <1>7, SetStatusFacts DEF Reconcile, Status, Rows
  <2>2. uses' \in Draws /\ reserved' \in [Procs -> Draws]
    BY <1>0, <1>7, DrawGrantFacts DEF Reconcile, Draws
  <2>. QED  BY <1>0, <1>7, <2>1, <2>2 DEF Reconcile
<1> HIDE DEF Typed
<1>8. Typed
  BY <1>1, <1>2, <1>3, <1>4, <1>5, <1>6, <1>7 DEF Next
<1>. QED  BY <1>8 DEF Typed, TypeOK, Rows, Draws, Jobs, Breakers

\* Every variable keeps its type.
THEOREM TypeCorrect == Spec => []TypeOK
  BY InitType, NextType, PTL DEF Spec
-----------------------------------------------------------------------------
(* What may have gone out is on record when a task is at rest.             *)

Unspent == [operations |-> 0, amount |-> 0]

\* If anything of t may have gone out, it has drawn a grant.
SettledUp(t) == (\E g \in GrantIds : t \in under[g]) => HasUse(t)

\* Stages at which a process works on the row it owns; at which it knows the grant
\* that pays; at which nothing of the task is unpaid.
Working == Stages \ {"idle", "starting"}
Paying == {"starting", "attempting", "calling", "returned", "catch_draw"}
PaidStages == {"attempting", "catch_park", "catch_fail", "recover_save"}

JobOK(p, t) ==
  /\ job[p][t].pc \in Working => row[t].status = "running" /\ row[t].owner = p
  /\ job[p][t].pc \in Paying =>
       job[p][t].grant \in GrantIds /\ CanPay(job[p][t].grant, t, Unspent)
  /\ job[p][t].pc \in PaidStages => SettledUp(t)
  /\ job[p][t].pc = "calling" =>
       ((\E g \in GrantIds \ {job[p][t].grant} : t \in under[g]) => HasUse(t))

PaidUp(t) ==
  /\ \A p \in Procs : JobOK(p, t)
  /\ row[t].status # "running" => SettledUp(t)
  /\ \A g \in GrantIds : t \in under[g] => CanPay(g, t, Unspent)

PInv == \A t \in Tasks : PaidUp(t)

\* A step on another task leaves a task as it is.
Untouched(u) ==
  /\ row'[u] = row[u]
  /\ \A q \in Procs : job'[q][u] = job[q][u]
  /\ \A g \in GrantIds : /\ u \in uses'[g] <=> u \in uses[g]
                         /\ u \in under'[g] <=> u \in under[g]

LEMMA UntouchedIsPaidUp ==
  ASSUME NEW u \in Tasks, PaidUp(u), Untouched(u)
  PROVE  PaidUp(u)'
<1>1. HasUse(u)' <=> HasUse(u)
  BY DEF HasUse, Untouched
<1>2. SettledUp(u)' <=> SettledUp(u)
  BY <1>1 DEF SettledUp, Untouched
<1>3. ASSUME NEW q \in Procs PROVE JobOK(q, u)'
  <2>1. JobOK(q, u) /\ job'[q][u] = job[q][u] /\ row'[u] = row[u]
    BY DEF PaidUp, Untouched
  <2>2. job[q][u].pc = "calling" =>
          ((\E g \in GrantIds \ {job[q][u].grant} : u \in under'[g]) => HasUse(u)')
    BY <1>1, <2>1 DEF JobOK, Untouched
  <2>. QED  BY <1>2, <2>1, <2>2 DEF JobOK, CanPay, Unspent
<1>4. row'[u].status # "running" => SettledUp(u)'
  BY <1>2 DEF PaidUp, Untouched
<1>5. \A g \in GrantIds : u \in under'[g] => CanPay(g, u, Unspent)'
  BY DEF PaidUp, Untouched, CanPay, Unspent
<1>. QED  BY <1>3, <1>4, <1>5 DEF PaidUp

LEMMA StepsTouchOne ==
  ASSUME TypeOK, NEW p \in Procs, NEW t \in Tasks, NEW u \in Tasks \ {t},
         \/ Block(p, t) \/ Reserve(p, t) \/ Execute(p, t) \/ Recover(p, t) \/ Fails(p, t)
         \/ \E happened \in BOOLEAN : Reconcile(p, t, happened)
  PROVE  Untouched(u)
<1>1. ASSUME UNCHANGED job \/ Finish(p, t) \/ \E stage \in Stages : GoTo(p, t, stage)
      PROVE  \A q \in Procs : job'[q][u] = job[q][u]
  <2>1. \A q \in Procs : <<q, u>> # <<p, t>>
    OBVIOUS
  <2>2. ASSUME NEW stage \in Stages, GoTo(p, t, stage)
        PROVE  \A q \in Procs : job'[q][u] = job[q][u]
    <3>1. \A q \in Procs, v \in Tasks : <<q, v>> # <<p, t>> => job'[q][v] = job[q][v]
      BY <2>2, GoToFacts
    <3>. QED  BY <2>1, <3>1
  <2>3. CASE Finish(p, t)
    BY <2>1, <2>3, FinishFacts
  <2>. QED  BY <1>1, <2>2, <2>3
<1>2. ASSUME UNCHANGED row \/ \E status \in Status : SetStatus(t, status)
      PROVE  row'[u] = row[u]
  <2>1. ASSUME NEW status \in Status, SetStatus(t, status) PROVE row'[u] = row[u]
    BY <2>1, SetStatusFacts
  <2>. QED  BY <1>2, <2>1
<1>3. ASSUME UNCHANGED uses \/ Draw(job[p][t].grant, t) \/ DrawGrant(p, t)
      PROVE  \A g \in GrantIds : u \in uses'[g] <=> u \in uses[g]
  <2>1. CASE Draw(job[p][t].grant, t)
    <3>1. job[p][t].grant \in GrantIds \union {NoGrant}
      BY DEF TypeOK
    <3>2. \A h \in GrantIds : uses'[h] = IF h = job[p][t].grant THEN uses[h] \union {t} ELSE uses[h]
      BY <2>1, <3>1, DrawFacts
    <3>. QED  BY <3>2
  <2>2. CASE DrawGrant(p, t)
    <3>1. \A g \in GrantIds : uses'[g] = uses[g] \/ uses'[g] = uses[g] \union {t}
      BY <2>2, DrawGrantFacts
    <3>. QED  BY <3>1
  <2>. QED  BY <1>3, <2>1, <2>2
<1>4. CASE Block(p, t)
  BY <1>1, <1>2, <1>3, <1>4 DEF Block, memory, Untouched, Status
<1>5. CASE Reserve(p, t)
  <2>1. \A q \in Procs : job'[q][u] = job[q][u]
    BY <1>5 DEF Reserve, TypeOK
  <2>. QED  BY <1>5, <2>1 DEF Reserve, Untouched
<1>6. CASE Execute(p, t)
  <2>1. CASE Start(p, t)
    <3>1. row'[u] = row[u]
      BY <2>1 DEF Start, TypeOK
    <3>. QED  BY <1>1, <2>1, <3>1 DEF Start, Untouched, Stages
  <2>2. CASE NotCalled(p, t)
    BY <1>1, <2>2 DEF NotCalled, Untouched, Stages
  <2>3. CASE Call(p, t)
    <3>1. \A g \in GrantIds : u \in under'[g] <=> u \in under[g]
      BY <2>3 DEF Call, TypeOK
    <3>. QED  BY <1>1, <2>3, <3>1 DEF Call, Untouched, Stages
  <2>4. CASE \E success \in BOOLEAN : Returns(p, t, success)
    BY <1>1, <2>4 DEF Returns, Untouched, Stages
  <2>5. CASE ThrowsUnknown(p, t)
    BY <1>1, <2>5 DEF ThrowsUnknown, Untouched, Stages
  <2>6. CASE ThrowsNotSent(p, t)
    <3>1. \A g \in GrantIds : u \in under'[g] <=> u \in under[g]
      BY <2>6 DEF ThrowsNotSent, TypeOK
    <3>. QED  BY <1>1, <2>6, <3>1 DEF ThrowsNotSent, Untouched, Stages
  <2>7. CASE Conclude(p, t)
    BY <1>1, <1>2, <1>3, <2>7 DEF Conclude, Untouched, Status
  <2>8. CASE CatchDraw(p, t)
    BY <1>1, <1>3, <2>8 DEF CatchDraw, Untouched, Stages
  <2>9. CASE CatchSave(p, t)
    BY <1>1, <1>2, <2>9 DEF CatchSave, Untouched, Status
  <2>. QED  BY <1>6, <2>1, <2>2, <2>3, <2>4, <2>5, <2>6, <2>7, <2>8, <2>9 DEF Execute
<1>7. CASE Recover(p, t)
  <2>1. CASE Claim(p, t)
    <3>1. row'[u] = row[u]
      BY <2>1 DEF Claim, TypeOK
    <3>. QED  BY <1>1, <2>1, <3>1 DEF Claim, Untouched, Stages
  <2>2. CASE RecoverSettled(p, t)
    BY <1>1, <1>2, <1>3, <2>2 DEF RecoverSettled, Untouched, Status
  <2>3. CASE RecoverDraw(p, t)
    BY <1>1, <1>3, <2>3 DEF RecoverDraw, Untouched, Stages
  <2>4. CASE RecoverSave(p, t)
    BY <1>1, <1>2, <2>4 DEF RecoverSave, Untouched, Status
  <2>. QED  BY <1>7, <2>1, <2>2, <2>3, <2>4 DEF Recover
<1>8. CASE Fails(p, t)
  <2>1. CASE StartFails(p, t)
    BY <1>1, <2>1 DEF StartFails, Untouched
  <2>2. CASE ReturnedFails(p, t)
    BY <1>1, <2>2 DEF ReturnedFails, Untouched, Stages
  <2>3. CASE CatchFails(p, t)
    BY <1>1, <2>3 DEF CatchFails, Untouched
  <2>4. CASE RecoverFails(p, t)
    <3>1. row'[u] = row[u]
      BY <2>4 DEF RecoverFails, TypeOK
    <3>. QED  BY <1>1, <2>4, <3>1 DEF RecoverFails, Untouched
  <2>. QED  BY <1>8, <2>1, <2>2, <2>3, <2>4 DEF Fails
<1>9. CASE \E happened \in BOOLEAN : Reconcile(p, t, happened)
  BY <1>2, <1>3, <1>9 DEF Reconcile, Untouched, Status
<1>. QED  BY <1>4, <1>5, <1>6, <1>7, <1>8, <1>9
\* A process acts on a row that no other one works on: it owns the row, or the
\* row is not running, or nobody alive owns it.
LEMMA OthersAreOff ==
  ASSUME TypeOK, NEW p \in Procs, NEW t \in Tasks, PaidUp(t),
         row[t].status # "running" \/ row[t].owner \in {Nobody, Gone, p},
         NEW q \in Procs, q # p, job'[q][t] = job[q][t]
  PROVE  JobOK(q, t)'
<1>1. JobOK(q, t)
  BY DEF PaidUp
<1>2. job[q][t].pc \notin Working
  BY <1>1, GrantAssumption DEF JobOK
<1>3. job[q][t].pc \notin PaidStages /\ job[q][t].pc # "calling"
  BY <1>2 DEF Working, PaidStages, Stages
<1>. QED  BY <1>1, <1>2, <1>3 DEF JobOK, CanPay, Unspent

\* So it is enough to look at the process that acts, and at the row.
LEMMA PaidUpByOne ==
  ASSUME TypeOK, NEW p \in Procs, NEW t \in Tasks, PaidUp(t),
         \/ row[t].status # "running" \/ row[t].owner \in {Nobody, Gone, p}
         \/ job[p][t].pc \in Working,
         \A q \in Procs \ {p} : job'[q][t] = job[q][t],
         JobOK(p, t)',
         row'[t].status # "running" => SettledUp(t)',
         \A g \in GrantIds : t \in under'[g] => t \in under[g] \/ CanPay(g, t, Unspent)
  PROVE  PaidUp(t)'
<1>1. row[t].status # "running" \/ row[t].owner \in {Nobody, Gone, p}
  BY DEF PaidUp, JobOK
<1>2. \A q \in Procs : JobOK(q, t)'
  BY <1>1, OthersAreOff
<1>3. \A g \in GrantIds : t \in under'[g] => CanPay(g, t, Unspent)'
  BY DEF PaidUp, CanPay, Unspent
<1>. QED  BY <1>2, <1>3 DEF PaidUp

\* A draw settles the task up: that of the grant a job names, and recovery's of
\* any grant that could pay.
LEMMA DrawnIsSettledUp ==
  ASSUME TypeOK, NEW p \in Procs, NEW t \in Tasks, PaidUp(t), UNCHANGED under,
         \/ job[p][t].grant \in GrantIds /\ Draw(job[p][t].grant, t)
         \/ DrawGrant(p, t)
  PROVE  SettledUp(t)'
<1>1. CASE job[p][t].grant \in GrantIds /\ Draw(job[p][t].grant, t)
  <2> DEFINE d == job[p][t].grant
  <2>1. \A h \in GrantIds : uses'[h] = IF h = d THEN uses[h] \union {t} ELSE uses[h]
    BY <1>1, DrawFacts
  <2> HIDE DEF d
  <2>2. d \in GrantIds
    BY <1>1 DEF d
  <2>3. t \in uses'[d]
    BY <2>1, <2>2
  <2>. QED  BY <2>2, <2>3 DEF SettledUp, HasUse
<1>2. CASE DrawGrant(p, t)
  <2>1. CASE HasUse(t)
    <3>1. PICK g \in GrantIds : t \in uses[g]
      BY <2>1 DEF HasUse
    <3>2. t \in uses'[g]
      BY <1>2, <3>1, DrawGrantFacts
    <3>. QED  BY <3>2 DEF SettledUp, HasUse
  <2>2. CASE ~HasUse(t)
    <3>1. ASSUME NEW g \in GrantIds, t \in under[g] PROVE HasUse(t)'
      <4>1. CanPay(g, t, Unspent)
        BY <3>1 DEF PaidUp
      <4>2. GrantedUnspent(t) \in GrantIds
        BY <4>1, GrantedUnspentType DEF Unspent
      <4>3. t \in uses'[GrantedUnspent(t)]
        BY <1>2, <2>2, <4>2, DrawGrantFacts
      <4>. QED  BY <4>2, <4>3 DEF HasUse
    <3>. QED  BY <3>1 DEF SettledUp
  <2>. QED  BY <2>1, <2>2
<1>. QED  BY <1>1, <1>2

\* Nothing drawn is taken back.
LEMMA UsesGrow ==
  ASSUME TypeOK, NEW p \in Procs, NEW t \in Tasks,
         \/ UNCHANGED uses \/ Draw(job[p][t].grant, t) \/ DrawGrant(p, t)
  PROVE  \A u \in Tasks : HasUse(u) => HasUse(u)'
<1>1. \A g \in GrantIds : uses[g] \subseteq uses'[g]
  <2>1. CASE Draw(job[p][t].grant, t)
    <3>1. job[p][t].grant \in GrantIds \union {NoGrant}
      BY DEF TypeOK
    <3>2. \A h \in GrantIds : uses'[h] = IF h = job[p][t].grant THEN uses[h] \union {t} ELSE uses[h]
      BY <2>1, <3>1, DrawFacts
    <3>. QED  BY <3>2
  <2>2. CASE DrawGrant(p, t)
    <3>1. \A g \in GrantIds : uses'[g] = uses[g] \/ uses'[g] = uses[g] \union {t}
      BY <2>2, DrawGrantFacts
    <3>. QED  BY <3>1
  <2>. QED  BY <2>1, <2>2
<1>. QED  BY <1>1 DEF HasUse

\* What can pay with something spent could pay with nothing spent.
LEMMA GrantedCanPay ==
  ASSUME TypeOK, NEW p \in Procs, NEW t \in Tasks, Granted(p, t) # NoGrant,
         \A g \in GrantIds : /\ IsFiniteSet(uses[g]) /\ IsFiniteSet(reserved[p][g])
  PROVE  Granted(p, t) \in GrantIds /\ CanPay(Granted(p, t), t, Unspent)
<1> DEFINE g == Granted(p, t)
<1>1. g \in GrantIds /\ CanPay(g, t, Usage(p, g))
  BY GrantedType
<1>2. /\ Cardinality(uses[g]) \in Nat /\ Cardinality(reserved[p][g]) \in Nat
      /\ Spent(uses[g]) \in Nat /\ Spent(reserved[p][g]) \in Nat
  <2>1. uses[g] \in SUBSET Tasks /\ reserved[p][g] \in SUBSET Tasks
    BY <1>1 DEF TypeOK
  <2> HIDE DEF g
  <2>. QED  BY <1>1, <2>1, FS_CardinalityType, SpentType
<1>3. Amount[t] \in Nat /\ MaxOps[g] \in Nat /\ DailyMax[g] \in Nat
  BY <1>1, GrantAssumption
<1> HIDE DEF g
<1>4. CanPay(g, t, Unspent)
  BY <1>1, <1>2, <1>3 DEF CanPay, Usage, Unspent
<1>. QED  BY <1>1, <1>4 DEF g
\* The sets that are counted and summed are finite: each step adds one task.
FinOK ==
  \A g \in GrantIds :
    /\ IsFiniteSet(uses[g])
    /\ \A p \in Procs : IsFiniteSet(reserved[p][g])

LEMMA StepsAddOne ==
  ASSUME TypeOK, NEW p \in Procs, NEW t \in Tasks,
         \/ Block(p, t) \/ Reserve(p, t) \/ Execute(p, t) \/ Recover(p, t) \/ Fails(p, t)
         \/ \E happened \in BOOLEAN : Reconcile(p, t, happened)
  PROVE  \A g \in GrantIds :
           /\ uses'[g] \subseteq uses[g] \union {t}
           /\ \A q \in Procs : reserved'[q][g] \subseteq reserved[q][g] \union {t}
<1>1. ASSUME UNCHANGED uses \/ Draw(job[p][t].grant, t) \/ DrawGrant(p, t)
      PROVE  \A g \in GrantIds : uses'[g] \subseteq uses[g] \union {t}
  <2>1. CASE Draw(job[p][t].grant, t)
    <3>1. job[p][t].grant \in GrantIds \union {NoGrant}
      BY DEF TypeOK
    <3>2. \A h \in GrantIds : uses'[h] = IF h = job[p][t].grant THEN uses[h] \union {t} ELSE uses[h]
      BY <2>1, <3>1, DrawFacts
    <3>. QED  BY <3>2
  <2>2. CASE DrawGrant(p, t)
    <3>1. \A g \in GrantIds : uses'[g] = uses[g] \/ uses'[g] = uses[g] \union {t}
      BY <2>2, DrawGrantFacts
    <3>. QED  BY <3>1
  <2>. QED  BY <1>1, <2>1, <2>2
<1>2. ASSUME UNCHANGED reserved \/ Release(p, t) \/ DrawGrant(p, t)
      PROVE  \A q \in Procs, g \in GrantIds : reserved'[q][g] \subseteq reserved[q][g] \union {t}
  <2>1. CASE Release(p, t)
    <3>1. \A q \in Procs, g \in GrantIds :
            reserved'[q][g] = IF q = p /\ g = job[p][t].grant THEN reserved[q][g] \ {t} ELSE reserved[q][g]
      BY <2>1, ReleaseFacts
    <3>. QED  BY <3>1
  <2>2. CASE DrawGrant(p, t)
    <3>1. \A q \in Procs, g \in GrantIds :
            reserved'[q][g] = IF q = p THEN reserved[q][g] \ {t} ELSE reserved[q][g]
      BY <2>2, DrawGrantFacts
    <3>. QED  BY <3>1
  <2>. QED  BY <1>2, <2>1, <2>2
<1>3. CASE Reserve(p, t)
  <2>1. PICK d \in GrantIds : d = Granted(p, t)
    BY <1>3, GrantedType DEF Reserve
  <2>2. Hold(p, d, t)
    BY <1>3, <2>1 DEF Reserve
  <2>3. ASSUME NEW q \in Procs, NEW g \in GrantIds
        PROVE  reserved'[q][g] \subseteq reserved[q][g] \union {t}
    <3>1. reserved'[q][g] = IF q = p /\ g = d THEN reserved[q][g] \union {t} ELSE reserved[q][g]
      BY <2>1, <2>2 DEF Hold, TypeOK
    <3>. QED  BY <3>1
  <2>. QED  BY <1>3, <2>3 DEF Reserve
<1>4. CASE Execute(p, t)
  BY <1>1, <1>2, <1>4 DEF Execute, Start, NotCalled, Call, Returns, ThrowsUnknown, ThrowsNotSent,
     Conclude, CatchDraw, CatchSave
<1>5. CASE Recover(p, t)
  BY <1>1, <1>2, <1>5 DEF Recover, Claim, RecoverSettled, RecoverDraw, RecoverSave
<1>6. CASE Fails(p, t)
  BY <1>1, <1>2, <1>6 DEF Fails, StartFails, ReturnedFails, CatchFails, RecoverFails
<1>7. CASE Block(p, t) \/ \E happened \in BOOLEAN : Reconcile(p, t, happened)
  BY <1>1, <1>2, <1>7 DEF Block, Reconcile, memory
<1>. QED  BY <1>3, <1>4, <1>5, <1>6, <1>7

LEMMA NextFinite == TypeOK /\ FinOK /\ [Next]_vars => FinOK'
<1> SUFFICES ASSUME TypeOK, FinOK, [Next]_vars PROVE FinOK'
  OBVIOUS
<1>1. ASSUME NEW p \in Procs, NEW t \in Tasks,
             \/ Block(p, t) \/ Reserve(p, t) \/ Execute(p, t) \/ Recover(p, t) \/ Fails(p, t)
             \/ \E happened \in BOOLEAN : Reconcile(p, t, happened)
      PROVE  FinOK'
  <2>1. ASSUME NEW S, IsFiniteSet(S), NEW T, T \subseteq S \union {t} PROVE IsFiniteSet(T)
    <3>1. IsFiniteSet(S \union {t})
      BY <2>1, FS_AddElement
    <3>. QED  BY <2>1, <3>1, FS_Subset
  <2>. QED  BY <1>1, <2>1, StepsAddOne DEF FinOK
<1>2. ASSUME NEW p \in Procs, Crash(p) PROVE FinOK'
  BY <1>2, FS_EmptySet DEF Crash, FinOK, TypeOK
<1>3. CASE UNCHANGED vars \/ \E p \in Procs : Serve(p) \/ CoolDown(p)
  BY <1>3 DEF vars, memory, Serve, CoolDown, FinOK
<1>. QED  BY <1>1, <1>2, <1>3 DEF Next
\* What JobOK asks of a job at a stage, from what the step does.
LEMMA JobByStage ==
  ASSUME TypeOK', NEW p \in Procs, NEW t \in Tasks,
         NEW pc \in Stages, job'[p][t].pc = pc,
         pc \in Working => row'[t].status = "running" /\ row'[t].owner = p,
         pc \in Paying => job'[p][t].grant \in GrantIds /\ CanPay(job'[p][t].grant, t, Unspent),
         pc \in PaidStages => SettledUp(t)',
         pc = "calling" => ((\E g \in GrantIds \ {job'[p][t].grant} : t \in under'[g]) => HasUse(t)')
  PROVE  JobOK(p, t)'
  BY DEF JobOK, CanPay, Unspent

\* While nothing new goes out, what was paid for stays so.
LEMMA StaysSettledUp ==
  ASSUME NEW t \in Tasks, SettledUp(t), HasUse(t) => HasUse(t)', UNCHANGED under
  PROVE  SettledUp(t)'
  BY DEF SettledUp

\* A process that gives a task up leaves it as paid for as it was.
LEMMA DroppedIsPaidUp ==
  ASSUME TypeOK, NEW p \in Procs, NEW t \in Tasks, PaidUp(t),
         UNCHANGED <<row, uses, under>>,
         job'[p][t].pc = "idle", \A q \in Procs \ {p} : job'[q][t] = job[q][t]
  PROVE  PaidUp(t)'
<1>1. (HasUse(t)' <=> HasUse(t)) /\ (SettledUp(t)' <=> SettledUp(t))
  BY DEF HasUse, SettledUp
<1>2. JobOK(p, t)'
  BY DEF JobOK, Working, Paying, PaidStages
<1>3. ASSUME NEW q \in Procs \ {p} PROVE JobOK(q, t)'
  <2>1. JobOK(q, t) /\ job'[q][t] = job[q][t]
    BY DEF PaidUp
  <2>. QED  BY <1>1, <2>1 DEF JobOK, CanPay, Unspent
<1>4. \A g \in GrantIds : t \in under'[g] => CanPay(g, t, Unspent)'
  BY DEF PaidUp, CanPay, Unspent
<1>. QED  BY <1>1, <1>2, <1>3, <1>4 DEF PaidUp

LEMMA ExecutePaysUp ==
  ASSUME TypeOK, TypeOK', NEW p \in Procs, NEW t \in Tasks, PaidUp(t), Execute(p, t)
  PROVE  PaidUp(t)'
<1> DEFINE g == job[p][t].grant
           Others == \A q \in Procs \ {p} : job'[q][t] = job[q][t]
<1>1. JobOK(p, t)
  BY DEF PaidUp
<1>2. ASSUME NEW stage \in Stages, GoTo(p, t, stage)
      PROVE  job'[p][t] = [pc |-> stage, grant |-> g] /\ Others
  <2>1. \A q \in Procs \ {p} : <<q, t>> # <<p, t>>
    OBVIOUS
  <2>2. /\ job'[p][t] = [pc |-> stage, grant |-> job[p][t].grant]
        /\ \A q \in Procs, u \in Tasks : <<q, u>> # <<p, t>> => job'[q][u] = job[q][u]
    BY <1>2, GoToFacts
  <2>. QED  BY <2>1, <2>2
<1>3. ASSUME Finish(p, t)
      PROVE  job'[p][t].pc = "idle" /\ Others
  <2>1. \A q \in Procs \ {p} : <<q, t>> # <<p, t>>
    OBVIOUS
  <2>. QED  BY <1>3, <2>1, FinishFacts DEF Idle
<1>4. g # NoGrant <=> g \in GrantIds
  BY DEF TypeOK, GrantIds, NoGrant
<1> HIDE DEF g
<1>5. CASE Start(p, t)
  <2>1. CASE row[t].status = "planned"
    <3>1. row'[t] = [status |-> "running", owner |-> p] /\ job'[p][t] = [pc |-> "attempting", grant |-> g] /\ Others
      BY <1>2, <1>5, <2>1 DEF Start, TypeOK, Stages
    <3>2. SettledUp(t)' /\ SettledUp(t) /\ UNCHANGED <<uses, under>>
      BY <1>5, <2>1 DEF PaidUp, Start, SettledUp, HasUse
    <3>3. g \in GrantIds /\ CanPay(g, t, Unspent)
      BY <1>1, <1>5 DEF JobOK, Start, At, Paying, g
    <3>4. JobOK(p, t)'
      BY <3>1, <3>2, <3>3, JobByStage DEF Stages
    <3>. QED  BY <2>1, <3>1, <3>2, <3>4, PaidUpByOne
  <2>2. CASE row[t].status # "planned"
    <3>1. job'[p][t].pc = "idle" /\ Others /\ UNCHANGED <<row, uses, under>>
      BY <1>3, <1>5, <2>2 DEF Start
    <3>. QED  BY <3>1, DroppedIsPaidUp
  <2>. QED  BY <2>1, <2>2
<1>7. CASE NotCalled(p, t)
  <2>1. /\ job'[p][t] = [pc |-> "catch_fail", grant |-> g] /\ Others
        /\ UNCHANGED <<row, uses, under>> /\ job[p][t].pc = "attempting"
    BY <1>2, <1>7 DEF NotCalled, Stages, At
  <2>2. SettledUp(t)' /\ row'[t].status = "running" /\ row'[t].owner = p
    BY <1>1, <2>1 DEF JobOK, PaidStages, Working, Stages, SettledUp, HasUse
  <2>3. JobOK(p, t)'
    BY <2>1, <2>2, JobByStage DEF Stages, Paying
  <2>. QED  BY <2>1, <2>2, <2>3, PaidUpByOne DEF Working, Stages
<1>8. CASE Call(p, t)
  <2>1. /\ job'[p][t] = [pc |-> "calling", grant |-> g] /\ Others
        /\ UNCHANGED <<row, uses>> /\ job[p][t].pc = "attempting"
    BY <1>2, <1>8 DEF Call, Stages, At
  <2>2. SettledUp(t) /\ row'[t].status = "running" /\ row'[t].owner = p
        /\ g \in GrantIds /\ CanPay(g, t, Unspent)
    BY <1>1, <2>1 DEF JobOK, PaidStages, Paying, Working, Stages, g
  <2>3. \A h \in GrantIds : under'[h] = IF h = g THEN under[h] \union {t} ELSE under[h]
    BY <1>8 DEF Call, TypeOK, g
  <2>4. (\E h \in GrantIds \ {g} : t \in under'[h]) => HasUse(t)'
    BY <2>1, <2>2, <2>3 DEF SettledUp, HasUse
  <2>5. JobOK(p, t)'
    BY <2>1, <2>2, <2>4, JobByStage DEF Stages, PaidStages
  <2>6. \A h \in GrantIds : t \in under'[h] => t \in under[h] \/ CanPay(h, t, Unspent)
    BY <2>2, <2>3
  <2>. QED  BY <2>1, <2>2, <2>5, <2>6, PaidUpByOne DEF Working, Stages
<1>9. CASE (\E success \in BOOLEAN : Returns(p, t, success)) \/ ThrowsUnknown(p, t)
  <2>1. PICK stage \in {"returned", "catch_draw"} :
          job'[p][t] = [pc |-> stage, grant |-> g]
    BY <1>2, <1>9 DEF Returns, ThrowsUnknown, Stages
  <2>2. Others /\ UNCHANGED <<row, uses, under>> /\ job[p][t].pc = "calling"
    BY <1>2, <1>9 DEF Returns, ThrowsUnknown, Stages, At
  <2>3. /\ row'[t].status = "running" /\ row'[t].owner = p
        /\ g \in GrantIds /\ CanPay(g, t, Unspent)
    BY <1>1, <2>2 DEF JobOK, Paying, Working, Stages, g
  <2>4. JobOK(p, t)'
    BY <2>1, <2>3, JobByStage DEF Stages, PaidStages
  <2>. QED  BY <2>2, <2>3, <2>4, PaidUpByOne DEF Working, Stages
<1>10. CASE ThrowsNotSent(p, t)
  <2>1. /\ job'[p][t] = [pc |-> "catch_fail", grant |-> g] /\ Others
        /\ UNCHANGED <<row, uses>> /\ job[p][t].pc = "calling"
    BY <1>2, <1>10 DEF ThrowsNotSent, Stages, At
  <2>2. /\ row'[t].status = "running" /\ row'[t].owner = p
        /\ g \in GrantIds /\ ((\E h \in GrantIds \ {g} : t \in under[h]) => HasUse(t))
    BY <1>1, <2>1 DEF JobOK, Paying, Working, Stages, g
  <2>3. \A h \in GrantIds :
          under'[h] = IF h = g /\ t \notin uses[g] THEN under[h] \ {t} ELSE under[h]
    BY <1>10 DEF ThrowsNotSent, TypeOK, g
  <2>4. SettledUp(t)'
    BY <2>1, <2>2, <2>3 DEF SettledUp, HasUse
  <2>5. JobOK(p, t)'
    BY <2>1, <2>2, <2>4, JobByStage DEF Stages, Paying
  <2>6. \A h \in GrantIds : t \in under'[h] => t \in under[h]
    BY <2>3
  <2>. QED  BY <2>1, <2>2, <2>4, <2>5, <2>6, PaidUpByOne DEF Working, Stages
<1>11. CASE Conclude(p, t)
  <2>1. /\ job'[p][t].pc = "idle" /\ Others /\ UNCHANGED under
        /\ job[p][t].pc = "returned" /\ Draw(job[p][t].grant, t)
    BY <1>3, <1>11 DEF Conclude, At
  <2>2. job[p][t].grant \in GrantIds
    BY <1>1, <2>1 DEF JobOK, Paying
  <2>3. SettledUp(t)'
    BY <2>1, <2>2, DrawnIsSettledUp
  <2>4. JobOK(p, t)'
    BY <2>1 DEF JobOK, Working, Paying, PaidStages
  <2>. QED  BY <2>1, <2>3, <2>4, PaidUpByOne DEF Working, Stages
<1>12. CASE CatchDraw(p, t)
  <2>1. /\ Others /\ UNCHANGED <<row, under>>
        /\ job[p][t].pc = "catch_draw" /\ Draw(job[p][t].grant, t)
    BY <1>2, <1>12 DEF CatchDraw, At, Stages
  <2>2. PICK stage \in {"catch_park", "catch_fail"} : job'[p][t] = [pc |-> stage, grant |-> g]
    BY <1>2, <1>12 DEF CatchDraw, Stages
  <2>3. job[p][t].grant \in GrantIds /\ row'[t].status = "running" /\ row'[t].owner = p
    BY <1>1, <2>1 DEF JobOK, Paying, Working, Stages
  <2>4. SettledUp(t)'
    BY <2>1, <2>3, DrawnIsSettledUp
  <2>5. JobOK(p, t)'
    BY <2>2, <2>3, <2>4, JobByStage DEF Stages, Paying
  <2>. QED  BY <2>1, <2>4, <2>5, PaidUpByOne DEF Working, Stages
<1>13. CASE CatchSave(p, t)
  <2>1. /\ job'[p][t].pc = "idle" /\ Others /\ UNCHANGED <<uses, under>>
        /\ job[p][t].pc \in {"catch_park", "catch_fail"}
    BY <1>3, <1>13 DEF CatchSave
  <2>2. SettledUp(t)'
    BY <1>1, <2>1 DEF JobOK, PaidStages, SettledUp, HasUse
  <2>3. JobOK(p, t)'
    BY <2>1 DEF JobOK, Working, Paying, PaidStages
  <2>. QED  BY <2>1, <2>2, <2>3, PaidUpByOne DEF Working, Stages
<1>. QED  BY <1>5, <1>7, <1>8, <1>9, <1>10, <1>11, <1>12, <1>13 DEF Execute

LEMMA RecoverPaysUp ==
  ASSUME TypeOK, TypeOK', NEW p \in Procs, NEW t \in Tasks, PaidUp(t), Recover(p, t)
  PROVE  PaidUp(t)'
<1> DEFINE Others == \A q \in Procs \ {p} : job'[q][t] = job[q][t]
<1>1. JobOK(p, t)
  BY DEF PaidUp
<1>2. ASSUME NEW stage \in Stages, GoTo(p, t, stage)
      PROVE  job'[p][t].pc = stage /\ Others
  <2>1. \A q \in Procs \ {p} : <<q, t>> # <<p, t>>
    OBVIOUS
  <2>2. /\ job'[p][t] = [pc |-> stage, grant |-> job[p][t].grant]
        /\ \A q \in Procs, u \in Tasks : <<q, u>> # <<p, t>> => job'[q][u] = job[q][u]
    BY <1>2, GoToFacts
  <2>. QED  BY <2>1, <2>2
<1>3. ASSUME Finish(p, t)
      PROVE  job'[p][t].pc = "idle" /\ Others
  <2>1. \A q \in Procs \ {p} : <<q, t>> # <<p, t>>
    OBVIOUS
  <2>. QED  BY <1>3, <2>1, FinishFacts DEF Idle
<1>4. CASE Claim(p, t)
  <2>1. /\ job'[p][t].pc = "recovering" /\ Others
        /\ row[t].status = "running" /\ row[t].owner \in {Nobody, Gone, p}
        /\ row'[t].status = "running" /\ row'[t].owner = p /\ UNCHANGED under
    BY <1>2, <1>4 DEF Claim, Stages, TypeOK
  <2>2. JobOK(p, t)'
    BY <2>1, JobByStage DEF Stages, Paying, PaidStages
  <2>. QED  BY <2>1, <2>2, PaidUpByOne
<1>5. CASE RecoverSettled(p, t)
  <2>1. /\ job'[p][t].pc = "idle" /\ Others /\ UNCHANGED under /\ DrawGrant(p, t)
        /\ job[p][t].pc = "recovering"
    BY <1>3, <1>5 DEF RecoverSettled, At
  <2>2. SettledUp(t)'
    BY <2>1, DrawnIsSettledUp
  <2>3. JobOK(p, t)'
    BY <2>1 DEF JobOK, Working, Paying, PaidStages
  <2>. QED  BY <2>1, <2>2, <2>3, PaidUpByOne DEF Working, Stages
<1>6. CASE RecoverDraw(p, t)
  <2>1. /\ job'[p][t].pc = "recover_save" /\ Others /\ UNCHANGED <<row, under>> /\ DrawGrant(p, t)
        /\ job[p][t].pc = "recovering"
    BY <1>2, <1>6 DEF RecoverDraw, At, Stages
  <2>2. row'[t].status = "running" /\ row'[t].owner = p
    BY <1>1, <2>1 DEF JobOK, Working, Stages
  <2>3. SettledUp(t)'
    BY <2>1, DrawnIsSettledUp
  <2>4. JobOK(p, t)'
    BY <2>1, <2>2, <2>3, JobByStage DEF Stages, Paying
  <2>. QED  BY <2>1, <2>3, <2>4, PaidUpByOne DEF Working, Stages
<1>7. CASE RecoverSave(p, t)
  <2>1. /\ job'[p][t].pc = "idle" /\ Others /\ UNCHANGED <<uses, under>>
        /\ job[p][t].pc = "recover_save"
    BY <1>3, <1>7 DEF RecoverSave, At
  <2>2. SettledUp(t)'
    BY <1>1, <2>1 DEF JobOK, PaidStages, SettledUp, HasUse
  <2>3. JobOK(p, t)'
    BY <2>1 DEF JobOK, Working, Paying, PaidStages
  <2>. QED  BY <2>1, <2>2, <2>3, PaidUpByOne DEF Working, Stages
<1>. QED  BY <1>4, <1>5, <1>6, <1>7 DEF Recover
LEMMA FailsPaysUp ==
  ASSUME TypeOK, TypeOK', NEW p \in Procs, NEW t \in Tasks, PaidUp(t), Fails(p, t)
  PROVE  PaidUp(t)'
<1> DEFINE Others == \A q \in Procs \ {p} : job'[q][t] = job[q][t]
<1>1. JobOK(p, t)
  BY DEF PaidUp
<1>2. ASSUME Finish(p, t)
      PROVE  job'[p][t].pc = "idle" /\ Others
  <2>1. \A q \in Procs \ {p} : <<q, t>> # <<p, t>>
    OBVIOUS
  <2>. QED  BY <1>2, <2>1, FinishFacts DEF Idle
<1>3. CASE StartFails(p, t) \/ CatchFails(p, t)
  BY <1>2, <1>3, DroppedIsPaidUp DEF StartFails, CatchFails
<1>4. CASE ReturnedFails(p, t)
  <2>1. GoTo(p, t, "catch_draw") /\ UNCHANGED <<row, uses, under>> /\ job[p][t].pc = "returned"
    BY <1>4 DEF ReturnedFails, At
  <2>2. job'[p][t] = [pc |-> "catch_draw", grant |-> job[p][t].grant] /\ Others
    <3>1. \A q \in Procs \ {p} : <<q, t>> # <<p, t>>
      OBVIOUS
    <3>2. /\ job'[p][t] = [pc |-> "catch_draw", grant |-> job[p][t].grant]
          /\ \A q \in Procs, u \in Tasks : <<q, u>> # <<p, t>> => job'[q][u] = job[q][u]
      BY <2>1, GoToFacts DEF Stages
    <3>. QED  BY <3>1, <3>2
  <2>3. /\ row'[t].status = "running" /\ row'[t].owner = p
        /\ job[p][t].grant \in GrantIds /\ CanPay(job[p][t].grant, t, Unspent)
    BY <1>1, <2>1 DEF JobOK, Paying, Working, Stages
  <2>4. JobOK(p, t)'
    BY <2>2, <2>3, JobByStage DEF Stages, PaidStages
  <2>. QED  BY <2>1, <2>2, <2>3, <2>4, PaidUpByOne DEF Working, Stages
<1>5. CASE RecoverFails(p, t)
  <2>1. /\ job'[p][t].pc = "idle" /\ Others /\ UNCHANGED under
        /\ job[p][t].pc \in {"recovering", "recover_save"} /\ row'[t].status = row[t].status
    BY <1>2, <1>5 DEF RecoverFails, TypeOK
  <2>2. row'[t].status = "running"
    BY <1>1, <2>1 DEF JobOK, Working, Stages
  <2>3. JobOK(p, t)'
    BY <2>1 DEF JobOK, Working, Paying, PaidStages
  <2>. QED  BY <2>1, <2>2, <2>3, PaidUpByOne DEF Working, Stages
<1>. QED  BY <1>3, <1>4, <1>5 DEF Fails

LEMMA OtherStepsPayUp ==
  ASSUME TypeOK, TypeOK', FinOK, NEW p \in Procs, NEW t \in Tasks, PaidUp(t),
         \/ Block(p, t) \/ Reserve(p, t)
         \/ \E happened \in BOOLEAN : Reconcile(p, t, happened)
  PROVE  PaidUp(t)'
<1>1. /\ JobOK(p, t) /\ job[p][t].pc = "idle" /\ row[t].status # "running" /\ SettledUp(t)
      /\ UNCHANGED under
  BY DEF PaidUp, Block, Reserve, Reconcile, At, memory
<1>2. CASE Block(p, t)
  <2>1. UNCHANGED job /\ SettledUp(t)'
    BY <1>1, <1>2 DEF Block, memory, SettledUp, HasUse
  <2>2. JobOK(p, t)'
    BY <1>1, <2>1 DEF JobOK, Working, Paying, PaidStages
  <2>. QED  BY <1>1, <2>1, <2>2, PaidUpByOne
<1>3. CASE Reserve(p, t)
  <2>1. PICK g \in GrantIds : g = Granted(p, t) /\ CanPay(g, t, Unspent)
    BY <1>3, GrantedCanPay DEF Reserve, FinOK
  <2>2. /\ job'[p][t] = [pc |-> "starting", grant |-> g] /\ UNCHANGED <<row, uses>>
        /\ \A q \in Procs \ {p} : job'[q][t] = job[q][t]
    BY <1>3, <2>1 DEF Reserve, TypeOK
  <2>3. SettledUp(t)'
    BY <1>1, <2>2 DEF SettledUp, HasUse
  <2>4. JobOK(p, t)'
    BY <2>1, <2>2, JobByStage DEF Stages, Working, PaidStages
  <2>. QED  BY <1>1, <2>2, <2>3, <2>4, PaidUpByOne
<1>4. CASE \E happened \in BOOLEAN : Reconcile(p, t, happened)
  <2>1. UNCHANGED job /\ (UNCHANGED uses \/ DrawGrant(p, t))
    BY <1>4 DEF Reconcile
  <2>2. SettledUp(t)'
    BY <1>1, <2>1, DrawnIsSettledUp DEF SettledUp, HasUse
  <2>3. JobOK(p, t)'
    BY <1>1, <2>1 DEF JobOK, Working, Paying, PaidStages
  <2>. QED  BY <1>1, <2>1, <2>2, <2>3, PaidUpByOne
<1>. QED  BY <1>2, <1>3, <1>4

LEMMA CrashPaysUp ==
  ASSUME TypeOK, PInv, NEW p \in Procs, Crash(p)
  PROVE  PInv'
<1> SUFFICES ASSUME NEW t \in Tasks PROVE PaidUp(t)'
  BY DEF PInv
<1>1. PaidUp(t) /\ UNCHANGED <<uses, under>>
  BY DEF PInv, Crash
<1>2. (HasUse(t)' <=> HasUse(t)) /\ (SettledUp(t)' <=> SettledUp(t))
  BY <1>1 DEF HasUse, SettledUp
<1>3. row'[t].status = row[t].status /\ (row[t].owner # p => row'[t].owner = row[t].owner)
  BY DEF Crash, TypeOK
<1>4. ASSUME NEW q \in Procs PROVE JobOK(q, t)'
  <2>1. CASE q = p
    <3>1. job'[p][t].pc = "idle"
      BY DEF Crash, TypeOK, Idle
    <3>. QED  BY <2>1, <3>1 DEF JobOK, Working, Paying, PaidStages
  <2>2. CASE q # p
    <3>1. JobOK(q, t) /\ job'[q][t] = job[q][t]
      BY <1>1, <2>2 DEF PaidUp, Crash, TypeOK
    <3>. QED  BY <1>1, <1>2, <1>3, <2>2, <3>1 DEF JobOK, CanPay, Unspent
  <2>. QED  BY <2>1, <2>2
<1>5. \A g \in GrantIds : t \in under'[g] => CanPay(g, t, Unspent)'
  BY <1>1 DEF PaidUp, CanPay, Unspent
<1>. QED  BY <1>1, <1>2, <1>3, <1>4, <1>5 DEF PaidUp

LEMMA StutterPaysUp ==
  ASSUME PInv, UNCHANGED <<row, uses, job, under>>
  PROVE  PInv'
<1> SUFFICES ASSUME NEW t \in Tasks PROVE PaidUp(t)'
  BY DEF PInv
<1>1. PaidUp(t) /\ Untouched(t)
  BY DEF PInv, Untouched
<1>. QED  BY <1>1, UntouchedIsPaidUp

LEMMA NextPaid == TypeOK /\ FinOK /\ PInv /\ [Next]_vars => PInv'
<1> SUFFICES ASSUME TypeOK, FinOK, PInv, [Next]_vars PROVE PInv'
  OBVIOUS
<1>1. TypeOK'
  BY NextType
<1>2. ASSUME NEW p \in Procs, NEW t \in Tasks,
             \/ Block(p, t) \/ Reserve(p, t) \/ Execute(p, t) \/ Recover(p, t) \/ Fails(p, t)
             \/ \E happened \in BOOLEAN : Reconcile(p, t, happened)
      PROVE  PInv'
  <2>1. PaidUp(t)'
    BY <1>1, <1>2, ExecutePaysUp, RecoverPaysUp, FailsPaysUp, OtherStepsPayUp DEF PInv
  <2>2. ASSUME NEW u \in Tasks \ {t} PROVE PaidUp(u)'
    BY <1>2, StepsTouchOne, UntouchedIsPaidUp DEF PInv
  <2>. QED  BY <2>1, <2>2 DEF PInv
<1>3. CASE UNCHANGED vars \/ \E p \in Procs : Serve(p) \/ CoolDown(p)
  BY <1>3, StutterPaysUp DEF vars, memory, Serve, CoolDown
<1>. QED  BY <1>2, <1>3, CrashPaysUp DEF Next

LEMMA InitPaid == Init => FinOK /\ PInv
<1> SUFFICES ASSUME Init PROVE FinOK /\ PInv
  OBVIOUS
<1>1. FinOK
  BY FS_EmptySet DEF Init, FinOK
<1>2. ASSUME NEW t \in Tasks PROVE PaidUp(t)
  <2>1. \A p \in Procs : JobOK(p, t)
    BY DEF Init, JobOK, Idle, Working, Paying, PaidStages
  <2>2. \A g \in GrantIds : t \notin under[g]
    BY DEF Init
  <2>. QED  BY <2>1, <2>2 DEF PaidUp, SettledUp
<1>. QED  BY <1>1, <1>2 DEF PInv

LEMMA PaidInvariance == Spec => [](TypeOK /\ FinOK /\ PInv)
  BY InitType, InitPaid, NextType, NextFinite, NextPaid, PTL DEF Spec

\* A task at rest whose effect may have gone out on a grant is on record, for any
\* number of processes, grants, crashes and failed writes.
THEOREM RestIsPaid == Spec => []PaidAtRest
<1>1. PInv => PaidAtRest
  BY DEF PInv, PaidUp, SettledUp, PaidAtRest
<1>. QED  BY <1>1, PaidInvariance, PTL
-----------------------------------------------------------------------------
(* One process and one grant: it funds no more than it says.               *)

Alone == GrantCount = 1 /\ \A p, q \in Procs : p = q

Within(S) ==
  /\ S \in SUBSET Tasks /\ IsFiniteSet(S)
  /\ Cardinality(S) <= MaxOps[1] /\ Spent(S) <= DailyMax[1]

\* What may have gone out, with what is held for what may yet.
Committed(p) == under[1] \union reserved[p][1]

HeldOK(p, t) ==
  /\ job[p][t].pc \in Paying => t \in reserved[p][1]
  /\ job[p][t].pc = "starting" => row[t].status = "planned"
  /\ p \in serving /\ t \in under[1] => t \in uses[1] \/ t \in reserved[p][1]

FInv ==
  /\ Within(under[1])
  /\ \A p \in Procs : Within(Committed(p)) /\ \A t \in Tasks : HeldOK(p, t)

LEMMA WithinPart ==
  ASSUME Alone, NEW S, Within(S), NEW T \in SUBSET S
  PROVE  Within(T)
<1>1. /\ S \in SUBSET Tasks /\ IsFiniteSet(S) /\ Cardinality(S) <= MaxOps[1] /\ Spent(S) <= DailyMax[1]
      /\ T \in SUBSET Tasks
  BY DEF Within
<1>2. IsFiniteSet(T) /\ Cardinality(T) <= Cardinality(S)
  BY <1>1, FS_Subset
<1>3. /\ Cardinality(T) \in Nat /\ Cardinality(S) \in Nat
      /\ Spent(T) \in Nat /\ Spent(S) \in Nat /\ Spent(T) <= Spent(S)
  BY <1>1, <1>2, FS_CardinalityType, SpentType, SpentMonotone
<1>4. MaxOps[1] \in Nat /\ DailyMax[1] \in Nat
  BY GrantAssumption DEF Alone, GrantIds
<1>. QED  BY <1>1, <1>2, <1>3, <1>4 DEF Within

\* Only the task of a step changes its place among what is held.
LEMMA StepsHoldOne ==
  ASSUME TypeOK, NEW p \in Procs, NEW t \in Tasks, NEW u \in Tasks \ {t},
         \/ Block(p, t) \/ Reserve(p, t) \/ Execute(p, t) \/ Recover(p, t) \/ Fails(p, t)
         \/ \E happened \in BOOLEAN : Reconcile(p, t, happened)
  PROVE  \A q \in Procs, g \in GrantIds : u \in reserved'[q][g] <=> u \in reserved[q][g]
<1>1. ASSUME UNCHANGED reserved \/ Release(p, t) \/ DrawGrant(p, t)
      PROVE  \A q \in Procs, g \in GrantIds : u \in reserved'[q][g] <=> u \in reserved[q][g]
  <2>1. CASE Release(p, t)
    <3>1. \A q \in Procs, g \in GrantIds :
            reserved'[q][g] = IF q = p /\ g = job[p][t].grant THEN reserved[q][g] \ {t} ELSE reserved[q][g]
      BY <2>1, ReleaseFacts
    <3>. QED  BY <3>1
  <2>2. CASE DrawGrant(p, t)
    <3>1. \A q \in Procs, g \in GrantIds :
            reserved'[q][g] = IF q = p THEN reserved[q][g] \ {t} ELSE reserved[q][g]
      BY <2>2, DrawGrantFacts
    <3>. QED  BY <3>1
  <2>. QED  BY <1>1, <2>1, <2>2
<1>2. CASE Reserve(p, t)
  <2>1. PICK d \in GrantIds : d = Granted(p, t)
    BY <1>2, GrantedType DEF Reserve
  <2>2. Hold(p, d, t)
    BY <1>2, <2>1 DEF Reserve
  <2>3. ASSUME NEW q \in Procs, NEW g \in GrantIds
        PROVE  u \in reserved'[q][g] <=> u \in reserved[q][g]
    <3>1. reserved'[q][g] = IF q = p /\ g = d THEN reserved[q][g] \union {t} ELSE reserved[q][g]
      BY <2>1, <2>2 DEF Hold, TypeOK
    <3>. QED  BY <3>1
  <2>. QED  BY <2>3
<1>3. CASE Execute(p, t)
  BY <1>1, <1>3 DEF Execute, Start, NotCalled, Call, Returns, ThrowsUnknown, ThrowsNotSent,
     Conclude, CatchDraw, CatchSave
<1>4. CASE Recover(p, t)
  BY <1>1, <1>4 DEF Recover, Claim, RecoverSettled, RecoverDraw, RecoverSave
<1>5. CASE Fails(p, t)
  BY <1>1, <1>5 DEF Fails, StartFails, ReturnedFails, CatchFails, RecoverFails
<1>6. CASE Block(p, t) \/ \E happened \in BOOLEAN : Reconcile(p, t, happened)
  BY <1>1, <1>6 DEF Block, Reconcile, memory
<1>. QED  BY <1>2, <1>3, <1>4, <1>5, <1>6

\* So it is enough to look at that task, and at the whole of what is committed.
LEMMA FundedByOne ==
  ASSUME Alone, TypeOK, TypeOK', FInv, NEW p \in Procs, NEW t \in Tasks,
         \/ Block(p, t) \/ Reserve(p, t) \/ Execute(p, t) \/ Recover(p, t) \/ Fails(p, t)
         \/ \E happened \in BOOLEAN : Reconcile(p, t, happened),
         UNCHANGED serving, HeldOK(p, t)', Within(Committed(p)')
  PROVE  FInv'
<1>1. \A q \in Procs : q = p
  BY DEF Alone
<1>2. 1 \in GrantIds
  BY DEF Alone, GrantIds
<1>3. ASSUME NEW u \in Tasks \ {t} PROVE HeldOK(p, u)'
  <2>1. Untouched(u)
    BY StepsTouchOne
  <2>2. u \in reserved'[p][1] <=> u \in reserved[p][1]
    BY <1>2, StepsHoldOne
  <2>3. HeldOK(p, u)
    BY DEF FInv
  <2>. QED  BY <1>2, <2>1, <2>2, <2>3 DEF HeldOK, Untouched
<1>4. under'[1] \in SUBSET Committed(p)'
  BY DEF Committed
<1>5. Within(under'[1])
  BY <1>4, WithinPart
<1>6. \A q \in Procs : Within(Committed(q)')
  BY <1>1
<1>7. \A q \in Procs, u \in Tasks : HeldOK(q, u)'
  BY <1>1, <1>3
<1>. QED  BY <1>5, <1>6, <1>7 DEF FInv, Within
\* A step that lets go of what it holds for a task has it settled up.
LEMMA FundedIfSettled ==
  ASSUME Alone, TypeOK, TypeOK', FInv, NEW p \in Procs, NEW t \in Tasks,
         \/ Execute(p, t) \/ Recover(p, t) \/ Fails(p, t)
         \/ \E happened \in BOOLEAN : Reconcile(p, t, happened),
         UNCHANGED serving, SettledUp(t)', job'[p][t].pc \notin Paying,
         under'[1] \subseteq under[1], reserved'[p][1] \subseteq reserved[p][1]
  PROVE  FInv'
<1>1. t \in under'[1] => t \in uses'[1]
  BY DEF SettledUp, HasUse, Alone, GrantIds
<1>2. HeldOK(p, t)'
  BY <1>1 DEF HeldOK, Paying
<1>3. Committed(p)' \in SUBSET Committed(p)
  BY DEF Committed
<1>4. Within(Committed(p)')
  BY <1>3, WithinPart DEF FInv
<1>. QED  BY <1>2, <1>4, FundedByOne

\* A step that holds on to it commits no more than was held.
LEMMA FundedIfHeld ==
  ASSUME Alone, TypeOK, TypeOK', FInv, NEW p \in Procs, NEW t \in Tasks,
         \/ Block(p, t) \/ Execute(p, t) \/ Recover(p, t) \/ Fails(p, t)
         \/ \E happened \in BOOLEAN : Reconcile(p, t, happened),
         UNCHANGED <<serving, reserved, uses>>,
         under'[1] \subseteq under[1] \union reserved[p][1],
         job'[p][t].pc \in Paying => job[p][t].pc \in Paying,
         job'[p][t].pc # "starting"
  PROVE  FInv'
<1>1. HeldOK(p, t)
  BY DEF FInv
<1>2. HeldOK(p, t)'
  BY <1>1 DEF HeldOK
<1>3. Committed(p)' \in SUBSET Committed(p)
  BY DEF Committed
<1>4. Within(Committed(p)')
  BY <1>3, WithinPart DEF FInv
<1>. QED  BY <1>2, <1>4, FundedByOne

LEMMA ExecuteFunds ==
  ASSUME Alone, TypeOK, TypeOK', PInv, PInv', FInv, NEW p \in Procs, NEW t \in Tasks, Execute(p, t)
  PROVE  FInv'
<1>1. HeldOK(p, t) /\ JobOK(p, t) /\ JobOK(p, t)' /\ PaidUp(t) /\ PaidUp(t)'
  BY DEF FInv, PInv, PaidUp
<1>2. ASSUME NEW stage \in Stages, GoTo(p, t, stage) PROVE job'[p][t].pc = stage
  <2>1. job'[p][t] = [pc |-> stage, grant |-> job[p][t].grant]
    BY <1>2, GoToFacts
  <2>. QED  BY <2>1
<1>3. ASSUME Finish(p, t) PROVE job'[p][t].pc = "idle"
  BY <1>3, FinishFacts DEF Idle
<1>4. 1 \in GrantIds
  BY DEF Alone, GrantIds
<1>5. ASSUME Release(p, t) PROVE reserved'[p][1] \subseteq reserved[p][1]
  <2>1. \A q \in Procs, g \in GrantIds :
          reserved'[q][g] = IF q = p /\ g = job[p][t].grant THEN reserved[q][g] \ {t} ELSE reserved[q][g]
    BY <1>5, ReleaseFacts
  <2>. QED  BY <1>4, <2>1
<1>6. CASE Start(p, t)
  <2>1. row[t].status = "planned"
    BY <1>1, <1>6 DEF Start, At, HeldOK
  <2>2. job'[p][t].pc = "attempting" /\ job[p][t].pc \in Paying
    BY <1>2, <1>6, <2>1 DEF Start, At, Stages, Paying
  <2>. QED  BY <1>6, <2>1, <2>2, FundedIfHeld DEF Start, Execute
<1>7. CASE NotCalled(p, t)
  <2>1. job'[p][t].pc = "catch_fail"
    BY <1>2, <1>7 DEF NotCalled, Stages
  <2>2. SettledUp(t)' /\ UNCHANGED <<serving, under>>
    BY <1>1, <1>7, <2>1 DEF JobOK, PaidStages, NotCalled
  <2>. QED  BY <1>5, <1>7, <2>1, <2>2, FundedIfSettled DEF NotCalled, Execute, Paying
<1>8. CASE Call(p, t)
  <2>1. job'[p][t].pc = "calling" /\ job[p][t].pc \in Paying
    BY <1>2, <1>8 DEF Call, Stages, At, Paying
  <2>2. t \in reserved[p][1]
    BY <1>1, <2>1 DEF HeldOK
  <2>3. under'[1] \subseteq under[1] \union {t}
    BY <1>4, <1>8 DEF Call, TypeOK
  <2>. QED  BY <1>8, <2>1, <2>2, <2>3, FundedIfHeld DEF Call, Execute
<1>9. CASE (\E success \in BOOLEAN : Returns(p, t, success)) \/ ThrowsUnknown(p, t)
  <2>1. job'[p][t].pc \in {"returned", "catch_draw"}
    BY <1>2, <1>9 DEF Returns, ThrowsUnknown, Stages
  <2>2. UNCHANGED <<serving, reserved, uses, under>> /\ job[p][t].pc \in Paying
    BY <1>9 DEF Returns, ThrowsUnknown, At, Paying
  <2>. QED  BY <1>9, <2>1, <2>2, FundedIfHeld DEF Execute
<1>10. CASE ThrowsNotSent(p, t)
  <2>1. job'[p][t].pc = "catch_fail"
    BY <1>2, <1>10 DEF ThrowsNotSent, Stages
  <2>2. SettledUp(t)' /\ UNCHANGED serving /\ Release(p, t)
    BY <1>1, <1>10, <2>1 DEF JobOK, PaidStages, ThrowsNotSent
  <2>3. under'[1] \subseteq under[1]
    BY <1>4, <1>10 DEF ThrowsNotSent, TypeOK
  <2>. QED  BY <1>5, <1>10, <2>1, <2>2, <2>3, FundedIfSettled DEF Execute, Paying
<1>11. CASE Conclude(p, t)
  <2>1. job'[p][t].pc = "idle" /\ row'[t].status = "settled"
    <3>1. Finish(p, t) /\ SetStatus(t, "settled")
      BY <1>11 DEF Conclude
    <3>2. row'[t] = [status |-> "settled", owner |-> row[t].owner]
      BY <3>1, SetStatusFacts DEF Status
    <3>. QED  BY <1>3, <3>1, <3>2
  <2>2. SettledUp(t)' /\ UNCHANGED <<serving, under>> /\ Release(p, t)
    BY <1>1, <1>11, <2>1 DEF PaidUp, Conclude
  <2>. QED  BY <1>5, <1>11, <2>1, <2>2, FundedIfSettled DEF Execute, Paying
<1>12. CASE CatchDraw(p, t)
  <2>1. job'[p][t].pc \in {"catch_park", "catch_fail"}
    BY <1>2, <1>12 DEF CatchDraw, Stages
  <2>2. SettledUp(t)' /\ UNCHANGED <<serving, under>> /\ Release(p, t)
    BY <1>1, <1>12, <2>1 DEF JobOK, PaidStages, CatchDraw
  <2>. QED  BY <1>5, <1>12, <2>1, <2>2, FundedIfSettled DEF Execute, Paying
<1>13. CASE CatchSave(p, t)
  <2>1. job'[p][t].pc = "idle" /\ UNCHANGED <<serving, reserved, uses, under>>
    BY <1>3, <1>13 DEF CatchSave
  <2>. QED  BY <1>13, <2>1, FundedIfHeld DEF Execute, Paying
<1>. QED  BY <1>6, <1>7, <1>8, <1>9, <1>10, <1>11, <1>12, <1>13 DEF Execute

LEMMA RecoverFunds ==
  ASSUME Alone, TypeOK, TypeOK', PInv, PInv', FInv, NEW p \in Procs, NEW t \in Tasks,
         Recover(p, t) \/ \E happened \in BOOLEAN : Reconcile(p, t, happened)
  PROVE  FInv'
<1>1. HeldOK(p, t) /\ JobOK(p, t)' /\ PaidUp(t) /\ PaidUp(t)'
  BY DEF FInv, PInv, PaidUp
<1>2. ASSUME NEW stage \in Stages, GoTo(p, t, stage) PROVE job'[p][t].pc = stage
  <2>1. job'[p][t] = [pc |-> stage, grant |-> job[p][t].grant]
    BY <1>2, GoToFacts
  <2>. QED  BY <2>1
<1>3. ASSUME Finish(p, t) PROVE job'[p][t].pc = "idle"
  BY <1>3, FinishFacts DEF Idle
<1>4. 1 \in GrantIds
  BY DEF Alone, GrantIds
<1>5. ASSUME DrawGrant(p, t) PROVE reserved'[p][1] \subseteq reserved[p][1]
  <2>1. \A q \in Procs, g \in GrantIds :
          reserved'[q][g] = IF q = p THEN reserved[q][g] \ {t} ELSE reserved[q][g]
    BY <1>5, DrawGrantFacts
  <2>. QED  BY <1>4, <2>1
<1>6. CASE Claim(p, t)
  <2>1. job'[p][t].pc = "recovering" /\ UNCHANGED <<serving, reserved, uses, under>>
    BY <1>2, <1>6 DEF Claim, Stages
  <2>. QED  BY <1>6, <2>1, FundedIfHeld DEF Recover, Paying
<1>7. CASE RecoverSettled(p, t)
  <2>1. job'[p][t].pc = "idle" /\ row'[t].status = "settled"
    <3>1. Finish(p, t) /\ SetStatus(t, "settled")
      BY <1>7 DEF RecoverSettled
    <3>2. row'[t] = [status |-> "settled", owner |-> row[t].owner]
      BY <3>1, SetStatusFacts DEF Status
    <3>. QED  BY <1>3, <3>1, <3>2
  <2>2. SettledUp(t)' /\ UNCHANGED <<serving, under>> /\ DrawGrant(p, t)
    BY <1>1, <1>7, <2>1 DEF PaidUp, RecoverSettled
  <2>. QED  BY <1>5, <1>7, <2>1, <2>2, FundedIfSettled DEF Recover, Paying
<1>8. CASE RecoverDraw(p, t)
  <2>1. job'[p][t].pc = "recover_save"
    BY <1>2, <1>8 DEF RecoverDraw, Stages
  <2>2. SettledUp(t)' /\ UNCHANGED <<serving, under>> /\ DrawGrant(p, t)
    BY <1>1, <1>8, <2>1 DEF JobOK, PaidStages, RecoverDraw
  <2>. QED  BY <1>5, <1>8, <2>1, <2>2, FundedIfSettled DEF Recover, Paying
<1>9. CASE RecoverSave(p, t)
  <2>1. job'[p][t].pc = "idle" /\ UNCHANGED <<serving, reserved, uses, under>>
    BY <1>3, <1>9 DEF RecoverSave
  <2>. QED  BY <1>9, <2>1, FundedIfHeld DEF Recover, Paying
<1>10. CASE \E happened \in BOOLEAN : Reconcile(p, t, happened)
  <2>1. /\ job'[p][t].pc = "idle" /\ row'[t].status = "settled" /\ UNCHANGED <<serving, under>>
        /\ UNCHANGED reserved \/ DrawGrant(p, t)
    <3>1. SetStatus(t, "settled")
      BY <1>10 DEF Reconcile
    <3>2. row'[t] = [status |-> "settled", owner |-> row[t].owner]
      BY <3>1, SetStatusFacts DEF Status
    <3>. QED  BY <1>10, <3>2 DEF Reconcile, At
  <2>2. SettledUp(t)'
    BY <1>1, <2>1 DEF PaidUp
  <2>3. reserved'[p][1] \subseteq reserved[p][1]
    BY <1>5, <2>1
  <2>. QED  BY <1>10, <2>1, <2>2, <2>3, FundedIfSettled DEF Paying
<1>. QED  BY <1>6, <1>7, <1>8, <1>9, <1>10 DEF Recover

LEMMA FailsFunds ==
  ASSUME Alone, TypeOK, TypeOK', PInv, PInv', FInv, NEW p \in Procs, NEW t \in Tasks, Fails(p, t)
  PROVE  FInv'
<1>1. HeldOK(p, t) /\ PaidUp(t) /\ PaidUp(t)'
  BY DEF FInv, PInv
<1>2. ASSUME Finish(p, t) PROVE job'[p][t].pc = "idle"
  BY <1>2, FinishFacts DEF Idle
<1>3. 1 \in GrantIds
  BY DEF Alone, GrantIds
<1>4. CASE StartFails(p, t)
  <2>1. /\ job'[p][t].pc = "idle" /\ row'[t].status = "planned"
        /\ UNCHANGED <<serving, under>> /\ Release(p, t)
    BY <1>1, <1>2, <1>4 DEF StartFails, At, HeldOK
  <2>2. SettledUp(t)'
    BY <1>1, <2>1 DEF PaidUp
  <2>3. \A q \in Procs, g \in GrantIds :
          reserved'[q][g] = IF q = p /\ g = job[p][t].grant THEN reserved[q][g] \ {t} ELSE reserved[q][g]
    BY <2>1, ReleaseFacts
  <2>4. reserved'[p][1] \subseteq reserved[p][1]
    BY <1>3, <2>3
  <2>. QED  BY <1>4, <2>1, <2>2, <2>4, FundedIfSettled DEF Fails, Paying
<1>5. CASE ReturnedFails(p, t)
  <2>1. GoTo(p, t, "catch_draw")
    BY <1>5 DEF ReturnedFails
  <2>2. job'[p][t] = [pc |-> "catch_draw", grant |-> job[p][t].grant]
    BY <2>1, GoToFacts DEF Stages
  <2>3. job'[p][t].pc = "catch_draw" /\ job[p][t].pc \in Paying
    BY <1>5, <2>2 DEF ReturnedFails, At, Paying
  <2>. QED  BY <1>5, <2>3, FundedIfHeld DEF Fails, ReturnedFails
<1>6. CASE CatchFails(p, t) \/ RecoverFails(p, t)
  <2>1. job'[p][t].pc = "idle" /\ UNCHANGED <<serving, reserved, uses, under>>
    BY <1>2, <1>6 DEF CatchFails, RecoverFails
  <2>. QED  BY <1>6, <2>1, FundedIfHeld DEF Fails, Paying
<1>. QED  BY <1>4, <1>5, <1>6 DEF Fails
\* A grant is reserved only where all that may have gone out, all that is held
\* and one more task are within it.
LEMMA ReserveFunds ==
  ASSUME Alone, TypeOK, TypeOK', FinOK, FInv, NEW p \in Procs, NEW t \in Tasks, Reserve(p, t)
  PROVE  FInv'
<1>1. 1 \in GrantIds /\ \A g \in GrantIds : g = 1
  BY DEF Alone, GrantIds
<1>2. Granted(p, t) = 1 /\ CanPay(1, t, Usage(p, 1))
  BY <1>1, GrantedType DEF Reserve
<1>3. reserved'[p][1] = reserved[p][1] \union {t}
  <2>1. Hold(p, 1, t)
    BY <1>2 DEF Reserve
  <2>. QED  BY <1>1, <2>1 DEF Hold, TypeOK
<1>4. /\ job'[p][t].pc = "starting" /\ row'[t].status = "planned" /\ p \in serving
      /\ UNCHANGED <<serving, uses, under>>
  BY DEF Reserve, TypeOK
<1>5. HeldOK(p, t)'
  BY <1>3, <1>4 DEF HeldOK
<1> DEFINE U == uses[1]
           R == reserved[p][1]
<1>6. Committed(p)' \subseteq (U \union R) \union {t}
  <2>1. \A u \in Tasks : u \in under[1] => u \in U \union R
    BY <1>4 DEF FInv, HeldOK
  <2>2. under[1] \subseteq U \union R
    BY <1>1, <2>1 DEF TypeOK
  <2>3. Committed(p)' = under[1] \union (R \union {t})
    BY <1>3, <1>4 DEF Committed
  <2> HIDE DEF U, R
  <2>. QED  BY <2>2, <2>3
<1>7. U \in SUBSET Tasks /\ R \in SUBSET Tasks /\ IsFiniteSet(U) /\ IsFiniteSet(R)
  BY <1>1 DEF TypeOK, FinOK
<1>8. Within((U \union R) \union {t})
  <2> HIDE DEF U, R
  <2>1. /\ Cardinality(U) \in Nat /\ Cardinality(R) \in Nat /\ Spent(U) \in Nat /\ Spent(R) \in Nat
        /\ IsFiniteSet(U \union R) /\ IsFiniteSet((U \union R) \union {t})
        /\ U \union R \in SUBSET Tasks
    BY <1>7, FS_CardinalityType, SpentType, FS_Union, FS_AddElement
  <2>2. Cardinality(U \union R) \in Nat /\ Spent(U \union R) \in Nat
    BY <2>1, FS_CardinalityType, SpentType
  <2>3. Cardinality(U \union R) <= Cardinality(U) + Cardinality(R)
    <3>1. Cardinality(U \union R) = Cardinality(U) + Cardinality(R) - Cardinality(U \intersect R)
      BY <1>7, FS_Union
    <3>2. Cardinality(U \intersect R) \in Nat
      BY <1>7, FS_Intersection, FS_CardinalityType
    <3>. QED  BY <2>1, <3>1, <3>2
  <2>4. Spent(U \union R) <= Spent(U) + Spent(R)
    BY <1>7, SpentOfUnion
  <2>5. /\ Cardinality((U \union R) \union {t}) <= Cardinality(U \union R) + 1
        /\ Spent((U \union R) \union {t}) <= Spent(U \union R) + Amount[t]
    <3>1. /\ Cardinality((U \union R) \union {t}) =
               IF t \in U \union R THEN Cardinality(U \union R) ELSE Cardinality(U \union R) + 1
          /\ Spent((U \union R) \union {t}) =
               IF t \in U \union R THEN Spent(U \union R) ELSE Spent(U \union R) + Amount[t]
      BY <2>1, FS_AddElement, SpentAdds
    <3>. QED  BY <2>2, <3>1, GrantAssumption
  <2>6. Cardinality(U) + Cardinality(R) < MaxOps[1] /\ Spent(U) + Spent(R) + Amount[t] <= DailyMax[1]
    BY <1>2 DEF CanPay, Usage, U, R
  <2>7. MaxOps[1] \in Nat /\ DailyMax[1] \in Nat /\ Amount[t] \in Nat
    BY <1>1, GrantAssumption
  <2>8. /\ Cardinality((U \union R) \union {t}) \in Nat
        /\ Spent((U \union R) \union {t}) \in Nat
    BY <2>1, FS_CardinalityType, SpentType
  <2>. QED  BY <2>1, <2>2, <2>3, <2>4, <2>5, <2>6, <2>7, <2>8 DEF Within
<1>9. Within(Committed(p)')
  <2> HIDE DEF U, R
  <2>. QED  BY <1>6, <1>8, WithinPart
<1>. QED  BY <1>4, <1>5, <1>9, FundedByOne

\* A process that serves has recovered every task that was cut off; one that dies
\* commits nothing more.
LEMMA ProcessFunds ==
  ASSUME Alone, TypeOK, PInv, FInv, NEW p \in Procs, Serve(p) \/ CoolDown(p) \/ Crash(p)
  PROVE  FInv'
<1>1. 1 \in GrantIds /\ \A g \in GrantIds : g = 1
  BY DEF Alone, GrantIds
<1>2. \A q \in Procs : q = p
  BY DEF Alone
<1>3. Within(under'[1])
  BY DEF FInv, Serve, CoolDown, Crash, Within
<1>4. CASE Serve(p)
  <2>1. \A t \in Tasks : row[t].status # "running"
    BY <1>2, <1>4 DEF Serve, Recovered, TypeOK
  <2>2. \A t \in Tasks : t \in under[1] => t \in uses[1]
    BY <1>1, <2>1 DEF PInv, PaidUp, SettledUp, HasUse
  <2>3. \A t \in Tasks : HeldOK(p, t)'
    BY <1>4, <2>2 DEF FInv, HeldOK, Serve
  <2>4. Within(Committed(p)')
    BY <1>4 DEF FInv, Serve, Committed
  <2>. QED  BY <1>2, <1>3, <2>3, <2>4 DEF FInv, Within
<1>5. CASE CoolDown(p)
  BY <1>5 DEF FInv, CoolDown, HeldOK, Committed, Within
<1>6. CASE Crash(p)
  <2>1. reserved'[p][1] = {} /\ p \notin serving' /\ \A t \in Tasks : job'[p][t].pc = "idle"
    BY <1>1, <1>6 DEF Crash, TypeOK, Idle
  <2>2. Committed(p)' = under'[1]
    BY <2>1 DEF Committed
  <2>3. \A t \in Tasks : HeldOK(p, t)'
    BY <2>1 DEF HeldOK, Paying
  <2>. QED  BY <1>2, <1>3, <2>2, <2>3 DEF FInv, Within
<1>. QED  BY <1>4, <1>5, <1>6

LEMMA InitFunded == Alone /\ Init => FInv
<1> SUFFICES ASSUME Alone, Init PROVE FInv
  OBVIOUS
<1>1. 1 \in GrantIds /\ MaxOps[1] \in Nat /\ DailyMax[1] \in Nat
  BY GrantAssumption DEF Alone, GrantIds
<1>2. Within({})
  <2>1. {} \in SUBSET Tasks /\ IsFiniteSet({}) /\ Cardinality({}) = 0
    BY FS_EmptySet
  <2>2. Spent({}) = 0
    BY <2>1, SpentType
  <2>. QED  BY <1>1, <2>1, <2>2 DEF Within
<1>3. under[1] = {} /\ \A p \in Procs : Committed(p) = {}
  BY <1>1 DEF Init, Committed
<1>4. \A p \in Procs, t \in Tasks : HeldOK(p, t)
  BY DEF Init, HeldOK, Idle, Paying
<1>. QED  BY <1>2, <1>3, <1>4 DEF FInv

LEMMA NextFunded == Alone /\ TypeOK /\ FinOK /\ PInv /\ FInv /\ [Next]_vars => FInv'
<1> SUFFICES ASSUME Alone, TypeOK, FinOK, PInv, FInv, [Next]_vars PROVE FInv'
  OBVIOUS
<1>1. TypeOK' /\ PInv'
  BY NextType, NextPaid
<1>2. ASSUME NEW p \in Procs, NEW t \in Tasks,
             \/ Block(p, t) \/ Reserve(p, t) \/ Execute(p, t) \/ Recover(p, t) \/ Fails(p, t)
             \/ \E happened \in BOOLEAN : Reconcile(p, t, happened)
      PROVE  FInv'
  <2>1. CASE Block(p, t)
    <3>1. UNCHANGED <<serving, reserved, uses, under, job>> /\ job[p][t].pc = "idle"
      BY <2>1 DEF Block, memory, At
    <3>. QED  BY <1>1, <2>1, <3>1, FundedIfHeld
  <2>. QED  BY <1>1, <1>2, <2>1, ReserveFunds, ExecuteFunds, RecoverFunds, FailsFunds
<1>3. CASE UNCHANGED vars
  BY <1>3 DEF vars, memory, FInv, HeldOK, Committed, Within
<1>. QED  BY <1>2, <1>3, ProcessFunds DEF Next

\* The one grant of one process is never overdrawn: whatever is started at once,
\* fails, is cut off and recovered, no more effects may have gone out on it than
\* its operations, nor for more than its daily limit.
THEOREM OneGrantFundsNoMore ==
  ASSUME Alone
  PROVE  Spec => []GrantsFundNoMore
<1>1. FInv /\ PInv => GrantsFundNoMore
  <2> SUFFICES ASSUME FInv, PInv PROVE GrantsFundNoMore
    OBVIOUS
  <2>1. \A g \in GrantIds : g = 1
    BY DEF Alone, GrantIds
  <2>2. FundsNoMore
    BY <2>1 DEF FInv, Within, FundsNoMore
  <2>3. PaidAtRest
    BY DEF PInv, PaidUp, SettledUp, PaidAtRest
  <2>. QED  BY <2>2, <2>3 DEF GrantsFundNoMore
<1>2. Init => FInv
  BY InitFunded
<1>3. TypeOK /\ FinOK /\ PInv /\ FInv /\ [Next]_vars => FInv'
  BY NextFunded
<1>. QED  BY <1>1, <1>2, <1>3, PaidInvariance, PTL DEF Spec

-----------------------------------------------------------------------------
(* The order of a definition's steps.                                      *)

GraphStates == {"pending", "awaiting_approval", "awaiting_input", "verified_complete"}
DependenciesDone(n) == \A m \in def[n].dependsOn : Graph!Done(m)

\* A node that was offered once was offered after all it waits for.
OfferedAfter ==
  part = "graph" =>
    /\ def \in Graph!Definitions /\ graphNode \in [Ids -> GraphStates]
    /\ \A n \in Ids : graphNode[n] # "pending" => Graph!OfferedInTime(n) /\ DependenciesDone(n)

FollowsDependencies ==
  \A t \in ran' \ ran : \A m \in def[t].dependsOn :
    Graph!Done(m) \/ (Graph!Type(def, m) = "approval" /\ Graph!Of(def, m) = t)

LEMMA OfferedNodes ==
  ASSUME part = "graph", OfferedAfter, NEW n \in Ids, n \in Graph!Offered
  PROVE  Graph!OfferedInTime(n) /\ DependenciesDone(n) /\ ~Graph!Done(n)
  BY DEF OfferedAfter, Graph!Offered, Graph!ReadyNodes, Graph!Done, DependenciesDone

LEMMA RunTaskDoes ==
  ASSUME NEW n, NEW t, NEW executePlanned \in BOOLEAN, Graph!RunTask(n, t, executePlanned)
  PROVE  /\ UNCHANGED <<def, plans, stored>> /\ ran' \subseteq ran \union {t}
         /\ \E status \in GraphStates : graphNode' = [graphNode EXCEPT ![n] = status]
  BY DEF Graph!RunTask, Graph!Advance, GraphStates

\* A step of a node that is offered.
LEMMA NodeAdvances ==
  ASSUME part = "graph", part' = part, OfferedAfter, NEW n \in Ids, n \in Graph!Offered, UNCHANGED def,
         NEW status \in GraphStates, graphNode' = [graphNode EXCEPT ![n] = status]
  PROVE  OfferedAfter'
<1>1. Graph!OfferedInTime(n) /\ DependenciesDone(n) /\ ~Graph!Done(n)
  BY OfferedNodes
<1>2. /\ graphNode' \in [Ids -> GraphStates]
      /\ \A m \in Ids : m # n => graphNode'[m] = graphNode[m]
      /\ def \in Graph!Definitions
  BY DEF OfferedAfter
<1>3. \A m : m \in Ids /\ Graph!Done(m) => Graph!Done(m)'
  BY <1>1, <1>2 DEF Graph!Done
<1>4. ASSUME NEW m \in Ids, Graph!OfferedInTime(m), DependenciesDone(m)
      PROVE  (Graph!OfferedInTime(m) /\ DependenciesDone(m))'
  <2>1. def[m].dependsOn \subseteq Ids
    BY <1>2 DEF Graph!Definitions
  <2>2. DependenciesDone(m)'
    BY <1>3, <1>4, <2>1 DEF DependenciesDone
  <2>3. CASE Graph!Type(def, m) = "approval"
    <3>1. Graph!Of(def, m) \in Ids
      BY <1>2, <2>3 DEF Graph!Definitions, Graph!Kinds, Graph!Type, Graph!Of
    <3>2. def[Graph!Of(def, m)].dependsOn \subseteq Ids
      BY <1>2, <3>1 DEF Graph!Definitions
    <3>. QED  BY <1>3, <1>4, <2>2, <3>2 DEF Graph!OfferedInTime
  <2>4. CASE Graph!Type(def, m) # "approval"
    BY <2>2, <2>4 DEF Graph!OfferedInTime
  <2>. QED  BY <2>3, <2>4
<1>. QED  BY <1>1, <1>2, <1>4 DEF OfferedAfter

\* What a step of the graph does: only what is offered has an effect, after
\* what it depends on.
LEMMA GraphSteps ==
  ASSUME part = "graph", part' = part, OfferedAfter, Graph!Next
  PROVE  OfferedAfter' /\ FollowsDependencies
<1>1. ASSUME NEW p \in Planners, Graph!ReadStored(p) \/ Graph!Create(p)
      PROVE  OfferedAfter' /\ FollowsDependencies
  <2>1. UNCHANGED <<def, graphNode, ran>>
    BY <1>1 DEF Graph!ReadStored, Graph!Create
  <2>. QED  BY <2>1 DEF OfferedAfter, FollowsDependencies, Graph!OfferedInTime, DependenciesDone, Graph!Done
<1>2. CASE Graph!Start
  <2>1. UNCHANGED <<def, graphNode, ran>>
    BY <1>2 DEF Graph!Start
  <2>. QED  BY <2>1 DEF OfferedAfter, FollowsDependencies, Graph!OfferedInTime, DependenciesDone, Graph!Done
<1>3. ASSUME NEW n \in Ids, Graph!Operation(n)
      PROVE  OfferedAfter' /\ FollowsDependencies
  <2>1. n \in Graph!Offered /\ Graph!RunTask(n, n, TRUE)
    BY <1>3 DEF Graph!Operation
  <2>2. DependenciesDone(n)
    BY <2>1, OfferedNodes
  <2>3. UNCHANGED def /\ ran' \subseteq ran \union {n}
    BY <2>1, RunTaskDoes
  <2>4. OfferedAfter'
    BY <2>1, RunTaskDoes, NodeAdvances
  <2>. QED  BY <2>2, <2>3, <2>4 DEF FollowsDependencies, DependenciesDone
<1>4. ASSUME NEW n \in Ids, Graph!Approval(n)
      PROVE  OfferedAfter' /\ FollowsDependencies
  <2>1. n \in Graph!Offered /\ Graph!Type(def, n) = "approval" /\ Graph!RunTask(n, Graph!Of(def, n), FALSE)
    BY <1>4 DEF Graph!Approval
  <2>2. \A m \in def[Graph!Of(def, n)].dependsOn \ {n} : Graph!Done(m)
    BY <2>1, OfferedNodes DEF Graph!OfferedInTime
  <2>3. UNCHANGED def /\ ran' \subseteq ran \union {Graph!Of(def, n)}
    BY <2>1, RunTaskDoes
  <2>4. OfferedAfter'
    BY <2>1, RunTaskDoes, NodeAdvances
  <2>. QED  BY <2>1, <2>2, <2>3, <2>4 DEF FollowsDependencies
<1>5. ASSUME NEW n \in Ids, Graph!Condition(n) \/ Graph!Input(n)
      PROVE  OfferedAfter' /\ FollowsDependencies
  <2>1. n \in Graph!Offered /\ UNCHANGED <<def, ran>>
        /\ \E status \in GraphStates : graphNode' = [graphNode EXCEPT ![n] = status]
    BY <1>5 DEF Graph!Condition, Graph!Input, Graph!Advance, GraphStates
  <2>. QED  BY <2>1, NodeAdvances DEF FollowsDependencies
<1>. QED  BY <1>1, <1>2, <1>3, <1>4, <1>5 DEF Graph!Next

LEMMA GraphInit == RunsInit => OfferedAfter
  BY DEF RunsInit, Graph!Init, OfferedAfter, GraphStates

LEMMA GraphNext ==
  ASSUME OfferedAfter, [RunsNext]_<<part, vars, nodesPart, logPart, graphPart, judgePart>>
  PROVE  OfferedAfter' /\ FollowsDependencies
<1>1. CASE part = "graph" /\ Graph!Next /\ UNCHANGED part
  BY <1>1, GraphSteps
<1>2. CASE UNCHANGED <<part, graphPart>>
  BY <1>2 DEF graphPart, OfferedAfter, FollowsDependencies, Graph!OfferedInTime, DependenciesDone, Graph!Done
<1>. QED  BY <1>1, <1>2 DEF RunsNext

-----------------------------------------------------------------------------
(* The history of a run, and who halted it.                                *)

IsRun(r) == {"version", "status", "node"} \subseteq DOMAIN r /\ r.version \in Nat
IsEvent(e) == {"type", "operator"} \subseteq DOMAIN e
IsSequence(s) == Len(s) \in Nat /\ s = [i \in 1..Len(s) |-> s[i]]
AreEvents(s) == IsSequence(s) /\ \A i \in 1..Len(s) : IsEvent(s[i])
ResumeNothing(s) == \A i \in 1..Len(s) : s[i].type # "resumed"

LEMMA SequencesOf ==
  ASSUME NEW s, IsSequence(s)
  PROVE  s \in Seq({s[i] : i \in 1..Len(s)}) /\ DOMAIN s = 1..Len(s)
  BY DEF IsSequence

LEMMA SequenceOfLength ==
  ASSUME NEW n \in Nat, NEW s, DOMAIN s = 1..n, s = [i \in 1..n |-> s[i]]
  PROVE  IsSequence(s) /\ Len(s) = n
<1> DEFINE S == {s[i] : i \in 1..n}
<1>1. s \in Seq(S)
  OBVIOUS
<1>2. Len(s) = n
  <2> HIDE DEF S
  <2>. QED  BY <1>1, LenProperties
<1>. QED  BY <1>2 DEF IsSequence

Join(s, t) == s \o t

LEMMA Joined ==
  ASSUME NEW s, NEW t, IsSequence(s), IsSequence(t)
  PROVE  /\ IsSequence(Join(s, t)) /\ Len(Join(s, t)) = Len(s) + Len(t)
         /\ \A i \in 1..Len(s) : Join(s, t)[i] = s[i]
         /\ \A i \in 1..Len(t) : Join(s, t)[Len(s) + i] = t[i]
         /\ \A i \in 1..Len(Join(s, t)) :
              \/ i \in 1..Len(s) /\ Join(s, t)[i] = s[i]
              \/ i - Len(s) \in 1..Len(t) /\ Join(s, t)[i] = t[i - Len(s)]
<1> DEFINE S == {s[i] : i \in 1..Len(s)} \union {t[i] : i \in 1..Len(t)}
           all == Join(s, t)
<1>1. s \in Seq(S) /\ t \in Seq(S) /\ Len(s) \in Nat /\ Len(t) \in Nat
  BY DEF IsSequence
<1> HIDE DEF S
<1>2. /\ all \in Seq(S) /\ Len(all) = Len(s) + Len(t)
      /\ \A i \in 1..Len(s) + Len(t) : all[i] = IF i <= Len(s) THEN s[i] ELSE t[i - Len(s)]
  BY <1>1, ConcatProperties DEF Join
<1> HIDE DEF all
<1>3. IsSequence(all)
  BY <1>1, <1>2, LenProperties DEF IsSequence
<1>4. \A i \in 1..Len(s) : all[i] = s[i]
  BY <1>1, <1>2
<1>5. ASSUME NEW i \in 1..Len(t)
      PROVE  all[Len(s) + i] = t[i]
  <2>1. Len(s) + i \in 1..Len(s) + Len(t) /\ ~(Len(s) + i <= Len(s)) /\ (Len(s) + i) - Len(s) = i
    BY <1>1
  <2>. QED  BY <1>2, <2>1
<1>6. ASSUME NEW i \in 1..Len(all)
      PROVE  \/ i \in 1..Len(s) /\ all[i] = s[i]
             \/ i - Len(s) \in 1..Len(t) /\ all[i] = t[i - Len(s)]
  <2>1. i \in 1..Len(s) + Len(t)
    BY <1>2
  <2>. QED  BY <1>1, <1>2, <2>1
<1>. QED  BY <1>2, <1>3, <1>4, <1>5, <1>6 DEF all

LEMMA JoinedEvents ==
  ASSUME NEW s, NEW t, AreEvents(s), AreEvents(t)
  PROVE  /\ AreEvents(s \o t)
         /\ ResumeNothing(s) /\ ResumeNothing(t) => ResumeNothing(s \o t)
<1> DEFINE all == Join(s, t)
<1>1. IsSequence(s) /\ IsSequence(t)
  BY DEF AreEvents
<1>2. /\ IsSequence(all)
      /\ \A i \in 1..Len(all) : \/ i \in 1..Len(s) /\ all[i] = s[i]
                                \/ i - Len(s) \in 1..Len(t) /\ all[i] = t[i - Len(s)]
  BY <1>1, Joined
<1> HIDE DEF all
<1>3. AreEvents(all) /\ (ResumeNothing(s) /\ ResumeNothing(t) => ResumeNothing(all))
  BY <1>2 DEF AreEvents, ResumeNothing
<1>. QED  BY <1>3 DEF all, Join

LEMMA NoEvents == AreEvents(<<>>) /\ ResumeNothing(<<>>)
  BY DEF AreEvents, ResumeNothing, IsSequence

LEMMA OneEvent ==
  ASSUME NEW e, IsEvent(e)
  PROVE  /\ AreEvents(<<e>>) /\ Len(<<e>>) = 1 /\ <<e>>[1] = e
         /\ e.type # "resumed" => ResumeNothing(<<e>>)
<1>1. Len(<<e>>) = 1 /\ <<e>>[1] = e
  OBVIOUS
<1>2. IsSequence(<<e>>)
  <2> DEFINE s == <<e>>
  <2>1. DOMAIN s = 1..1 /\ s = [i \in 1..1 |-> s[i]]
    OBVIOUS
  <2> HIDE DEF s
  <2>2. IsSequence(s)
    BY <2>1, SequenceOfLength
  <2>. QED  BY <2>2 DEF s
<1>3. \A i \in 1..1 : i = 1
  OBVIOUS
<1> DEFINE s == <<e>>
<1> HIDE DEF s
<1>4. Len(s) = 1 /\ s[1] = e /\ IsSequence(s)
  BY <1>1, <1>2 DEF s
<1>5. AreEvents(s) /\ (e.type # "resumed" => ResumeNothing(s))
  BY <1>3, <1>4 DEF AreEvents, ResumeNothing
<1>. QED  BY <1>1, <1>5 DEF s

LEMMA LogCounts ==
  ASSUME NEW S
  PROVE  Log!Cardinality(S) = Cardinality(S)
  BY DEF Log!Cardinality, Cardinality

\* What changed of the nodes is said by events of that alone.
LEMMA NodeEvents ==
  ASSUME NEW before, NEW after
  PROVE  AreEvents(Log!NodesChanged(before, after)) /\ ResumeNothing(Log!NodesChanged(before, after))
<1> DEFINE places == {i \in DOMAIN <<"a", "b">> : before[<<"a", "b">>[i]] # after[<<"a", "b">>[i]]}
           changed == Log!Keeping(<<"a", "b">>, places)
           event(i) == [Log!Event("node_changed") EXCEPT !.node = changed[i], !.from = before[changed[i]],
                                                         !.to = after[changed[i]]]
           events == [i \in DOMAIN changed |-> event(i)]
<1>1. Cardinality(places) \in Nat /\ DOMAIN changed = 1..Cardinality(places)
  <2>1. places \subseteq 1..2
    OBVIOUS
  <2>2. IsFiniteSet(places)
    <3> HIDE DEF places
    <3>1. IsFiniteSet(1..2)
      <4> DEFINE two == 2
      <4>1. two \in Int
        OBVIOUS
      <4> HIDE DEF two
      <4>2. IsFiniteSet(1..two)
        BY <4>1, FS_Interval
      <4>. QED  BY <4>2 DEF two
    <3>. QED  BY <2>1, <3>1, FS_Subset
  <2> HIDE DEF places
  <2>3. Cardinality(places) \in Nat
    BY <2>2, FS_CardinalityType
  <2>4. DOMAIN changed = 1..Log!Cardinality(places)
    BY DEF Log!Keeping
  <2>5. Log!Cardinality(places) = Cardinality(places)
    BY LogCounts
  <2> HIDE DEF changed
  <2>. QED  BY <2>3, <2>4, <2>5
<1>2. events = Log!NodesChanged(before, after)
  BY DEF Log!NodesChanged
<1> HIDE DEF changed
<1>3. \A i : IsEvent(event(i)) /\ event(i).type = "node_changed"
  BY DEF IsEvent, Log!Event
<1> HIDE DEF event
<1>4. events = [i \in 1..Cardinality(places) |-> events[i]] /\ DOMAIN events = 1..Cardinality(places)
      /\ \A i \in 1..Cardinality(places) : events[i] = event(i)
  BY <1>1
<1> HIDE DEF events, places
<1>5. IsSequence(events) /\ Len(events) = Cardinality(places)
  BY <1>1, <1>4, SequenceOfLength
<1>6. AreEvents(events) /\ ResumeNothing(events)
  BY <1>3, <1>4, <1>5 DEF AreEvents, ResumeNothing
<1>. QED  BY <1>2, <1>6

LEMMA StatusEvents ==
  ASSUME NEW type, NEW r, NEW to, NEW error
  PROVE  /\ IsEvent(Log!StatusChanged(type, r, to, error))
         /\ Log!StatusChanged(type, r, to, error).type = type
         /\ \A operator : /\ IsEvent([Log!StatusChanged(type, r, to, error) EXCEPT !.operator = operator])
                          /\ [Log!StatusChanged(type, r, to, error) EXCEPT !.operator = operator].type = type
                          /\ [Log!StatusChanged(type, r, to, error) EXCEPT !.operator = operator].operator = operator
  BY DEF IsEvent, Log!StatusChanged, Log!Event

Change(c) == IsRun(c.draft) /\ AreEvents(c.events)

LEMMA SettledIs ==
  ASSUME NEW r, IsRun(r), NEW some
  PROVE  Change(Log!Settled(r, some)) /\ ResumeNothing(Log!Settled(r, some).events)
<1> DEFINE to == Log!DeriveStatus(some)
           error == Log!HaltReason(some)
           status == Log!StatusChanged("status_changed", r, to, error)
           rest == IF to = r.status THEN <<>> ELSE <<status>>
<1>1. AreEvents(rest) /\ ResumeNothing(rest)
  <2>1. IsEvent(status) /\ status.type = "status_changed"
    BY StatusEvents
  <2> HIDE DEF status
  <2>. QED  BY <2>1, NoEvents, OneEvent
<1>2. Log!Settled(r, some).events = Log!NodesChanged(r.node, some) \o rest
  BY DEF Log!Settled
<1> HIDE DEF rest
<1>3. IsRun(Log!Settled(r, some).draft)
  BY DEF Log!Settled, IsRun
<1>. QED  BY <1>1, <1>2, <1>3, NodeEvents, JoinedEvents DEF Change

LEMMA RecoveredIs ==
  ASSUME NEW r, IsRun(r), NEW some
  PROVE  Change(Log!Recovered(r, some)) /\ ResumeNothing(Log!Recovered(r, some).events)
<1>1. CASE Log!Recovered(r, some) = [draft |-> r, events |-> <<>>]
  BY <1>1, NoEvents DEF Change
<1>2. CASE Log!Recovered(r, some) # [draft |-> r, events |-> <<>>]
  <2> DEFINE to == Log!DeriveStatus(some)
             error == IF to # "recovery_required" THEN "none"
                      ELSE IF Log!HaltReason(some) = "none" THEN "unreconciled" ELSE Log!HaltReason(some)
             status == Log!StatusChanged(IF to = "recovery_required" THEN to ELSE "recovered", r, to, error)
             draft == [r EXCEPT !.node = some, !.status = to, !.error = error]
  <2>1. Log!Recovered(r, some) = [draft |-> draft, events |-> Log!NodesChanged(r.node, some) \o <<status>>]
    BY <1>2 DEF Log!Recovered
  <2>2. IsEvent(status) /\ status.type # "resumed"
    BY StatusEvents
  <2>3. IsRun(draft)
    BY DEF IsRun
  <2> HIDE DEF status, draft
  <2>. QED  BY <2>1, <2>2, <2>3, OneEvent, NodeEvents, JoinedEvents DEF Change
<1>. QED  BY <1>1, <1>2

LEMMA CancelledIs ==
  ASSUME NEW r, IsRun(r), NEW some
  PROVE  /\ Change(Log!Cancelled(r, some)) /\ ResumeNothing(Log!Cancelled(r, some).events)
         /\ Log!Cancelled(r, some).draft.status = "cancelled"
<1> DEFINE ended == [n \in Log!Nodes |-> IF some[n] \in Log!Open THEN "cancelled" ELSE some[n]]
           status == Log!StatusChanged("cancelled", r, "cancelled", "none")
           draft == [r EXCEPT !.node = ended, !.status = "cancelled", !.error = "none"]
<1>1. Log!Cancelled(r, some) =
        [draft |-> draft, events |-> Log!NodesChanged(r.node, some) \o Log!NodesChanged(some, ended) \o <<status>>]
  BY DEF Log!Cancelled
<1>2. IsEvent(status) /\ status.type = "cancelled"
  BY StatusEvents
<1>3. IsRun(draft) /\ draft.status = "cancelled"
  BY DEF IsRun
<1> HIDE DEF status, draft, ended
<1>4. AreEvents(Log!NodesChanged(r.node, some) \o Log!NodesChanged(some, ended))
      /\ ResumeNothing(Log!NodesChanged(r.node, some) \o Log!NodesChanged(some, ended))
  BY NodeEvents, JoinedEvents
<1>5. AreEvents(<<status>>) /\ ResumeNothing(<<status>>)
  BY <1>2, OneEvent
<1>. QED  BY <1>1, <1>3, <1>4, <1>5, JoinedEvents DEF Change

OnlyEvent(s, type, operator) == Len(s) = 1 /\ s[1].type = type /\ s[1].operator = operator
HaltOf(c, r, to, operator) == c = Log!Halted(r, to, operator)
ResumeOf(c, r, operator) == c = Log!Resumed(r, operator)

LEMMA HaltedIs ==
  ASSUME NEW r, IsRun(r), NEW to \in Log!Halts, NEW operator, NEW c, HaltOf(c, r, to, operator)
  PROVE  /\ Change(c) /\ ResumeNothing(c.events) /\ c.draft.node = r.node
         /\ OnlyEvent(c.events, to, operator)
<1> DEFINE e == [Log!StatusChanged(to, r, to, r.error) EXCEPT !.operator = operator]
<1>1. IsEvent(e) /\ e.type = to /\ e.operator = operator /\ to # "resumed"
  BY StatusEvents DEF Log!Halts
<1>2. c = [draft |-> [r EXCEPT !.status = to], events |-> <<e>>]
  BY DEF HaltOf, Log!Halted
<1> HIDE DEF e
<1>3. IsRun([r EXCEPT !.status = to]) /\ [r EXCEPT !.status = to].node = r.node
  BY DEF IsRun
<1>4. AreEvents(<<e>>) /\ Len(<<e>>) = 1 /\ <<e>>[1] = e /\ ResumeNothing(<<e>>)
  BY <1>1, OneEvent
<1>5. c.draft = [r EXCEPT !.status = to] /\ c.events = <<e>>
  BY <1>2
<1>. QED  BY <1>1, <1>3, <1>4, <1>5 DEF Change, OnlyEvent

LEMMA ResumedIs ==
  ASSUME NEW r, IsRun(r), NEW operator, NEW c, ResumeOf(c, r, operator)
  PROVE  /\ Change(c) /\ c.draft.node = r.node
         /\ OnlyEvent(c.events, "resumed", operator)
<1> DEFINE to == Log!DeriveStatus(r.node)
           error == IF to # "recovery_required" THEN "none"
                    ELSE IF r.error = "none" THEN "unreconciled" ELSE r.error
           e == [Log!StatusChanged("resumed", r, to, error) EXCEPT !.operator = operator]
           draft == [r EXCEPT !.status = to, !.error = error]
<1>1. IsEvent(e) /\ e.type = "resumed" /\ e.operator = operator
  BY StatusEvents
<1>2. c = [draft |-> draft, events |-> <<e>>]
  BY DEF ResumeOf, Log!Resumed
<1>3. IsRun(draft) /\ draft.node = r.node
  BY DEF IsRun
<1> HIDE DEF e, draft
<1>. QED  BY <1>1, <1>2, <1>3, OneEvent DEF Change, OnlyEvent

-----------------------------------------------------------------------------
\* A run that was read is the run as long as the version is; and an operator's
\* halt that nobody has resumed from is on the log.
HistoryTells ==
  /\ IsRun(run) /\ AreEvents(log)
  /\ read # <<>> => /\ IsRun(read) /\ read.version <= run.version
                    /\ read.status \notin Log!Halts
                    /\ read.version = run.version => read = run
  /\ held \in BOOLEAN /\ (held => Log!HeldByOperator)

\* What a commit does: the version grows, and the log by the events of the change.
LEMMA CommitDoes ==
  ASSUME HistoryTells, NEW cur, IsRun(cur), NEW c, Change(c), NEW checkpoint \in BOOLEAN,
         Log!Committed(cur, c, checkpoint)
  PROVE  /\ IsRun(run') /\ run.version = cur.version /\ run'.version > run.version
         /\ run'.node = c.draft.node /\ run'.status = c.draft.status
         /\ AreEvents(log')
         /\ ResumeNothing(c.events) /\ Log!HeldByOperator => Log!HeldByOperator'
         /\ ~checkpoint /\ Len(c.events) = 1 =>
              /\ Len(log') = Len(log) + 1
              /\ log'[Len(log')].type = c.events[1].type
              /\ log'[Len(log')].operator = c.events[1].operator
<1> DEFINE events == IF checkpoint THEN Append(c.events, Log!Event("checkpoint_saved")) ELSE c.events
           numbered == [i \in DOMAIN events |-> [events[i] EXCEPT !.sequence = cur.version + i]]
           draft == [c.draft EXCEPT !.version = cur.version + Len(events)]
<1>1. /\ run.version = cur.version /\ numbered # <<>>
      /\ run' = draft /\ log' = log \o numbered
  BY DEF Log!Committed, Log!Numbered, Log!AtVersion
<1>2. AreEvents(events) /\ (ResumeNothing(c.events) => ResumeNothing(events))
  <2> DEFINE saved == Log!Event("checkpoint_saved")
  <2>1. IsEvent(saved) /\ saved.type # "resumed"
    BY DEF Log!Event, IsEvent
  <2> HIDE DEF saved
  <2>2. AreEvents(<<saved>>) /\ ResumeNothing(<<saved>>)
    BY <2>1, OneEvent
  <2>3. Append(c.events, saved) = c.events \o <<saved>>
    <3> DEFINE S == {c.events[i] : i \in 1..Len(c.events)} \union {saved}
    <3>1. c.events \in Seq(S) /\ saved \in S
      BY DEF Change, AreEvents, IsSequence
    <3> HIDE DEF S
    <3>. QED  BY <3>1, AppendIsConcat
  <2>. QED  BY <2>2, <2>3, JoinedEvents DEF Change, saved
<1>3. ~checkpoint => events = c.events
  OBVIOUS
<1> HIDE DEF events
<1>4. Len(events) \in Nat /\ DOMAIN events = 1..Len(events) /\ \A i \in 1..Len(events) : IsEvent(events[i])
  BY <1>2, SequencesOf DEF AreEvents, IsSequence
<1>5. /\ DOMAIN numbered = 1..Len(events) /\ numbered = [i \in 1..Len(events) |-> numbered[i]]
      /\ \A i \in 1..Len(events) : /\ IsEvent(numbered[i]) /\ numbered[i].type = events[i].type
                                  /\ numbered[i].operator = events[i].operator
  <2>1. ASSUME NEW i \in 1..Len(events)
        PROVE  /\ IsEvent(numbered[i]) /\ numbered[i].type = events[i].type
               /\ numbered[i].operator = events[i].operator
    <3> DEFINE e == events[i]
    <3>1. numbered[i] = [e EXCEPT !.sequence = cur.version + i]
      BY <1>4
    <3>2. IsEvent(e)
      BY <1>4
    <3> HIDE DEF e, numbered
    <3>3. /\ IsEvent([e EXCEPT !.sequence = cur.version + i])
          /\ [e EXCEPT !.sequence = cur.version + i].type = e.type
          /\ [e EXCEPT !.sequence = cur.version + i].operator = e.operator
      BY <3>2 DEF IsEvent
    <3>. QED  BY <3>1, <3>3 DEF e
  <2>. QED  BY <1>4, <2>1
<1> HIDE DEF numbered
<1>6. IsSequence(numbered) /\ Len(numbered) = Len(events)
  BY <1>4, <1>5, SequenceOfLength
<1>7. AreEvents(numbered) /\ (ResumeNothing(events) => ResumeNothing(numbered))
  BY <1>5, <1>6 DEF AreEvents, ResumeNothing
<1>8. Len(events) > 0
  <2>1. Len(numbered) # 0
    <3> SUFFICES ASSUME Len(numbered) = 0 PROVE FALSE
      OBVIOUS
    <3>. QED  BY <1>1, <1>6, SequencesOf, EmptySeq DEF IsSequence
  <2>. QED  BY <1>4, <1>6, <2>1
<1>9. /\ IsRun(draft) /\ draft.version = cur.version + Len(events)
      /\ draft.node = c.draft.node /\ draft.status = c.draft.status
  <2> DEFINE d == c.draft
  <2>1. IsRun(d) /\ cur.version + Len(events) \in Nat
    BY <1>4 DEF Change, IsRun
  <2> HIDE DEF d
  <2>2. /\ IsRun([d EXCEPT !.version = cur.version + Len(events)])
        /\ [d EXCEPT !.version = cur.version + Len(events)].version = cur.version + Len(events)
        /\ [d EXCEPT !.version = cur.version + Len(events)].node = d.node
        /\ [d EXCEPT !.version = cur.version + Len(events)].status = d.status
    BY <2>1 DEF IsRun
  <2>. QED  BY <2>2 DEF d
<1> HIDE DEF draft
<1>10. IsSequence(log) /\ AreEvents(log) /\ Len(log) \in Nat
  BY DEF HistoryTells, AreEvents, IsSequence
<1>11. /\ AreEvents(log') /\ Len(log') = Len(log) + Len(numbered)
       /\ \A i \in 1..Len(log) : log'[i] = log[i]
       /\ \A i \in 1..Len(numbered) : log'[Len(log) + i] = numbered[i]
       /\ \A i \in 1..Len(log') : \/ i \in 1..Len(log) /\ log'[i] = log[i]
                                  \/ i - Len(log) \in 1..Len(numbered) /\ log'[i] = numbered[i - Len(log)]
  <2> DEFINE all == Join(log, numbered)
  <2>1. /\ AreEvents(all) /\ Len(all) = Len(log) + Len(numbered)
        /\ \A i \in 1..Len(log) : all[i] = log[i]
        /\ \A i \in 1..Len(numbered) : all[Len(log) + i] = numbered[i]
        /\ \A i \in 1..Len(all) : \/ i \in 1..Len(log) /\ all[i] = log[i]
                                  \/ i - Len(log) \in 1..Len(numbered) /\ all[i] = numbered[i - Len(log)]
    BY <1>6, <1>7, <1>10, Joined, JoinedEvents DEF Join
  <2>2. log' = all
    BY <1>1 DEF Join
  <2> HIDE DEF all
  <2>. QED  BY <2>1, <2>2
<1>12. ASSUME ResumeNothing(c.events), Log!HeldByOperator
       PROVE  Log!HeldByOperator'
  <2>1. DOMAIN log = 1..Len(log) /\ DOMAIN log' = 1..Len(log')
    BY <1>10, <1>11, SequencesOf DEF AreEvents
  <2>2. PICK i \in 1..Len(log) : /\ log[i].type \in Log!Halts /\ log[i].operator
                                 /\ \A j \in i..Len(log) : log[j].type # "resumed"
    BY <1>12, <2>1 DEF Log!HeldByOperator
  <2>3. i \in 1..Len(log') /\ log'[i] = log[i]
    BY <1>4, <1>6, <1>10, <1>11
  <2>4. \A j \in i..Len(log') : log'[j].type # "resumed"
    <3> SUFFICES ASSUME NEW j \in i..Len(log') PROVE log'[j].type # "resumed"
      OBVIOUS
    <3>1. j \in 1..Len(log')
      BY <1>4, <1>6, <1>10, <1>11
    <3>2. CASE j \in 1..Len(log) /\ log'[j] = log[j]
      BY <2>2, <3>2
    <3>3. CASE j - Len(log) \in 1..Len(numbered) /\ log'[j] = numbered[j - Len(log)]
      BY <1>2, <1>7, <1>12, <3>3 DEF ResumeNothing
    <3>. QED  BY <1>11, <3>1, <3>2, <3>3
  <2>. QED  BY <2>1, <2>2, <2>3, <2>4 DEF Log!HeldByOperator
<1>13. ASSUME ~checkpoint, Len(c.events) = 1
       PROVE  /\ Len(log') = Len(log) + 1
              /\ log'[Len(log')].type = c.events[1].type
              /\ log'[Len(log')].operator = c.events[1].operator
  <2>1. Len(events) = 1 /\ Len(numbered) = 1 /\ 1 \in 1..Len(numbered) /\ events[1] = c.events[1]
    <3>1. events = c.events /\ Len(c.events) = 1
      BY <1>3, <1>13
    <3>2. Len(events) = 1
      BY <3>1
    <3>3. Len(numbered) = 1
      BY <1>6, <3>2
    <3>. QED  BY <3>1, <3>2, <3>3
  <2>2. Len(log') = Len(log) + 1 /\ log'[Len(log) + 1] = numbered[1]
    BY <1>11, <2>1
  <2>3. numbered[1].type = events[1].type /\ numbered[1].operator = events[1].operator
    BY <1>5, <2>1
  <2>. QED  BY <2>1, <2>2, <2>3
<1>14. run'.version > run.version
  BY <1>1, <1>4, <1>8, <1>9 DEF IsRun
<1>. QED  BY <1>1, <1>9, <1>11, <1>12, <1>13, <1>14

OperatorResumes == held /\ held' = FALSE => Log!Last(log').type = "resumed" /\ Log!Last(log').operator
HaltedNodesStay == run.status \in Log!Halts /\ run.node' # run.node => run'.status = "cancelled"

\* A commit of a change that resumes nothing.
LEMMA CommitKeeps ==
  ASSUME HistoryTells, NEW cur, IsRun(cur), NEW c, Change(c), NEW checkpoint \in BOOLEAN,
         Log!Committed(cur, c, checkpoint), ResumeNothing(c.events), UNCHANGED held,
         read' = read \/ read' = <<>>
  PROVE  HistoryTells'
<1>1. /\ IsRun(run') /\ run'.version > run.version /\ AreEvents(log')
      /\ Log!HeldByOperator => Log!HeldByOperator'
  BY CommitDoes
<1>. QED  BY <1>1 DEF HistoryTells, IsRun

LEMMA LogSteps ==
  ASSUME HistoryTells, Log!Next
  PROVE  HistoryTells' /\ OperatorResumes /\ HaltedNodesStay
<1>0. IsRun(run) /\ AreEvents(log) /\ held \in BOOLEAN
  BY DEF HistoryTells
<1>1. CASE Log!Begin
  <2>1. read' = run /\ run.status \notin Log!Halts /\ UNCHANGED <<run, log, held>>
    BY <1>1 DEF Log!Begin
  <2>. QED
    BY <2>1 DEF HistoryTells, OperatorResumes, HaltedNodesStay, IsRun, Log!HeldByOperator
<1>2. CASE Log!Advance
  <2>1. read # <<>> /\ read' = <<>> /\ UNCHANGED held
    BY <1>2 DEF Log!Advance
  <2>2. PICK some \in Log!Rereads(read), checkpoint \in BOOLEAN : Log!Committed(read, Log!Settled(read, some), checkpoint)
    BY <1>2 DEF Log!Advance
  <2>3. IsRun(read)
    BY <2>1 DEF HistoryTells
  <2> DEFINE c == Log!Settled(read, some)
  <2>4. Change(c) /\ ResumeNothing(c.events) /\ Log!Committed(read, c, checkpoint)
    BY <2>2, <2>3, SettledIs
  <2> HIDE DEF c
  <2>5. HistoryTells'
    BY <2>1, <2>3, <2>4, CommitKeeps
  <2>6. run.version = read.version
    BY <2>3, <2>4, CommitDoes
  <2>. QED  BY <2>1, <2>5, <2>6 DEF HistoryTells, OperatorResumes, HaltedNodesStay
<1>3. CASE Log!Drop
  <2>1. read' = <<>> /\ UNCHANGED <<run, log, held>>
    BY <1>3 DEF Log!Drop
  <2>. QED  BY <2>1 DEF HistoryTells, OperatorResumes, HaltedNodesStay, Log!HeldByOperator
<1>4. CASE Log!Recover
  <2>1. run.status \notin Log!Halts /\ UNCHANGED <<held, read>>
    BY <1>4 DEF Log!Recover, Log!Halts
  <2>2. PICK some : Log!Committed(run, Log!Recovered(run, some), FALSE)
    BY <1>4 DEF Log!Recover
  <2> DEFINE c == Log!Recovered(run, some)
  <2>3. Change(c) /\ ResumeNothing(c.events) /\ Log!Committed(run, c, FALSE)
    BY <1>0, <2>2, RecoveredIs
  <2> HIDE DEF c
  <2>4. HistoryTells'
    BY <1>0, <2>1, <2>3, CommitKeeps
  <2>. QED  BY <2>1, <2>4 DEF OperatorResumes, HaltedNodesStay
<1>5. CASE Log!Cancel
  <2>1. UNCHANGED <<held, read>>
    BY <1>5 DEF Log!Cancel
  <2>2. PICK some : Log!Committed(run, Log!Cancelled(run, some), FALSE)
    BY <1>5 DEF Log!Cancel
  <2> DEFINE c == Log!Cancelled(run, some)
  <2>3. /\ Change(c) /\ ResumeNothing(c.events) /\ Log!Committed(run, c, FALSE)
        /\ c.draft.status = "cancelled"
    BY <1>0, <2>2, CancelledIs
  <2> HIDE DEF c
  <2>4. HistoryTells'
    BY <1>0, <2>1, <2>3, CommitKeeps
  <2>5. run'.status = "cancelled"
    BY <1>0, <2>3, CommitDoes
  <2>. QED  BY <2>1, <2>4, <2>5 DEF OperatorResumes, HaltedNodesStay
<1>6. ASSUME NEW to \in Log!Halts, NEW operator \in BOOLEAN, Log!Halt(to, operator)
      PROVE  HistoryTells' /\ OperatorResumes /\ HaltedNodesStay
  <2>1. held' = (held \/ operator) /\ read' = read
    BY <1>6 DEF Log!Halt
  <2> DEFINE c == Log!Halted(run, to, operator)
  <2>2. /\ Change(c) /\ ResumeNothing(c.events) /\ c.draft.node = run.node
        /\ OnlyEvent(c.events, to, operator)
        /\ Log!Committed(run, c, FALSE)
    <3>1. Log!Committed(run, c, FALSE)
      BY <1>6 DEF Log!Halt
    <3>2. HaltOf(c, run, to, operator)
      BY DEF HaltOf
    <3> HIDE DEF c
    <3>. QED  BY <1>0, <3>1, <3>2, HaltedIs
  <2> HIDE DEF c
  <2>3. /\ IsRun(run') /\ run'.version > run.version /\ AreEvents(log') /\ run'.node = run.node
        /\ Log!HeldByOperator => Log!HeldByOperator'
        /\ Len(log') = Len(log) + 1 /\ log'[Len(log')].type = to /\ log'[Len(log')].operator = operator
    BY <1>0, <2>2, CommitDoes DEF OnlyEvent
  <2>4. operator => Log!HeldByOperator'
    <3> SUFFICES ASSUME operator PROVE Log!HeldByOperator'
      OBVIOUS
    <3>1. Len(log') \in Nat /\ Len(log') \in 1..Len(log') /\ DOMAIN log' = 1..Len(log')
      BY <1>0, <2>3, SequencesOf DEF AreEvents, IsSequence
    <3>2. \A j \in Len(log')..Len(log') : j = Len(log')
      <4> DEFINE n == Len(log')
      <4>1. n \in Nat
        BY <3>1
      <4> HIDE DEF n
      <4>2. \A j \in n..n : j = n
        BY <4>1
      <4>. QED  BY <4>2 DEF n
    <3>. QED  BY <2>3, <3>1, <3>2 DEF Log!HeldByOperator, Log!Halts
  <2>5. HistoryTells'
    BY <1>0, <2>1, <2>3, <2>4 DEF HistoryTells, IsRun
  <2>. QED  BY <1>0, <2>1, <2>3, <2>5 DEF OperatorResumes, HaltedNodesStay
<1>7. ASSUME NEW operator \in BOOLEAN, Log!Resume(operator)
      PROVE  HistoryTells' /\ OperatorResumes /\ HaltedNodesStay
  <2>1. held' = FALSE /\ read' = read /\ (~operator => ~Log!HeldByOperator)
    BY <1>7 DEF Log!Resume
  <2> DEFINE c == Log!Resumed(run, operator)
  <2>2. /\ Change(c) /\ c.draft.node = run.node
        /\ OnlyEvent(c.events, "resumed", operator)
        /\ Log!Committed(run, c, FALSE)
    <3>1. Log!Committed(run, c, FALSE)
      BY <1>7 DEF Log!Resume
    <3>2. ResumeOf(c, run, operator)
      BY DEF ResumeOf
    <3> HIDE DEF c
    <3>. QED  BY <1>0, <3>1, <3>2, ResumedIs
  <2> HIDE DEF c
  <2>3. /\ IsRun(run') /\ run'.version > run.version /\ AreEvents(log') /\ run'.node = run.node
        /\ log'[Len(log')].type = "resumed" /\ log'[Len(log')].operator = operator
    BY <1>0, <2>2, CommitDoes DEF OnlyEvent
  <2>4. HistoryTells'
    <3>1. held' \in BOOLEAN /\ ~held'
      BY <2>1
    <3>2. read # <<>> => /\ IsRun(read) /\ read.version <= run.version
                         /\ read.status \notin Log!Halts
      BY DEF HistoryTells
    <3>3. read # <<>> => read.version <= run'.version /\ read.version # run'.version
      BY <1>0, <2>3, <3>2 DEF IsRun
    <3>. QED  BY <2>1, <2>3, <3>1, <3>2, <3>3 DEF HistoryTells
  <2>5. OperatorResumes
    BY <2>1, <2>3 DEF HistoryTells, OperatorResumes, Log!Last
  <2>. QED  BY <2>3, <2>4, <2>5 DEF HaltedNodesStay
<1>. QED  BY <1>1, <1>2, <1>3, <1>4, <1>5, <1>6, <1>7 DEF Log!Next

LEMMA LogInit == RunsInit => HistoryTells
<1> SUFFICES ASSUME RunsInit PROVE HistoryTells
  OBVIOUS
<1> DEFINE e == [Log!Event("created") EXCEPT !.sequence = 1, !.run = Log!Created]
           f == [Log!Event("status_changed") EXCEPT !.sequence = 2, !.from = "draft", !.to = "planned"]
<1>1. run = Log!Planned /\ log = <<e, f>> /\ read = <<>> /\ held = FALSE
  BY DEF RunsInit, Log!Init
<1>2. IsEvent(e) /\ IsEvent(f)
  BY DEF IsEvent, Log!Event
<1> HIDE DEF e, f
<1>3. IsRun(run)
  BY <1>1 DEF IsRun, Log!Planned, Log!Created
<1>4. AreEvents(log)
  <2> DEFINE s == <<e, f>>
  <2>1. DOMAIN s = 1..2 /\ s = [i \in 1..2 |-> s[i]] /\ s[1] = e /\ s[2] = f
    OBVIOUS
  <2> HIDE DEF s
  <2>2. IsSequence(s) /\ Len(s) = 2
    BY <2>1, SequenceOfLength
  <2>3. \A i \in 1..2 : i = 1 \/ i = 2
    OBVIOUS
  <2>4. AreEvents(s)
    BY <1>2, <2>1, <2>2, <2>3 DEF AreEvents
  <2>. QED  BY <1>1, <2>4 DEF s
<1>. QED  BY <1>1, <1>3, <1>4 DEF HistoryTells

LEMMA LogNext ==
  ASSUME HistoryTells, [RunsNext]_<<part, vars, nodesPart, logPart, graphPart, judgePart>>
  PROVE  HistoryTells' /\ OperatorResumes /\ HaltedNodesStay
<1>1. CASE Log!Next
  BY <1>1, LogSteps
<1>2. CASE UNCHANGED logPart
  BY <1>2 DEF logPart, HistoryTells, OperatorResumes, HaltedNodesStay, Log!HeldByOperator
<1>. QED  BY <1>1, <1>2 DEF RunsNext

-----------------------------------------------------------------------------
(* The questions of a task.                                                *)

Asked == [status : Judge!Settled \union {"verifying", "waiting_user"},
          error : {"none", "interrupted", "expired", "no", "cannot_tell"},
          effect : {"read", "change"}, keyed : BOOLEAN, enforced : BOOLEAN]
Answers == [verdict : Judge!Verdicts, by : Judge!Judges \union {Judge!Operator},
            channel : {"in_band", "out_of_band"}]
SettledOnQuestions == asked.error \in {"expired", "no", "cannot_tell"} \/ asked.status = "verified_success"

\* An answer is of one who may judge, and of an operator where it must be.
AnswersCount ==
  /\ asked \in Asked /\ judged \in [Questions -> Answers \union {Judge!Open}]
  /\ \A q \in Questions : judged[q] # Judge!Open =>
       /\ judged[q].by = Judge!Operator \/ ~Judge!JudgesItself(judged[q].by)
       /\ asked.enforced => judged[q].channel = "out_of_band"

\* No question is answered before the task waits, none but with yes while it
\* does, and none of a change that parked with nothing to go by; what settled
\* on them says how.
StatusTells ==
  /\ asked.status = "verifying" => asked.error = "none" /\ \A q \in Questions : judged[q] = Judge!Open
  /\ asked.status = "waiting_user" =>
       asked.error = "none" /\ \A q \in Questions : judged[q] # Judge!Open => judged[q].verdict = "yes"
  /\ asked.error = "interrupted" =>
       /\ asked.effect = "change" /\ asked.status = "recovery_required"
       /\ \A q \in Questions : judged[q] = Judge!Open
  /\ asked.status = "verified_success" =>
       asked.error = "none" /\ \A q \in Questions : judged[q].verdict = "yes"
  /\ asked.error = "none" => asked.status \notin {"partial", "recovery_required"}
  /\ asked.error = "no" => asked.status = "partial"
  /\ asked.effect = "change" /\ asked.error \in {"expired", "cannot_tell"} => asked.status = "recovery_required"

Certified ==
  SettledOnQuestions =>
    /\ certificate.result = Judge!Results[asked.status]
    /\ \A q \in Questions : judged[q] # Judge!Open => certificate.items[q] = judged[q].verdict

JudgedRight == AnswersCount /\ StatusTells /\ Certified

\* What a task that settles on its questions is certified to be.
LEMMA SettlesAsAnswered ==
  ASSUME NEW answers \in [Questions -> Answers \union {Judge!Open}], asked \in Asked,
         NEW status \in Judge!Settled, NEW error \in {"none", "expired", "no", "cannot_tell"},
         NEW unanswered, Judge!SettleSemantic(answers, status, error, unanswered)
  PROVE  /\ asked' \in Asked /\ asked'.status = status /\ asked'.error = error
         /\ asked'.effect = asked.effect /\ asked'.enforced = asked.enforced
         /\ certificate'.result = Judge!Results[asked'.status]
         /\ \A q \in Questions : answers[q] # Judge!Open => certificate'.items[q] = answers[q].verdict
  BY DEF Judge!SettleSemantic, Judge!Overlay, Asked

\* Settled closed, whatever of its questions was answered with yes.
LEMMA ClosedIsRight ==
  ASSUME JudgedRight, Judge!SettleUnanswered, UNCHANGED judged
  PROVE  JudgedRight'
<1>1. Judge!Closed \in Judge!Settled /\ (asked.effect = "change" => Judge!Closed = "recovery_required")
      /\ Judge!Closed # "verified_success"
  BY DEF JudgedRight, AnswersCount, Asked, Judge!Closed, Judge!Settled
<1>2. /\ asked' \in Asked /\ asked'.status = Judge!Closed /\ asked'.error = "expired"
      /\ asked'.effect = asked.effect /\ asked'.enforced = asked.enforced
      /\ certificate'.result = Judge!Results[asked'.status]
      /\ \A q \in Questions : judged[q] # Judge!Open => certificate'.items[q] = judged[q].verdict
  <2> HIDE DEF Judge!Closed
  <2>. QED  BY <1>1, SettlesAsAnswered DEF JudgedRight, AnswersCount, Judge!SettleUnanswered
<1>3. AnswersCount'
  BY <1>2 DEF JudgedRight, AnswersCount
<1>4. StatusTells'
  BY <1>1, <1>2 DEF StatusTells, Judge!Settled
<1>5. Certified'
  BY <1>2 DEF Certified, SettledOnQuestions
<1>. QED  BY <1>3, <1>4, <1>5 DEF JudgedRight

LEMMA SameIsRight ==
  ASSUME JudgedRight, UNCHANGED <<asked, judged, certificate>>
  PROVE  JudgedRight'
  BY DEF JudgedRight, AnswersCount, StatusTells, Certified, SettledOnQuestions

LEMMA JudgedInit == RunsInit => JudgedRight
<1> SUFFICES ASSUME RunsInit PROVE JudgedRight
  OBVIOUS
<1>1. /\ asked \in Asked /\ asked.status = "verifying" /\ asked.error = "none"
      /\ judged = [q \in Questions |-> Judge!Open]
  BY DEF RunsInit, Judge!Init, Asked
<1>. QED  BY <1>1 DEF JudgedRight, AnswersCount, StatusTells, Certified, SettledOnQuestions

\* The steps of a process that runs or recovers the task.
LEMMA RunKeepsRight ==
  ASSUME JudgedRight, NEW p \in Sharers,
         \/ Judge!Waits(p) \/ Judge!OutcomeLost(p) \/ Judge!Claim(p) \/ Judge!RecoverObserved(p)
         \/ Judge!RecoverCommitted(p) \/ Judge!RecoverParked(p) \/ Judge!Reconcile(p)
  PROVE  JudgedRight'
<1>1. CASE Judge!Waits(p)
  <2>1. /\ asked.status = "verifying" /\ UNCHANGED judged
        /\ asked' = [asked EXCEPT !.status = "waiting_user"]
    BY <1>1 DEF Judge!Waits, Judge!Runs
  <2>. QED  BY <2>1 DEF JudgedRight, AnswersCount, StatusTells, Certified, SettledOnQuestions, Asked
<1>2. ASSUME Judge!OutcomeLost(p) \/ (Judge!RecoverParked(p) /\ asked' # asked)
      PROVE  JudgedRight'
  <2>1. /\ asked.status = "verifying" /\ asked.effect = "change" /\ UNCHANGED judged
        /\ asked' = [asked EXCEPT !.status = "recovery_required", !.error = "interrupted"]
    BY <1>2 DEF Judge!OutcomeLost, Judge!RecoverParked, Judge!Runs, Judge!Quiet
  <2>. QED
    BY <2>1 DEF JudgedRight, AnswersCount, StatusTells, Certified, SettledOnQuestions, Asked, Judge!Settled
<1>3. CASE Judge!Claim(p) \/ (Judge!RecoverParked(p) /\ asked' = asked)
  <2>1. asked.status = "verifying" /\ UNCHANGED <<asked, judged>>
    BY <1>3 DEF Judge!Claim, Judge!RecoverParked, Judge!Runs, Judge!Quiet
  <2>. QED  BY <2>1 DEF JudgedRight, AnswersCount, StatusTells, Certified, SettledOnQuestions
<1>4. CASE Judge!RecoverObserved(p)
  BY <1>4, ClosedIsRight DEF Judge!RecoverObserved, Judge!Quiet
<1>5. CASE Judge!RecoverCommitted(p) \/ Judge!Reconcile(p)
  <2>1. Judge!Committed /\ UNCHANGED judged
    BY <1>5 DEF Judge!RecoverCommitted, Judge!Reconcile, Judge!Quiet
  <2>. QED  BY <2>1, ClosedIsRight, SameIsRight DEF Judge!Committed
<1>. QED  BY <1>1, <1>2, <1>3, <1>4, <1>5

\* An answer is recorded, and settles the task if it is the last or no yes.
LEMMA JudgeKeepsRight ==
  ASSUME JudgedRight, NEW p \in Sharers, NEW q \in Questions, NEW v \in Judge!Verdicts,
         NEW j \in Judge!Judges \union {Judge!Operator}, Judge!Judge(p, q, v, j)
  PROVE  JudgedRight'
<1> DEFINE entry == [verdict |-> v, by |-> j,
                     channel |-> IF Judge!OutOfBand(p, j) /\ asked.enforced THEN "out_of_band" ELSE "in_band"]
<1>1. /\ asked.status = "waiting_user" /\ judged[q] = Judge!Open
      /\ j = Judge!Operator \/ ~Judge!JudgesItself(j)
      /\ asked.enforced => Judge!OutOfBand(p, j)
      /\ judged' = [judged EXCEPT ![q] = entry]
  BY DEF Judge!Judge, Judge!Accepted
<1>2. entry \in Answers /\ entry # Judge!Open /\ entry.verdict = v /\ entry.by = j
      /\ (asked.enforced => entry.channel = "out_of_band")
  BY <1>1 DEF Answers, Judge!Open, Judge!Verdicts
<1> HIDE DEF entry
<1>3. judged' \in [Questions -> Answers \union {Judge!Open}] /\ judged'[q] = entry
      /\ \A r \in Questions : r # q => judged'[r] = judged[r]
  BY <1>1, <1>2 DEF JudgedRight, AnswersCount
<1>4. ASSUME asked' \in Asked, asked'.enforced = asked.enforced
      PROVE  AnswersCount'
  BY <1>1, <1>2, <1>3, <1>4 DEF JudgedRight, AnswersCount
<1>5. asked \in Asked /\ asked.error = "none"
      /\ \A r \in Questions : judged[r] # Judge!Open => judged[r].verdict = "yes"
  BY <1>1 DEF JudgedRight, AnswersCount, StatusTells
<1>6. CASE v = "yes" /\ Judge!LeavesOpen(judged')
  <2>1. UNCHANGED <<asked, certificate>>
    BY <1>6 DEF Judge!Judge
  <2>2. \A r \in Questions : judged'[r] # Judge!Open => judged'[r].verdict = "yes"
    BY <1>2, <1>3, <1>5, <1>6
  <2>3. StatusTells' /\ Certified'
    BY <1>1, <1>5, <2>1, <2>2 DEF StatusTells, Certified, SettledOnQuestions
  <2>. QED  BY <1>4, <1>5, <2>1, <2>3 DEF JudgedRight
<1>7. CASE ~(v = "yes" /\ Judge!LeavesOpen(judged'))
  <2> DEFINE status == Judge!Outcome(v)
             error == IF v = "yes" THEN "none" ELSE v
  <2>1. Judge!SettleSemantic(judged', status, error, "unanswered")
    BY <1>7 DEF Judge!Judge
  <2>2. /\ status \in Judge!Settled /\ error \in {"none", "expired", "no", "cannot_tell"}
        /\ status = "verified_success" <=> v = "yes"
        /\ v = "yes" => error = "none"
        /\ v = "no" => error = "no" /\ status = "partial"
        /\ v = "cannot_tell" => error = "cannot_tell" /\ (asked.effect = "change" => status = "recovery_required")
    BY DEF Judge!Outcome, Judge!Settled, Judge!Verdicts
  <2> HIDE DEF status, error
  <2>3. /\ asked' \in Asked /\ asked'.status = status /\ asked'.error = error
        /\ asked'.effect = asked.effect /\ asked'.enforced = asked.enforced
        /\ certificate'.result = Judge!Results[asked'.status]
        /\ \A r \in Questions : judged'[r] # Judge!Open => certificate'.items[r] = judged'[r].verdict
    <3> DEFINE answers == judged'
    <3>1. answers \in [Questions -> Answers \union {Judge!Open}] /\ Judge!SettleSemantic(answers, status, error, "unanswered")
      BY <1>3, <2>1
    <3> HIDE DEF answers
    <3>2. /\ asked' \in Asked /\ asked'.status = status /\ asked'.error = error
          /\ asked'.effect = asked.effect /\ asked'.enforced = asked.enforced
          /\ certificate'.result = Judge!Results[asked'.status]
          /\ \A r \in Questions : answers[r] # Judge!Open => certificate'.items[r] = answers[r].verdict
      BY <1>5, <2>2, <3>1, SettlesAsAnswered
    <3>. QED  BY <3>2 DEF answers
  <2>4. v = "yes" => \A r \in Questions : judged'[r].verdict = "yes"
    <3> SUFFICES ASSUME v = "yes", NEW r \in Questions PROVE judged'[r].verdict = "yes"
      OBVIOUS
    <3>1. judged'[r] # Judge!Open
      BY <1>7 DEF Judge!LeavesOpen
    <3>. QED  BY <1>2, <1>3, <1>5, <3>1
  <2>5. StatusTells'
    BY <2>2, <2>3, <2>4 DEF StatusTells, Judge!Settled, Judge!Verdicts
  <2>. QED  BY <1>4, <2>3, <2>5 DEF JudgedRight, Certified
<1>. QED  BY <1>6, <1>7

LEMMA JudgedNext == JudgedRight /\ [RunsNext]_<<part, vars, nodesPart, logPart, graphPart, judgePart>> => JudgedRight'
<1> SUFFICES ASSUME JudgedRight, [RunsNext]_<<part, vars, nodesPart, logPart, graphPart, judgePart>> PROVE JudgedRight'
  OBVIOUS
<1>1. Judge!Next \/ UNCHANGED judgePart
  BY DEF RunsNext
<1>2. ASSUME NEW p \in Sharers, Judge!List(p) \/ Judge!Crash(p) \/ Judge!Restart(p)
      PROVE  JudgedRight'
  BY <1>2, SameIsRight DEF Judge!List, Judge!Crash, Judge!Restart
<1>3. ASSUME NEW p \in Sharers, Judge!Expire(p)
      PROVE  JudgedRight'
  BY <1>3, SameIsRight, ClosedIsRight DEF Judge!Expire
<1>4. CASE Judge!Late \/ Judge!SetBack \/ UNCHANGED judgePart
  BY <1>4, SameIsRight DEF Judge!Late, Judge!SetBack, judgePart
<1>. QED  BY <1>1, <1>2, <1>3, <1>4, RunKeepsRight, JudgeKeepsRight DEF Judge!Next

\* A task that waited for judgements ends as its questions were answered: it
\* is verified on a yes to each, of none who answers for itself, in enforced
\* mode of operators only; its certificate says so; and a change nobody
\* answered for is unknown.
THEOREM TasksEndAsJudged == RunsSpec => []JudgedAsAnswered
<1>1. RunsInit => JudgedRight
  BY JudgedInit
<1>2. JudgedRight /\ [RunsNext]_<<part, vars, nodesPart, logPart, graphPart, judgePart>> => JudgedRight'
  BY JudgedNext
<1>3. JudgedRight => JudgedAsAnswered
  <2> SUFFICES ASSUME JudgedRight PROVE JudgedAsAnswered
    OBVIOUS
  <2>1. Judge!YesToEveryQuestion
    <3> SUFFICES ASSUME asked.status = "verified_success", NEW q \in Questions
                 PROVE  /\ judged[q].verdict = "yes"
                        /\ judged[q].by.principal \notin {Actor, Parent} /\ Actor \notin judged[q].by.links
      BY DEF Judge!YesToEveryQuestion
    <3>1. judged[q].verdict = "yes"
      BY DEF JudgedRight, StatusTells
    <3>2. judged[q] # Judge!Open
      BY <3>1 DEF Judge!Open
    <3>3. judged[q].by = Judge!Operator \/ ~Judge!JudgesItself(judged[q].by)
      BY <3>2 DEF JudgedRight, AnswersCount
    <3>4. "operator" \notin {Actor, Parent}
      BY RunsAssumption DEF Judge!JudgementsAssumption
    <3>. QED  BY <3>1, <3>3, <3>4 DEF Judge!Operator, Judge!JudgesItself
  <2>2. Judge!EnforcedAnswersAreOperators
    BY DEF JudgedRight, AnswersCount, Judge!EnforcedAnswersAreOperators
  <2>3. Judge!CertifiedAsAnswered
    BY DEF JudgedRight, Certified, SettledOnQuestions, Judge!CertifiedAsAnswered
  <2>4. Judge!UnansweredIsUnknown
    BY DEF JudgedRight, StatusTells, Judge!UnansweredIsUnknown
  <2>. QED  BY <2>1, <2>2, <2>3, <2>4 DEF JudgedAsAnswered
<1>. QED  BY <1>1, <1>2, <1>3, PTL DEF RunsSpec

\* An answer that was given, and the outcome it settled, stand through every
\* sweep, recovery, reconcile and answer that comes later.
THEOREM VerdictsStand == RunsSpec => Judge!AnswersStand
<1> DEFINE Stand == /\ \A q \in Questions : judged[q] # Judge!Open => judged'[q] = judged[q]
                    /\ SettledOnQuestions => UNCHANGED <<asked, certificate>>
<1>1. JudgedRight /\ [RunsNext]_<<part, vars, nodesPart, logPart, graphPart, judgePart>> => Stand \/ UNCHANGED judgePart
  <2> SUFFICES ASSUME JudgedRight, Judge!Next PROVE Stand
    BY DEF RunsNext
  <2>1. SettledOnQuestions => /\ asked.status \notin {"verifying", "waiting_user"}
                              /\ asked.status = "recovery_required" => Judge!StandsSettled
    BY DEF SettledOnQuestions, JudgedRight, StatusTells, Judge!StandsSettled
  <2>2. ASSUME NEW p \in Sharers, NEW r \in Questions, NEW v \in Judge!Verdicts,
               NEW j \in Judge!Judges \union {Judge!Operator}, Judge!Judge(p, r, v, j)
        PROVE  Stand
    <3>1. asked.status = "waiting_user" /\ judged[r] = Judge!Open
          /\ \E e : judged' = [judged EXCEPT ![r] = e]
      BY <2>2 DEF Judge!Judge, Judge!Accepted
    <3>. QED  BY <2>1, <3>1 DEF JudgedRight, AnswersCount
  <2>3. ASSUME NEW p \in Sharers,
               \/ Judge!Waits(p) \/ Judge!OutcomeLost(p) \/ Judge!Claim(p) \/ Judge!RecoverObserved(p)
               \/ Judge!RecoverCommitted(p) \/ Judge!RecoverParked(p)
        PROVE  Stand
    <3>1. asked.status = "verifying" /\ UNCHANGED judged
      BY <2>3 DEF Judge!Waits, Judge!OutcomeLost, Judge!Claim, Judge!RecoverObserved,
                  Judge!RecoverCommitted, Judge!RecoverParked, Judge!Runs, Judge!Quiet
    <3>. QED  BY <2>1, <3>1
  <2>4. ASSUME NEW p \in Sharers, Judge!Reconcile(p) \/ Judge!Expire(p)
        PROVE  Stand
    BY <2>1, <2>4 DEF Judge!Reconcile, Judge!Expire, Judge!Committed, Judge!StillWaits, Judge!Quiet
  <2>5. ASSUME NEW p \in Sharers, Judge!List(p) \/ Judge!Crash(p) \/ Judge!Restart(p)
        PROVE  Stand
    BY <2>5 DEF Judge!List, Judge!Crash, Judge!Restart
  <2>6. CASE Judge!Late \/ Judge!SetBack
    BY <2>6 DEF Judge!Late, Judge!SetBack
  <2> HIDE DEF Stand
  <2>. QED  BY <2>2, <2>3, <2>4, <2>5, <2>6 DEF Judge!Next
<1>2. RunsInit => JudgedRight
  BY JudgedInit
<1>3. JudgedRight /\ [RunsNext]_<<part, vars, nodesPart, logPart, graphPart, judgePart>> => JudgedRight'
  BY JudgedNext
<1>4. Judge!AnswersStand <=> [][Stand]_judgePart
  BY DEF Judge!AnswersStand, SettledOnQuestions, judgePart, Judge!judgeVars
<1> HIDE DEF Stand
<1>. QED  BY <1>1, <1>2, <1>3, <1>4, PTL DEF RunsSpec

-----------------------------------------------------------------------------
(* The order of steps, halts and verdicts together.                        *)

\* No effect runs before what it depends on; a run an operator halted goes on
\* only when an operator resumes it, and its steps stay till then; and an
\* answer that settled a task stands.
THEOREM StepsComeInOrder == RunsSpec => StepsKeepTheirOrder
<1> DEFINE all == <<part, vars, nodesPart, logPart, graphPart, judgePart>>
<1>1. RunsInit => OfferedAfter /\ HistoryTells
  BY GraphInit, LogInit
<1>2. OfferedAfter /\ HistoryTells /\ [RunsNext]_all => (OfferedAfter /\ HistoryTells)'
  BY GraphNext, LogNext
<1>3. OfferedAfter /\ HistoryTells /\ [RunsNext]_all => FollowsDependencies /\ OperatorResumes /\ HaltedNodesStay
  BY GraphNext, LogNext
<1>4. Graph!EffectsFollowDependencies <=> [][FollowsDependencies]_graphPart
  BY DEF Graph!EffectsFollowDependencies, FollowsDependencies, graphPart, Graph!graphVars
<1>5. Log!OperatorsHaltHolds <=> [][OperatorResumes]_logPart
  BY DEF Log!OperatorsHaltHolds, OperatorResumes, logPart, Log!eventVars
<1>6. Log!HaltedStays <=> [][HaltedNodesStay]_logPart
  BY DEF Log!HaltedStays, HaltedNodesStay, logPart, Log!eventVars
<1> HIDE DEF all
<1>7. RunsSpec => [][RunsNext]_all
  BY DEF RunsSpec, all
<1>8. RunsSpec => [](OfferedAfter /\ HistoryTells)
  BY <1>1, <1>2, <1>7, PTL DEF RunsSpec
<1>9. RunsSpec => Graph!EffectsFollowDependencies /\ Log!OperatorsHaltHolds /\ Log!HaltedStays
  BY <1>3, <1>4, <1>5, <1>6, <1>7, <1>8, PTL
<1>. QED  BY <1>9, VerdictsStand DEF StepsKeepTheirOrder

-----------------------------------------------------------------------------
(* A condition node is decided once. A record alone does not say it: the   *)
(* advance that decided may have lost its commit. What does is that one    *)
(* branch at most has anything alive, a task at work or an effect that may *)
(* have happened, and that each decision reads that before the predicate.  *)

Branches == {1, 2}

\* A key's effect may have happened, or may yet: it is committed, or its task
\* is neither missing nor known to have done nothing.
Alive(k) == k \in happening \/ stepTask[k] \notin {"none"} \union Nodes!NoEffect

\* Nothing happened in a branch, and nothing can before it is taken.
Dead(l) == \A k \in Nodes!KeysOf(l) : ~Alive(k)

\* Keys recorded are of one branch, and the other has nothing alive.
OfOneBranch(ids) ==
  \E l \in Branches : ids \subseteq Nodes!KeysOf(l) /\ (ids # {} => Dead(3 - l))

IsRecord(r) ==
  r = [status |-> r.status, ids |-> r.ids, iterations |-> r.iterations, error |-> r.error]

Phases == {"off", "take", "ready", "doing"}

\* An advance as it stands: what it is about to commit is of one branch, and it
\* asks the predicate only of a node that names no task.
IsAdvance(a) ==
  /\ a = [pc |-> a.pc, lane |-> a.lane, phase |-> a.phase, at |-> a.at, seen |-> a.seen,
          result |-> a.result]
  /\ a.pc \in {"idle", "ask", "run", "commit"}
  /\ a.pc = "idle" => a = Nodes!Idle
  /\ a.pc = "ask" => a = [Nodes!Idle EXCEPT !.pc = "ask"] /\ rec.ids = {}
  /\ a.pc = "commit" => IsRecord(a.result) /\ OfOneBranch(a.result.ids)

\* An advance at its steps is in one branch, of which what is recorded is.
InBranch(a) ==
  a.pc = "run" =>
    /\ a.lane \in Branches
    /\ a.phase \in [Nodes!AllLanes -> Phases] /\ a.at \in [Nodes!AllLanes -> Nat]
    /\ \A l \in Nodes!AllLanes : a.phase[l] # "off" => l = a.lane
    /\ a.at[a.lane] \in 1..compound.lanes[a.lane]
    /\ rec.ids \subseteq Nodes!KeysOf(a.lane) /\ Dead(3 - a.lane)

\* What a step's status says of its commit, its effect and its process.
StepsTell ==
  /\ stepTask \in [Nodes!AllKeys -> Nodes!TaskStatus]
  /\ happening \subseteq Nodes!Keys /\ landed \subseteq Nodes!Keys /\ orphan \subseteq Nodes!Keys
  /\ \A k \in landed : k \in happening \/ stepTask[k] \in {"applied", "unknown"}
  /\ \A k \in Nodes!AllKeys : stepTask[k] = "verifying" => k \in happening
  /\ \A k \in happening : stepTask[k] # "none"
  /\ \A k \in orphan : stepTask[k] \in Nodes!InFlight

\* At most one branch has anything alive, and what is recorded, what is to be
\* recorded and what is running are of that branch.
BranchInv ==
  /\ compound.lanes \in [1..2 -> 0..2]
  /\ StepsTell
  /\ IsRecord(rec) /\ OfOneBranch(rec.ids) /\ (Dead(1) \/ Dead(2))
  /\ IsAdvance(adv) /\ InBranch(adv)

IsCondition == part = "nodes" /\ compound.kind = "condition"
DecidedOnce == IsCondition => BranchInv

LEMMA BranchKeys ==
  ASSUME compound.lanes \in [1..2 -> 0..2]
  PROVE  /\ Nodes!Lanes = Branches /\ Nodes!Keys = Nodes!KeysOf(1) \union Nodes!KeysOf(2)
         /\ \A l \in Branches :
              /\ Nodes!KeysOf(l) = {<<l, i>> : i \in 1..compound.lanes[l]}
              /\ compound.lanes[l] \in {0, 1, 2} /\ 3 - l \in Branches /\ 3 - (3 - l) = l
              /\ Nodes!KeysOf(l) \subseteq Nodes!AllKeys
              /\ \A k \in Nodes!KeysOf(l) : k[1] = l
<1>1. Nodes!Lanes = Branches
  BY DEF Nodes!Lanes, Branches
<1>2. \A l \in Branches : compound.lanes[l] \in {0, 1, 2}
  BY DEF Branches
<1>3. \A l \in Branches : Nodes!KeysOf(l) = {<<l, i>> : i \in 1..compound.lanes[l]}
  BY <1>1 DEF Nodes!KeysOf
<1>4. \A l \in Branches : Nodes!KeysOf(l) \subseteq Nodes!AllKeys
  BY <1>2, <1>3 DEF Branches, Nodes!AllKeys, Nodes!AllLanes
<1>5. \A l \in Branches : 3 - l \in Branches /\ 3 - (3 - l) = l
  BY DEF Branches
<1>6. Nodes!Keys = Nodes!KeysOf(1) \union Nodes!KeysOf(2)
  BY <1>1 DEF Nodes!Keys, Branches
<1>. QED  BY <1>1, <1>2, <1>3, <1>4, <1>5, <1>6

\* What is alive is of one branch.
LEMMA AliveIsOfOne ==
  ASSUME BranchInv, NEW S, S \subseteq Nodes!Keys, \A k \in S : Alive(k)
  PROVE  OfOneBranch(S)
<1>1. compound.lanes \in [1..2 -> 0..2] /\ (Dead(1) \/ Dead(2))
  BY DEF BranchInv
<1>2. CASE Dead(1)
  BY <1>1, <1>2, BranchKeys DEF OfOneBranch, Dead, Branches
<1>3. CASE Dead(2)
  BY <1>1, <1>3, BranchKeys DEF OfOneBranch, Dead, Branches
<1>. QED  BY <1>1, <1>2, <1>3

\* Nothing dead comes alive; then what was of one branch still is.
NothingRevives == \A k \in Nodes!AllKeys : Alive(k)' => Alive(k)
StaysOfOne(ids) ==
  \E l \in Branches : ids \subseteq Nodes!KeysOf(l) /\ (ids # {} => Dead(3 - l)')

LEMMA DeadStays ==
  ASSUME BranchInv, UNCHANGED compound, NothingRevives, NEW l \in Branches, Dead(l)
  PROVE  Dead(l)'
<1>1. Nodes!KeysOf(l)' = Nodes!KeysOf(l)
  BY DEF Nodes!KeysOf, Nodes!Lanes
<1>2. Nodes!KeysOf(l) \subseteq Nodes!AllKeys
  BY BranchKeys DEF BranchInv
<1>. QED  BY <1>1, <1>2 DEF Dead, NothingRevives

LEMMA OneBranchStays ==
  ASSUME BranchInv, UNCHANGED compound, NothingRevives, NEW ids, OfOneBranch(ids)
  PROVE  StaysOfOne(ids)
<1>1. PICK l \in Branches : ids \subseteq Nodes!KeysOf(l) /\ (ids # {} => Dead(3 - l))
  BY DEF OfOneBranch
<1>2. 3 - l \in Branches
  BY DEF Branches
<1>. QED  BY <1>1, <1>2, DeadStays DEF StaysOfOne

\* An advance at its commit.
Commits(a) == a = [pc |-> "commit", lane |-> a.lane, phase |-> a.phase, at |-> a.at,
                   seen |-> a.seen, result |-> a.result]

\* A step that gives the branches their invariant again.
LEMMA QuietKeeps ==
  ASSUME BranchInv, UNCHANGED compound, NothingRevives, StepsTell',
         IsRecord(rec'), StaysOfOne(rec'.ids),
         adv' = Nodes!Idle \/
           /\ rec' = rec
           /\ \/ adv' = adv
              \/ adv' = [Nodes!Idle EXCEPT !.pc = "ask"] /\ rec.ids = {}
              \/ Commits(adv)' /\ IsRecord(adv'.result) /\ StaysOfOne(adv'.result.ids)
  PROVE  BranchInv'
<1>1. \A l \in Branches : Nodes!KeysOf(l)' = Nodes!KeysOf(l)
  BY DEF Nodes!KeysOf, Nodes!Lanes
<1>2. compound'.lanes \in [1..2 -> 0..2]
  BY DEF BranchInv
<1>3. OfOneBranch(rec.ids)' /\ IsRecord(rec)'
  BY <1>1 DEF OfOneBranch, StaysOfOne, IsRecord
<1>4. (Dead(1) \/ Dead(2))'
  BY DeadStays DEF BranchInv, Branches
<1>5. CASE adv' = Nodes!Idle
  <2>1. IsAdvance(adv)' /\ InBranch(adv)'
    BY <1>5 DEF IsAdvance, InBranch, Nodes!Idle
  <2>. QED  BY <1>2, <1>3, <1>4, <2>1 DEF BranchInv
<1>6. CASE rec' = rec /\ adv' = adv
  <2>1. InBranch(adv)'
    <3> SUFFICES ASSUME adv.pc = "run" PROVE InBranch(adv)'
      BY <1>6 DEF InBranch
    <3>1. adv.lane \in Branches /\ Dead(3 - adv.lane) /\ 3 - adv.lane \in Branches
      BY DEF BranchInv, InBranch, Branches
    <3>2. Dead(3 - adv.lane)'
      BY <3>1, <1>6, DeadStays
    <3>. QED  BY <1>1, <1>6, <3>1, <3>2 DEF BranchInv, InBranch, Nodes!AllLanes
  <2>2. adv.pc = "commit" => StaysOfOne(adv.result.ids)
    BY OneBranchStays DEF BranchInv, IsAdvance
  <2>3. IsAdvance(adv)'
    BY <1>1, <1>6, <2>2 DEF BranchInv, IsAdvance, OfOneBranch, StaysOfOne, IsRecord, Nodes!Idle, Nodes!Pending
  <2>. QED  BY <1>2, <1>3, <1>4, <2>1, <2>3 DEF BranchInv
<1>7. CASE rec' = rec /\ adv' = [Nodes!Idle EXCEPT !.pc = "ask"] /\ rec.ids = {}
  <2>1. IsAdvance(adv)' /\ InBranch(adv)'
    BY <1>7 DEF IsAdvance, InBranch, Nodes!Idle, Nodes!Pending
  <2>. QED  BY <1>2, <1>3, <1>4, <2>1 DEF BranchInv
<1>8. CASE rec' = rec /\ Commits(adv)' /\ IsRecord(adv'.result) /\ StaysOfOne(adv'.result.ids)
  <2>1. IsAdvance(adv)' /\ InBranch(adv)'
    BY <1>1, <1>8 DEF IsAdvance, InBranch, OfOneBranch, StaysOfOne, IsRecord, Commits
  <2>. QED  BY <1>2, <1>3, <1>4, <2>1 DEF BranchInv
<1>. QED  BY <1>5, <1>6, <1>7, <1>8

\* Challenges cancelled: their keys are dead, and nothing else changes.
LEMMA CancelledDies ==
  ASSUME BranchInv, UNCHANGED <<compound, happening, landed, orphan>>, NEW S,
         stepTask' = Nodes!Cancelled(S)
  PROVE  /\ StepsTell' /\ NothingRevives
         /\ \A k \in S : k \in Nodes!AllKeys /\ k \notin happening /\ stepTask[k] \in Nodes!Unstarted => ~Alive(k)'
         /\ \A k \in Nodes!AllKeys : stepTask'[k] = stepTask[k] \/ (stepTask[k] \in Nodes!Unstarted /\ stepTask'[k] = "cancelled")
<1>1. stepTask \in [Nodes!AllKeys -> Nodes!TaskStatus]
  BY DEF BranchInv, StepsTell
<1>2. \A k \in Nodes!AllKeys :
        stepTask'[k] = IF k \in S /\ stepTask[k] \in Nodes!Unstarted THEN "cancelled" ELSE stepTask[k]
  BY DEF Nodes!Cancelled
<1>3. stepTask' \in [Nodes!AllKeys -> Nodes!TaskStatus]
  BY <1>1 DEF Nodes!Cancelled, Nodes!TaskStatus, Nodes!NoEffect
<1>4. Nodes!Keys' = Nodes!Keys /\ Nodes!Keys \subseteq Nodes!AllKeys
  BY BranchKeys DEF BranchInv, Nodes!Keys, Nodes!KeysOf, Nodes!Lanes, Branches
<1>5. StepsTell'
  BY <1>2, <1>3, <1>4 DEF BranchInv, StepsTell, Nodes!Unstarted, Nodes!InFlight
<1>6. NothingRevives
  BY <1>2 DEF NothingRevives, Alive, Nodes!NoEffect
<1>. QED  BY <1>2, <1>5, <1>6 DEF Alive, Nodes!NoEffect, Nodes!Unstarted

\* What a node's state is read to be names the tasks it was read from, or what
\* it named before.
LEMMA ReadNames ==
  ASSUME NEW S, NEW r, IsRecord(r)
  PROVE  /\ IsRecord(Nodes!RecoveredNodeState(S, r)) /\ IsRecord(Nodes!FromTasks(r, S))
         /\ Nodes!RecoveredNodeState(S, r).ids = (IF S = {} THEN r.ids ELSE S)
         /\ Nodes!FromTasks(r, S).ids = (IF S = {} THEN r.ids ELSE S)
<1> DEFINE s == Nodes!RecoveredNodeState(S, r)
           d == Nodes!Downgraded(s, r, S)
<1>1. IsRecord(s) /\ s.ids = (IF S = {} THEN r.ids ELSE S)
  BY DEF IsRecord, Nodes!RecoveredNodeState
<1> HIDE DEF s
<1>2. IsRecord(d) /\ d.ids = s.ids
  BY <1>1 DEF IsRecord, Nodes!Downgraded, Nodes!Pending
<1> HIDE DEF d
<1>3. IsRecord(Nodes!Counted(d)) /\ Nodes!Counted(d).ids = d.ids
  BY <1>2 DEF IsRecord, Nodes!Counted
<1>. QED  BY <1>1, <1>2, <1>3 DEF s, d, Nodes!FromTasks

LEMMA ConflictNames ==
  ASSUME NEW l
  PROVE  IsRecord(Nodes!BranchConflict(l)) /\ Nodes!BranchConflict(l).ids = Nodes!Conflicting(l)
<1> DEFINE pending == Nodes!Pending
           ids == Nodes!Conflicting(l)
<1>1. pending = [status |-> "pending", ids |-> {}, iterations |-> Nodes!NotCounted, error |-> "none"]
  BY DEF Nodes!Pending
<1>2. Nodes!BranchConflict(l) =
        [pending EXCEPT !.status = "recovery_required", !.ids = ids, !.error = "conflict"]
  BY DEF Nodes!BranchConflict
<1> HIDE DEF pending, ids
<1>3. Nodes!BranchConflict(l) =
        [status |-> "recovery_required", ids |-> ids, iterations |-> Nodes!NotCounted, error |-> "conflict"]
  BY <1>1, <1>2
<1>. QED  BY <1>3 DEF IsRecord, ids

LEMMA FirstIsIn ==
  ASSUME compound.lanes \in [1..2 -> 0..2], NEW l \in Branches,
         NEW S, S \subseteq Nodes!KeysOf(l), S # {}
  PROVE  Nodes!First(S)[1] = l
<1>1. \A k \in S : k = <<l, 1>> \/ k = <<l, 2>>
  BY BranchKeys
<1>2. \E k \in S : \A j \in S : k[1] < j[1] \/ (k[1] = j[1] /\ k[2] <= j[2])
  <2>1. CASE <<l, 1>> \in S
    BY <1>1, <2>1
  <2>2. CASE <<l, 1>> \notin S
    BY <1>1, <2>2
  <2>. QED  BY <2>1, <2>2
<1>3. Nodes!First(S) \in S
  BY <1>2 DEF Nodes!First
<1>. QED  BY <1>1, <1>3

\* The branch a record and the keys committed tell, when they do.
LEMMA ChosenTells ==
  ASSUME BranchInv
  PROVE  /\ Nodes!Chosen(rec) \in {0} \union Branches
         /\ Nodes!Chosen(rec) # 0 /\ Nodes!Found(Nodes!KeysOf(Nodes!Chosen(rec))) = {} =>
              rec.ids \subseteq Nodes!KeysOf(Nodes!Chosen(rec))
<1>1. compound.lanes \in [1..2 -> 0..2] /\ \A k \in happening : stepTask[k] # "none"
  BY DEF BranchInv, StepsTell
<1>2. PICK l \in Branches : rec.ids \subseteq Nodes!KeysOf(l)
  BY DEF BranchInv, OfOneBranch
<1>3. \A c \in Branches : Nodes!Committed(c) => Nodes!Found(Nodes!KeysOf(c)) # {}
  BY <1>1 DEF Nodes!Committed, Nodes!Found
<1>4. CASE Nodes!Committed(1)
  BY <1>3, <1>4 DEF Nodes!Chosen, Branches
<1>5. CASE ~Nodes!Committed(1) /\ Nodes!Committed(2)
  BY <1>3, <1>5 DEF Nodes!Chosen, Branches
<1>6. CASE ~Nodes!Committed(1) /\ ~Nodes!Committed(2)
  <2>1. Nodes!Chosen(rec) =
          IF rec.status = "verified_complete" /\ rec.ids = {}
          THEN IF compound.lanes[1] = 0 THEN 1 ELSE 2
          ELSE IF rec.error = "conflict" \/ rec.ids = {} THEN 0 ELSE Nodes!First(rec.ids)[1]
    BY <1>6 DEF Nodes!Chosen
  <2>2. rec.ids # {} => Nodes!First(rec.ids)[1] = l
    BY <1>1, <1>2, FirstIsIn
  <2>. QED  BY <1>2, <2>1, <2>2 DEF Branches
<1>. QED  BY <1>4, <1>5, <1>6

\* A branch that can be taken: what stands in the other is only challenges.
LEMMA TakenLeavesDead ==
  ASSUME BranchInv, UNCHANGED <<compound, happening, landed, orphan>>, NEW l \in Branches,
         Nodes!Conflicting(l) = {}, stepTask' = Nodes!Cancelled(Nodes!KeysOf(Nodes!Other(l)))
  PROVE  Dead(3 - l)'
<1>1. Nodes!KeysOf(3 - l)' = Nodes!KeysOf(3 - l) /\ Nodes!Other(l) = 3 - l
  BY DEF Nodes!KeysOf, Nodes!Lanes, Nodes!Other
<1>2. Nodes!KeysOf(3 - l) \subseteq Nodes!AllKeys
  BY BranchKeys DEF BranchInv, Branches
<1>3. \A k \in Nodes!KeysOf(3 - l) :
        k \notin happening /\ stepTask[k] \in {"none"} \union Nodes!Unstarted \union Nodes!NoEffect
  BY <1>1 DEF Nodes!Conflicting
<1>4. ASSUME NEW k \in Nodes!KeysOf(3 - l) PROVE ~Alive(k)'
  <2>1. CASE stepTask[k] \in Nodes!Unstarted
    BY <1>1, <1>2, <1>3, <2>1, CancelledDies
  <2>2. CASE stepTask[k] \notin Nodes!Unstarted
    <3>1. ~Alive(k)
      BY <1>3, <2>2 DEF Alive
    <3>. QED  BY <1>2, <3>1, CancelledDies DEF NothingRevives
  <2>. QED  BY <2>1, <2>2
<1>. QED  BY <1>1, <1>4 DEF Dead

\* Recovery's reading of the node, and what it cancels.
LEMMA RecoveredIsOfOne ==
  ASSUME BranchInv, compound.kind = "condition", UNCHANGED <<compound, happening, landed, orphan>>,
         stepTask' = Nodes!TasksRead(rec)
  PROVE  /\ StepsTell' /\ NothingRevives
         /\ IsRecord(Nodes!RecoveredNode(rec)) /\ StaysOfOne(Nodes!RecoveredNode(rec).ids)
<1> DEFINE c == Nodes!Chosen(rec)
<1>1. compound.lanes \in [1..2 -> 0..2] /\ IsRecord(rec) /\ OfOneBranch(rec.ids) /\ StepsTell
  BY DEF BranchInv
<1>2. c \in {0} \union Branches /\ (c # 0 /\ Nodes!Found(Nodes!KeysOf(c)) = {} => rec.ids \subseteq Nodes!KeysOf(c))
  BY ChosenTells
<1>3. stepTask' = (IF c # 0 THEN Nodes!Cancelled(Nodes!KeysOf(Nodes!Other(c))) ELSE stepTask)
  BY DEF Nodes!TasksRead
<1>4. Nodes!RecoveredNode(rec) =
        IF c = 0 THEN Nodes!Undecided(rec)
        ELSE IF Nodes!Conflicting(c) # {} THEN Nodes!BranchConflict(c)
        ELSE Nodes!FromTasks(rec, Nodes!Found(Nodes!KeysOf(c)))
  BY DEF Nodes!RecoveredNode
<1> HIDE DEF c
<1>5. CASE c = 0
  <2>1. stepTask' = stepTask /\ Nodes!RecoveredNode(rec) = Nodes!Undecided(rec)
    BY <1>5, <1>3, <1>4
  <2>2. StepsTell' /\ NothingRevives
    BY <1>1, <2>1 DEF StepsTell, NothingRevives, Alive, Nodes!Keys, Nodes!KeysOf, Nodes!Lanes
  <2>3. OfOneBranch(Nodes!Unsettled(Nodes!Keys))
    <3>1. \A k \in Nodes!Unsettled(Nodes!Keys) : k \in Nodes!Keys /\ Alive(k)
      BY DEF Nodes!Unsettled, Alive, Nodes!InFlight, Nodes!NoEffect
    <3>. QED  BY <3>1, AliveIsOfOne
  <2>4. OfOneBranch({})
    BY DEF OfOneBranch, Branches
  <2>5. IsRecord(Nodes!Pending) /\ Nodes!Pending.ids = {}
    BY DEF IsRecord, Nodes!Pending
  <2>6. IsRecord(Nodes!Undecided(rec)) /\
          Nodes!Undecided(rec).ids \in {rec.ids, Nodes!Unsettled(Nodes!Keys), {}}
    BY <1>1, <2>5, ReadNames DEF Nodes!Undecided
  <2>7. OfOneBranch(Nodes!Undecided(rec).ids)
    BY <1>1, <2>3, <2>4, <2>6
  <2>. QED  BY <2>1, <2>2, <2>6, <2>7, OneBranchStays
<1>6. CASE c \in Branches
  <2>1. stepTask' = Nodes!Cancelled(Nodes!KeysOf(Nodes!Other(c))) /\ c # 0
    BY <1>6, <1>3 DEF Branches
  <2>2. StepsTell' /\ NothingRevives
    BY <2>1, CancelledDies
  <2>3. CASE Nodes!Conflicting(c) # {}
    <3>1. Nodes!RecoveredNode(rec) = Nodes!BranchConflict(c)
      BY <1>4, <2>1, <2>3
    <3>2. IsRecord(Nodes!BranchConflict(c)) /\ Nodes!BranchConflict(c).ids = Nodes!Conflicting(c)
      BY ConflictNames
    <3>3. OfOneBranch(Nodes!Conflicting(c))
      <4>1. Nodes!KeysOf(Nodes!Other(c)) \subseteq Nodes!Keys
        BY <1>1, <1>6, BranchKeys DEF Nodes!Other, Branches
      <4>2. \A k \in Nodes!Conflicting(c) : k \in Nodes!Keys /\ Alive(k)
        BY <4>1 DEF Nodes!Conflicting, Alive
      <4>. QED  BY <4>2, AliveIsOfOne
    <3>. QED  BY <2>2, <3>1, <3>2, <3>3, OneBranchStays
  <2>4. CASE Nodes!Conflicting(c) = {}
    <3>1. Nodes!RecoveredNode(rec) = Nodes!FromTasks(rec, Nodes!Found(Nodes!KeysOf(c)))
      BY <1>4, <2>1, <2>4
    <3>2. IsRecord(Nodes!RecoveredNode(rec)) /\ Nodes!RecoveredNode(rec).ids \subseteq Nodes!KeysOf(c)
      BY <1>1, <1>2, <2>1, <3>1, ReadNames DEF Nodes!Found
    <3>3. PICK l \in Branches : l = c
      BY <1>6
    <3>4. Dead(3 - l)'
      BY <2>1, <2>4, <3>3, TakenLeavesDead
    <3>. QED  BY <2>2, <3>2, <3>3, <3>4 DEF StaysOfOne
  <2>. QED  BY <2>3, <2>4
<1>. QED  BY <1>2, <1>5, <1>6

\* An advance that is at the steps of a branch after this step.
LEMMA AtStepsKeeps ==
  ASSUME BranchInv, UNCHANGED <<compound, rec>>, StepsTell', NEW l \in Branches,
         rec.ids \subseteq Nodes!KeysOf(l), Dead(3 - l)',
         adv' = [pc |-> "run", lane |-> l, phase |-> adv'.phase, at |-> adv'.at, seen |-> adv'.seen,
                 result |-> adv'.result],
         adv'.phase \in [Nodes!AllLanes -> Phases], adv'.at \in [Nodes!AllLanes -> Nat],
         \A m \in Nodes!AllLanes : adv'.phase[m] # "off" => m = l,
         adv'.at[l] \in 1..compound.lanes[l]
  PROVE  BranchInv'
<1>1. \A m \in Branches : Nodes!KeysOf(m)' = Nodes!KeysOf(m)
  BY DEF Nodes!KeysOf, Nodes!Lanes
<1>2. compound'.lanes \in [1..2 -> 0..2] /\ IsRecord(rec)'
  BY DEF BranchInv, IsRecord
<1>3. OfOneBranch(rec.ids)'
  BY <1>1 DEF OfOneBranch
<1>4. (Dead(1) \/ Dead(2))'
  BY DEF Branches
<1>5. IsAdvance(adv)'
  BY DEF IsAdvance
<1>6. InBranch(adv)'
  BY <1>1 DEF InBranch
<1>. QED  BY <1>2, <1>3, <1>4, <1>5, <1>6 DEF BranchInv

LEMMA IdleIs ==
  ASSUME BranchInv, adv.pc \in {"idle", "ask"}
  PROVE  adv = [pc |-> adv.pc, lane |-> 0, phase |-> [l \in Nodes!AllLanes |-> "off"],
                at |-> [l \in Nodes!AllLanes |-> 1], seen |-> [k \in Nodes!AllKeys |-> "none"],
                result |-> Nodes!Pending]
  BY DEF BranchInv, IsAdvance, Nodes!Idle

LEMMA ResolveIs ==
  ASSUME BranchInv, NEW r, adv' = Nodes!Resolve(r)
  PROVE  Commits(adv)' /\ adv'.result = r
<1>1. adv = [pc |-> adv.pc, lane |-> adv.lane, phase |-> adv.phase, at |-> adv.at,
             seen |-> adv.seen, result |-> adv.result]
  BY DEF BranchInv, IsAdvance
<1>2. adv' = [pc |-> "commit", lane |-> adv.lane, phase |-> adv.phase, at |-> adv.at,
             seen |-> adv.seen, result |-> r]
  BY <1>1 DEF Nodes!Resolve
<1>. QED  BY <1>2 DEF Commits

LEMMA EmptyIsOfOne ==
  ASSUME BranchInv, UNCHANGED compound
  PROVE  /\ StaysOfOne({})
         /\ \A s : IsRecord([Nodes!Pending EXCEPT !.status = s]) /\ [Nodes!Pending EXCEPT !.status = s].ids = {}
<1>1. StaysOfOne({})
  BY DEF StaysOfOne, Branches
<1>. QED  BY <1>1 DEF IsRecord, Nodes!Pending

\* A branch is taken, or found to conflict with what stands in the other.
LEMMA TakeBranchKeeps ==
  ASSUME BranchInv, UNCHANGED <<compound, happening, landed, orphan, rec>>, adv.pc \in {"idle", "ask"},
         NEW l \in Branches, NEW settles, Nodes!TakeBranch(l, settles),
         rec.ids \subseteq Nodes!KeysOf(l), ~settles => Dead(3 - l)
  PROVE  BranchInv'
<1>1. compound.lanes \in [1..2 -> 0..2] /\ IsRecord(rec) /\ OfOneBranch(rec.ids) /\ StepsTell
  BY DEF BranchInv
<1>2. CASE stepTask' = Nodes!Cancelled(Nodes!KeysOf(Nodes!Other(l))) /\ adv' = Nodes!Resolve(Nodes!BranchConflict(l))
  <2>1. StepsTell' /\ NothingRevives
    BY <1>2, CancelledDies
  <2>2. OfOneBranch(Nodes!Conflicting(l))
    <3>1. Nodes!KeysOf(Nodes!Other(l)) \subseteq Nodes!Keys
      BY <1>1, BranchKeys DEF Nodes!Other, Branches
    <3>2. \A k \in Nodes!Conflicting(l) : k \in Nodes!Keys /\ Alive(k)
      BY <3>1 DEF Nodes!Conflicting, Alive
    <3>. QED  BY <3>2, AliveIsOfOne
  <2>3. StaysOfOne(Nodes!Conflicting(l)) /\ StaysOfOne(rec.ids)
    BY <1>1, <2>1, <2>2, OneBranchStays
  <2>. QED  BY <1>1, <1>2, <2>1, <2>3, ResolveIs, ConflictNames, QuietKeeps
<1>3. CASE /\ stepTask' = IF settles THEN Nodes!Cancelled(Nodes!KeysOf(Nodes!Other(l))) ELSE stepTask
           /\ settles => Nodes!Conflicting(l) = {}
           /\ adv' = IF Nodes!KeysOf(l) = {}
                     THEN Nodes!Resolve([Nodes!Pending EXCEPT !.status = "verified_complete"])
                     ELSE Nodes!Running([adv EXCEPT !.lane = l], l)
  <2>1. StepsTell' /\ NothingRevives /\ Dead(3 - l)'
    <3>1. CASE settles
      BY <1>3, <3>1, CancelledDies, TakenLeavesDead
    <3>2. CASE ~settles
      <4>1. StepsTell' /\ NothingRevives
        BY <1>1, <1>3, <3>2 DEF StepsTell, NothingRevives, Alive, Nodes!Keys, Nodes!KeysOf, Nodes!Lanes
      <4>2. Dead(3 - l)'
        BY <3>2, <4>1, DeadStays DEF Branches
      <4>. QED  BY <4>1, <4>2
    <3>. QED  BY <3>1, <3>2
  <2>2. CASE Nodes!KeysOf(l) = {}
    <3>1. StaysOfOne(rec.ids)
      BY <1>1, <2>1, OneBranchStays
    <3>. QED  BY <1>1, <1>3, <2>1, <2>2, <3>1, EmptyIsOfOne, ResolveIs, QuietKeeps
  <2>3. CASE Nodes!KeysOf(l) # {}
    <3>1. adv' = [pc |-> "run", lane |-> l, phase |-> [adv.phase EXCEPT ![l] = "take"], at |-> adv.at,
                  seen |-> adv.seen, result |-> adv.result]
      BY <1>3, <2>3, IdleIs DEF Nodes!Running
    <3>2. /\ adv.phase = [m \in Nodes!AllLanes |-> "off"] /\ adv.at = [m \in Nodes!AllLanes |-> 1]
          /\ l \in Nodes!AllLanes
      BY IdleIs DEF Branches, Nodes!AllLanes
    <3>3. compound.lanes[l] \in {1, 2}
      BY <1>1, <2>3, BranchKeys
    <3>4. adv'.phase \in [Nodes!AllLanes -> Phases] /\ adv'.at \in [Nodes!AllLanes -> Nat]
          /\ (\A m \in Nodes!AllLanes : adv'.phase[m] # "off" => m = l) /\ adv'.at[l] \in 1..compound.lanes[l]
      BY <3>1, <3>2, <3>3 DEF Phases
    <3>5. adv' = [pc |-> "run", lane |-> l, phase |-> adv'.phase, at |-> adv'.at, seen |-> adv'.seen,
                 result |-> adv'.result]
      BY <3>1
    <3>. QED  BY <2>1, <3>4, <3>5, AtStepsKeeps
  <2>. QED  BY <2>2, <2>3
<1>. QED  BY <1>2, <1>3 DEF Nodes!TakeBranch, Nodes!SetAdv

\* A step that leaves the tasks and their effects alone revives nothing.
LEMMA UntouchedTells ==
  ASSUME BranchInv, UNCHANGED <<compound, stepTask, happening, landed, orphan>>
  PROVE  StepsTell' /\ NothingRevives
BY DEF BranchInv, StepsTell, NothingRevives, Alive, Nodes!Keys, Nodes!KeysOf, Nodes!Lanes

LEMMA BeginKeeps ==
  ASSUME BranchInv, compound.kind = "condition", Nodes!Begin
  PROVE  BranchInv'
<1>1. adv.pc = "idle" /\ UNCHANGED <<compound, happening, landed, orphan, rec>>
  BY DEF Nodes!Begin
<1>2. compound.lanes \in [1..2 -> 0..2] /\ IsRecord(rec) /\ OfOneBranch(rec.ids) /\ StepsTell
  BY DEF BranchInv
<1>3. CASE Nodes!ParkedSettled /\ Nodes!Failing(Nodes!RecoveredNode(rec))
  <2>1. stepTask' = Nodes!TasksRead(rec) /\ adv' = Nodes!Resolve(Nodes!RecoveredNode(rec))
    BY <1>3 DEF Nodes!Begin, Nodes!SetAdv
  <2>2. StepsTell' /\ NothingRevives /\ IsRecord(Nodes!RecoveredNode(rec)) /\ StaysOfOne(Nodes!RecoveredNode(rec).ids)
    BY <1>1, <2>1, RecoveredIsOfOne
  <2>3. StaysOfOne(rec.ids)
    BY <1>1, <1>2, <2>2, OneBranchStays
  <2>. QED  BY <1>1, <1>2, <2>1, <2>2, <2>3, ResolveIs, QuietKeeps
<1>4. CASE ~(Nodes!ParkedSettled /\ Nodes!Failing(Nodes!RecoveredNode(rec)))
  <2> DEFINE known == IF Nodes!Committed(1) THEN 1 ELSE IF Nodes!Committed(2) THEN 2
                      ELSE IF rec.ids # {} THEN Nodes!First(rec.ids)[1] ELSE 0
  <2>1. IF known = 0
        THEN UNCHANGED stepTask /\ Nodes!SetAdv([adv EXCEPT !.pc = "ask"])
        ELSE Nodes!TakeBranch(known, Nodes!Committed(Nodes!Other(known)) \/ rec.ids = {}
                                       \/ ~(rec.ids \subseteq Nodes!KeysOf(known)))
    BY <1>4 DEF Nodes!Begin, Nodes!BeginCondition
  <2>2. PICK b \in Branches : rec.ids \subseteq Nodes!KeysOf(b) /\ (rec.ids # {} => Dead(3 - b))
    BY <1>2 DEF OfOneBranch
  <2>3. \A c \in Branches : Nodes!Committed(c) => ~Dead(c)
    BY DEF Nodes!Committed, Dead, Alive
  <2>4. rec.ids # {} => known = b
    <3> SUFFICES ASSUME rec.ids # {} PROVE known = b
      OBVIOUS
    <3>1. Nodes!First(rec.ids)[1] = b
      BY <1>2, <2>2, FirstIsIn
    <3>2. ~Nodes!Committed(3 - b)
      BY <2>2, <2>3 DEF Branches
    <3>. QED  BY <3>1, <3>2 DEF Branches
  <2>5. known \in {0} \union Branches /\ (known = 0 => rec.ids = {})
    BY <2>2, <2>4 DEF Branches
  <2> HIDE DEF known
  <2>6. CASE known = 0
    <3>1. stepTask' = stepTask /\ adv' = [adv EXCEPT !.pc = "ask"]
      BY <2>1, <2>6 DEF Nodes!SetAdv
    <3>2. adv = Nodes!Idle
      BY <1>1 DEF BranchInv, IsAdvance
    <3>3. StepsTell' /\ NothingRevives
      BY <1>1, <3>1, UntouchedTells
    <3>4. StaysOfOne(rec.ids)
      BY <1>1, <1>2, <3>3, OneBranchStays
    <3>5. adv' = [Nodes!Idle EXCEPT !.pc = "ask"] /\ rec.ids = {}
      BY <2>5, <2>6, <3>1, <3>2
    <3>. QED  BY <1>1, <1>2, <3>3, <3>4, <3>5, QuietKeeps
  <2>7. CASE known \in Branches
    <3>1. PICK l \in Branches : l = known
      BY <2>7
    <3> DEFINE settles == Nodes!Committed(Nodes!Other(l)) \/ rec.ids = {} \/ ~(rec.ids \subseteq Nodes!KeysOf(l))
    <3>2. Nodes!TakeBranch(l, settles)
      BY <2>1, <3>1 DEF Branches
    <3>3. rec.ids \subseteq Nodes!KeysOf(l) /\ (~settles => Dead(3 - l))
      BY <2>2, <2>4, <3>1
    <3> HIDE DEF settles
    <3>. QED  BY <1>1, <3>2, <3>3, TakeBranchKeeps
  <2>. QED  BY <2>5, <2>6, <2>7
<1>. QED  BY <1>3, <1>4

LEMMA AskKeeps ==
  ASSUME BranchInv, compound.kind = "condition", Nodes!Ask
  PROVE  BranchInv'
<1>1. adv.pc = "ask" /\ UNCHANGED <<compound, happening, landed, orphan, rec>>
  BY DEF Nodes!Ask
<1>2. rec.ids = {} /\ IsRecord(rec) /\ OfOneBranch(rec.ids)
  BY <1>1 DEF BranchInv, IsAdvance
<1>3. PICK answer \in {"yes", "no", "unanswered", "refused"} :
        IF answer = "unanswered" \/ answer = "refused" THEN Nodes!Unanswered(answer) ELSE Nodes!Answered(answer)
  BY DEF Nodes!Ask
<1>4. CASE answer \in {"unanswered", "refused"}
  <2> DEFINE left == Nodes!Unsettled(Nodes!Keys)
             waits == Nodes!Waiting(IF answer = "refused" THEN "failed" ELSE "waiting")
             result == IF left # {} THEN Nodes!RecoveredNodeState(left, rec) ELSE waits
  <2>1. stepTask' = stepTask /\ adv' = Nodes!Resolve(result)
    BY <1>3, <1>4 DEF Nodes!Unanswered, Nodes!SetAdv
  <2>2. StepsTell' /\ NothingRevives
    BY <1>1, <2>1, UntouchedTells
  <2>3. IsRecord(waits) /\ waits.ids = rec.ids
    <3> DEFINE status == IF answer = "refused" THEN "failed" ELSE rec.status
    <3>1. waits = [rec EXCEPT !.status = status, !.error = "check"]
      BY DEF Nodes!Waiting
    <3>2. rec = [status |-> rec.status, ids |-> rec.ids, iterations |-> rec.iterations, error |-> rec.error]
      BY <1>2 DEF IsRecord
    <3> HIDE DEF status, waits
    <3>3. waits = [status |-> status, ids |-> rec.ids, iterations |-> rec.iterations, error |-> "check"]
      BY <3>1, <3>2
    <3>. QED  BY <3>3 DEF IsRecord
  <2>4. OfOneBranch(left)
    <3>1. \A k \in left : k \in Nodes!Keys /\ Alive(k)
      BY DEF Nodes!Unsettled, Alive, Nodes!InFlight, Nodes!NoEffect
    <3>. QED  BY <3>1, AliveIsOfOne
  <2> HIDE DEF left, waits
  <2>5. IsRecord(result) /\ OfOneBranch(result.ids)
    <3>1. CASE left = {}
      <4>1. result = waits
        BY <3>1
      <4>. QED  BY <1>2, <2>3, <4>1
    <3>2. CASE left # {}
      <4>1. result = Nodes!RecoveredNodeState(left, rec)
        BY <3>2
      <4>2. IsRecord(result) /\ result.ids = left
        BY <1>2, <3>2, <4>1, ReadNames
      <4>. QED  BY <2>4, <4>2
    <3>. QED  BY <3>1, <3>2
  <2> HIDE DEF result
  <2>6. StaysOfOne(result.ids) /\ StaysOfOne(rec.ids)
    BY <1>1, <1>2, <2>2, <2>5, OneBranchStays
  <2>. QED  BY <1>1, <1>2, <2>1, <2>2, <2>5, <2>6, ResolveIs, QuietKeeps
<1>5. CASE answer \in {"yes", "no"}
  <2>1. PICK l \in Branches : Nodes!TakeBranch(l, TRUE)
    BY <1>3, <1>5 DEF Nodes!Answered, Branches
  <2>. QED  BY <1>1, <1>2, <2>1, TakeBranchKeeps
<1>. QED  BY <1>4, <1>5

\* The lane a step of an advance is of, and the key it is at.
LEMMA LaneAt ==
  ASSUME BranchInv, NEW l \in Nodes!Lanes, NEW p, Nodes!At(l, p), p # "off"
  PROVE  /\ l \in Branches /\ l = adv.lane /\ adv.pc = "run" /\ adv.phase[l] = p
         /\ adv = [pc |-> "run", lane |-> l, phase |-> adv.phase, at |-> adv.at, seen |-> adv.seen,
                   result |-> adv.result]
         /\ adv.phase \in [Nodes!AllLanes -> Phases] /\ adv.at \in [Nodes!AllLanes -> Nat]
         /\ \A m \in Nodes!AllLanes : adv.phase[m] # "off" => m = l
         /\ adv.at[l] \in 1..compound.lanes[l] /\ l \in Nodes!AllLanes
         /\ rec.ids \subseteq Nodes!KeysOf(l) /\ Dead(3 - l)
         /\ Nodes!Key(l) \in Nodes!KeysOf(l) /\ Nodes!Key(l) \in Nodes!AllKeys
         /\ Nodes!Key(l) \notin Nodes!KeysOf(3 - l)
<1>1. l \in Branches /\ l \in Nodes!AllLanes
  BY BranchKeys DEF BranchInv, Branches, Nodes!AllLanes
<1>2. adv.pc = "run" /\ adv.phase[l] = p
  BY DEF Nodes!At
<1>3. IsAdvance(adv) /\ InBranch(adv) /\ compound.lanes \in [1..2 -> 0..2]
  BY DEF BranchInv
<1>4. l = adv.lane
  BY <1>1, <1>2, <1>3 DEF InBranch
<1>5. adv.at[l] \in 1..compound.lanes[l]
  BY <1>2, <1>3, <1>4 DEF InBranch
<1>6. Nodes!Key(l) \in Nodes!KeysOf(l)
  BY <1>1, <1>3, <1>5, BranchKeys DEF Nodes!Key
<1>7. Nodes!Key(l) \in Nodes!AllKeys /\ Nodes!Key(l) \notin Nodes!KeysOf(3 - l)
  <2>1. 3 - l \in Branches /\ 3 - l # l
    BY <1>1 DEF Branches
  <2>2. \A k \in Nodes!KeysOf(3 - l) : k[1] = 3 - l
    BY <1>3, <2>1, BranchKeys
  <2>. QED  BY <1>1, <1>3, <1>6, <2>1, <2>2, BranchKeys DEF Nodes!Key
<1>. QED  BY <1>1, <1>2, <1>3, <1>4, <1>5, <1>6, <1>7 DEF IsAdvance, InBranch

\* A step's task is planned or set running: only the branch taken gains life.
LEMMA StepMoves ==
  ASSUME BranchInv, UNCHANGED <<compound, happening, landed, orphan, rec>>,
         NEW l \in Nodes!Lanes, NEW p, Nodes!At(l, p), p # "off",
         stepTask[Nodes!Key(l)] \in {"none"} \union Nodes!Unstarted,
         NEW s \in Nodes!Unstarted \union {"running"}, stepTask' = [stepTask EXCEPT ![Nodes!Key(l)] = s],
         NEW q \in Phases \ {"off"}, adv' = [adv EXCEPT !.phase[l] = q]
  PROVE  BranchInv'
<1> DEFINE k == Nodes!Key(l)
<1>1. /\ l \in Branches /\ l \in Nodes!AllLanes /\ k \in Nodes!AllKeys /\ k \notin Nodes!KeysOf(3 - l)
      /\ Dead(3 - l) /\ rec.ids \subseteq Nodes!KeysOf(l)
  BY LaneAt
<1>2. StepsTell /\ compound.lanes \in [1..2 -> 0..2]
  BY DEF BranchInv
<1> HIDE DEF k
<1>3. /\ \A j \in Nodes!AllKeys : stepTask'[j] = IF j = k THEN s ELSE stepTask[j]
      /\ stepTask' \in [Nodes!AllKeys -> Nodes!TaskStatus]
  BY <1>1, <1>2 DEF StepsTell, Nodes!TaskStatus, Nodes!InFlight, k
<1>4. Nodes!Keys' = Nodes!Keys /\ Nodes!Keys \subseteq Nodes!AllKeys /\ Nodes!KeysOf(3 - l)' = Nodes!KeysOf(3 - l)
      /\ Nodes!KeysOf(3 - l) \subseteq Nodes!AllKeys
  BY <1>1, <1>2, BranchKeys DEF Nodes!Keys, Nodes!KeysOf, Nodes!Lanes, Branches
<1>5. stepTask[k] \in {"none"} \union Nodes!Unstarted
  BY DEF k
<1>6. StepsTell'
  BY <1>1, <1>2, <1>3, <1>4, <1>5 DEF StepsTell, Nodes!Unstarted, Nodes!InFlight
<1>7. Dead(3 - l)'
  BY <1>1, <1>3, <1>4 DEF Dead, Alive
<1>8. /\ adv' = [pc |-> "run", lane |-> l, phase |-> adv'.phase, at |-> adv'.at, seen |-> adv'.seen,
                 result |-> adv'.result]
      /\ adv'.phase = [adv.phase EXCEPT ![l] = q] /\ adv'.at = adv.at
  BY LaneAt
<1>9. /\ adv'.phase \in [Nodes!AllLanes -> Phases] /\ adv'.at \in [Nodes!AllLanes -> Nat]
      /\ \A m \in Nodes!AllLanes : adv'.phase[m] # "off" => m = l
      /\ adv'.at[l] \in 1..compound.lanes[l]
  BY <1>8, LaneAt
<1>. QED  BY <1>1, <1>6, <1>7, <1>8, <1>9, AtStepsKeeps

LEMMA PlanKeeps ==
  ASSUME BranchInv, NEW l \in Nodes!Lanes, Nodes!Plan(l) \/ Nodes!Execute(l)
  PROVE  BranchInv'
<1>1. UNCHANGED <<compound, happening, landed, orphan, rec>>
  BY DEF Nodes!Plan, Nodes!Execute, Nodes!Unmoved
<1>2. CASE Nodes!Plan(l)
  <2>1. PICK s \in Nodes!Unstarted : stepTask' = [stepTask EXCEPT ![Nodes!Key(l)] = s]
    BY <1>2 DEF Nodes!Plan, Nodes!Unstarted
  <2>2. Nodes!At(l, "take") /\ stepTask[Nodes!Key(l)] = "none" /\ adv' = [adv EXCEPT !.phase[l] = "ready"]
    BY <1>2 DEF Nodes!Plan, Nodes!SetAdv
  <2>. QED  BY <1>1, <2>1, <2>2, StepMoves DEF Phases
<1>3. CASE Nodes!Execute(l)
  <2>1. PICK p \in {"take", "ready"} : Nodes!At(l, p)
    BY <1>3 DEF Nodes!Execute
  <2>2. /\ stepTask[Nodes!Key(l)] \in Nodes!Unstarted /\ stepTask' = [stepTask EXCEPT ![Nodes!Key(l)] = "running"]
        /\ adv' = [adv EXCEPT !.phase[l] = "doing"]
    BY <1>3 DEF Nodes!Execute, Nodes!SetAdv
  <2>. QED  BY <1>1, <2>1, <2>2, StepMoves DEF Phases
<1>. QED  BY <1>2, <1>3

\* A lane of a condition that ends gives the node the tasks it has read.
LEMMA EndsNames ==
  ASSUME compound.kind = "condition", NEW l \in Nodes!Lanes, l \in Nodes!AllLanes, NEW a, NEW pc, NEW lane,
         NEW phase, NEW at, NEW seen, NEW result,
         a = [pc |-> pc, lane |-> lane, phase |-> phase, at |-> at, seen |-> seen, result |-> result],
         \A m \in Nodes!Lanes : a.phase[m] = "end" <=> m = l
  PROVE  LET b == Nodes!LaneEnds(a) IN
           Commits(b) /\ IsRecord(b.result) /\ b.result.ids \subseteq Nodes!KeysOf(l)
<1> DEFINE named == {k \in Nodes!KeysOf(l) : a.seen[k] # "none"}
           state == Nodes!LaneState([a EXCEPT !.lane = l - 1], Nodes!Worst({a.seen[k] : k \in named}), named \union {})
<1>1. {m \in Nodes!Lanes : a.phase[m] = "end"} = {l} /\ (CHOOSE m \in {l} : TRUE) = l
  OBVIOUS
<1>2. Nodes!LaneEnds(a) = [a EXCEPT !.pc = "commit", !.result = state]
  BY <1>1 DEF Nodes!LaneEnds
<1>3. IsRecord(state) /\ state.ids = named
  <2> DEFINE status == Nodes!Worst({a.seen[k] : k \in named})
  <2>1. state = [Nodes!Pending EXCEPT !.status = status, !.ids = named \union {}, !.iterations = Nodes!NotCounted]
    BY DEF Nodes!LaneState
  <2>2. Nodes!Pending = [status |-> "pending", ids |-> {}, iterations |-> Nodes!NotCounted, error |-> "none"]
    BY DEF Nodes!Pending
  <2> HIDE DEF named, status, state
  <2>3. state = [status |-> status, ids |-> named, iterations |-> Nodes!NotCounted, error |-> "none"]
    BY <2>1, <2>2
  <2>. QED  BY <2>3 DEF IsRecord
<1> HIDE DEF state
<1>4. Nodes!LaneEnds(a) = [pc |-> "commit", lane |-> lane, phase |-> phase, at |-> at, seen |-> seen, result |-> state]
  BY <1>2
<1>. QED  BY <1>3, <1>4 DEF Commits

LEMMA ReadKeeps ==
  ASSUME BranchInv, compound.kind = "condition", NEW l \in Nodes!Lanes, Nodes!Read(l)
  PROVE  BranchInv'
<1>1. UNCHANGED <<compound, stepTask, happening, landed, orphan, rec>> /\ adv' = Nodes!ReadStep(l)
  BY DEF Nodes!Read, Nodes!nodeVars, Nodes!Unmoved, Nodes!SetAdv
<1>2. PICK p \in {"take", "ready", "doing"} : Nodes!At(l, p)
  BY DEF Nodes!Read
<1>3. StepsTell' /\ NothingRevives
  BY <1>1, UntouchedTells
<1>4. Dead(3 - l)' /\ l \in Branches
  <2>1. Dead(3 - l) /\ 3 - l \in Branches /\ l \in Branches
    BY <1>2, LaneAt DEF Branches
  <2>. QED  BY <1>1, <1>3, <2>1, DeadStays
<1>5. StaysOfOne(rec.ids) /\ IsRecord(rec)
  BY <1>1, <1>3, OneBranchStays DEF BranchInv
<1>6. \A S : S \subseteq Nodes!KeysOf(l) => StaysOfOne(S)
  BY <1>4 DEF StaysOfOne
<1> DEFINE key == Nodes!Key(l)
           status == Nodes!NodeStatus(stepTask[Nodes!Key(l)])
           seen == [adv.seen EXCEPT ![key] = status]
<1>7. ASSUME NEW at, adv' = Nodes!LaneEnds([pc |-> "run", lane |-> l, phase |-> [adv.phase EXCEPT ![l] = "end"],
                                            at |-> at, seen |-> seen, result |-> adv.result])
      PROVE  BranchInv'
  <2> DEFINE a == [pc |-> "run", lane |-> l, phase |-> [adv.phase EXCEPT ![l] = "end"],
                   at |-> at, seen |-> seen, result |-> adv.result]
  <2>1. \A m \in Nodes!Lanes : a.phase[m] = "end" <=> m = l
    <3>1. Nodes!Lanes \subseteq Nodes!AllLanes
      BY BranchKeys DEF BranchInv, Branches, Nodes!AllLanes
    <3>. QED  BY <1>2, <3>1, LaneAt DEF Phases
  <2>2. l \in Nodes!AllLanes
    BY <1>2, LaneAt
  <2>3. Commits(adv)' /\ IsRecord(adv'.result) /\ adv'.result.ids \subseteq Nodes!KeysOf(l)
    BY <1>7, <2>1, <2>2, EndsNames DEF Commits
  <2>. QED  BY <1>1, <1>3, <1>5, <1>6, <2>3, QuietKeeps
<1>8. PICK phase, at, was, result :
        adv = [pc |-> "run", lane |-> l, phase |-> phase, at |-> at, seen |-> was, result |-> result]
  BY <1>2, LaneAt
<1> DEFINE seenNow == [adv EXCEPT !.seen[key] = status]
           on == [pc |-> "run", lane |-> l, phase |-> [adv.phase EXCEPT ![l] = "take"],
                  at |-> [adv.at EXCEPT ![l] = @ + 1], seen |-> seen, result |-> adv.result]
<1>9. CASE status # "verified_complete"
  <2>1. adv' = Nodes!LaneEnds([seenNow EXCEPT !.phase[l] = "end"])
    BY <1>1, <1>9 DEF Nodes!ReadStep
  <2>2. seenNow = [pc |-> "run", lane |-> l, phase |-> phase, at |-> at, seen |-> [was EXCEPT ![key] = status],
                   result |-> result]
    <3> HIDE DEF key, status
    <3>. QED  BY <1>8
  <2>3. [seenNow EXCEPT !.phase[l] = "end"]
          = [pc |-> "run", lane |-> l, phase |-> [phase EXCEPT ![l] = "end"],
             at |-> at, seen |-> [was EXCEPT ![key] = status], result |-> result]
    <3> HIDE DEF seenNow, key, status
    <3>. QED  BY <2>2
  <2> HIDE DEF seenNow, key, status
  <2>4. adv.phase = phase /\ adv.at = at /\ adv.seen = was /\ adv.result = result
    BY <1>8
  <2>. QED  BY <1>7, <2>1, <2>3, <2>4
<1>10. CASE status = "verified_complete"
  <2> DEFINE taken == [seenNow EXCEPT !.phase[l] = "take"]
             next == [taken EXCEPT !.at[l] = adv.at[l] + 1]
  <2>0. adv' = IF adv.at[l] < compound.lanes[l] THEN next ELSE Nodes!LaneEnds([next EXCEPT !.phase[l] = "end"])
    BY <1>1, <1>10 DEF Nodes!ReadStep
  <2>1. next = on
    <3>1. seenNow = [pc |-> "run", lane |-> l, phase |-> phase, at |-> at, seen |-> [was EXCEPT ![key] = status],
                     result |-> result]
      <4> HIDE DEF key, status
      <4>. QED  BY <1>8
    <3>2. taken = [pc |-> "run", lane |-> l, phase |-> [phase EXCEPT ![l] = "take"],
                   at |-> at, seen |-> [was EXCEPT ![key] = status], result |-> result]
      <4> HIDE DEF seenNow, key, status
      <4>. QED  BY <3>1
    <3>3. adv.phase = phase /\ adv.at = at /\ adv.seen = was /\ adv.result = result
      BY <1>8
    <3>4. next = [pc |-> "run", lane |-> l, phase |-> [phase EXCEPT ![l] = "take"],
                  at |-> [at EXCEPT ![l] = at[l] + 1], seen |-> [was EXCEPT ![key] = status], result |-> result]
      <4> HIDE DEF taken, key, status
      <4>. QED  BY <3>2, <3>3
    <3> HIDE DEF next, key, status
    <3>. QED  BY <3>3, <3>4
  <2> HIDE DEF next
  <2>2. adv' = IF adv.at[l] < compound.lanes[l] THEN on ELSE Nodes!LaneEnds([on EXCEPT !.phase[l] = "end"])
    BY <2>0, <2>1
  <2>3. CASE adv.at[l] < compound.lanes[l]
    <3>1. adv' = on
      BY <2>2, <2>3
    <3>2. /\ adv.phase \in [Nodes!AllLanes -> Phases] /\ adv.at \in [Nodes!AllLanes -> Nat]
          /\ \A m \in Nodes!AllLanes : adv.phase[m] # "off" => m = l
          /\ adv.at[l] \in 1..compound.lanes[l] /\ l \in Nodes!AllLanes /\ rec.ids \subseteq Nodes!KeysOf(l)
      BY <1>2, LaneAt
    <3>3. compound.lanes[l] \in {0, 1, 2}
      BY <1>4, BranchKeys DEF BranchInv
    <3>4. /\ adv'.phase \in [Nodes!AllLanes -> Phases] /\ adv'.at \in [Nodes!AllLanes -> Nat]
          /\ \A m \in Nodes!AllLanes : adv'.phase[m] # "off" => m = l
          /\ adv'.at[l] \in 1..compound.lanes[l]
      BY <2>3, <3>1, <3>2, <3>3 DEF Phases
    <3>5. adv' = [pc |-> "run", lane |-> l, phase |-> adv'.phase, at |-> adv'.at, seen |-> adv'.seen,
                  result |-> adv'.result]
      BY <3>1
    <3>. QED  BY <1>1, <1>3, <1>4, <3>2, <3>4, <3>5, AtStepsKeeps
  <2>4. CASE ~(adv.at[l] < compound.lanes[l])
    <3>1. adv' = Nodes!LaneEnds([on EXCEPT !.phase[l] = "end"])
      BY <2>2, <2>4
    <3>2. [on EXCEPT !.phase[l] = "end"]
            = [pc |-> "run", lane |-> l, phase |-> [adv.phase EXCEPT ![l] = "end"],
               at |-> [adv.at EXCEPT ![l] = @ + 1], seen |-> seen, result |-> adv.result]
      <4>1. [[adv.phase EXCEPT ![l] = "take"] EXCEPT ![l] = "end"] = [adv.phase EXCEPT ![l] = "end"]
        BY <1>2, LaneAt
      <4>. QED  BY <4>1
    <3>. QED  BY <1>7, <3>1, <3>2
  <2>. QED  BY <2>3, <2>4
<1>. QED  BY <1>9, <1>10

\* An advance ends: recorded, lost, refused, or its process dies.
LEMMA AdvanceEndsKeeps ==
  ASSUME BranchInv, compound.kind = "condition",
         Nodes!Commit \/ Nodes!Lose \/ Nodes!Crash \/ \E l \in Nodes!Lanes : Nodes!Refuse(l)
  PROVE  BranchInv'
<1>1. UNCHANGED <<compound, stepTask, happening, landed>> /\ adv' = Nodes!Idle
  BY DEF Nodes!Commit, Nodes!Lose, Nodes!Crash, Nodes!Refuse, Nodes!SetAdv, Nodes!nodeVars, Nodes!Unmoved
<1>2. IsRecord(rec) /\ OfOneBranch(rec.ids) /\ IsAdvance(adv) /\ StepsTell
  BY DEF BranchInv
<1>3. NothingRevives
  BY <1>1 DEF NothingRevives, Alive
<1>4. IsRecord(rec') /\ OfOneBranch(rec'.ids)
  BY <1>2 DEF Nodes!Commit, Nodes!Lose, Nodes!Crash, Nodes!Refuse, Nodes!Unmoved, IsAdvance
<1>5. StaysOfOne(rec'.ids)
  BY <1>1, <1>3, <1>4, OneBranchStays
<1>6. StepsTell'
  <2>1. CASE orphan' = orphan
    BY <1>1, <2>1, UntouchedTells
  <2>2. CASE Nodes!Crash
    <3>1. \A l \in Nodes!Lanes : Nodes!At(l, "doing") => Nodes!Key(l) \in Nodes!Keys
      <4>1. Nodes!Keys = Nodes!KeysOf(1) \union Nodes!KeysOf(2)
        BY BranchKeys DEF BranchInv
      <4>. QED  BY <4>1, LaneAt DEF Branches
    <3>2. \A k \in orphan' : k \in Nodes!Keys /\ stepTask[k] \in Nodes!InFlight
      BY <1>2, <2>2, <3>1 DEF Nodes!Crash, StepsTell
    <3>. QED  BY <1>1, <1>2, <3>2 DEF StepsTell, Nodes!Keys, Nodes!KeysOf, Nodes!Lanes
  <2>. QED  BY <2>1, <2>2 DEF Nodes!Commit, Nodes!Lose, Nodes!Refuse, Nodes!nodeVars
<1>. QED  BY <1>1, <1>3, <1>4, <1>5, <1>6, QuietKeeps

LEMMA RecoverKeeps ==
  ASSUME BranchInv, compound.kind = "condition", Nodes!Recover \/ Nodes!RunFails
  PROVE  BranchInv'
<1>1. UNCHANGED <<compound, happening, landed, orphan, adv>> /\ adv = Nodes!Idle
  BY DEF Nodes!Recover, Nodes!RunFails, BranchInv, IsAdvance
<1>2. IsRecord(rec) /\ OfOneBranch(rec.ids)
  BY DEF BranchInv
<1>3. CASE Nodes!Recover
  <2>1. rec' = Nodes!RecoveredNode(rec) /\ stepTask' = Nodes!TasksRead(rec)
    BY <1>3 DEF Nodes!Recover
  <2>2. StepsTell' /\ NothingRevives /\ IsRecord(rec') /\ StaysOfOne(rec'.ids)
    BY <1>1, <2>1, RecoveredIsOfOne
  <2>. QED  BY <1>1, <2>2, QuietKeeps
<1>4. CASE Nodes!RunFails
  <2>1. rec' = rec /\ stepTask' = Nodes!Cancelled(Nodes!Keys)
    BY <1>4 DEF Nodes!RunFails
  <2>2. StepsTell' /\ NothingRevives
    BY <1>1, <2>1, CancelledDies
  <2>3. StaysOfOne(rec'.ids)
    BY <1>1, <1>2, <2>1, <2>2, OneBranchStays
  <2>. QED  BY <1>1, <1>2, <2>1, <2>2, <2>3, QuietKeeps
<1>. QED  BY <1>3, <1>4

\* A task moves on its own, or another moves it: it was alive.
LEMMA TaskMoves ==
  ASSUME BranchInv, UNCHANGED <<compound, rec, adv>>, NEW k \in Nodes!Keys,
         stepTask[k] \notin {"none"} \union Nodes!NoEffect,
         NEW s \in Nodes!TaskStatus \ {"none"}, stepTask' = [stepTask EXCEPT ![k] = s],
         happening' \in {happening, happening \union {k}}, landed' \in {landed, landed \union {k}},
         orphan' \in {orphan, orphan \ {k}}, k \in orphan' => s \in Nodes!InFlight,
         s = "verifying" => k \in happening', k \in landed' => k \in happening' \/ s \in {"applied", "unknown"}
  PROVE  BranchInv'
<1>1. StepsTell /\ IsRecord(rec) /\ OfOneBranch(rec.ids) /\ compound.lanes \in [1..2 -> 0..2]
  BY DEF BranchInv
<1>2. Nodes!Keys' = Nodes!Keys /\ Nodes!Keys \subseteq Nodes!AllKeys
  BY <1>1, BranchKeys DEF Nodes!Keys, Nodes!KeysOf, Nodes!Lanes, Branches
<1>3. /\ \A j \in Nodes!AllKeys : stepTask'[j] = IF j = k THEN s ELSE stepTask[j]
      /\ stepTask' \in [Nodes!AllKeys -> Nodes!TaskStatus]
  <2> HIDE DEF Nodes!TaskStatus
  <2>. QED  BY <1>1, <1>2 DEF StepsTell
<1>4. StepsTell'
  BY <1>1, <1>2, <1>3 DEF StepsTell
<1>5. NothingRevives
  BY <1>2, <1>3 DEF NothingRevives, Alive
<1>6. StaysOfOne(rec.ids)
  BY <1>1, <1>5, OneBranchStays
<1>. QED  BY <1>1, <1>4, <1>5, <1>6, QuietKeeps

LEMMA TasksKeep ==
  ASSUME BranchInv, NEW k \in Nodes!Keys,
         \/ Nodes!Happens(k) \/ Nodes!CommitKey(k) \/ Nodes!Ends(k) \/ Nodes!RecoverTask(k)
         \/ Nodes!Reconcile(k) \/ Nodes!Approve(k) \/ Nodes!Deny(k)
  PROVE  BranchInv'
<1>1. StepsTell /\ UNCHANGED <<compound, rec, adv>>
  BY DEF BranchInv, Nodes!Happens, Nodes!CommitKey, Nodes!Ends, Nodes!RecoverTask, Nodes!Reconcile,
         Nodes!Approve, Nodes!Deny, Nodes!Settles
<1>2. k \in Nodes!AllKeys
  BY BranchKeys DEF BranchInv, Branches
<1>3. /\ k \in landed => k \in happening \/ stepTask[k] \in {"applied", "unknown"}
      /\ stepTask[k] = "verifying" => k \in happening
      /\ k \in orphan => stepTask[k] \in Nodes!InFlight
  BY <1>1, <1>2 DEF StepsTell
<1> USE DEF Nodes!TaskStatus, Nodes!Unstarted, Nodes!InFlight, Nodes!NoEffect
<1>4. CASE Nodes!Happens(k)
  BY <1>1, <1>3, <1>4, TaskMoves DEF Nodes!Happens, Nodes!Settles
<1>5. CASE Nodes!CommitKey(k)
  BY <1>1, <1>3, <1>5, TaskMoves DEF Nodes!CommitKey, Nodes!Settles
<1>6. CASE Nodes!Ends(k)
  <2>1. PICK s \in {"failed", "unknown", "success"} : stepTask' = [stepTask EXCEPT ![k] = s]
    BY <1>6 DEF Nodes!Ends, Nodes!Settles
  <2>2. /\ k \notin orphan /\ UNCHANGED <<happening, landed, orphan>>
        /\ stepTask[k] \in {"running", "verifying"} \/ (stepTask[k] = "applied" /\ Nodes!Settles(k, "unknown"))
    BY <1>6 DEF Nodes!Ends, Nodes!Settles
  <2>3. stepTask[k] = "applied" => s = "unknown"
    BY <1>1, <1>2, <2>1, <2>2 DEF Nodes!Settles, StepsTell
  <2>. QED  BY <1>1, <1>3, <2>1, <2>2, <2>3, TaskMoves
<1>7. CASE Nodes!RecoverTask(k)
  <2>1. PICK s \in IF stepTask[k] = "verifying" THEN {"success", "failed"} ELSE {"unknown"} :
          stepTask' = [stepTask EXCEPT ![k] = s]
    BY <1>7 DEF Nodes!RecoverTask
  <2>2. k \in orphan /\ UNCHANGED <<happening, landed>> /\ orphan' = orphan \ {k}
    BY <1>7 DEF Nodes!RecoverTask
  <2>. QED  BY <1>1, <1>3, <2>1, <2>2, TaskMoves
<1>8. CASE Nodes!Reconcile(k)
  <2>1. stepTask[k] = "unknown" /\ UNCHANGED <<landed, orphan>>
    BY <1>8 DEF Nodes!Reconcile, Nodes!Settles
  <2>2. CASE k \in landed
    <3>1. PICK s \in {"success", "failed"} : stepTask' = [stepTask EXCEPT ![k] = s]
      BY <1>8, <2>2 DEF Nodes!Reconcile, Nodes!Settles
    <3>2. happening' = happening \union {k}
      BY <1>8, <2>2 DEF Nodes!Reconcile, Nodes!Settles
    <3>. QED  BY <1>1, <1>3, <2>1, <3>1, <3>2, TaskMoves
  <2>3. CASE k \notin landed
    BY <1>1, <1>3, <1>8, <2>1, <2>3, TaskMoves DEF Nodes!Reconcile, Nodes!Settles
  <2>. QED  BY <2>2, <2>3
<1>9. CASE Nodes!Approve(k) \/ Nodes!Deny(k)
  BY <1>1, <1>3, <1>9, TaskMoves DEF Nodes!Approve, Nodes!Deny, Nodes!Settles
<1>. QED  BY <1>4, <1>5, <1>6, <1>7, <1>8, <1>9

LEMMA DecidedOnceInit == RunsInit => DecidedOnce
<1> SUFFICES ASSUME RunsInit, IsCondition PROVE BranchInv
  BY DEF DecidedOnce
<1>1. compound \in Shapes /\ compound.kind = "condition" /\ Nodes!Init
  BY DEF RunsInit, IsCondition, Nodes!Init
<1>2. compound.lanes \in [1..2 -> 0..2]
  BY <1>1, RunsAssumption DEF ShapesAssumption
<1>3. /\ stepTask = [k \in Nodes!AllKeys |-> "none"] /\ happening = {} /\ landed = {} /\ orphan = {}
      /\ rec = Nodes!Pending /\ adv = Nodes!Idle
  BY <1>1 DEF Nodes!Init
<1>4. StepsTell /\ Dead(1) /\ Dead(2)
  <2>1. stepTask \in [Nodes!AllKeys -> Nodes!TaskStatus] /\ \A k \in Nodes!AllKeys : stepTask[k] = "none"
    BY <1>3 DEF Nodes!TaskStatus
  <2>2. \A l \in Branches : Nodes!KeysOf(l) \subseteq Nodes!AllKeys
    BY <1>2, BranchKeys
  <2>. QED  BY <1>3, <2>1, <2>2 DEF StepsTell, Dead, Alive, Branches
<1>5. IsRecord(rec) /\ OfOneBranch(rec.ids)
  BY <1>3 DEF IsRecord, OfOneBranch, Nodes!Pending, Branches
<1>6. IsAdvance(adv) /\ InBranch(adv)
  BY <1>3 DEF IsAdvance, InBranch, Nodes!Idle
<1>. QED  BY <1>2, <1>4, <1>5, <1>6 DEF BranchInv

LEMMA DecidedOnceStep ==
  DecidedOnce /\ [RunsNext]_<<part, vars, nodesPart, logPart, graphPart, judgePart>> => DecidedOnce'
<1> SUFFICES ASSUME DecidedOnce, [RunsNext]_<<part, vars, nodesPart, logPart, graphPart, judgePart>>,
                    IsCondition'
             PROVE  BranchInv'
  BY DEF DecidedOnce
<1>1. part' = part
  BY DEF RunsNext
<1>2. CASE UNCHANGED nodesPart
  <2>1. IsCondition /\ BranchInv
    BY <1>1, <1>2 DEF IsCondition, nodesPart, DecidedOnce
  <2>2. StepsTell' /\ NothingRevives
    BY <1>2, <2>1, UntouchedTells DEF nodesPart
  <2>3. StaysOfOne(rec.ids) /\ IsRecord(rec)
    BY <1>2, <2>1, <2>2, OneBranchStays DEF nodesPart, BranchInv
  <2>. QED  BY <1>2, <2>1, <2>2, <2>3, QuietKeeps DEF nodesPart
<1>3. CASE part = "nodes" /\ Nodes!Next
  <2>1. compound' = compound
    BY <1>3 DEF Nodes!Next, Nodes!Begin, Nodes!Ask, Nodes!Commit, Nodes!Lose, Nodes!Crash, Nodes!Recover,
         Nodes!RunFails, Nodes!Plan, Nodes!Execute, Nodes!Read, Nodes!Refuse, Nodes!Unmoved, Nodes!Happens,
         Nodes!CommitKey, Nodes!Ends, Nodes!RecoverTask, Nodes!Reconcile, Nodes!Approve, Nodes!Deny, Nodes!Settles
  <2>2. BranchInv /\ compound.kind = "condition"
    BY <1>1, <2>1 DEF IsCondition, DecidedOnce
  <2>. QED  BY <1>3, <2>2, BeginKeeps, AskKeeps, PlanKeeps, ReadKeeps, AdvanceEndsKeeps, RecoverKeeps, TasksKeep
            DEF Nodes!Next
<1>4. UNCHANGED nodesPart \/ (part = "nodes" /\ Nodes!Next)
  BY DEF RunsNext
<1>. QED  BY <1>2, <1>3, <1>4

\* A condition node is decided once: whatever its predicate answered each
\* advance, and however many of them lost their commit or died, effects happen
\* in one of its branches only.
THEOREM ConditionIsDecidedOnce == RunsSpec => [](part = "nodes" => Nodes!OneBranchHappens)
<1>1. DecidedOnce => (part = "nodes" => Nodes!OneBranchHappens)
  <2> SUFFICES ASSUME BranchInv, NEW j \in landed, NEW k \in landed PROVE j[1] = k[1]
    BY DEF DecidedOnce, IsCondition, Nodes!OneBranchHappens
  <2>1. Alive(j) /\ Alive(k) /\ {j, k} \subseteq Nodes!Keys
    BY DEF BranchInv, StepsTell, Alive, Nodes!NoEffect
  <2>2. compound.lanes \in [1..2 -> 0..2] /\ (Dead(1) \/ Dead(2))
    BY DEF BranchInv
  <2>. QED  BY <2>1, <2>2, BranchKeys DEF Dead, Branches
<1>. QED  BY <1>1, DecidedOnceInit, DecidedOnceStep, PTL DEF RunsSpec
=============================================================================
