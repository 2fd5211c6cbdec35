------------------------------ MODULE Sublists ------------------------------
(***************************************************************************)
(* What is left of a sequence when some of its elements are taken out, as  *)
(* the filters of packages/server/src/oauth.ts and the eviction loop of    *)
(* http-server.ts leave it.                                                *)
(***************************************************************************)
EXTENDS Naturals, FiniteSets

\* The entries at some places, in their order.
Keeping(entries, places) ==
  [k \in 1..Cardinality(places) |->
     entries[CHOOSE i \in places : Cardinality({j \in places : j <= i}) = k]]
=============================================================================
