------------------------------ MODULE MCGrants ------------------------------
(***************************************************************************)
(* The instance of Grants that TLC checks on its own: two grants, and two  *)
(* changes and a read to pay for.                                          *)
(***************************************************************************)
EXTENDS Grants

CONSTANTS m1, m2, r

MCAmount == [t \in Tasks |-> IF t = m2 THEN 2 ELSE 1]
Once == [g \in GrantIds |-> 1]
Twice == [g \in GrantIds |-> 2]
=============================================================================
