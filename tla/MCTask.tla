------------------------------- MODULE MCTask -------------------------------
(***************************************************************************)
(* The instances of TaskController that TLC checks: a change m, and beside *)
(* it either a second change or a read r planned under the same key k.     *)
(***************************************************************************)
EXTENDS TaskController

CONSTANTS m, r, k

MCKeyOf == [t \in Tasks |-> k]
=============================================================================
