----------------------------- MODULE MCWorkflow -----------------------------
(***************************************************************************)
(* The instances of WorkflowController that TLC checks: steps sa, sb, sc,  *)
(* of which sa and sb have compensations, in that order; sb and sc wait    *)
(* for sa.                                                                 *)
(***************************************************************************)
EXTENDS WorkflowController

CONSTANTS sa, sb, sc, ua, ub

MCTarget == [u \in Undos |-> IF u = ua THEN sa ELSE sb]
MCRank == [u \in Undos |-> IF u = ua THEN 1 ELSE 2]
AfterFirst == [s \in Steps |-> IF s = sa THEN {} ELSE {sa}]
=============================================================================
