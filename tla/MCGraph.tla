------------------------------ MODULE MCGraph ------------------------------
(***************************************************************************)
(* The instance of WorkflowGraph that TLC checks on its own: two planners  *)
(* and every definition of three nodes.                                    *)
(***************************************************************************)
EXTENDS WorkflowGraph

CONSTANTS a, b, c, p, q

MCIds == {a, b, c}
MCPlanners == {p, q}
=============================================================================
