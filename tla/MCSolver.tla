------------------------------ MODULE MCSolver ------------------------------
(* Finite instances of SolverAgent for TLC.                                 *)
EXTENDS SolverAgent

CONSTANTS agent, rival

Solvers == {agent, rival}
First == {1}
=============================================================================
