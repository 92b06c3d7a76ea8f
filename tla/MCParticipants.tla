---------------------------- MODULE MCParticipants ----------------------------
(* A finite instance of Participants for TLC.                               *)
EXTENDS Participants

CONSTANTS owner, audit, profile

\* The solvers' events meet no others, so they are mixed with none.
Separate ==
  (\E k \in DOMAIN log : log[k].type = "SolverBondChanged") =>
    \A k \in DOMAIN log : log[k].type \in {"OperatorRegistered", "OperatorUpdated", "SolverBondChanged"}
=============================================================================
