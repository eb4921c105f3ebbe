-------------------------- MODULE MCLeaderElection --------------------------
(***************************************************************************)
(* Instances of LeaderElection for model checking.                         *)
(***************************************************************************)
EXTENDS LeaderElection
=============================================================================
