----------------------------- MODULE MCElection -----------------------------
(* A bounded instance of the legacy election. *)
EXTENDS LeaderElection, TLC

NodeSymmetry == Permutations(ENode)
=============================================================================
