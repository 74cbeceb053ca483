---------------------------- MODULE MCVoteListing ----------------------------
(* Instances of VoteListing for TLC. *)
EXTENDS VoteListing, TLC

Symmetric == Permutations(Requests)
=============================================================================
