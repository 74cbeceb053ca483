---------------------------- MODULE MCVoteHandler ----------------------------
(* Instances of VoteHandler for TLC. *)
EXTENDS VoteHandler, TLC

(* Requests are interchangeable, and so are fingerprints. *)
Symmetric == Permutations(Requests) \cup Permutations(Fingerprints)
=============================================================================
