---------------------------- MODULE MCReadThrough ----------------------------
(* An instance of ReadThrough for TLC: a listing, which votes delete, and  *)
(* a snapshot answer, which is kept longer and never deleted.              *)
EXTENDS ReadThrough

CONSTANTS listing, page

MCLifetime == [k \in Keys |-> IF k = listing THEN 0 ELSE 1]
=============================================================================
