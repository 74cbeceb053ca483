----------------------------- MODULE VoteLedger -----------------------------
(***************************************************************************)
(* What the vote tables promise, without the handlers that fill them.  A   *)
(* fingerprint casts at most one ballot per movie and can never change it; *)
(* the counter of a category trails the ballots of that category and never *)
(* overtakes them.                                                         *)
(***************************************************************************)
EXTENDS Integers, FiniteSets

CONSTANTS Movies,        \* movie ids
          Fingerprints,  \* opaque voter fingerprints
          Categories,    \* the vote categories
          None           \* no ballot

VARIABLES ballots,       \* ballots[m][f]: the category f chose for m, or None
          counts         \* counts[m][c]: the published count

vars == <<ballots, counts>>

Supporters(m, c) == {f \in Fingerprints : ballots[m][f] = c}

Init == /\ ballots = [m \in Movies |-> [f \in Fingerprints |-> None]]
        /\ counts  = [m \in Movies |-> [c \in Categories |-> 0]]

Cast(m, f, c) == /\ ballots[m][f] = None
                 /\ ballots' = [ballots EXCEPT ![m][f] = c]
                 /\ UNCHANGED counts

Count(m, c) == /\ counts[m][c] < Cardinality(Supporters(m, c))
               /\ counts' = [counts EXCEPT ![m][c] = @ + 1]
               /\ UNCHANGED ballots

Next == \E m \in Movies, c \in Categories :
           \/ \E f \in Fingerprints : Cast(m, f, c)
           \/ Count(m, c)

Spec == Init /\ [][Next]_vars
=============================================================================
