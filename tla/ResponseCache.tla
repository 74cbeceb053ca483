---------------------------- MODULE ResponseCache ----------------------------
(***************************************************************************)
(* What a read-through cache promises to the handlers that use it, without *)
(* the stores behind it.  A Get returns what was last stored under its     *)
(* key, not past its lifetime, or nothing.  Entries may be forgotten at    *)
(* any time.  A new process may find what an earlier one had stored, even  *)
(* if the process between the two did not.                                 *)
(***************************************************************************)
EXTENDS Integers

CONSTANTS Keys,          \* cache keys
          Bodies,        \* response bodies
          Handlers,      \* request handlers
          Lifetime,      \* Lifetime[k]: for how long entries of k are kept
          None           \* an absent entry

VARIABLES live,          \* live[k]: the entry a Get may find, or None
          hidden,        \* hidden[k]: an entry of an earlier process, out of reach
          seen,          \* seen[h]: the entry that h's Get has found, undecided
          served         \* served[h]: what a Get has returned to h, None when h is done

vars == <<live, hidden, seen, served>>

(* An entry with the time it has left, -1 when it is past its lifetime.    *)
Expired(e) == e.left < 0
Aged(e) == IF e = None \/ e.left < 0 THEN e ELSE [e EXCEPT !.left = @ - 1]

Nothing == [k \in Keys |-> None]
Nobody == [h \in Handlers |-> None]

Init == /\ live = Nothing /\ hidden = Nothing
        /\ seen = Nobody /\ served = Nobody

(* Set: the new entry has its whole lifetime left.                         *)
Put(k) == /\ \E b \in Bodies : live' = [live EXCEPT ![k] = [body |-> b, left |-> Lifetime[k]]]
          /\ UNCHANGED <<hidden, seen, served>>

(* Deletion, eviction or no reason at all.                                 *)
Forget(K) == /\ live' = [k \in Keys |-> IF k \in K THEN None ELSE live[k]]
             /\ UNCHANGED <<hidden, seen, served>>

(* A Get in two steps: it looks, and later decides whether to return what  *)
(* it saw.                                                                 *)
Look(h, k) == /\ live[k] # None
              /\ seen' = [seen EXCEPT ![h] = [key |-> k, entry |-> live[k]]]
              /\ UNCHANGED <<live, hidden, served>>

Answers(k, e) == [key |-> k, body |-> e.body]

Serve(h) == /\ seen[h] # None /\ ~Expired(seen[h].entry)
            /\ served' = [served EXCEPT ![h] = Answers(seen[h].key, seen[h].entry)]
            /\ seen' = [seen EXCEPT ![h] = None]
            /\ UNCHANGED <<live, hidden>>

(* A Get in one step.                                                      *)
ServeAtOnce(h, k) == /\ live[k] # None /\ ~Expired(live[k])
                     /\ served' = [served EXCEPT ![h] = Answers(k, live[k])]
                     /\ UNCHANGED <<live, hidden, seen>>

(* A Get finds nothing, or h is done with what it got.                     *)
Finish(h) == /\ served' = [served EXCEPT ![h] = None]
             /\ seen' = [seen EXCEPT ![h] = None]
             /\ UNCHANGED <<live, hidden>>

(* What the next process finds, and what stays out of its reach.           *)
Restart == /\ live' \in {live, hidden, Nothing}
           /\ hidden' \in {live, hidden, Nothing}
           /\ seen' = Nobody /\ served' = Nobody

(* Time passes for every entry; those that run out may go at once.         *)
Later(store) == {[k \in Keys |-> IF k \in K THEN None ELSE Aged(store[k])] : K \in SUBSET Keys}

Pass == /\ live' \in Later(live) /\ hidden' \in Later(hidden)
        /\ seen' = [h \in Handlers |->
                      IF seen[h] = None THEN None ELSE [seen[h] EXCEPT !.entry = Aged(@)]]
        /\ UNCHANGED served

Next == \/ \E k \in Keys : Put(k)
        \/ \E K \in SUBSET Keys : Forget(K)
        \/ \E h \in Handlers :
             \/ Serve(h) \/ Finish(h)
             \/ \E k \in Keys : Look(h, k) \/ ServeAtOnce(h, k)
        \/ Restart \/ Pass

Spec == Init /\ [][Next]_vars
=============================================================================
