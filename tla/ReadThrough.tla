----------------------------- MODULE ReadThrough -----------------------------
(***************************************************************************)
(* The handlers that answer through the response cache (MoviesActive,      *)
(* Snapshots, SnapshotsAvailable), the two caches behind the interface     *)
(* Cache, and what happens to the entries: they expire, a vote deletes the *)
(* listings by prefix, the process restarts with the other cache.          *)
(*                                                                         *)
(* The InMemoryCache guards its map with a lock that Get takes twice.  The *)
(* ValkeyClient sends one command per operation, but DeletePrefix is KEYS  *)
(* followed by one DEL for every key.  main takes Valkey if it answers at  *)
(* the start of the process, and the map otherwise.                        *)
(*                                                                         *)
(* An entry carries the time it has left instead of the moment it expires: *)
(* the clock needs no bound.                                               *)
(***************************************************************************)
EXTENDS Integers

CONSTANTS Keys,          \* cache keys
          Listings,      \* those under the prefix that a vote deletes
          Handlers,      \* requests the server can hold at a time
          Lifetime,      \* Lifetime[k]: the ttl given to Set
          MaxVersion,    \* bound: changes of the answer for one key
          MaxFaults,     \* bound: failures and restarts in one behaviour
          None           \* an absent entry

ASSUME KeysAssumption == Listings \subseteq Keys
ASSUME LifetimeAssumption == Lifetime \in [Keys -> Nat]
ASSUME BoundsAssumption == MaxVersion \in Nat /\ MaxFaults \in Nat

VARIABLES table,         \* table[k]: the version of the database's answer for k
          memory,        \* the map of the InMemoryCache
          valkey,        \* the entries in Valkey
          backend,       \* the cache of this process
          handler,       \* handler[h]: where h is, its key, what it holds
          deletion,      \* the DeletePrefix of a vote: where it is, its keys
          faults         \* failures so far

stores == <<memory, valkey, backend>>
vars == <<table, stores, handler, deletion, faults>>

Versions == 0..MaxVersion
Bodies == [items: Versions, total: Versions]
Entries == [body: Bodies, left: Int]
ASSUME NoneAssumption == /\ None \notin Bodies \cup Entries
                         /\ None \notin [key: Keys, entry: Entries]
                         /\ None \notin [key: Keys, body: Bodies]

Empty == [k \in Keys |-> None]
Idle == [at |-> "idle", key |-> None, entry |-> None, body |-> None]
NoDeletion == [at |-> "none", keys |-> {}]

Healthy == UNCHANGED faults
Faulty == faults < MaxFaults /\ faults' = faults + 1

Init == /\ table = [k \in Keys |-> 0]
        /\ memory = Empty /\ valkey = Empty
        /\ backend \in {"memory", "valkey"}
        /\ handler = [h \in Handlers |-> Idle]
        /\ deletion = NoDeletion
        /\ faults = 0
-----------------------------------------------------------------------------
(* Cache.Get.                                                              *)

Goto(h, step, k, e, b) ==
  handler' = [handler EXCEPT ![h] = [at |-> step, key |-> k, entry |-> e, body |-> b]]
Hit(h, k, e) == Goto(h, "hit", k, None, e.body)
Miss(h, k) == Goto(h, "query", k, None, None)

ExpiredNever(e) == FALSE
Expired(e) == e.left < 0

PresentAlways(k) == TRUE
Present(k) == memory[k] # None

(* InMemoryCache: the entry is read under the read lock ...                *)
GetMemory(h, k) ==
  /\ backend = "memory" /\ handler[h].at = "idle"
  /\ \/ ~Present(k) /\ Miss(h, k)
     \/ Present(k) /\ Goto(h, "check", k, memory[k], None)
  /\ UNCHANGED <<table, stores, deletion, faults>>

(* ... judged without a lock ...                                           *)
Touched(h) == [memory EXCEPT ![handler[h].key] = handler[h].entry]
LeftAlone(h) == memory

CheckExpiry(h) ==
  /\ handler[h].at = "check"
  /\ \/ ~Expired(handler[h].entry) /\ Hit(h, handler[h].key, handler[h].entry)
     \/ Expired(handler[h].entry) /\ Goto(h, "drop", handler[h].key, None, None)
  /\ memory' = LeftAlone(h)
  /\ UNCHANGED <<table, valkey, backend, deletion, faults>>

(* ... and deleted under the write lock, whatever the key holds by then.   *)
DropExpired(h) ==
  /\ handler[h].at = "drop"
  /\ memory' = [memory EXCEPT ![handler[h].key] = None]
  /\ Miss(h, handler[h].key)
  /\ UNCHANGED <<table, valkey, backend, deletion, faults>>

(* ValkeyClient: one command, and an error looks like a miss.              *)
GetValkey(h, k) ==
  /\ backend = "valkey" /\ handler[h].at = "idle"
  /\ \/ valkey[k] # None /\ Hit(h, k, valkey[k]) /\ Healthy
     \/ valkey[k] = None /\ Miss(h, k) /\ Healthy
     \/ Miss(h, k) /\ Faulty
  /\ UNCHANGED <<table, stores, deletion>>

(* A hit is answered as it is.                                             *)
Answer(h) ==
  /\ handler[h].at = "hit"
  /\ handler' = [handler EXCEPT ![h] = Idle]
  /\ UNCHANGED <<table, stores, deletion, faults>>
-----------------------------------------------------------------------------
(* The rest of a handler: the page and the total, by a query each, then    *)
(* Cache.Set and the answer.  The list of the available months has no      *)
(* total, which is as if nothing came between the two.                     *)

Body(k) == [items |-> table[k], total |-> table[k]]

Query(h) ==
  /\ handler[h].at = "query"
  /\ \/ Goto(h, "count", handler[h].key, None, Body(handler[h].key)) /\ Healthy
     \/ handler' = [handler EXCEPT ![h] = Idle] /\ Faulty
  /\ UNCHANGED <<table, stores, deletion>>

Count(h) ==
  LET k == handler[h].key IN
  /\ handler[h].at = "count"
  /\ \/ /\ Goto(h, "fill", k, None, [handler[h].body EXCEPT !.total = table[k]])
        /\ Healthy
     \/ handler' = [handler EXCEPT ![h] = Idle] /\ Faulty
  /\ UNCHANGED <<table, stores, deletion>>

Entry(k, b) == [body |-> b, left |-> Lifetime[k]]

(* An error of Set is ignored, and Valkey may have stored the entry.       *)
Fill(h) ==
  LET k == handler[h].key
      e == Entry(k, handler[h].body) IN
  /\ handler[h].at = "fill"
  /\ \/ /\ backend = "memory" /\ memory' = [memory EXCEPT ![k] = e]
        /\ Healthy /\ UNCHANGED valkey
     \/ /\ backend = "valkey" /\ valkey' = [valkey EXCEPT ![k] = e]
        /\ (Healthy \/ Faulty) /\ UNCHANGED memory
     \/ backend = "valkey" /\ Faulty /\ UNCHANGED <<memory, valkey>>
  /\ handler' = [handler EXCEPT ![h] = Idle]
  /\ UNCHANGED <<table, backend, deletion>>
-----------------------------------------------------------------------------
(* The writers: a vote changes listings and then deletes them by prefix,   *)
(* the snapshot job and the syncs change answers and delete nothing.       *)

Change(k) ==
  /\ table[k] < MaxVersion
  /\ table' = [table EXCEPT ![k] = @ + 1]
  /\ UNCHANGED <<stores, handler, deletion, faults>>

BeginDeletion ==
  /\ deletion.at = "none"
  /\ deletion' = [at |-> "prefix", keys |-> {}]
  /\ UNCHANGED <<table, stores, handler, faults>>

(* InMemoryCache.DeletePrefix: all of them under the lock.                 *)
DeleteFromMemory ==
  /\ deletion.at = "prefix" /\ backend = "memory"
  /\ memory' = [k \in Keys |-> IF k \in Listings THEN None ELSE memory[k]]
  /\ deletion' = NoDeletion
  /\ UNCHANGED <<table, valkey, backend, handler, faults>>

Deleting(K) == IF K = {} THEN NoDeletion ELSE [at |-> "del", keys |-> K]

(* ValkeyClient.DeletePrefix: KEYS prefix* ...                             *)
ListKeys ==
  /\ deletion.at = "prefix" /\ backend = "valkey"
  /\ \/ deletion' = Deleting({k \in Listings : valkey[k] # None}) /\ Healthy
     \/ deletion' = NoDeletion /\ Faulty
  /\ UNCHANGED <<table, stores, handler>>

(* ... and one DEL each; the loop goes on after an error.                  *)
DeleteKey(k) ==
  /\ k \in deletion.keys
  /\ \/ valkey' = [valkey EXCEPT ![k] = None] /\ (Healthy \/ Faulty)
     \/ Faulty /\ UNCHANGED valkey
  /\ deletion' = Deleting(deletion.keys \ {k})
  /\ UNCHANGED <<table, memory, backend, handler>>
-----------------------------------------------------------------------------
(* NewValkey fails or not; the entries in Valkey outlive the process.      *)
Restart ==
  /\ Faulty
  /\ backend' \in {"memory", "valkey"}
  /\ memory' = Empty
  /\ handler' = [h \in Handlers |-> Idle]
  /\ deletion' = NoDeletion
  /\ UNCHANGED <<table, valkey>>

(* Time passes.  Valkey removes what has expired, the map does not.        *)
Aged(e) == IF e = None \/ e.left < 0 THEN e ELSE [e EXCEPT !.left = @ - 1]
AgedOrGone(e) == IF e # None /\ e.left <= 0 THEN None ELSE Aged(e)

Tick ==
  /\ memory' = [k \in Keys |-> Aged(memory[k])]
  /\ valkey' = [k \in Keys |-> AgedOrGone(valkey[k])]
  /\ handler' = [h \in Handlers |->
                   [handler[h] EXCEPT !.entry = Aged(@)]]
  /\ UNCHANGED <<table, backend, deletion, faults>>

Proceed(h) == CheckExpiry(h) \/ DropExpired(h) \/ Answer(h) \/ Query(h) \/ Count(h) \/ Fill(h)

Next == \/ \E h \in Handlers :
             \/ \E k \in Keys : GetMemory(h, k) \/ GetValkey(h, k)
             \/ Proceed(h)
        \/ \E k \in Keys : Change(k) \/ DeleteKey(k)
        \/ BeginDeletion \/ DeleteFromMemory \/ ListKeys
        \/ Restart \/ Tick

(* A request that has begun is carried on, and time goes on.               *)
Spec == Init /\ [][Next]_vars
FairSpec == Spec /\ WF_vars(Tick) /\ \A h \in Handlers : WF_vars(Proceed(h))
-----------------------------------------------------------------------------
(* Properties.                                                             *)

(* Shapes; a Get past its first lock has an entry in hand, the map is only *)
(* used by a process without Valkey, a deletion key by key only by one     *)
(* with it, and Valkey holds nothing that has expired.                     *)
Places == {"idle", "check", "drop", "hit", "query", "count", "fill"}

TypeOK ==
  /\ table \in [Keys -> Versions]
  /\ memory \in [Keys -> Entries \cup {None}]
  /\ valkey \in [Keys -> Entries \cup {None}]
  /\ backend \in {"memory", "valkey"}
  /\ handler \in [Handlers -> [at: Places, key: Keys \cup {None},
                               entry: Entries \cup {None}, body: Bodies \cup {None}]]
  /\ deletion \in [at: {"none", "prefix", "del"}, keys: SUBSET Listings]
  /\ faults \in 0..MaxFaults
  /\ \A h \in Handlers : /\ handler[h].at # "idle" => handler[h].key \in Keys
                         /\ handler[h].at = "check" <=> handler[h].entry # None
                         /\ handler[h].at \in {"hit", "count", "fill"} => handler[h].body # None
                         /\ handler[h].at \in {"check", "drop"} => backend = "memory"
  /\ backend = "valkey" => memory = Empty
  /\ deletion.keys # {} => backend = "valkey"
  /\ \A k \in Keys : valkey[k] # None => ~Expired(valkey[k])

(* The bodies that a Get may return now or that are about to be sent.      *)
Servable(k) ==
  LET store == IF backend = "memory" THEN memory ELSE valkey IN
  {store[j].body : j \in {i \in {k} : store[i] # None /\ ~Expired(store[i])}}
    \cup {handler[h].body : h \in {g \in Handlers : handler[g].key = k /\ handler[g].at = "hit"}}

(* Nothing tells the cache of a new snapshot, or of a listing moved by a   *)
(* sync, a fill may undo a deletion or bring back an older answer, and a   *)
(* page may go with the total of another moment; but when the database     *)
(* stops changing, the cache comes to serve what is in it and nothing      *)
(* else, whatever was stored, lost or left behind before.                  *)
CatchesUp == <>[](\A k \in Keys : Servable(k) \subseteq {Body(k)})

(* Both stores, with their locks, commands and restarts, are the cache the *)
(* handlers believe in.                                                    *)
Cache == INSTANCE ResponseCache WITH
  live <- IF backend = "memory" THEN memory ELSE valkey,
  hidden <- IF backend = "memory" THEN valkey ELSE Empty,
  seen <- [h \in Handlers |-> IF handler[h].at = "check"
                              THEN [key |-> handler[h].key, entry |-> handler[h].entry]
                              ELSE None],
  served <- [h \in Handlers |-> IF handler[h].at = "hit"
                                THEN [key |-> handler[h].key, body |-> handler[h].body]
                                ELSE None]
CacheSpec == Cache!Spec
=============================================================================
