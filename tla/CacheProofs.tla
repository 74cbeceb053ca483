----------------------------- MODULE CacheProofs -----------------------------
(***************************************************************************)
(* Theorems about ReadThrough for any keys, handlers, lifetimes, changes   *)
(* and failures: the type invariant, and that both caches, with their      *)
(* locks, commands and restarts, implement ResponseCache.                  *)
(***************************************************************************)
EXTENDS ReadThrough, TLAPS

-----------------------------------------------------------------------------
(* Type correctness.                                                       *)

Requests == [at: Places, key: Keys \cup {None}, entry: Entries \cup {None},
             body: Bodies \cup {None}]

Sound(h) == /\ handler[h].at # "idle" => handler[h].key \in Keys
            /\ handler[h].at = "check" <=> handler[h].entry # None
            /\ handler[h].at \in {"hit", "count", "fill"} => handler[h].body # None
            /\ handler[h].at \in {"check", "drop"} => backend = "memory"

(* A request that is sound stays so while only other requests move.        *)
LEMMA OthersSound ==
  ASSUME TypeOK, NEW h \in Handlers, NEW q \in Requests, backend' = backend,
         handler' = [handler EXCEPT ![h] = q],
         q.at # "idle" => q.key \in Keys,
         q.at = "check" <=> q.entry # None,
         q.at \in {"hit", "count", "fill"} => q.body # None,
         q.at \in {"check", "drop"} => backend = "memory"
  PROVE  /\ handler' \in [Handlers -> Requests]
         /\ \A g \in Handlers : Sound(g)'
BY DEF TypeOK, Requests, Sound

LEMMA IdleIsRequest == Idle \in Requests
BY DEF Idle, Requests, Places

(* The parts of the type invariant that a handler's step does not touch.   *)
LEMMA HandlerStepTyped ==
  ASSUME TypeOK, handler' \in [Handlers -> Requests], \A g \in Handlers : Sound(g)',
         faults' \in 0..MaxFaults, UNCHANGED <<table, backend, deletion>>,
         memory' \in [Keys -> Entries \cup {None}],
         valkey' \in [Keys -> Entries \cup {None}],
         backend = "valkey" => memory' = memory,
         \A k \in Keys : valkey'[k] # None => ~Expired(valkey'[k])
  PROVE  TypeOK'
BY DEF TypeOK, Requests, Sound, Expired

LEMMA FaultsCounted ==
  ASSUME TypeOK, Healthy \/ Faulty
  PROVE  faults' \in 0..MaxFaults
BY BoundsAssumption DEF TypeOK, Healthy, Faulty

LEMMA EntryTyped ==
  ASSUME NEW k \in Keys, NEW b \in Bodies
  PROVE  Entry(k, b) \in Entries /\ ~Expired(Entry(k, b)) /\ Entry(k, b) # None
BY LifetimeAssumption, NoneAssumption DEF Entry, Entries, Expired

LEMMA AgedTyped ==
  ASSUME NEW e \in Entries \cup {None}
  PROVE  /\ Aged(e) \in Entries \cup {None}
         /\ Aged(e) = None <=> e = None
         /\ e # None => Aged(e).body = e.body
         /\ e # None /\ e.left > 0 => ~Expired(Aged(e))
BY NoneAssumption DEF Aged, Entries, Expired

LEMMA GetMemoryTyped ==
  ASSUME TypeOK, NEW h \in Handlers, NEW k \in Keys, GetMemory(h, k)
  PROVE  TypeOK'
<1>1. CASE ~Present(k)
  <2> DEFINE q == [at |-> "query", key |-> k, entry |-> None, body |-> None]
  <2>1. q \in Requests /\ handler' = [handler EXCEPT ![h] = q]
    BY <1>1 DEF GetMemory, Goto, Miss, Requests, Places
  <2>2. handler' \in [Handlers -> Requests] /\ \A g \in Handlers : Sound(g)'
    BY <2>1, OthersSound DEF GetMemory, stores
  <2> QED
    BY <2>2, HandlerStepTyped DEF TypeOK, GetMemory, stores
<1>2. CASE Present(k)
  <2> DEFINE q == [at |-> "check", key |-> k, entry |-> memory[k], body |-> None]
  <2>1. q \in Requests /\ handler' = [handler EXCEPT ![h] = q] /\ memory[k] # None
    BY <1>2 DEF GetMemory, Goto, Requests, Places, TypeOK, Present
  <2>2. handler' \in [Handlers -> Requests] /\ \A g \in Handlers : Sound(g)'
    BY <2>1, OthersSound DEF GetMemory, stores
  <2> QED
    BY <2>2, HandlerStepTyped DEF TypeOK, GetMemory, stores
<1> QED
  BY <1>1, <1>2

LEMMA CheckExpiryTyped ==
  ASSUME TypeOK, NEW h \in Handlers, CheckExpiry(h)
  PROVE  TypeOK'
<1> DEFINE k == handler[h].key
           e == handler[h].entry
<1>1. k \in Keys /\ e \in Entries /\ e # None /\ backend = "memory"
  BY DEF TypeOK, CheckExpiry
<1>2. PICK q \in Requests : /\ handler' = [handler EXCEPT ![h] = q]
                            /\ q.key = k /\ q.entry = None
                            /\ q.at \in {"hit", "drop"}
                            /\ q.at = "hit" => q.body # None
  <2>1. CASE ~Expired(e)
    <3>1. e.body \in Bodies /\ e.body # None
      BY <1>1, NoneAssumption DEF Entries
    <3> DEFINE q == [at |-> "hit", key |-> k, entry |-> None, body |-> e.body]
    <3> q \in Requests
      BY <1>1, <3>1 DEF Requests, Places
    <3> WITNESS q \in Requests
    <3> QED
      BY <2>1, <3>1 DEF CheckExpiry, Hit, Goto
  <2>2. CASE Expired(e)
    <3> DEFINE q == [at |-> "drop", key |-> k, entry |-> None, body |-> None]
    <3> q \in Requests
      BY <1>1 DEF Requests, Places
    <3> WITNESS q \in Requests
    <3> QED
      BY <2>2 DEF CheckExpiry, Goto
  <2> QED
    BY <2>1, <2>2
<1>3. handler' \in [Handlers -> Requests] /\ \A g \in Handlers : Sound(g)'
  BY <1>1, <1>2, OthersSound DEF CheckExpiry
<1> QED
  BY <1>3, HandlerStepTyped DEF TypeOK, CheckExpiry, LeftAlone

LEMMA DropExpiredTyped ==
  ASSUME TypeOK, NEW h \in Handlers, DropExpired(h)
  PROVE  TypeOK'
<1> DEFINE q == [at |-> "query", key |-> handler[h].key, entry |-> None, body |-> None]
<1>1. handler[h].key \in Keys /\ backend = "memory"
  BY DEF TypeOK, DropExpired
<1>2. q \in Requests /\ handler' = [handler EXCEPT ![h] = q]
  BY <1>1 DEF DropExpired, Miss, Goto, Requests, Places
<1>3. handler' \in [Handlers -> Requests] /\ \A g \in Handlers : Sound(g)'
  BY <1>1, <1>2, OthersSound DEF DropExpired
<1> QED
  BY <1>1, <1>3, HandlerStepTyped DEF TypeOK, DropExpired

LEMMA GetValkeyTyped ==
  ASSUME TypeOK, NEW h \in Handlers, NEW k \in Keys, GetValkey(h, k)
  PROVE  TypeOK'
<1>1. PICK q \in Requests : /\ handler' = [handler EXCEPT ![h] = q]
                            /\ q.key = k /\ q.entry = None
                            /\ q.at \in {"hit", "query"}
                            /\ q.at = "hit" => q.body # None
  <2>1. CASE valkey[k] # None /\ Hit(h, k, valkey[k])
    <3>1. valkey[k].body \in Bodies /\ valkey[k].body # None
      BY <2>1, NoneAssumption DEF Entries, TypeOK
    <3> DEFINE q == [at |-> "hit", key |-> k, entry |-> None, body |-> valkey[k].body]
    <3> q \in Requests
      BY <3>1 DEF Requests, Places
    <3> WITNESS q \in Requests
    <3> QED
      BY <2>1, <3>1 DEF Hit, Goto
  <2>2. CASE Miss(h, k)
    <3> DEFINE q == [at |-> "query", key |-> k, entry |-> None, body |-> None]
    <3> q \in Requests
      BY DEF Requests, Places
    <3> WITNESS q \in Requests
    <3> QED
      BY <2>2 DEF Miss, Goto
  <2> QED
    BY <2>1, <2>2 DEF GetValkey
<1>2. handler' \in [Handlers -> Requests] /\ \A g \in Handlers : Sound(g)'
  BY <1>1, OthersSound DEF GetValkey, stores
<1>3. faults' \in 0..MaxFaults
  BY FaultsCounted DEF GetValkey
<1> QED
  BY <1>2, <1>3, HandlerStepTyped DEF TypeOK, GetValkey, stores

LEMMA AnswerTyped ==
  ASSUME TypeOK, NEW h \in Handlers, Answer(h)
  PROVE  TypeOK'
<1>1. handler' \in [Handlers -> Requests] /\ \A g \in Handlers : Sound(g)'
  BY IdleIsRequest, OthersSound DEF Answer, stores, Idle
<1> QED
  BY <1>1, HandlerStepTyped DEF TypeOK, Answer, stores

LEMMA QueryTyped ==
  ASSUME TypeOK, NEW h \in Handlers, Query(h) \/ Count(h)
  PROVE  TypeOK'
<1> DEFINE k == handler[h].key
           b == [handler[h].body EXCEPT !.total = table[k]]
           p == [at |-> "count", key |-> k, entry |-> None, body |-> Body(k)]
           q == [at |-> "fill", key |-> k, entry |-> None, body |-> b]
<1>1. k \in Keys /\ table[k] \in Versions
  BY DEF TypeOK, Query, Count
<1>2. /\ handler' \in [Handlers -> Requests]
      /\ \A g \in Handlers : Sound(g)'
      /\ UNCHANGED <<table, stores, deletion>>
  <2>1. CASE Query(h)
    <3>1. Body(k) \in Bodies /\ Body(k) # None
      BY <1>1, NoneAssumption DEF Body, Bodies
    <3>2. p \in Requests
      BY <1>1, <3>1 DEF Requests, Places
    <3>3. handler' = [handler EXCEPT ![h] = p] \/ handler' = [handler EXCEPT ![h] = Idle]
      BY <2>1 DEF Query, Goto
    <3> QED
      BY <2>1, <1>1, <3>1, <3>2, <3>3, IdleIsRequest, OthersSound DEF Query, stores, Idle
  <2>2. CASE Count(h)
    <3>1. b \in Bodies /\ b # None
      BY <2>2, <1>1, NoneAssumption DEF TypeOK, Count, Bodies
    <3>2. q \in Requests
      BY <1>1, <3>1 DEF Requests, Places
    <3>3. handler' = [handler EXCEPT ![h] = q] \/ handler' = [handler EXCEPT ![h] = Idle]
      BY <2>2 DEF Count, Goto
    <3> HIDE DEF b
    <3> QED
      BY <2>2, <1>1, <3>1, <3>2, <3>3, IdleIsRequest, OthersSound DEF Count, stores, Idle
  <2> QED
    BY <2>1, <2>2
<1>3. faults' \in 0..MaxFaults
  BY FaultsCounted DEF Query, Count
<1> QED
  BY <1>2, <1>3, HandlerStepTyped DEF TypeOK, stores

LEMMA FillTyped ==
  ASSUME TypeOK, NEW h \in Handlers, Fill(h)
  PROVE  TypeOK'
<1> DEFINE k == handler[h].key
           e == Entry(k, handler[h].body)
<1>1. k \in Keys /\ e \in Entries /\ ~Expired(e) /\ e # None
  BY EntryTyped DEF TypeOK, Fill
<1>2. handler' \in [Handlers -> Requests] /\ \A g \in Handlers : Sound(g)'
  BY IdleIsRequest, OthersSound DEF Fill, Idle
<1>3. faults' \in 0..MaxFaults
  BY FaultsCounted DEF Fill
<1>4. /\ memory' \in {memory, [memory EXCEPT ![k] = e]}
      /\ valkey' \in {valkey, [valkey EXCEPT ![k] = e]}
      /\ backend = "valkey" => memory' = memory
      /\ UNCHANGED <<table, backend, deletion>>
  BY DEF Fill
<1>5. memory' \in [Keys -> Entries \cup {None}] /\ valkey' \in [Keys -> Entries \cup {None}]
  BY <1>1, <1>4 DEF TypeOK
<1>6. \A j \in Keys : valkey'[j] # None => ~Expired(valkey'[j])
  BY <1>1, <1>4 DEF TypeOK
<1> QED
  BY <1>2, <1>3, <1>4, <1>5, <1>6, HandlerStepTyped

LEMMA WritersTyped ==
  ASSUME TypeOK,
         \/ \E k \in Keys : Change(k) \/ DeleteKey(k)
         \/ BeginDeletion \/ DeleteFromMemory \/ ListKeys
  PROVE  TypeOK'
<1>1. CASE \E k \in Keys : Change(k)
  BY <1>1, BoundsAssumption DEF TypeOK, Change, Versions, stores
<1>2. CASE \E k \in Keys : DeleteKey(k)
  <2>1. PICK k \in Keys : DeleteKey(k)
    BY <1>2
  <2>2. faults' \in 0..MaxFaults
    BY <2>1, FaultsCounted DEF DeleteKey
  <2>3. /\ deletion' \in [at: {"none", "prefix", "del"}, keys: SUBSET Listings]
        /\ deletion'.keys # {} => backend' = "valkey"
    BY <2>1 DEF TypeOK, DeleteKey, Deleting, NoDeletion
  <2> QED
    BY <2>1, <2>2, <2>3 DEF TypeOK, DeleteKey
<1>3. CASE BeginDeletion
  BY <1>3 DEF TypeOK, BeginDeletion, stores
<1>4. CASE DeleteFromMemory
  BY <1>4 DEF TypeOK, DeleteFromMemory, NoDeletion
<1>5. CASE ListKeys
  <2>1. faults' \in 0..MaxFaults
    BY <1>5, FaultsCounted DEF ListKeys
  <2>2. /\ deletion' \in [at: {"none", "prefix", "del"}, keys: SUBSET Listings]
        /\ deletion'.keys # {} => backend' = "valkey"
    BY <1>5 DEF TypeOK, ListKeys, Deleting, NoDeletion, stores
  <2> QED
    BY <1>5, <2>1, <2>2 DEF TypeOK, ListKeys, stores
<1> QED
  BY <1>1, <1>2, <1>3, <1>4, <1>5

LEMMA RestartTyped ==
  ASSUME TypeOK, Restart
  PROVE  TypeOK'
<1>1. faults' \in 0..MaxFaults
  BY FaultsCounted DEF Restart
<1>2. handler' \in [Handlers -> Requests] /\ \A h \in Handlers : handler'[h] = Idle
  BY IdleIsRequest DEF Restart
<1> QED
  BY <1>1, <1>2 DEF TypeOK, Restart, Requests, Idle, Empty, NoDeletion

LEMMA TickTyped ==
  ASSUME TypeOK, Tick
  PROVE  TypeOK'
<1>1. memory' \in [Keys -> Entries \cup {None}]
  BY AgedTyped DEF TypeOK, Tick
<1>2. valkey' \in [Keys -> Entries \cup {None}]
  BY AgedTyped DEF TypeOK, Tick, AgedOrGone
<1>3. ASSUME NEW k \in Keys, valkey'[k] # None
      PROVE  ~Expired(valkey'[k])
  <2>1. valkey[k] \in Entries /\ valkey[k].left > 0 /\ valkey'[k] = Aged(valkey[k])
    BY <1>3 DEF TypeOK, Tick, AgedOrGone, Entries, Aged
  <2> QED
    BY <2>1, AgedTyped, NoneAssumption
<1>4. /\ handler' \in [Handlers -> Requests]
      /\ \A h \in Handlers : Sound(h)'
  <2> SUFFICES ASSUME NEW h \in Handlers
               PROVE  handler'[h] \in Requests /\ Sound(h)'
    BY DEF TypeOK, Tick
  <2>1. handler'[h] = [handler[h] EXCEPT !.entry = Aged(handler[h].entry)]
    BY DEF Tick
  <2>2. /\ handler[h] \in Requests
        /\ Aged(handler[h].entry) \in Entries \cup {None}
        /\ Aged(handler[h].entry) = None <=> handler[h].entry = None
    BY AgedTyped DEF TypeOK, Requests
  <2> QED
    BY <2>1, <2>2 DEF TypeOK, Requests, Sound, Tick
<1>5. backend' = "valkey" => memory' = Empty
  BY DEF TypeOK, Tick, Empty, Aged
<1> QED
  BY <1>1, <1>2, <1>3, <1>4, <1>5 DEF TypeOK, Tick, Requests, Sound

LEMMA StepTyped == TypeOK /\ [Next]_vars => TypeOK'
<1> SUFFICES ASSUME TypeOK, [Next]_vars PROVE TypeOK'
  OBVIOUS
<1>1. CASE UNCHANGED vars
  BY <1>1 DEF TypeOK, vars, stores
<1>2. CASE Next
  BY <1>2, GetMemoryTyped, GetValkeyTyped, CheckExpiryTyped, DropExpiredTyped, AnswerTyped,
     QueryTyped, FillTyped, WritersTyped, RestartTyped, TickTyped DEF Next, Proceed
<1> QED
  BY <1>1, <1>2

(* A Get past its first lock always has an entry to judge, a process with  *)
(* Valkey keeps nothing in its map, and Valkey holds nothing expired: for  *)
(* any number of keys and requests, however often the process restarts.    *)
THEOREM TypeCorrect == Spec => []TypeOK
<1>1. Init => TypeOK
  BY BoundsAssumption DEF Init, TypeOK, Versions, Empty, Idle, Places, NoDeletion
<1> QED
  BY <1>1, StepTyped, PTL DEF Spec

-----------------------------------------------------------------------------
(* Refinement.                                                             *)

(* The abstract state, as the refinement mapping computes it.              *)
Live == IF backend = "memory" THEN memory ELSE valkey
Hidden == IF backend = "memory" THEN valkey ELSE Empty
SeenBy(q) == IF q.at = "check" THEN [key |-> q.key, entry |-> q.entry] ELSE None
ServedTo(q) == IF q.at = "hit" THEN [key |-> q.key, body |-> q.body] ELSE None
Seen == [h \in Handlers |-> SeenBy(handler[h])]
Served == [h \in Handlers |-> ServedTo(handler[h])]
mapped == <<Live, Hidden, Seen, Served>>

(* A step that moves one request changes nothing for the others.           *)
LEMMA OthersMapped ==
  ASSUME TypeOK, NEW h \in Handlers, NEW q, handler' = [handler EXCEPT ![h] = q]
  PROVE  /\ Seen' = [Seen EXCEPT ![h] = SeenBy(q)]
         /\ Served' = [Served EXCEPT ![h] = ServedTo(q)]
<1>1. /\ handler'[h] = q
      /\ \A g \in Handlers \ {h} : handler'[g] = handler[g]
  BY DEF TypeOK
<1>2. \A g \in Handlers : /\ SeenBy(handler'[g]) = IF g = h THEN SeenBy(q) ELSE Seen[g]
                          /\ ServedTo(handler'[g]) = IF g = h THEN ServedTo(q) ELSE Served[g]
  BY <1>1 DEF Seen, Served
<1> QED
  BY <1>2 DEF Seen, Served

(* ... and nothing at all if the cache owes it nothing before or after.    *)
LEMMA UnseenMapped ==
  ASSUME TypeOK, NEW h \in Handlers, NEW q, handler' = [handler EXCEPT ![h] = q],
         handler[h].at \notin {"check", "hit"}, q.at \notin {"check", "hit"}
  PROVE  Seen' = Seen /\ Served' = Served
<1>1. SeenBy(q) = None /\ ServedTo(q) = None /\ Seen[h] = None /\ Served[h] = None
  BY DEF SeenBy, ServedTo, Seen, Served
<1> QED
  BY <1>1, OthersMapped DEF Seen, Served

LEMMA GetMemoryRefines ==
  ASSUME TypeOK, NEW h \in Handlers, NEW k \in Keys, GetMemory(h, k)
  PROVE  Cache!Next \/ UNCHANGED mapped
<1>1. Live' = Live /\ Hidden' = Hidden /\ Live = memory
  BY DEF GetMemory, stores, Live, Hidden
<1>2. CASE ~Present(k)
  <2> DEFINE q == [at |-> "query", key |-> k, entry |-> None, body |-> None]
  <2>1. handler' = [handler EXCEPT ![h] = q] /\ handler[h].at = "idle" /\ q.at = "query"
    BY <1>2 DEF GetMemory, Miss, Goto
  <2> HIDE DEF q
  <2>2. Seen' = Seen /\ Served' = Served
    BY <2>1, UnseenMapped
  <2> QED
    BY <1>1, <2>2 DEF mapped
<1>3. CASE Present(k)
  <2> DEFINE q == [at |-> "check", key |-> k, entry |-> memory[k], body |-> None]
  <2>1. handler' = [handler EXCEPT ![h] = q] /\ handler[h].at = "idle"
    BY <1>3 DEF GetMemory, Goto
  <2>2. SeenBy(q) = [key |-> k, entry |-> memory[k]] /\ ServedTo(q) = None /\ Served[h] = None
    BY <2>1 DEF SeenBy, ServedTo, Served
  <2> HIDE DEF q
  <2>3. /\ Seen' = [Seen EXCEPT ![h] = [key |-> k, entry |-> memory[k]]]
        /\ Served' = [Served EXCEPT ![h] = None]
    <3>1. /\ Seen' = [Seen EXCEPT ![h] = SeenBy(q)]
          /\ Served' = [Served EXCEPT ![h] = ServedTo(q)]
      BY <2>1, OthersMapped
    <3> QED
      BY <3>1, <2>2
  <2>4. Served' = Served
    BY <2>2, <2>3 DEF Served
  <2>5. Live[k] # None /\ Live[k] = memory[k]
    BY <1>1, <1>3 DEF Present
  <2>6. Cache!Look(h, k)
    BY <1>1, <2>3, <2>4, <2>5 DEF Cache!Look, Live, Hidden, Seen, Served, SeenBy, ServedTo
  <2> QED
    BY <2>6 DEF Cache!Next
<1> QED
  BY <1>2, <1>3

LEMMA CheckExpiryRefines ==
  ASSUME TypeOK, NEW h \in Handlers, CheckExpiry(h)
  PROVE  Cache!Next \/ UNCHANGED mapped
<1> DEFINE k == handler[h].key
           e == handler[h].entry
<1>1. /\ Live' = Live /\ Hidden' = Hidden
      /\ Seen[h] = [key |-> k, entry |-> e] /\ Served[h] = None
  BY DEF CheckExpiry, LeftAlone, Live, Hidden, Seen, Served, SeenBy, ServedTo
<1>2. Seen[h] # None
  <2>1. [key |-> k, entry |-> e] \in [key: Keys, entry: Entries]
    BY DEF TypeOK, CheckExpiry
  <2> QED
    BY <1>1, <2>1, NoneAssumption
<1>3. CASE ~Expired(e)
  <2> DEFINE q == [at |-> "hit", key |-> k, entry |-> None, body |-> e.body]
  <2>1. handler' = [handler EXCEPT ![h] = q]
    BY <1>3 DEF CheckExpiry, Hit, Goto
  <2>2. SeenBy(q) = None /\ ServedTo(q) = [key |-> k, body |-> e.body]
    BY DEF SeenBy, ServedTo
  <2> HIDE DEF q
  <2>3. /\ Seen' = [Seen EXCEPT ![h] = None]
        /\ Served' = [Served EXCEPT ![h] = [key |-> k, body |-> e.body]]
    BY <2>1, <2>2, OthersMapped
  <2> HIDE DEF k, e
  <2>4. Cache!Serve(h)
    BY <1>1, <1>2, <1>3, <2>3
    DEF Cache!Serve, Cache!Expired, Cache!Answers, Expired, Live, Hidden, Seen, Served, SeenBy, ServedTo
  <2> QED
    BY <2>4 DEF Cache!Next
<1>4. CASE Expired(e)
  <2> DEFINE q == [at |-> "drop", key |-> k, entry |-> None, body |-> None]
  <2>1. handler' = [handler EXCEPT ![h] = q]
    BY <1>4 DEF CheckExpiry, Goto
  <2>2. SeenBy(q) = None /\ ServedTo(q) = None
    BY DEF SeenBy, ServedTo
  <2> HIDE DEF q
  <2>3. Seen' = [Seen EXCEPT ![h] = None] /\ Served' = [Served EXCEPT ![h] = None]
    BY <2>1, <2>2, OthersMapped
  <2>4. Cache!Finish(h)
    BY <1>1, <2>3 DEF Cache!Finish, Live, Hidden, Seen, Served, SeenBy, ServedTo
  <2> QED
    BY <2>4 DEF Cache!Next
<1> QED
  BY <1>3, <1>4

LEMMA DropExpiredRefines ==
  ASSUME TypeOK, NEW h \in Handlers, DropExpired(h)
  PROVE  Cache!Next \/ UNCHANGED mapped
<1> DEFINE j == handler[h].key
           q == [at |-> "query", key |-> j, entry |-> None, body |-> None]
<1>1. handler' = [handler EXCEPT ![h] = q] /\ handler[h].at = "drop" /\ q.at = "query"
  BY DEF DropExpired, Miss, Goto
<1>2. j \in Keys /\ backend = "memory"
  BY DEF TypeOK, DropExpired
<1> HIDE DEF q
<1>3. Seen' = Seen /\ Served' = Served
  BY <1>1, UnseenMapped
<1>4. Live' = [k \in Keys |-> IF k \in {j} THEN None ELSE Live[k]] /\ Hidden' = Hidden
  BY <1>2 DEF DropExpired, Live, Hidden, TypeOK
<1>5. Cache!Forget({j})
  BY <1>3, <1>4 DEF Cache!Forget, Live, Hidden, Seen, Served, SeenBy, ServedTo
<1> QED
  BY <1>2, <1>5 DEF Cache!Next

LEMMA GetValkeyRefines ==
  ASSUME TypeOK, NEW h \in Handlers, NEW k \in Keys, GetValkey(h, k)
  PROVE  Cache!Next \/ UNCHANGED mapped
<1>1. /\ Live' = Live /\ Hidden' = Hidden /\ Live = valkey
      /\ handler[h].at = "idle" /\ Seen[h] = None
  BY DEF GetValkey, stores, Live, Hidden, Seen, SeenBy
<1>2. CASE valkey[k] # None /\ Hit(h, k, valkey[k])
  <2> DEFINE b == valkey[k].body
             q == [at |-> "hit", key |-> k, entry |-> None, body |-> b]
  <2>1. handler' = [handler EXCEPT ![h] = q]
    BY <1>2 DEF Hit, Goto
  <2>2. SeenBy(q) = None /\ ServedTo(q) = [key |-> k, body |-> b]
    BY DEF SeenBy, ServedTo
  <2> HIDE DEF q
  <2>3. Seen' = [Seen EXCEPT ![h] = None] /\ Served' = [Served EXCEPT ![h] = [key |-> k, body |-> b]]
    BY <2>1, <2>2, OthersMapped
  <2>4. Seen' = Seen
    BY <1>1, <2>3 DEF Seen
  <2>5. Live[k] # None /\ Live[k].body = b /\ ~(Live[k].left < 0)
    BY <1>1, <1>2 DEF TypeOK, Expired
  <2>6. Cache!ServeAtOnce(h, k)
    BY <1>1, <2>3, <2>4, <2>5 DEF Cache!ServeAtOnce, Cache!Expired, Cache!Answers,
       Live, Hidden, Seen, Served, SeenBy, ServedTo
  <2> QED
    BY <2>6 DEF Cache!Next
<1>3. CASE Miss(h, k)
  <2> DEFINE q == [at |-> "query", key |-> k, entry |-> None, body |-> None]
  <2>1. handler' = [handler EXCEPT ![h] = q] /\ q.at = "query"
    BY <1>3 DEF Miss, Goto
  <2> HIDE DEF q
  <2>2. Seen' = Seen /\ Served' = Served
    BY <1>1, <2>1, UnseenMapped
  <2> QED
    BY <1>1, <2>2 DEF mapped
<1> QED
  BY <1>2, <1>3 DEF GetValkey

LEMMA AnswerRefines ==
  ASSUME TypeOK, NEW h \in Handlers, Answer(h)
  PROVE  Cache!Next \/ UNCHANGED mapped
<1>1. Live' = Live /\ Hidden' = Hidden /\ handler' = [handler EXCEPT ![h] = Idle]
  BY DEF Answer, stores, Live, Hidden
<1>2. SeenBy(Idle) = None /\ ServedTo(Idle) = None
  BY DEF SeenBy, ServedTo, Idle
<1>3. Seen' = [Seen EXCEPT ![h] = None] /\ Served' = [Served EXCEPT ![h] = None]
  BY <1>1, <1>2, OthersMapped
<1>4. Cache!Finish(h)
  BY <1>1, <1>3 DEF Cache!Finish, Live, Hidden, Seen, Served, SeenBy, ServedTo
<1> QED
  BY <1>4 DEF Cache!Next

LEMMA QueryRefines ==
  ASSUME TypeOK, NEW h \in Handlers, Query(h) \/ Count(h)
  PROVE  UNCHANGED mapped
<1>1. Live' = Live /\ Hidden' = Hidden /\ handler[h].at \in {"query", "count"}
  BY DEF Query, Count, stores, Live, Hidden
<1> DEFINE k == handler[h].key
           p == [at |-> "count", key |-> k, entry |-> None, body |-> Body(k)]
           q == [at |-> "fill", key |-> k, entry |-> None,
                 body |-> [handler[h].body EXCEPT !.total = table[k]]]
<1>2. \/ handler' = [handler EXCEPT ![h] = p]
      \/ handler' = [handler EXCEPT ![h] = q]
      \/ handler' = [handler EXCEPT ![h] = Idle]
  BY DEF Query, Count, Goto
<1>3. p.at = "count" /\ q.at = "fill" /\ Idle.at = "idle"
  BY DEF Idle
<1> HIDE DEF p, q
<1>4. Seen' = Seen /\ Served' = Served
  BY <1>1, <1>2, <1>3, UnseenMapped
<1> QED
  BY <1>1, <1>4 DEF mapped

LEMMA FillRefines ==
  ASSUME TypeOK, NEW h \in Handlers, Fill(h)
  PROVE  Cache!Next \/ UNCHANGED mapped
<1> DEFINE k == handler[h].key
           b == handler[h].body
<1>1. k \in Keys /\ b \in Bodies
  BY DEF TypeOK, Fill
<1>2. handler' = [handler EXCEPT ![h] = Idle] /\ handler[h].at = "fill" /\ Idle.at = "idle"
  BY DEF Fill, Idle
<1>3. Seen' = Seen /\ Served' = Served
  BY <1>2, UnseenMapped
<1>4. /\ Hidden' = Hidden
      /\ Live' = Live \/ Live' = [Live EXCEPT ![k] = Entry(k, b)]
  BY DEF Fill, Live, Hidden, TypeOK
<1>5. CASE Live' = Live
  BY <1>3, <1>4, <1>5 DEF mapped
<1>6. CASE Live' = [Live EXCEPT ![k] = Entry(k, b)]
  <2>1. Live' = [Live EXCEPT ![k] = [body |-> b, left |-> Lifetime[k]]]
    BY <1>6 DEF Entry
  <2>2. Cache!Put(k)
    BY <1>1, <1>3, <1>4, <2>1 DEF Cache!Put, Live, Hidden, Seen, Served, SeenBy, ServedTo
  <2> QED
    BY <1>1, <2>2 DEF Cache!Next
<1> QED
  BY <1>4, <1>5, <1>6

(* Changes of the database and the first command of a deletion are         *)
(* nothing to the cache; the deletions themselves forget entries.          *)
LEMMA WritersRefine ==
  ASSUME TypeOK,
         \/ \E k \in Keys : Change(k) \/ DeleteKey(k)
         \/ BeginDeletion \/ DeleteFromMemory \/ ListKeys
  PROVE  Cache!Next \/ UNCHANGED mapped
<1>1. CASE (\E k \in Keys : Change(k)) \/ BeginDeletion \/ ListKeys
  BY <1>1 DEF Change, BeginDeletion, ListKeys, stores, mapped, Live, Hidden, Seen, Served
<1>2. CASE DeleteFromMemory
  <2>1. /\ Live' = [k \in Keys |-> IF k \in Listings THEN None ELSE Live[k]]
        /\ UNCHANGED <<Hidden, Seen, Served>>
    BY <1>2 DEF DeleteFromMemory, Live, Hidden, Seen, Served
  <2>2. Cache!Forget(Listings)
    BY <2>1 DEF Cache!Forget, Live, Hidden, Seen, Served, SeenBy, ServedTo
  <2> QED
    BY <2>2, KeysAssumption DEF Cache!Next
<1>3. ASSUME NEW j \in Keys, DeleteKey(j)
      PROVE  Cache!Next \/ UNCHANGED mapped
  <2>1. backend = "valkey" /\ UNCHANGED <<Hidden, Seen, Served>>
    BY <1>3 DEF TypeOK, DeleteKey, Hidden, Seen, Served
  <2>2. CASE UNCHANGED valkey
    BY <1>3, <2>1, <2>2 DEF DeleteKey, mapped, Live
  <2>3. CASE valkey' = [valkey EXCEPT ![j] = None]
    <3>1. Live' = [k \in Keys |-> IF k \in {j} THEN None ELSE Live[k]]
      BY <1>3, <2>1, <2>3 DEF DeleteKey, Live, TypeOK
    <3>2. Cache!Forget({j})
      BY <2>1, <3>1 DEF Cache!Forget, Live, Hidden, Seen, Served, SeenBy, ServedTo
    <3> QED
      BY <3>2 DEF Cache!Next
  <2> QED
    BY <1>3, <2>2, <2>3 DEF DeleteKey
<1> QED
  BY <1>1, <1>2, <1>3

(* Whichever cache the next process takes, it finds what was there, what   *)
(* an earlier process left, or nothing.                                    *)
LEMMA RestartRefines ==
  ASSUME TypeOK, Restart
  PROVE  Cache!Next
<1>1. /\ Live' \in {Live, Hidden, Empty}
      /\ Hidden' \in {Live, Hidden, Empty}
  BY DEF TypeOK, Restart, Live, Hidden, Empty
<1>2. /\ Seen' = [h \in Handlers |-> None]
      /\ Served' = [h \in Handlers |-> None]
  BY DEF Restart, Idle, Seen, Served, SeenBy, ServedTo
<1>3. Cache!Restart
  BY <1>1, <1>2 DEF Cache!Restart, Cache!Nothing, Cache!Nobody, Empty,
     Live, Hidden, Seen, Served, SeenBy, ServedTo
<1> QED
  BY <1>3 DEF Cache!Next

LEMMA AgedIsAged == \A e : Aged(e) = Cache!Aged(e)
BY DEF Aged, Cache!Aged

LEMMA TickRefines ==
  ASSUME TypeOK, Tick
  PROVE  Cache!Next
<1> DEFINE Gone == {k \in Keys : valkey[k] # None /\ valkey[k].left <= 0}
<1>1. memory' = [k \in Keys |-> IF k \in {} THEN None ELSE Cache!Aged(memory[k])]
  BY AgedIsAged DEF Tick
<1>2. valkey' = [k \in Keys |-> IF k \in Gone THEN None ELSE Cache!Aged(valkey[k])]
  BY AgedIsAged DEF Tick, AgedOrGone
<1>3. Empty = [k \in Keys |-> IF k \in {} THEN None ELSE Cache!Aged(Empty[k])]
  BY DEF Empty, Cache!Aged
<1>4. memory' \in Cache!Later(memory) /\ valkey' \in Cache!Later(valkey) /\ Empty \in Cache!Later(Empty)
  <2>1. ASSUME NEW store, NEW K \in SUBSET Keys
        PROVE  [k \in Keys |-> IF k \in K THEN None ELSE Cache!Aged(store[k])] \in Cache!Later(store)
    BY <2>1 DEF Cache!Later
  <2>2. {} \in SUBSET Keys /\ Gone \in SUBSET Keys
    OBVIOUS
  <2> HIDE DEF Gone
  <2> QED
    BY <1>1, <1>2, <1>3, <2>1, <2>2
<1>5. Live' \in Cache!Later(Live) /\ Hidden' \in Cache!Later(Hidden)
  BY <1>4 DEF Live, Hidden, Tick, Empty
<1>6. /\ Seen' = [h \in Handlers |-> IF Seen[h] = None THEN None
                                    ELSE [Seen[h] EXCEPT !.entry = Cache!Aged(@)]]
      /\ Served' = Served
  <2> SUFFICES ASSUME NEW h \in Handlers
               PROVE  /\ Seen'[h] = IF Seen[h] = None THEN None
                                     ELSE [Seen[h] EXCEPT !.entry = Cache!Aged(@)]
                      /\ Served'[h] = Served[h]
    BY DEF Seen, Served
  <2>1. /\ handler'[h].at = handler[h].at /\ handler'[h].key = handler[h].key
        /\ handler'[h].body = handler[h].body
        /\ handler'[h].entry = Cache!Aged(handler[h].entry)
    BY AgedIsAged DEF TypeOK, Tick
  <2>2. Served'[h] = Served[h]
    BY <2>1 DEF Served, ServedTo
  <2>3. CASE handler[h].at # "check"
    BY <2>1, <2>2, <2>3 DEF Seen, SeenBy
  <2>4. CASE handler[h].at = "check"
    <3>1. [key |-> handler[h].key, entry |-> handler[h].entry] \in [key: Keys, entry: Entries]
      BY <2>4 DEF TypeOK
    <3>2. Seen[h] # None
      BY <2>4, <3>1, NoneAssumption DEF Seen, SeenBy
    <3> QED
      BY <2>1, <2>2, <2>4, <3>2 DEF Seen, SeenBy
  <2> QED
    BY <2>3, <2>4
<1>7. Cache!Pass
  BY <1>5, <1>6 DEF Cache!Pass, Live, Hidden, Seen, Served, SeenBy, ServedTo
<1> QED
  BY <1>7 DEF Cache!Next

LEMMA InitRefines == Init => Cache!Init
<1> SUFFICES ASSUME Init PROVE Cache!Init
  OBVIOUS
<1>1. Live = Empty /\ Hidden = Empty
  BY DEF Init, Live, Hidden
<1>2. Seen = [h \in Handlers |-> None] /\ Served = [h \in Handlers |-> None]
  BY DEF Init, Idle, Seen, Served, SeenBy, ServedTo
<1> QED
  BY <1>1, <1>2 DEF Cache!Init, Cache!Nothing, Cache!Nobody, Empty,
     Live, Hidden, Seen, Served, SeenBy, ServedTo

LEMMA StepRefines == TypeOK /\ [Next]_vars => [Cache!Next]_mapped
<1> SUFFICES ASSUME TypeOK, [Next]_vars PROVE Cache!Next \/ UNCHANGED mapped
  OBVIOUS
<1>1. CASE UNCHANGED vars
  BY <1>1 DEF vars, stores, mapped, Live, Hidden, Seen, Served
<1>2. CASE Next
  BY <1>2, GetMemoryRefines, GetValkeyRefines, CheckExpiryRefines, DropExpiredRefines,
     AnswerRefines, QueryRefines, FillRefines, WritersRefine, RestartRefines, TickRefines
  DEF Next, Proceed
<1> QED
  BY <1>1, <1>2

(* Every lock, command, failure and restart of the two caches is a step of *)
(* the cache the handlers believe in, or none: in particular what the      *)
(* delete of an expired entry removes, and what reappears when a process   *)
(* has Valkey again, never make a Get return more than was stored.         *)
THEOREM ImplementsCache == Spec => CacheSpec
<1>1. TypeOK /\ [Next]_vars => [Cache!Next]_Cache!vars
  BY StepRefines DEF mapped, Live, Hidden, Seen, Served, SeenBy, ServedTo, Cache!vars
<1> QED
  BY InitRefines, <1>1, TypeCorrect, PTL DEF Spec, CacheSpec, Cache!Spec
=============================================================================
