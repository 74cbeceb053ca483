------------------------------ MODULE SyncProofs ------------------------------
(***************************************************************************)
(* Theorems about TmdbSync for any lists, pages, batches, number of slots  *)
(* of the semaphore, changes and failures: the types, the semaphore's      *)
(* bound, that no worker outlives its sync, the day of the first sync,     *)
(* what a sync that succeeds has stored, and what a discovery has found.   *)
(***************************************************************************)
EXTENDS TmdbSync, RankTheorems

-----------------------------------------------------------------------------
(* The calendar.                                                           *)

LEMMA FirstSyncLater ==
  ASSUME NEW t \in Nat
  PROVE  NextSync(t) \in Nat /\ NextSync(t) > t
BY DEF NextSync, DaysUntilMonday, ThreeOClock, Weekday, Day, Week

LEMMA FirstSyncMonday ==
  ASSUME NEW t \in Nat
  PROVE  Weekday(NextSync(t)) = 1
BY DEF NextSync, DaysUntilMonday, ThreeOClock, Weekday, Day, Week

LEMMA FirstSyncAtThree ==
  ASSUME NEW t \in Nat
  PROVE  NextSync(t) = ThreeOClock(Day(NextSync(t)))
BY DEF NextSync, DaysUntilMonday, ThreeOClock, Weekday, Day, Week

LEMMA FirstDueType ==
  ASSUME NEW m, NEW t \in Nat
  PROVE  FirstDue(m, t) \in Nat
BY FirstSyncLater DEF FirstDue

-----------------------------------------------------------------------------
(* The places of TMDb's list, and the movies appended from some of them.   *)

Earlier == {pair \in Nat \X Nat : pair[1] < pair[2]}
Place(places, k) == CHOOSE i \in places : Cardinality({j \in places : j < i}) = k - 1

LEMMA CatalogueType == tmdb \in Catalogues => tmdb \in Seq(Items)
BY CataloguesAssumption

LEMMA EarlierOrders ==
  ASSUME NEW places \in SUBSET Nat
  PROVE  StrictOrder(Earlier, places)
<1>1. \A x, y \in places : <<x, y>> \in Earlier <=> x < y
  BY DEF Earlier
<1> QED
  BY <1>1 DEF StrictOrder

LEMMA PlaceIsNth ==
  ASSUME NEW places \in SUBSET Nat, IsFiniteSet(places), NEW k \in 1..Cardinality(places)
  PROVE  Place(places, k) = Nth(Earlier, places, k)
<1>1. StrictOrder(Earlier, places)
  BY EarlierOrders
<1>2. ASSUME NEW i \in places
      PROVE  Rank(Earlier, places, i) = Cardinality({j \in places : j < i})
  <2>1. Below(Earlier, places, i) = {j \in places : j < i}
    BY DEF Below, Earlier
  <2> QED
    BY <2>1 DEF Rank
<1>3. /\ Nth(Earlier, places, k) \in places
      /\ Rank(Earlier, places, Nth(Earlier, places, k)) = k - 1
  BY <1>1, NthRank
<1>4. /\ Place(places, k) \in places
      /\ Cardinality({j \in places : j < Place(places, k)}) = k - 1
  BY <1>2, <1>3 DEF Place
<1>5. Rank(Earlier, places, Place(places, k)) = Rank(Earlier, places, Nth(Earlier, places, k))
  BY <1>2, <1>3, <1>4
<1> QED
  BY <1>1, <1>3, <1>4, <1>5, RankDecides

(* They are the movies at these places, in the list's order, each once.    *)
LEMMA AppendedLists ==
  ASSUME tmdb \in Seq(Items), NEW places \in SUBSET DOMAIN tmdb
  PROVE  /\ Appended(places) \in Seq(Items)
         /\ Lists(Appended(places), places)
<1> DEFINE size == Cardinality(places)
           found == [k \in 1..size |-> Nth(Earlier, places, k)]
<1>1. places \in SUBSET Nat /\ IsFiniteSet(places) /\ size \in Nat
  <2>1. Len(tmdb) \in Nat /\ DOMAIN tmdb = 1..Len(tmdb)
    OBVIOUS
  <2>2. ASSUME NEW last \in Nat PROVE IsFiniteSet(1..last)
    BY FS_Interval
  <2>3. IsFiniteSet(1..Len(tmdb))
    BY <2>1, <2>2
  <2>4. IsFiniteSet(places)
    BY <2>1, <2>3, FS_Subset
  <2> QED
    BY <2>1, <2>4, FS_CardinalityType
<1>2. StrictOrder(Earlier, places)
  BY <1>1, EarlierOrders
<1>3. \A k \in 1..size : found[k] \in places
  BY <1>1, <1>2, NthRank
<1>4. Appended(places) = [k \in 1..size |-> tmdb[Place(places, k)]]
  BY DEF Appended, Place
<1>5. \A k \in 1..size : Place(places, k) = found[k]
  BY <1>1, PlaceIsNth
<1>6. Appended(places) = [k \in 1..size |-> tmdb[found[k]]]
  BY <1>4, <1>5
<1>7. \A k \in 1..size : tmdb[found[k]] \in Items
  BY <1>3
<1>8. Appended(places) \in Seq(Items) /\ Len(Appended(places)) = size
  BY <1>1, <1>6, <1>7
<1>9. ASSUME NEW k \in 1..size, NEW l \in 1..size, k < l
      PROVE  found[k] < found[l]
  <2>1. <<Nth(Earlier, places, k), Nth(Earlier, places, l)>> \in Earlier
    BY <1>1, <1>2, <1>9, NumbersInOrder
  <2> QED
    BY <2>1 DEF Earlier
<1>10. \A i \in places : \E k \in 1..size : found[k] = i
  BY <1>1, <1>2, EveryoneNumbered
<1>11. found \in [1..size -> places]
  BY <1>3
<1>12. Lists(Appended(places), places)
  <2> HIDE DEF found, size
  <2> QED
    BY <1>6, <1>8, <1>9, <1>10, <1>11 DEF Lists
<1> QED
  BY <1>8, <1>12

(* One page after the other.                                               *)
LEMMA ListsAppend ==
  ASSUME NEW first \in Seq(Items), NEW second \in Seq(Items),
         NEW P \in SUBSET Nat, NEW Q \in SUBSET Nat, \A p \in P, q \in Q : p < q,
         Lists(first, P), Lists(second, Q)
  PROVE  Lists(first \o second, P \cup Q)
<1>1. PICK f \in [1..Len(first) -> P] :
        /\ \A k \in 1..Len(first) : first[k] = tmdb[f[k]]
        /\ \A k, l \in 1..Len(first) : k < l => f[k] < f[l]
        /\ \A i \in P : \E k \in 1..Len(first) : f[k] = i
  BY DEF Lists
<1>2. PICK g \in [1..Len(second) -> Q] :
        /\ \A k \in 1..Len(second) : second[k] = tmdb[g[k]]
        /\ \A k, l \in 1..Len(second) : k < l => g[k] < g[l]
        /\ \A i \in Q : \E k \in 1..Len(second) : g[k] = i
  BY DEF Lists
<1> DEFINE m == Len(first)
           n == Len(second)
           both == first \o second
           h == [k \in 1..(m + n) |-> IF k <= m THEN f[k] ELSE g[k - m]]
<1>3. /\ m \in Nat /\ n \in Nat /\ Len(both) = m + n
      /\ \A k \in 1..(m + n) : both[k] = IF k <= m THEN first[k] ELSE second[k - m]
  OBVIOUS
<1>4. h \in [1..(m + n) -> P \cup Q]
  BY <1>3
<1>5. ASSUME NEW k \in 1..(m + n)
      PROVE  /\ k <= m => k \in 1..m /\ h[k] = f[k] /\ both[k] = first[k]
             /\ ~(k <= m) => /\ k - m \in 1..n
                             /\ h[k] = g[k - m] /\ both[k] = second[k - m]
  BY <1>3
<1> HIDE DEF h, both
<1>6. ASSUME NEW k \in 1..(m + n)
      PROVE  both[k] = tmdb[h[k]]
  BY <1>1, <1>2, <1>5
<1>7. ASSUME NEW k \in 1..(m + n), NEW l \in 1..(m + n), k < l
      PROVE  h[k] < h[l]
  <2>1. CASE l <= m
    <3>1. k <= m
      BY <1>3, <1>7, <2>1
    <3> QED
      BY <1>1, <1>5, <1>7, <2>1, <3>1
  <2>2. CASE k <= m /\ ~(l <= m)
    <3>1. h[k] \in P /\ h[l] \in Q
      BY <1>5, <2>2
    <3> QED
      BY <3>1
  <2>3. CASE ~(k <= m)
    <3>1. ~(l <= m) /\ k - m < l - m
      BY <1>3, <1>7, <2>3
    <3> QED
      BY <1>2, <1>5, <2>3, <3>1
  <2> QED
    BY <2>1, <2>2, <2>3
<1>8. ASSUME NEW i \in P \cup Q
      PROVE  \E k \in 1..(m + n) : h[k] = i
  <2>1. CASE i \in P
    <3>1. PICK k \in 1..m : f[k] = i
      BY <1>1, <2>1
    <3>2. k \in 1..(m + n) /\ h[k] = i
      BY <1>3, <1>5, <3>1
    <3> QED
      BY <3>2
  <2>2. CASE i \in Q
    <3>1. PICK k \in 1..n : g[k] = i
      BY <1>2, <2>2
    <3>2. m + k \in 1..(m + n) /\ ~(m + k <= m) /\ (m + k) - m = k
      BY <1>3, <3>1
    <3>3. h[m + k] = i
      BY <1>5, <3>1, <3>2
    <3> QED
      BY <3>2, <3>3
  <2> QED
    BY <1>8, <2>1, <2>2
<1>9. h \in [1..Len(both) -> P \cup Q]
  BY <1>3, <1>4
<1> HIDE DEF m, n
<1>10. /\ \A k \in 1..Len(both) : both[k] = tmdb[h[k]]
       /\ \A k, l \in 1..Len(both) : k < l => h[k] < h[l]
       /\ \A i \in P \cup Q : \E k \in 1..Len(both) : h[k] = i
  <2>1. Len(both) = m + n
    BY <1>3
  <2>2. \A k \in 1..(m + n) : both[k] = tmdb[h[k]]
    BY <1>6
  <2>3. \A k, l \in 1..(m + n) : k < l => h[k] < h[l]
    BY <1>7
  <2>4. \A i \in P \cup Q : \E k \in 1..(m + n) : h[k] = i
    BY <1>8
  <2> QED
    BY <2>1, <2>2, <2>3, <2>4
<1>11. Lists(both, P \cup Q)
  BY <1>9, <1>10 DEF Lists
<1> QED
  BY <1>11 DEF both

-----------------------------------------------------------------------------
(* The types, and how far a sync has come.                                 *)

Ats == {"timer", "check", "discover", "upsert", "done"}
Stages == {"none", "ids", "exec", "stored", "failed"}
Syncs == [at: Ats, page: Nat \ {0}, batch: Seq(Items), next: Nat \ {0}, bare: SUBSET Nat,
          count: Nat, failed: BOOLEAN,
          steady: BOOLEAN, settled: BOOLEAN, shared: BOOLEAN]

Typed ==
  /\ clock \in 0..(Week - 1) /\ left \in Nat /\ faults \in 0..MaxFaults
  /\ tmdb \in Catalogues
  /\ movies \in [Ids -> Rows \cup {None}]
  /\ sync \in [Runners -> Syncs]
  /\ worker \in [Runners -> [1..MaxBatch -> Stages]]

(* A goroutine for each movie up to the next, in an upsert only.           *)
Placed ==
  \A w \in Runners :
    /\ Len(sync[w].batch) <= MaxBatch
    /\ sync[w].next <= Len(sync[w].batch) + 1
    /\ sync[w].at # "upsert" => sync[w].next = 1
    /\ \A i \in 1..MaxBatch : worker[w][i] # "none" <=> i < sync[w].next

ShapeInv == Typed /\ Placed

LEMMA FreshType ==
  ASSUME NEW at \in Ats
  PROVE  /\ Sync(at) \in Syncs /\ Sync(at).at = at
         /\ Sync(at).batch = <<>> /\ Sync(at).next = 1 /\ Sync(at).page = 1
         /\ Sync(at).bare = {} /\ Sync(at).count = 0
         /\ Sync(at).failed = FALSE /\ Sync(at).steady = TRUE /\ Sync(at).shared = FALSE
BY DEF Sync, Syncs

LEMMA StartedType ==
  ASSUME NEW m
  PROVE  \A w \in Runners : \E at \in {"done", "timer", "check"} : Started(m)[w] = Sync(at)
BY DEF Started

LEMMA StartedTyped ==
  ASSUME NEW m
  PROVE  Started(m) \in [Runners -> Syncs]
<1>1. \A w \in Runners : Started(m)[w] \in Syncs
  BY StartedType, FreshType DEF Ats
<1> QED
  BY <1>1 DEF Started

LEMMA EndsFresh ==
  ASSUME NEW w \in Runners, sync \in [Runners -> Syncs], Ends(w)
  PROVE  /\ sync' \in [Runners -> Syncs]
         /\ \E at \in {"timer", "done"} : sync'[w] = Sync(at)
         /\ \A v \in Runners : v # w => sync'[v] = sync[v]
<1> DEFINE s == Sync(IF w = "periodic" THEN "timer" ELSE "done")
<1>1. s \in Syncs /\ \E at \in {"timer", "done"} : s = Sync(at)
  BY FreshType DEF Ats
<1>2. sync' = [sync EXCEPT ![w] = s]
  BY DEF Ends
<1> HIDE DEF s
<1> QED
  BY <1>1, <1>2

(* Going to upsert only marks those that do so at the same time.           *)
LEMMA SharingSame ==
  ASSUME NEW w \in Runners, sync \in [Runners -> Syncs]
  PROVE  /\ Sharing(w) \in [Runners -> Syncs]
         /\ \A v \in Runners :
              /\ Sharing(w)[v].at = sync[v].at
              /\ Sharing(w)[v].page = sync[v].page
              /\ Sharing(w)[v].batch = sync[v].batch
              /\ Sharing(w)[v].next = sync[v].next
              /\ Sharing(w)[v].bare = sync[v].bare
              /\ Sharing(w)[v].count = sync[v].count
              /\ Sharing(w)[v].failed = sync[v].failed
              /\ Sharing(w)[v].steady = sync[v].steady
              /\ Sharing(w)[v].settled = sync[v].settled
              /\ sync[v].shared => Sharing(w)[v].shared
              /\ \A u \in Runners : u # w /\ sync[u].at = "upsert" /\ v \in {u, w}
                                      => Sharing(w)[v].shared
<1> DEFINE beside == {v \in Runners \ {w} : sync[v].at = "upsert"}
           mark(v) == sync[v].shared \/ v \in beside \/ (v = w /\ beside # {})
<1>1. Sharing(w) = [v \in Runners |-> [sync[v] EXCEPT !.shared = mark(v)]]
  BY DEF Sharing
<1>2. \A v \in Runners : mark(v) \in BOOLEAN
  OBVIOUS
<1>3. /\ \A v \in Runners : sync[v].shared => mark(v)
      /\ \A u, v \in Runners : u # w /\ sync[u].at = "upsert" /\ v \in {u, w} => mark(v)
  OBVIOUS
<1> HIDE DEF mark
<1>4. Sharing(w) \in [Runners -> Syncs]
  <2>1. ASSUME NEW s \in Syncs, NEW b \in BOOLEAN
        PROVE  [s EXCEPT !.shared = b] \in Syncs
    BY DEF Syncs
  <2>2. \A v \in Runners : [sync[v] EXCEPT !.shared = mark(v)] \in Syncs
    BY <1>2, <2>1
  <2> QED
    BY <1>1, <2>2
<1>5. ASSUME NEW v \in Runners
      PROVE  /\ Sharing(w)[v].at = sync[v].at
             /\ Sharing(w)[v].page = sync[v].page
             /\ Sharing(w)[v].batch = sync[v].batch
             /\ Sharing(w)[v].next = sync[v].next
             /\ Sharing(w)[v].bare = sync[v].bare
             /\ Sharing(w)[v].count = sync[v].count
             /\ Sharing(w)[v].failed = sync[v].failed
             /\ Sharing(w)[v].steady = sync[v].steady
             /\ Sharing(w)[v].settled = sync[v].settled
             /\ Sharing(w)[v].shared = mark(v)
  BY <1>1 DEF Syncs
<1> QED
  BY <1>3, <1>4, <1>5

LEMMA PlacesOfPage ==
  ASSUME NEW page \in Nat \ {0}, tmdb \in Seq(Items)
  PROVE  Taken \cap OnPage(page) \in SUBSET DOMAIN tmdb
BY DEF Taken, OnPage

LEMMA KeptLists ==
  ASSUME NEW page \in Nat \ {0}, tmdb \in Seq(Items)
  PROVE  Kept(page) \in Seq(Items) /\ Lists(Kept(page), Taken \cap OnPage(page))
BY PlacesOfPage, AppendedLists DEF Kept

(* The three ways of a request: another page, the last one, an error.      *)
LEMMA DiscoverWays ==
  ASSUME ShapeInv, NEW w \in Runners, DiscoverPage(w)
  PROVE  LET s == sync[w]
             batch == s.batch \o Kept(s.page) IN
         /\ s.at = "discover" /\ batch \in Seq(Items)
         /\ UNCHANGED <<mode, tmdb, changes, movies, clock, worker>>
         /\ \/ /\ Len(batch) <= MaxBatch /\ Stops(s.page)
               /\ sync' = [Sharing(w) EXCEPT ![w].batch = batch, ![w].at = "upsert"]
               /\ UNCHANGED <<left, faults>>
            \/ /\ Len(batch) <= MaxBatch
               /\ sync' = [sync EXCEPT ![w].batch = batch, ![w].page = s.page + 1]
               /\ UNCHANGED <<left, faults>>
            \/ Ends(w) /\ Faulty
<1> DEFINE s == sync[w]
           batch == s.batch \o Kept(s.page)
<1>1. s \in Syncs
  BY DEF ShapeInv, Typed
<1>2. tmdb \in Seq(Items) /\ s.batch \in Seq(Items) /\ s.page \in Nat \ {0}
  BY <1>1, CatalogueType DEF ShapeInv, Typed, Syncs
<1>3. batch \in Seq(Items)
  <2>1. Kept(s.page) \in Seq(Items)
    BY <1>2, KeptLists
  <2> QED
    BY <1>2, <2>1
<1>4. w \in DOMAIN sync /\ w \in DOMAIN Sharing(w)
  BY DEF ShapeInv, Typed, Sharing
<1>5. \/ /\ Len(batch) <= MaxBatch
         /\ sync' = IF Stops(s.page)
                      THEN [Sharing(w) EXCEPT ![w].batch = @ \o Kept(s.page), ![w].at = "upsert"]
                      ELSE [sync EXCEPT ![w].batch = @ \o Kept(s.page), ![w].page = @ + 1]
         /\ Healthy /\ UNCHANGED left
      \/ Ends(w) /\ Faulty
  BY DEF DiscoverPage
<1>6. Sharing(w)[w].batch = s.batch
  BY SharingSame DEF ShapeInv, Typed
<1>7. /\ [Sharing(w) EXCEPT ![w].batch = @ \o Kept(s.page), ![w].at = "upsert"]
           = [Sharing(w) EXCEPT ![w].batch = batch, ![w].at = "upsert"]
      /\ [sync EXCEPT ![w].batch = @ \o Kept(s.page), ![w].page = @ + 1]
           = [sync EXCEPT ![w].batch = batch, ![w].page = s.page + 1]
  BY <1>6
<1>8. s.at = "discover" /\ UNCHANGED <<mode, tmdb, changes, movies, clock, worker>>
  BY DEF DiscoverPage, outside
<1> QED
  BY <1>3, <1>5, <1>7, <1>8 DEF Healthy

(* A fresh sync has no goroutine.                                          *)
LEMMA IdlePlaced ==
  ASSUME NEW w \in Runners, NEW at \in Ats, at # "upsert",
         NEW s, s = Sync(at), NEW stages, stages = NoWorkers
  PROVE  /\ Len(s.batch) <= MaxBatch
         /\ s.next <= Len(s.batch) + 1
         /\ s.at # "upsert" => s.next = 1
         /\ \A i \in 1..MaxBatch : stages[i] # "none" <=> i < s.next
<1>1. s.batch = <<>> /\ s.next = 1 /\ s.at # "upsert"
  BY FreshType
<1>2. \A i \in 1..MaxBatch : stages[i] = "none" /\ ~(i < 1)
  BY DEF NoWorkers
<1> QED
  BY <1>1, <1>2, BoundsAssumption

LEMMA StartPlaced ==
  ASSUME NEW m, sync' = Started(m), worker' = [w \in Runners |-> NoWorkers]
  PROVE  Placed'
<1> SUFFICES ASSUME NEW w \in Runners
             PROVE  /\ Len(sync'[w].batch) <= MaxBatch
                    /\ sync'[w].next <= Len(sync'[w].batch) + 1
                    /\ sync'[w].at # "upsert" => sync'[w].next = 1
                    /\ \A i \in 1..MaxBatch : worker'[w][i] # "none" <=> i < sync'[w].next
  BY DEF Placed
<1>1. PICK at \in {"done", "timer", "check"} : sync'[w] = Sync(at)
  BY StartedType
<1>2. worker'[w] = NoWorkers
  OBVIOUS
<1>3. at \in Ats /\ at # "upsert"
  BY DEF Ats
<1> QED
  BY <1>1, <1>2, <1>3, IdlePlaced

LEMMA InitShape == Init => ShapeInv
<1> SUFFICES ASSUME Init PROVE ShapeInv
  OBVIOUS
<1>1. clock \in 0..(Week - 1)
  BY BoundsAssumption DEF Init, Week
<1>2. left \in Nat
  BY <1>1, FirstDueType DEF Init, Week
<1>3. sync \in [Runners -> Syncs]
  BY StartedTyped DEF Init
<1>4. worker \in [Runners -> [1..MaxBatch -> Stages]]
  BY DEF Init, NoWorkers, Stages
<1>5. faults \in 0..MaxFaults /\ tmdb \in Catalogues /\ movies \in [Ids -> Rows \cup {None}]
  BY BoundsAssumption DEF Init
<1>6. ASSUME NEW w \in Runners
      PROVE  /\ Len(sync[w].batch) <= MaxBatch
             /\ sync[w].next <= Len(sync[w].batch) + 1
             /\ sync[w].at # "upsert" => sync[w].next = 1
             /\ \A i \in 1..MaxBatch : worker[w][i] # "none" <=> i < sync[w].next
  <2>1. sync = Started(mode) /\ worker[w] = NoWorkers
    BY DEF Init
  <2>2. PICK at \in {"done", "timer", "check"} : sync[w] = Sync(at)
    BY <2>1, StartedType
  <2>3. at \in Ats /\ at # "upsert"
    BY DEF Ats
  <2> QED
    BY <2>1, <2>2, <2>3, IdlePlaced
<1> QED
  BY <1>1, <1>2, <1>3, <1>4, <1>5, <1>6 DEF ShapeInv, Typed, Placed

LEMMA CheckShape ==
  ASSUME ShapeInv, SeedCheck \/ Fire
  PROVE  ShapeInv'
<1>1. PICK w \in Runners, at \in {"discover", "done"} :
        sync[w].at # "upsert" /\ sync' = [sync EXCEPT ![w].at = at]
  BY DEF SeedCheck, Fire, Runners
<1>2. sync' \in [Runners -> Syncs]
  BY <1>1 DEF ShapeInv, Typed, Syncs, Ats
<1>3. /\ \A v \in Runners : v # w => sync'[v] = sync[v]
      /\ sync'[w].next = sync[w].next /\ sync'[w].batch = sync[w].batch
  BY <1>1 DEF ShapeInv, Typed, Syncs
<1>4. UNCHANGED <<tmdb, movies, clock, left, worker>> /\ faults' \in 0..MaxFaults
  BY BoundsAssumption DEF SeedCheck, Fire, outside, Healthy, Faulty, ShapeInv, Typed
<1>5. Placed'
  BY <1>1, <1>3, <1>4 DEF ShapeInv, Placed
<1> QED
  BY <1>2, <1>4, <1>5 DEF ShapeInv, Typed

LEMMA ChangesShape ==
  ASSUME ShapeInv, TmdbChanges
  PROVE  ShapeInv'
<1>1. \A w \in Runners : sync'[w] \in {sync[w], [sync[w] EXCEPT !.steady = FALSE]}
  BY DEF TmdbChanges
<1>2. \A s \in Syncs : /\ [s EXCEPT !.steady = FALSE] \in Syncs
                       /\ [s EXCEPT !.steady = FALSE].at = s.at
                       /\ [s EXCEPT !.steady = FALSE].next = s.next
                       /\ [s EXCEPT !.steady = FALSE].batch = s.batch
  BY DEF Syncs
<1>3. \A w \in Runners : /\ sync'[w] \in Syncs /\ sync'[w].at = sync[w].at
                         /\ sync'[w].next = sync[w].next /\ sync'[w].batch = sync[w].batch
  BY <1>1, <1>2 DEF ShapeInv, Typed
<1>4. sync' \in [Runners -> Syncs]
  BY <1>3 DEF TmdbChanges
<1>5. UNCHANGED <<movies, clock, left, worker, faults>> /\ tmdb' \in Catalogues
  BY DEF TmdbChanges
<1> QED
  BY <1>3, <1>4, <1>5 DEF ShapeInv, Typed, Placed

(* IMDb ids that come and go leave the syncs as they are.                  *)
LEMMA IdentifiesWays ==
  ASSUME ShapeInv, TmdbIdentifies
  PROVE  /\ sync' \in [Runners -> Syncs]
         /\ \A w \in Runners :
              /\ sync'[w].at = sync[w].at /\ sync'[w].page = sync[w].page
              /\ sync'[w].batch = sync[w].batch /\ sync'[w].next = sync[w].next
              /\ sync'[w].bare = sync[w].bare /\ sync'[w].count = sync[w].count
              /\ sync'[w].failed = sync[w].failed /\ sync'[w].steady = sync[w].steady
              /\ sync'[w].shared = sync[w].shared
              /\ sync[w].at = "upsert" => sync'[w].settled = FALSE
         /\ UNCHANGED <<tmdb, movies, clock, left, worker, faults>>
<1>1. ASSUME NEW s \in Syncs
      PROVE  LET t == [s EXCEPT !.settled = FALSE] IN
             /\ t \in Syncs /\ t.at = s.at /\ t.page = s.page /\ t.batch = s.batch
             /\ t.next = s.next /\ t.bare = s.bare /\ t.count = s.count
             /\ t.failed = s.failed /\ t.steady = s.steady /\ t.shared = s.shared
             /\ t.settled = FALSE
  BY DEF Syncs
<1>2. \A w \in Runners : sync[w] \in Syncs
  BY DEF ShapeInv, Typed
<1>3. sync' = [w \in Runners |-> IF sync[w].at = "upsert"
                                THEN [sync[w] EXCEPT !.settled = FALSE] ELSE sync[w]]
  BY DEF TmdbIdentifies
<1>4. sync' \in [Runners -> Syncs]
  BY <1>1, <1>2, <1>3
<1>5. UNCHANGED <<tmdb, movies, clock, left, worker, faults>>
  BY DEF TmdbIdentifies
<1> QED
  BY <1>1, <1>2, <1>3, <1>4, <1>5

LEMMA IdentifiesShape ==
  ASSUME ShapeInv, TmdbIdentifies
  PROVE  ShapeInv'
BY IdentifiesWays DEF ShapeInv, Typed, Placed

LEMMA TickShape ==
  ASSUME ShapeInv, Tick
  PROVE  ShapeInv'
<1>1. clock' \in 0..(Week - 1) /\ left' \in Nat
  BY DEF Tick, ShapeInv, Typed, Week
<1>2. UNCHANGED <<tmdb, movies, sync, worker, faults>>
  BY DEF Tick, outside
<1> QED
  BY <1>1, <1>2 DEF ShapeInv, Typed, Placed

LEMMA RestartShape ==
  ASSUME ShapeInv, Restart
  PROVE  ShapeInv'
<1>1. left' \in Nat
  BY FirstDueType DEF Restart, ShapeInv, Typed, Week
<1>2. sync' \in [Runners -> Syncs]
  BY StartedTyped DEF Restart
<1>3. worker' \in [Runners -> [1..MaxBatch -> Stages]]
  BY DEF Restart, NoWorkers, Stages
<1>4. faults' \in 0..MaxFaults /\ UNCHANGED <<tmdb, movies, clock>>
  BY BoundsAssumption DEF Restart, Faulty, outside, ShapeInv, Typed
<1>5. Placed'
  BY StartPlaced DEF Restart
<1> QED
  BY <1>1, <1>2, <1>3, <1>4, <1>5 DEF ShapeInv, Typed

(* What the end of a sync leaves of it.                                    *)
LEMMA EndsPlaced ==
  ASSUME ShapeInv, NEW w \in Runners, Ends(w), worker'[w] = NoWorkers,
         \A v \in Runners : v # w => worker'[v] = worker[v]
  PROVE  Placed' /\ left' \in Nat
<1>1. PICK at \in {"timer", "done"} : sync'[w] = Sync(at)
  BY EndsFresh DEF ShapeInv, Typed
<1>2. \A v \in Runners : v # w => sync'[v] = sync[v]
  BY EndsFresh DEF ShapeInv, Typed
<1>3. at \in Ats /\ at # "upsert"
  BY DEF Ats
<1>4. /\ Len(sync'[w].batch) <= MaxBatch
      /\ sync'[w].next <= Len(sync'[w].batch) + 1
      /\ sync'[w].at # "upsert" => sync'[w].next = 1
      /\ \A i \in 1..MaxBatch : worker'[w][i] # "none" <=> i < sync'[w].next
  BY <1>1, <1>3, IdlePlaced
<1>5. Placed'
  BY <1>2, <1>4 DEF ShapeInv, Placed
<1>6. left' \in Nat
  BY DEF Ends, Week, ShapeInv, Typed
<1> QED
  BY <1>5, <1>6

(* Before its upserts a sync has no goroutine.                             *)
LEMMA NoneYet ==
  ASSUME ShapeInv, NEW w \in Runners, sync[w].at # "upsert"
  PROVE  worker[w] = NoWorkers
<1>1. worker[w] \in [1..MaxBatch -> Stages]
  BY DEF ShapeInv, Typed
<1>2. \A i \in 1..MaxBatch : ~(i < 1)
  BY BoundsAssumption
<1>3. \A i \in 1..MaxBatch : worker[w][i] = "none"
  BY <1>2 DEF ShapeInv, Placed
<1> QED
  BY <1>1, <1>3 DEF NoWorkers

(* A discovery changes the batch only.                                     *)
LEMMA DiscoverPlaced ==
  ASSUME ShapeInv, NEW w \in Runners, sync[w].at = "discover", worker' = worker,
         Len(sync'[w].batch) \in Nat, Len(sync'[w].batch) <= MaxBatch,
         sync'[w].next = sync[w].next,
         \A v \in Runners : v # w => /\ sync'[v].at = sync[v].at
                                     /\ sync'[v].batch = sync[v].batch
                                     /\ sync'[v].next = sync[v].next
  PROVE  Placed'
<1> SUFFICES ASSUME NEW v \in Runners
             PROVE  /\ Len(sync'[v].batch) <= MaxBatch
                    /\ sync'[v].next <= Len(sync'[v].batch) + 1
                    /\ sync'[v].at # "upsert" => sync'[v].next = 1
                    /\ \A i \in 1..MaxBatch : worker'[v][i] # "none" <=> i < sync'[v].next
  BY DEF Placed
<1>1. CASE v = w
  <2>1. sync[w].next = 1 /\ \A i \in 1..MaxBatch : worker[w][i] # "none" <=> i < sync[w].next
    BY DEF ShapeInv, Placed
  <2> QED
    BY <1>1, <2>1
<1>2. CASE v # w
  BY <1>2 DEF ShapeInv, Placed
<1> QED
  BY <1>1, <1>2

LEMMA DiscoveredType ==
  ASSUME NEW s \in Syncs, NEW batch \in Seq(Items)
  PROVE  /\ [s EXCEPT !.batch = batch, !.at = "upsert"] \in Syncs
         /\ \A page \in Nat \ {0} : [s EXCEPT !.batch = batch, !.page = page] \in Syncs
BY DEF Syncs, Ats

LEMMA DiscoverShape ==
  ASSUME ShapeInv, NEW w \in Runners, DiscoverPage(w)
  PROVE  ShapeInv'
<1> DEFINE s == sync[w]
           batch == s.batch \o Kept(s.page)
<1>1. s.at = "discover" /\ batch \in Seq(Items)
      /\ UNCHANGED <<mode, tmdb, changes, movies, clock, worker>>
  BY DiscoverWays
<1>2. sync \in [Runners -> Syncs] /\ s \in Syncs
  BY DEF ShapeInv, Typed
<1> HIDE DEF batch
<1>3. CASE /\ Len(batch) <= MaxBatch
           /\ sync' = [Sharing(w) EXCEPT ![w].batch = batch, ![w].at = "upsert"]
           /\ UNCHANGED <<left, faults>>
  <2> DEFINE t == Sharing(w)
  <2>1. /\ t \in [Runners -> Syncs]
        /\ \A v \in Runners : /\ t[v].at = sync[v].at /\ t[v].batch = sync[v].batch
                              /\ t[v].next = sync[v].next
    BY <1>2, SharingSame
  <2>2. sync' = [t EXCEPT ![w].batch = batch, ![w].at = "upsert"]
    BY <1>3
  <2> HIDE DEF t
  <2>3. sync' \in [Runners -> Syncs]
    <3> DEFINE after == [t[w] EXCEPT !.batch = batch, !.at = "upsert"]
    <3>0. t[w] \in Syncs
      BY <2>1
    <3>1. after \in Syncs
      BY <1>1, <3>0, DiscoveredType
    <3>2. sync' = [t EXCEPT ![w] = after]
      BY <2>1, <2>2
    <3> HIDE DEF after
    <3> QED
      BY <2>1, <3>1, <3>2
  <2>4. /\ sync'[w].at = "upsert" /\ sync'[w].batch = batch /\ sync'[w].next = s.next
        /\ \A v \in Runners : v # w => /\ sync'[v].at = sync[v].at
                                       /\ sync'[v].batch = sync[v].batch
                                       /\ sync'[v].next = sync[v].next
    BY <2>1, <2>2 DEF Syncs
  <2>5. Len(batch) \in Nat
    BY <1>1
  <2>6. Placed'
    BY <1>1, <1>3, <2>4, <2>5, DiscoverPlaced
  <2> QED
    BY <1>1, <1>3, <2>3, <2>6 DEF ShapeInv, Typed
<1>4. CASE /\ Len(batch) <= MaxBatch
           /\ sync' = [sync EXCEPT ![w].batch = batch, ![w].page = s.page + 1]
           /\ UNCHANGED <<left, faults>>
  <2>1. sync' \in [Runners -> Syncs]
    <3>1. sync' = [sync EXCEPT ![w] = [s EXCEPT !.batch = batch, !.page = s.page + 1]]
      BY <1>2, <1>4
    <3>2. s.page + 1 \in Nat \ {0}
      BY <1>2 DEF Syncs
    <3>3. [s EXCEPT !.batch = batch, !.page = s.page + 1] \in Syncs
      BY <1>1, <1>2, <3>2, DiscoveredType
    <3> QED
      BY <1>2, <3>1, <3>3
  <2>2. /\ sync'[w].at = s.at /\ sync'[w].batch = batch /\ sync'[w].next = s.next
        /\ \A v \in Runners : v # w => sync'[v] = sync[v]
    BY <1>2, <1>4 DEF Syncs
  <2>3. Len(batch) \in Nat
    BY <1>1
  <2>4. Placed'
    BY <1>1, <1>4, <2>2, <2>3, DiscoverPlaced
  <2> QED
    BY <1>1, <1>4, <2>1, <2>4 DEF ShapeInv, Typed
<1>5. CASE Ends(w) /\ Faulty
  <2>1. worker[w] = NoWorkers
    BY <1>1, NoneYet
  <2>2. Placed' /\ left' \in Nat
    BY <1>1, <1>5, <2>1, EndsPlaced
  <2>3. sync' \in [Runners -> Syncs]
    BY <1>2, <1>5, EndsFresh
  <2>4. faults' \in 0..MaxFaults
    BY <1>5, BoundsAssumption DEF Faulty, ShapeInv, Typed
  <2> QED
    BY <1>1, <2>2, <2>3, <2>4 DEF ShapeInv, Typed
<1> QED
  BY <1>3, <1>4, <1>5, DiscoverWays DEF batch

(* What the upserts set of a sync.                                         *)
LEMMA FieldsSet ==
  ASSUME NEW s \in Syncs
  PROVE  /\ [s EXCEPT !.next = s.next + 1] \in Syncs
         /\ \A i \in Nat : [s EXCEPT !.bare = s.bare \cup {i}] \in Syncs
         /\ [s EXCEPT !.count = s.count + 1] \in Syncs
         /\ [s EXCEPT !.failed = TRUE] \in Syncs
<1>1. s.next + 1 \in Nat \ {0} /\ s.count + 1 \in Nat
  BY DEF Syncs
<1>2. \A n \in Nat \ {0} : [s EXCEPT !.next = n] \in Syncs
  BY DEF Syncs
<1>3. \A n \in Nat : [s EXCEPT !.count = n] \in Syncs
  BY DEF Syncs
<1>4. \A set \in SUBSET Nat : [s EXCEPT !.bare = set] \in Syncs
  BY DEF Syncs
<1>5. [s EXCEPT !.failed = TRUE] \in Syncs
  BY DEF Syncs
<1>6. \A i \in Nat : s.bare \cup {i} \in SUBSET Nat
  BY DEF Syncs
<1> QED
  BY <1>1, <1>2, <1>3, <1>4, <1>5, <1>6

LEMMA SpawnShape ==
  ASSUME ShapeInv, NEW w \in Runners, Spawn(w)
  PROVE  ShapeInv'
<1> DEFINE i == sync[w].next
<1>1. /\ sync[w].at = "upsert" /\ i <= Len(sync[w].batch)
      /\ sync' = [sync EXCEPT ![w].next = i + 1] /\ worker' = [worker EXCEPT ![w][i] = "ids"]
      /\ UNCHANGED <<tmdb, movies, clock, left, faults>>
  BY DEF Spawn, outside
<1>2. sync \in [Runners -> Syncs] /\ worker \in [Runners -> [1..MaxBatch -> Stages]]
  BY DEF ShapeInv, Typed
<1>3. i \in Nat \ {0} /\ Len(sync[w].batch) \in Nat
  BY <1>2 DEF Syncs
<1>4. i \in 1..MaxBatch
  <2>1. Len(sync[w].batch) <= MaxBatch
    BY DEF ShapeInv, Placed
  <2> QED
    BY <1>1, <1>3, <2>1, BoundsAssumption
<1> HIDE DEF i
<1>5. sync' \in [Runners -> Syncs]
  <2>1. [sync[w] EXCEPT !.next = sync[w].next + 1] \in Syncs
    BY <1>2, FieldsSet
  <2> QED
    BY <1>1, <1>2, <2>1 DEF i
<1>6. worker' \in [Runners -> [1..MaxBatch -> Stages]]
  BY <1>1, <1>2 DEF Stages
<1>7. /\ sync'[w].at = "upsert" /\ sync'[w].batch = sync[w].batch /\ sync'[w].next = i + 1
      /\ \A v \in Runners : v # w => sync'[v] = sync[v] /\ worker'[v] = worker[v]
  BY <1>1, <1>2 DEF Syncs
<1>8. \A j \in 1..MaxBatch : worker'[w][j] = IF j = i THEN "ids" ELSE worker[w][j]
  BY <1>1, <1>2, <1>4
<1>9. ASSUME NEW j \in 1..MaxBatch
      PROVE  worker'[w][j] # "none" <=> j < i + 1
  <2>1. worker[w][j] # "none" <=> j < i
    BY DEF ShapeInv, Placed, i
  <2> QED
    BY <1>3, <1>8, <2>1
<1>10. Placed'
  <2> SUFFICES ASSUME NEW v \in Runners
               PROVE  /\ Len(sync'[v].batch) <= MaxBatch
                      /\ sync'[v].next <= Len(sync'[v].batch) + 1
                      /\ sync'[v].at # "upsert" => sync'[v].next = 1
                      /\ \A j \in 1..MaxBatch : worker'[v][j] # "none" <=> j < sync'[v].next
    BY DEF Placed
  <2>1. CASE v = w
    <3>1. Len(sync[w].batch) <= MaxBatch
      BY DEF ShapeInv, Placed
    <3>2. i + 1 <= Len(sync[w].batch) + 1
      BY <1>1, <1>3 DEF i
    <3> QED
      BY <1>7, <1>9, <2>1, <3>1, <3>2
  <2>2. CASE v # w
    BY <1>7, <2>2 DEF ShapeInv, Placed
  <2> QED
    BY <2>1, <2>2
<1> QED
  BY <1>1, <1>5, <1>6, <1>10 DEF ShapeInv, Typed

(* The steps of a goroutine: it has been started by an upsert, for a movie *)
(* of the batch, and only counts, reports an error or leaves out the ids.  *)
LEMMA AtWork ==
  ASSUME ShapeInv, NEW w \in Runners, NEW i \in 1..MaxBatch, worker[w][i] # "none"
  PROVE  /\ sync[w].at = "upsert" /\ i < sync[w].next
         /\ i \in DOMAIN sync[w].batch /\ sync[w].batch[i] \in Items
<1>1. sync[w] \in Syncs
  BY DEF ShapeInv, Typed
<1>2. sync[w].next \in Nat /\ sync[w].batch \in Seq(Items) /\ Len(sync[w].batch) \in Nat
  BY <1>1 DEF Syncs
<1>3. i < sync[w].next /\ sync[w].next <= Len(sync[w].batch) + 1
  BY DEF ShapeInv, Placed
<1>4. sync[w].at = "upsert"
  <2>1. sync[w].at # "upsert" => sync[w].next = 1
    BY DEF ShapeInv, Placed
  <2> QED
    BY <1>3, <2>1
<1>5. i \in 1..Len(sync[w].batch)
  BY <1>2, <1>3
<1> QED
  BY <1>2, <1>3, <1>4, <1>5

LEMMA RowType ==
  ASSUME ShapeInv, NEW w \in Runners, NEW i \in 1..MaxBatch, worker[w][i] # "none"
  PROVE  /\ Row(w, i) \in Rows /\ sync[w].batch[i].id \in Ids
         /\ Row(w, i).version = sync[w].batch[i].version
         /\ Row(w, i).linked <=> i \notin sync[w].bare
         /\ Written(w, i) \in [Ids -> Rows \cup {None}]
<1>1. sync[w].batch[i].id \in Ids /\ sync[w].batch[i].version \in Versions
  BY AtWork DEF Items
<1>2. Row(w, i) \in Rows
  BY <1>1 DEF Row, Rows
<1>3. Written(w, i) \in [Ids -> Rows \cup {None}]
  BY <1>1, <1>2 DEF Written, ShapeInv, Typed
<1> QED
  BY <1>1, <1>2, <1>3 DEF Row

WorkerStep(w, i) == FetchIDs(w, i) \/ Stored(w, i) \/ UpsertFails(w, i)

LEMMA WorkerWays ==
  ASSUME ShapeInv, NEW w \in Runners, NEW i \in 1..MaxBatch, WorkerStep(w, i)
  PROVE  /\ i \in Active(w)
         /\ sync' \in [Runners -> Syncs]
         /\ \A v \in Runners : v # w => sync'[v] = sync[v]
         /\ sync'[w].at = sync[w].at /\ sync'[w].page = sync[w].page
         /\ sync'[w].batch = sync[w].batch /\ sync'[w].next = sync[w].next
         /\ sync'[w].steady = sync[w].steady /\ sync'[w].settled = sync[w].settled
         /\ sync'[w].shared = sync[w].shared
         /\ \E stage \in Stages \ {"none"} : worker' = [worker EXCEPT ![w][i] = stage]
         /\ movies' \in {movies, Written(w, i)}
         /\ UNCHANGED <<tmdb, clock, left>> /\ faults' \in 0..MaxFaults
<1>1. sync \in [Runners -> Syncs]
  BY DEF ShapeInv, Typed
<1>2. \/ sync' = sync
      \/ sync' = [sync EXCEPT ![w].bare = @ \cup {i}]
      \/ sync' = [sync EXCEPT ![w].count = @ + 1]
      \/ sync' = [sync EXCEPT ![w] = [sync[w] EXCEPT !.failed = TRUE]]
  BY DEF WorkerStep, FetchIDs, Stored, UpsertFails, ReportError
<1>3. sync' \in [Runners -> Syncs]
  <2>0. sync[w] \in Syncs /\ i \in Nat
    BY <1>1
  <2>1. /\ [sync[w] EXCEPT !.bare = sync[w].bare \cup {i}] \in Syncs
        /\ [sync[w] EXCEPT !.count = sync[w].count + 1] \in Syncs
        /\ [sync[w] EXCEPT !.failed = TRUE] \in Syncs
    BY <2>0, FieldsSet, Zenon
  <2> QED
    BY <1>1, <1>2, <2>1
<1>4. /\ \A v \in Runners : v # w => sync'[v] = sync[v]
      /\ sync'[w].at = sync[w].at /\ sync'[w].page = sync[w].page
      /\ sync'[w].batch = sync[w].batch /\ sync'[w].next = sync[w].next
      /\ sync'[w].steady = sync[w].steady /\ sync'[w].settled = sync[w].settled
      /\ sync'[w].shared = sync[w].shared
  BY <1>1, <1>2 DEF Syncs
<1>5. \E stage \in Stages \ {"none"} : worker' = [worker EXCEPT ![w][i] = stage]
  BY DEF WorkerStep, FetchIDs, Stored, UpsertFails, Stages
<1>6. i \in Active(w) /\ UNCHANGED <<tmdb, clock, left>>
      /\ movies' \in {movies, Written(w, i)}
  BY DEF WorkerStep, FetchIDs, Stored, UpsertFails, Active, outside
<1>7. faults' \in 0..MaxFaults
  <2>1. faults' = faults \/ Faulty
    BY DEF WorkerStep, FetchIDs, Stored, UpsertFails, Healthy
  <2> QED
    BY <2>1, BoundsAssumption DEF Faulty, ShapeInv, Typed
<1> QED
  BY <1>3, <1>4, <1>5, <1>6, <1>7

(* It writes only when it has asked for the ids.                           *)
LEMMA WorkerWrites ==
  ASSUME ShapeInv, NEW w \in Runners, NEW i \in 1..MaxBatch, WorkerStep(w, i)
  PROVE  /\ movies' = movies \/ (worker[w][i] = "exec" /\ movies' = Written(w, i))
         /\ faults' = 0 => faults = 0
<1>1. movies' = movies \/ (worker[w][i] = "exec" /\ movies' = Written(w, i))
  BY DEF WorkerStep, FetchIDs, Stored, UpsertFails
<1>2. faults' = 0 => faults = 0
  <2>1. faults' = faults \/ Faulty
    BY DEF WorkerStep, FetchIDs, Stored, UpsertFails, Healthy
  <2> QED
    BY <2>1, BoundsAssumption DEF Faulty, ShapeInv, Typed
<1> QED
  BY <1>1, <1>2

LEMMA WorkerShape ==
  ASSUME ShapeInv, NEW w \in Runners, NEW i \in 1..MaxBatch, WorkerStep(w, i)
  PROVE  ShapeInv'
<1>1. worker[w][i] # "none"
  BY WorkerWays DEF Active
<1>2. PICK stage \in Stages \ {"none"} : worker' = [worker EXCEPT ![w][i] = stage]
  BY WorkerWays
<1>3. worker \in [Runners -> [1..MaxBatch -> Stages]] /\ movies \in [Ids -> Rows \cup {None}]
  BY DEF ShapeInv, Typed
<1>4. /\ worker' \in [Runners -> [1..MaxBatch -> Stages]]
      /\ \A v \in Runners, j \in 1..MaxBatch : worker'[v][j] # "none" <=> worker[v][j] # "none"
  BY <1>1, <1>2, <1>3
<1>5. movies' \in [Ids -> Rows \cup {None}]
  BY <1>1, <1>3, WorkerWays, RowType
<1>6. \A v \in Runners : /\ sync'[v].at = sync[v].at /\ sync'[v].batch = sync[v].batch
                         /\ sync'[v].next = sync[v].next
  BY WorkerWays
<1>7. Placed'
  BY <1>4, <1>6 DEF ShapeInv, Placed
<1>8. Typed'
  BY <1>4, <1>5, WorkerWays DEF ShapeInv, Typed
<1> QED
  BY <1>7, <1>8 DEF ShapeInv

LEMMA ReturnWays ==
  ASSUME ShapeInv, NEW w \in Runners, Return(w)
  PROVE  /\ sync[w].at = "upsert" /\ sync[w].next = Len(sync[w].batch) + 1
         /\ Active(w) = {} /\ Ends(w)
         /\ worker' = [worker EXCEPT ![w] = NoWorkers]
         /\ UNCHANGED <<tmdb, movies, clock, faults>>
<1>1. Active(w) = {} /\ sync[w].at = "upsert" /\ sync[w].next > Len(sync[w].batch) /\ Ends(w)
  BY DEF Return, Waited
<1>2. sync[w].next <= Len(sync[w].batch) + 1 /\ sync[w].next \in Nat /\ Len(sync[w].batch) \in Nat
  BY DEF ShapeInv, Typed, Placed, Syncs
<1>3. worker' = [worker EXCEPT ![w] = NoWorkers]
  <2>1. [i \in 1..MaxBatch |-> IF i \in Active(w) THEN worker[w][i] ELSE "none"] = NoWorkers
    BY <1>1 DEF NoWorkers
  <2> QED
    BY <2>1 DEF Return
<1>4. sync[w].next = Len(sync[w].batch) + 1
  BY <1>1, <1>2
<1> QED
  BY <1>1, <1>3, <1>4 DEF Return, outside

LEMMA ReturnShape ==
  ASSUME ShapeInv, NEW w \in Runners, Return(w)
  PROVE  ShapeInv'
<1>1. worker \in [Runners -> [1..MaxBatch -> Stages]]
  BY DEF ShapeInv, Typed
<1>2. worker' = [worker EXCEPT ![w] = NoWorkers] /\ NoWorkers \in [1..MaxBatch -> Stages]
  BY ReturnWays DEF NoWorkers, Stages
<1>3. /\ worker' \in [Runners -> [1..MaxBatch -> Stages]]
      /\ worker'[w] = NoWorkers /\ \A v \in Runners : v # w => worker'[v] = worker[v]
  BY <1>1, <1>2
<1>4. Placed' /\ left' \in Nat
  BY <1>3, ReturnWays, EndsPlaced
<1>5. sync' \in [Runners -> Syncs]
  BY ReturnWays, EndsFresh DEF ShapeInv, Typed
<1> QED
  BY <1>3, <1>4, <1>5, ReturnWays DEF ShapeInv, Typed

LEMMA NextShape == ShapeInv /\ [Next]_vars => ShapeInv'
<1> SUFFICES ASSUME ShapeInv, [Next]_vars PROVE ShapeInv'
  OBVIOUS
<1>1. ASSUME NEW w \in Runners, Advance(w) PROVE ShapeInv'
  BY <1>1, CheckShape, DiscoverShape, SpawnShape, ReturnShape, WorkerShape
     DEF Advance, WorkerStep
<1>2. CASE UNCHANGED vars
  BY <1>2 DEF vars, outside, ShapeInv, Typed, Placed
<1> QED
  BY <1>1, <1>2, ChangesShape, IdentifiesShape, TickShape, RestartShape DEF Next

-----------------------------------------------------------------------------
(* The semaphore.                                                          *)

LEMMA ActiveFinite ==
  ASSUME NEW w \in Runners
  PROVE  IsFiniteSet(Active(w)) /\ Cardinality(Active(w)) \in Nat
<1>1. IsFiniteSet(1..MaxBatch)
  BY BoundsAssumption, FS_Interval
<1>2. Active(w) \subseteq 1..MaxBatch
  BY DEF Active
<1> QED
  BY <1>1, <1>2, FS_Subset, FS_CardinalityType

(* A step that starts no goroutine.                                        *)
LEMMA NoSlotTaken ==
  ASSUME SlotsKept, \A w \in Runners : Active(w)' \subseteq Active(w)
  PROVE  SlotsKept'
<1> SUFFICES ASSUME NEW w \in Runners PROVE Cardinality(Active(w)') <= Concurrency
  BY DEF SlotsKept
<1>1. Cardinality(Active(w)') <= Cardinality(Active(w)) /\ Cardinality(Active(w)') \in Nat
  BY ActiveFinite, FS_Subset, FS_CardinalityType
<1> QED
  BY <1>1, ActiveFinite, ConcurrencyAssumption DEF SlotsKept

LEMMA SpawnSlots ==
  ASSUME ShapeInv, SlotsKept, NEW w \in Runners, Spawn(w)
  PROVE  SlotsKept'
<1> DEFINE i == sync[w].next
<1>1. worker' = [worker EXCEPT ![w][i] = "ids"] /\ Cardinality(Active(w)) < Concurrency
  BY DEF Spawn, FreeSlot
<1>2. worker \in [Runners -> [1..MaxBatch -> Stages]]
  BY DEF ShapeInv, Typed
<1> HIDE DEF i
<1>3. /\ Active(w)' \subseteq Active(w) \cup {i}
      /\ \A v \in Runners : v # w => Active(v)' = Active(v)
  BY <1>1, <1>2 DEF Active
<1>4. /\ IsFiniteSet(Active(w) \cup {i})
      /\ Cardinality(Active(w) \cup {i}) \in {Cardinality(Active(w)), Cardinality(Active(w)) + 1}
  BY ActiveFinite, FS_AddElement
<1>5. /\ Cardinality(Active(w)') <= Cardinality(Active(w) \cup {i})
      /\ Cardinality(Active(w)') \in Nat
  BY <1>3, <1>4, FS_Subset, FS_CardinalityType
<1>6. Cardinality(Active(w)') <= Concurrency
  BY <1>1, <1>4, <1>5, ActiveFinite, ConcurrencyAssumption
<1> QED
  BY <1>3, <1>6 DEF SlotsKept

LEMMA NoWorkersIdle ==
  ASSUME NEW w \in Runners, worker'[w] = NoWorkers
  PROVE  Active(w)' = {}
BY DEF Active, NoWorkers

LEMMA NextSlots == ShapeInv /\ SlotsKept /\ [Next]_vars => SlotsKept'
<1> SUFFICES ASSUME ShapeInv, SlotsKept, [Next]_vars PROVE SlotsKept'
  OBVIOUS
<1>1. worker \in [Runners -> [1..MaxBatch -> Stages]]
  BY DEF ShapeInv, Typed
<1>2. CASE worker' = worker
  <2>1. \A w \in Runners : Active(w)' = Active(w)
    BY <1>2 DEF Active
  <2> QED
    BY <2>1, NoSlotTaken
<1>3. ASSUME NEW w \in Runners, NEW i \in 1..MaxBatch, WorkerStep(w, i) PROVE SlotsKept'
  <2>1. PICK stage \in Stages : worker' = [worker EXCEPT ![w][i] = stage]
    BY <1>3, WorkerWays
  <2>2. i \in Active(w)
    BY <1>3, WorkerWays
  <2>3. \A v \in Runners : Active(v)' \subseteq Active(v)
    BY <1>1, <2>1, <2>2 DEF Active
  <2> QED
    BY <2>3, NoSlotTaken
<1>4. ASSUME NEW w \in Runners, Return(w) PROVE SlotsKept'
  <2>1. worker'[w] = NoWorkers /\ \A v \in Runners : v # w => worker'[v] = worker[v]
    BY <1>1, <1>4, ReturnWays
  <2>2. Active(w)' = {} /\ \A v \in Runners : v # w => Active(v)' = Active(v)
    BY <2>1, NoWorkersIdle DEF Active
  <2>3. \A v \in Runners : Active(v)' \subseteq Active(v)
    BY <2>2
  <2> QED
    BY <2>3, NoSlotTaken
<1>5. CASE Restart
  <2>1. \A w \in Runners : Active(w)' = {}
    BY <1>5, NoWorkersIdle DEF Restart
  <2> QED
    BY <2>1, NoSlotTaken
<1>6. ASSUME NEW w \in Runners, Advance(w) PROVE SlotsKept'
  <2>1. CASE SeedCheck \/ Fire \/ DiscoverPage(w)
    BY <1>2, <2>1 DEF SeedCheck, Fire, DiscoverPage
  <2> QED
    BY <1>3, <1>4, <1>6, <2>1, SpawnSlots DEF Advance, WorkerStep
<1>7. CASE TmdbChanges \/ TmdbIdentifies \/ Tick \/ UNCHANGED vars
  BY <1>2, <1>7 DEF TmdbChanges, TmdbIdentifies, Tick, vars
<1> QED
  BY <1>5, <1>6, <1>7 DEF Next

LEMMA InitSlots == Init => SlotsKept
<1> SUFFICES ASSUME Init, NEW w \in Runners PROVE Cardinality(Active(w)) <= Concurrency
  BY DEF SlotsKept
<1>1. Active(w) = {}
  BY DEF Init, Active, NoWorkers
<1> QED
  BY <1>1, FS_EmptySet, ConcurrencyAssumption

-----------------------------------------------------------------------------
(* TMDb's IMDb ids, which only TMDb changes.                               *)

LEMMA OnlyThenIds ==
  ASSUME [Next]_vars
  PROVE  imdb' = imdb \/ TmdbIdentifies
<1>1. ASSUME NEW w \in Runners, Advance(w) PROVE imdb' = imdb
  BY <1>1 DEF Advance, SeedCheck, Fire, DiscoverPage, Spawn, Return,
              FetchIDs, Stored, UpsertFails, outside
<1>2. CASE TmdbChanges \/ Tick \/ Restart \/ UNCHANGED vars
  BY <1>2 DEF TmdbChanges, Tick, Restart, vars, outside
<1> QED
  BY <1>1, <1>2 DEF Next

LEMMA IdsTyped == Spec => [](imdb \in Identified)
<1>1. Init => imdb \in Identified
  BY DEF Init
<1>2. imdb \in Identified /\ [Next]_vars => (imdb \in Identified)'
  BY OnlyThenIds DEF TmdbIdentifies
<1> QED
  BY <1>1, <1>2, PTL DEF Spec

-----------------------------------------------------------------------------
(* What a state in which the shapes are right shows.                       *)

LEMMA ShapeShows ==
  ASSUME ShapeInv
  PROVE  (SlotsKept /\ imdb \in Identified => TypeOK) /\ NoWorkerOutlivesSync /\ FirstSyncOnMonday
<1>1. NoWorkerOutlivesSync
  <2> SUFFICES ASSUME NEW w \in Runners, sync[w].at # "upsert" PROVE Active(w) = {}
    BY DEF NoWorkerOutlivesSync
  <2>1. worker[w] = NoWorkers
    BY NoneYet
  <2> QED
    BY <2>1 DEF Active, NoWorkers
<1>2. FirstSyncOnMonday
  <2>1. clock \in Nat
    BY DEF ShapeInv, Typed, Week
  <2> QED
    BY <2>1, FirstSyncLater, FirstSyncMonday, FirstSyncAtThree DEF FirstSyncOnMonday
<1>3. ASSUME NEW w \in Runners
      PROVE  /\ sync[w].at \in {"timer", "check", "discover", "upsert", "done"}
             /\ sync[w].batch \in Seq(Items)
             /\ sync[w].next \in 1..(Len(sync[w].batch) + 1)
             /\ worker[w] \in [1..MaxBatch -> {"none", "ids", "exec", "stored", "failed"}]
  <2>1. sync[w] \in Syncs /\ worker[w] \in [1..MaxBatch -> Stages]
    BY DEF ShapeInv, Typed
  <2>2. sync[w].at \in Ats /\ sync[w].batch \in Seq(Items) /\ sync[w].next \in Nat \ {0}
    BY <2>1 DEF Syncs
  <2>3. sync[w].next <= Len(sync[w].batch) + 1 /\ Len(sync[w].batch) \in Nat
    BY <2>2 DEF ShapeInv, Placed
  <2> QED
    BY <2>1, <2>2, <2>3 DEF Ats, Stages
<1>4. /\ movies \in [Ids -> Rows \cup {None}]
      /\ clock \in 0..(Week - 1) /\ left \in Nat /\ faults \in 0..MaxFaults
      /\ tmdb \in Catalogues
  BY DEF ShapeInv, Typed
<1> QED
  BY <1>1, <1>2, <1>3, <1>4 DEF TypeOK

LEMMA ShapesKept == Spec => []ShapeInv
BY InitShape, NextShape, PTL DEF Spec

(* Whatever the movies, the pages and the failures, the state has its      *)
(* shape, and no more goroutines of a sync are at work than the semaphore  *)
(* has slots.                                                              *)
THEOREM TypeCorrect == Spec => []TypeOK
<1>1. ShapeInv /\ SlotsKept /\ imdb \in Identified => TypeOK
  BY ShapeShows
<1>2. Spec => []SlotsKept
  BY ShapesKept, InitSlots, NextSlots, PTL DEF Spec
<1> QED
  BY <1>1, <1>2, ShapesKept, IdsTyped, PTL

(* A sync returns only when its goroutines have ended: none of them writes *)
(* into the next one.                                                      *)
THEOREM WorkersEndFirst == Spec => []NoWorkerOutlivesSync
<1>1. ShapeInv => NoWorkerOutlivesSync
  BY ShapeShows
<1> QED
  BY <1>1, ShapesKept, PTL

(* Whenever the process starts, in whatever week, the first sync is set    *)
(* for a Monday, 03:00, still to come.                                     *)
THEOREM FirstSyncAligned == Spec => []FirstSyncOnMonday
<1>1. ShapeInv => FirstSyncOnMonday
  BY ShapeShows
<1> QED
  BY <1>1, ShapesKept, PTL

-----------------------------------------------------------------------------
(* What a sync has stored.                                                 *)

StoredBy(w) == {i \in 1..MaxBatch : worker[w][i] = "stored"}

(* What a goroutine knows of its movie: it notes that there is no IMDb id  *)
(* only when it has asked, and then it has TMDb's answer, unless TMDb has  *)
(* changed it since or something has failed.                               *)
Asked(w, i) ==
  /\ worker[w][i] \in {"none", "ids"} => i \notin sync[w].bare
  /\ worker[w][i] \in {"exec", "stored"} /\ sync[w].settled /\ faults = 0 =>
       (i \notin sync[w].bare <=> HasIMDb(w, i))

(* A row that it has written is still there, and is its sync's own unless  *)
(* the other runner has been upserting too.                                *)
HeldBy(w, i) ==
  /\ worker[w][i] = "failed" => sync[w].failed
  /\ worker[w][i] = "stored" => RowIsTrue(w, i)
  /\ Asked(w, i)

Held(w) ==
  /\ sync[w].at # "upsert" => sync[w].count = 0 /\ ~sync[w].failed /\ sync[w].bare = {}
  /\ sync[w].count = Cardinality(StoredBy(w))
  /\ \A i \in 1..MaxBatch : HeldBy(w, i)

Together == \A v \in Runners :
              (\A w \in Runners : sync[w].at = "upsert") => sync[v].shared

StoreInv == (\A w \in Runners : Held(w)) /\ Together

(* A sync before its first goroutine holds what it must.                   *)
LEMMA HeldBefore ==
  ASSUME NEW w \in Runners, worker'[w] = NoWorkers,
         sync'[w].count = 0, ~sync'[w].failed, sync'[w].bare = {}
  PROVE  Held(w)'
<1>1. \A i \in 1..MaxBatch : worker'[w][i] = "none"
  BY DEF NoWorkers
<1>2. StoredBy(w)' = {}
  BY <1>1 DEF StoredBy
<1>3. sync'[w].count = Cardinality(StoredBy(w)')
  BY <1>2, FS_EmptySet
<1>4. \A i \in 1..MaxBatch : HeldBy(w, i)'
  BY <1>1 DEF HeldBy, Asked
<1> QED
  BY <1>3, <1>4 DEF Held

LEMMA HeldFresh ==
  ASSUME NEW w \in Runners, NEW at \in Ats, sync'[w] = Sync(at), worker'[w] = NoWorkers
  PROVE  Held(w)'
<1>1. sync'[w].count = 0 /\ sync'[w].failed = FALSE /\ sync'[w].bare = {}
  BY FreshType
<1> QED
  BY <1>1, HeldBefore

(* A runner that a step does not touch, but for the other being beside it. *)
LEMMA HeldAside ==
  ASSUME NEW w \in Runners, Held(w), worker'[w] = worker[w], movies' = movies,
         imdb' = imdb, faults' = 0 => faults = 0,
         sync'[w].at = sync[w].at, sync'[w].batch = sync[w].batch,
         sync'[w].bare = sync[w].bare, sync'[w].count = sync[w].count,
         sync'[w].failed = sync[w].failed, sync'[w].settled = sync[w].settled,
         sync[w].shared => sync'[w].shared
  PROVE  Held(w)'
<1>1. StoredBy(w)' = StoredBy(w)
  BY DEF StoredBy
<1>2. /\ \A id : VersionsFor(w, id)' = VersionsFor(w, id)
      /\ \A i : HasIMDb(w, i)' <=> HasIMDb(w, i)
  BY DEF VersionsFor, HasIMDb
<1>3. \A i \in 1..MaxBatch : RowIsTrue(w, i) => RowIsTrue(w, i)'
  BY <1>2 DEF RowIsTrue
<1>4. \A i \in 1..MaxBatch : Asked(w, i) => Asked(w, i)'
  BY <1>2 DEF Asked
<1>5. \A i \in 1..MaxBatch : HeldBy(w, i)'
  BY <1>3, <1>4 DEF Held, HeldBy
<1>6. sync'[w].count = Cardinality(StoredBy(w)')
  BY <1>1 DEF Held
<1>7. sync'[w].at # "upsert" => sync'[w].count = 0 /\ ~sync'[w].failed /\ sync'[w].bare = {}
  BY DEF Held
<1> QED
  BY <1>5, <1>6, <1>7 DEF Held

LEMMA InitStore == Init => StoreInv
<1> SUFFICES ASSUME Init PROVE StoreInv
  OBVIOUS
<1>1. ASSUME NEW w \in Runners
      PROVE  Held(w) /\ sync[w].at # "upsert"
  <2>1. sync = Started(mode) /\ worker[w] = NoWorkers
    BY DEF Init
  <2>2. PICK at \in {"done", "timer", "check"} : sync[w] = Sync(at)
    BY <2>1, StartedType
  <2>3. at \in Ats /\ at # "upsert"
    BY DEF Ats
  <2>4. /\ sync[w].at # "upsert" /\ sync[w].count = 0
        /\ sync[w].failed = FALSE /\ sync[w].bare = {}
    BY <2>2, <2>3, FreshType
  <2>5. \A i \in 1..MaxBatch : worker[w][i] = "none"
    BY <2>1 DEF NoWorkers
  <2>6. StoredBy(w) = {}
    BY <2>5 DEF StoredBy
  <2>7. sync[w].count = Cardinality(StoredBy(w))
    BY <2>4, <2>6, FS_EmptySet
  <2>8. \A i \in 1..MaxBatch : HeldBy(w, i)
    BY <2>4, <2>5 DEF HeldBy, Asked
  <2> QED
    BY <2>4, <2>7, <2>8 DEF Held
<1>2. Together
  BY <1>1 DEF Together, Runners
<1> QED
  BY <1>1, <1>2 DEF StoreInv

(* The steps that move no goroutine and go to no upsert.                   *)
LEMMA AsideStore ==
  ASSUME ShapeInv, StoreInv, imdb' = imdb, SeedCheck \/ Fire \/ TmdbChanges \/ Tick
  PROVE  StoreInv'
<1>1. UNCHANGED <<worker, movies>> /\ (faults' = 0 => faults = 0)
  BY BoundsAssumption
     DEF SeedCheck, Fire, TmdbChanges, Tick, Healthy, Faulty, outside, ShapeInv, Typed
<1>2. ASSUME NEW w \in Runners
      PROVE  /\ sync'[w].at # sync[w].at => sync[w].at # "upsert" /\ sync'[w].at # "upsert"
             /\ sync'[w].batch = sync[w].batch /\ sync'[w].bare = sync[w].bare
             /\ sync'[w].count = sync[w].count /\ sync'[w].failed = sync[w].failed
             /\ sync'[w].shared = sync[w].shared /\ sync'[w].settled = sync[w].settled
  <2>1. sync \in [Runners -> Syncs]
    BY DEF ShapeInv, Typed
  <2>2. CASE SeedCheck \/ Fire
    <3>1. PICK v \in Runners, at \in {"discover", "done"} :
            sync[v].at # "upsert" /\ sync' = [sync EXCEPT ![v].at = at]
      BY <2>2 DEF SeedCheck, Fire, Runners
    <3> QED
      BY <2>1, <3>1 DEF Syncs
  <2>3. CASE TmdbChanges
    <3>1. sync'[w] \in {sync[w], [sync[w] EXCEPT !.steady = FALSE]} /\ sync[w] \in Syncs
      BY <2>1, <2>3 DEF TmdbChanges
    <3> QED
      BY <3>1 DEF Syncs
  <2>4. CASE Tick
    BY <2>4 DEF Tick
  <2> QED
    BY <2>2, <2>3, <2>4
<1>3. ASSUME NEW w \in Runners PROVE Held(w)'
  <2>1. Held(w)
    BY DEF StoreInv
  <2>2. CASE sync'[w].at = sync[w].at
    BY <1>1, <1>2, <2>1, <2>2, HeldAside
  <2>3. CASE sync'[w].at # sync[w].at
    <3>1. sync[w].at # "upsert"
      BY <1>2, <2>3
    <3>2. worker[w] = NoWorkers
      BY <3>1, NoneYet
    <3> QED
      BY <1>1, <1>2, <2>1, <3>1, <3>2, HeldBefore DEF Held
  <2> QED
    BY <2>2, <2>3
<1>4. Together'
  BY <1>2 DEF StoreInv, Together
<1> QED
  BY <1>3, <1>4 DEF StoreInv

(* IMDb ids that come or go are no longer compared with the links.         *)
LEMMA IdentifiesStore ==
  ASSUME ShapeInv, StoreInv, TmdbIdentifies
  PROVE  StoreInv'
<1>1. ASSUME NEW w \in Runners PROVE Held(w)'
  <2>1. /\ sync'[w].count = sync[w].count /\ sync'[w].failed = sync[w].failed
        /\ sync'[w].bare = sync[w].bare /\ sync'[w].at = sync[w].at
        /\ sync'[w].batch = sync[w].batch /\ sync'[w].shared = sync[w].shared
        /\ worker' = worker /\ movies' = movies /\ Held(w)
    BY IdentifiesWays DEF StoreInv
  <2>2. CASE sync[w].at # "upsert"
    <3>1. worker[w] = NoWorkers
      BY <2>2, NoneYet
    <3> QED
      BY <2>1, <2>2, <3>1, HeldBefore DEF Held
  <2>3. CASE sync[w].at = "upsert"
    <3>1. sync'[w].settled = FALSE
      BY <2>3, IdentifiesWays
    <3>2. StoredBy(w)' = StoredBy(w) /\ \A id : VersionsFor(w, id)' = VersionsFor(w, id)
      BY <2>1 DEF StoredBy, VersionsFor
    <3>3. \A i \in 1..MaxBatch : HeldBy(w, i)'
      BY <2>1, <3>1, <3>2 DEF Held, HeldBy, Asked, RowIsTrue
    <3>4. sync'[w].count = Cardinality(StoredBy(w)')
      BY <2>1, <3>2 DEF Held
    <3> QED
      BY <2>1, <2>3, <3>3, <3>4 DEF Held
  <2> QED
    BY <2>2, <2>3
<1>2. Together'
  <2>1. \A w \in Runners : sync'[w].at = sync[w].at /\ sync'[w].shared = sync[w].shared
    BY IdentifiesWays
  <2> QED
    BY <2>1 DEF StoreInv, Together
<1> QED
  BY <1>1, <1>2 DEF StoreInv

(* The end of a sync, whose goroutines have ended.                         *)
LEMMA EndsStore ==
  ASSUME ShapeInv, StoreInv, NEW w \in Runners, Ends(w), worker'[w] = NoWorkers,
         \A v \in Runners : v # w => worker'[v] = worker[v],
         movies' = movies, imdb' = imdb, faults' = 0 => faults = 0
  PROVE  StoreInv'
<1>1. PICK at \in {"timer", "done"} : sync'[w] = Sync(at)
  BY EndsFresh DEF ShapeInv, Typed
<1>2. at \in Ats /\ at # "upsert"
  BY DEF Ats
<1>3. \A v \in Runners : v # w => sync'[v] = sync[v]
  BY EndsFresh DEF ShapeInv, Typed
<1>4. sync'[w].at # "upsert"
  BY <1>1, <1>2, FreshType
<1>5. ASSUME NEW v \in Runners PROVE Held(v)'
  <2>1. CASE v = w
    BY <1>1, <1>2, <2>1, HeldFresh
  <2>2. CASE v # w
    BY <1>3, <2>2, HeldAside DEF StoreInv
  <2> QED
    BY <2>1, <2>2
<1>6. Together'
  BY <1>4 DEF Together
<1> QED
  BY <1>5, <1>6 DEF StoreInv

LEMMA DiscoverStore ==
  ASSUME ShapeInv, StoreInv, imdb' = imdb, NEW w \in Runners, DiscoverPage(w)
  PROVE  StoreInv'
<1> DEFINE s == sync[w]
           batch == s.batch \o Kept(s.page)
<1>1. s.at = "discover" /\ UNCHANGED <<movies, worker>>
  BY DiscoverWays
<1>2. sync \in [Runners -> Syncs] /\ worker[w] = NoWorkers
  BY <1>1, NoneYet DEF ShapeInv, Typed
<1>3. s.count = 0 /\ ~s.failed /\ s.bare = {} /\ Held(w)
  BY <1>1 DEF StoreInv, Held
<1> HIDE DEF batch
<1>4. CASE /\ Len(batch) <= MaxBatch
           /\ sync' = [Sharing(w) EXCEPT ![w].batch = batch, ![w].at = "upsert"]
           /\ UNCHANGED <<left, faults>>
  <2> DEFINE t == Sharing(w)
  <2>1. /\ t \in [Runners -> Syncs]
        /\ \A v \in Runners :
             /\ t[v].at = sync[v].at /\ t[v].batch = sync[v].batch
             /\ t[v].bare = sync[v].bare /\ t[v].count = sync[v].count
             /\ t[v].failed = sync[v].failed /\ t[v].settled = sync[v].settled
             /\ sync[v].shared => t[v].shared
    BY <1>2, SharingSame
  <2>2. \A u, v \in Runners : u # w /\ sync[u].at = "upsert" /\ v \in {u, w} => t[v].shared
    BY <1>2, SharingSame
  <2>3. sync' = [t EXCEPT ![w].batch = batch, ![w].at = "upsert"]
    BY <1>4
  <2> HIDE DEF t
  <2>4. /\ sync'[w].count = t[w].count /\ sync'[w].failed = t[w].failed
        /\ sync'[w].bare = t[w].bare /\ sync'[w].shared = t[w].shared
        /\ \A v \in Runners : v # w => sync'[v] = t[v]
    BY <2>1, <2>3 DEF Syncs
  <2>5. ASSUME NEW v \in Runners PROVE Held(v)'
    <3>1. CASE v = w
      <4>1. sync'[w].count = 0 /\ ~sync'[w].failed /\ sync'[w].bare = {}
        BY <1>3, <2>1, <2>4
      <4>2. worker'[w] = NoWorkers
        BY <1>1, <1>2
      <4> QED
        BY <3>1, <4>1, <4>2, HeldBefore
    <3>2. CASE v # w
      <4>1. /\ sync'[v].at = sync[v].at /\ sync'[v].batch = sync[v].batch
            /\ sync'[v].bare = sync[v].bare /\ sync'[v].count = sync[v].count
            /\ sync'[v].failed = sync[v].failed /\ sync'[v].settled = sync[v].settled
            /\ sync[v].shared => sync'[v].shared
            /\ faults' = faults
        BY <1>4, <2>1, <2>4, <3>2
      <4>2. Held(v) /\ worker'[v] = worker[v] /\ movies' = movies
        BY <1>1 DEF StoreInv
      <4> QED
        BY <4>1, <4>2, HeldAside
    <3> QED
      BY <3>1, <3>2
  <2>6. Together'
    <3> SUFFICES ASSUME NEW v \in Runners, \A u \in Runners : sync'[u].at = "upsert"
                 PROVE  sync'[v].shared
      BY DEF Together
    <3>1. PICK u \in Runners : u # w
      BY DEF Runners
    <3>2. sync[u].at = "upsert" /\ v \in {u, w}
      BY <2>1, <2>4, <3>1 DEF Runners
    <3>3. t[v].shared
      BY <2>2, <3>1, <3>2
    <3> QED
      BY <2>4, <3>3
  <2> QED
    BY <2>5, <2>6 DEF StoreInv
<1>5. CASE /\ Len(batch) <= MaxBatch
           /\ sync' = [sync EXCEPT ![w].batch = batch, ![w].page = s.page + 1]
           /\ UNCHANGED <<left, faults>>
  <2>1. /\ sync'[w].at = "discover" /\ sync'[w].count = 0 /\ ~sync'[w].failed
        /\ sync'[w].bare = {}
        /\ \A v \in Runners : v # w => sync'[v] = sync[v]
    BY <1>1, <1>2, <1>3, <1>5 DEF Syncs
  <2>2. ASSUME NEW v \in Runners PROVE Held(v)'
    <3>1. CASE v = w
      BY <1>1, <1>2, <2>1, <3>1, HeldBefore
    <3>2. CASE v # w
      BY <1>1, <1>5, <2>1, <3>2, HeldAside DEF StoreInv
    <3> QED
      BY <3>1, <3>2
  <2>3. Together'
    BY <2>1 DEF Together
  <2> QED
    BY <2>2, <2>3 DEF StoreInv
<1>6. CASE Ends(w) /\ Faulty
  <2>1. faults' = 0 => faults = 0
    BY <1>6 DEF Faulty, ShapeInv, Typed
  <2> QED
    BY <1>1, <1>2, <1>6, <2>1, EndsStore
<1> QED
  BY <1>4, <1>5, <1>6, DiscoverWays DEF batch

LEMMA SpawnStore ==
  ASSUME ShapeInv, StoreInv, imdb' = imdb, NEW w \in Runners, Spawn(w)
  PROVE  StoreInv'
<1> DEFINE i == sync[w].next
<1>1. /\ sync[w].at = "upsert" /\ sync' = [sync EXCEPT ![w].next = i + 1]
      /\ worker' = [worker EXCEPT ![w][i] = "ids"] /\ UNCHANGED <<movies, faults>>
  BY DEF Spawn
<1>2. sync \in [Runners -> Syncs] /\ worker \in [Runners -> [1..MaxBatch -> Stages]]
  BY DEF ShapeInv, Typed
<1>3. ASSUME NEW v \in Runners
      PROVE  /\ sync'[v].at = sync[v].at /\ sync'[v].batch = sync[v].batch
             /\ sync'[v].bare = sync[v].bare /\ sync'[v].count = sync[v].count
             /\ sync'[v].failed = sync[v].failed /\ sync'[v].shared = sync[v].shared
             /\ sync'[v].settled = sync[v].settled
             /\ v # w => worker'[v] = worker[v]
  BY <1>1, <1>2 DEF Syncs
<1>4. ASSUME NEW j \in 1..MaxBatch
      PROVE  \/ worker'[w][j] = worker[w][j]
             \/ worker'[w][j] = "ids" /\ worker[w][j] = "none"
  <2>1. ~(j < i) => worker[w][j] = "none"
    BY DEF ShapeInv, Placed
  <2>2. i \in Nat
    BY <1>2 DEF Syncs
  <2>3. worker'[w][j] = IF j = i THEN "ids" ELSE worker[w][j]
    BY <1>1, <1>2
  <2> QED
    BY <2>1, <2>2, <2>3
<1>5. Held(w)'
  <2>1. StoredBy(w)' = StoredBy(w)
    <3>1. \A j \in 1..MaxBatch : worker'[w][j] = "stored" <=> worker[w][j] = "stored"
      BY <1>4
    <3> QED
      BY <3>1 DEF StoredBy
  <2>2. /\ \A id : VersionsFor(w, id)' = VersionsFor(w, id)
        /\ \A j : HasIMDb(w, j)' <=> HasIMDb(w, j)
    BY <1>3 DEF VersionsFor, HasIMDb
  <2>3. \A j \in 1..MaxBatch : RowIsTrue(w, j) => RowIsTrue(w, j)'
    BY <1>1, <1>3, <2>2 DEF RowIsTrue
  <2>4. ASSUME NEW j \in 1..MaxBatch PROVE HeldBy(w, j)'
    <3>1. HeldBy(w, j)
      BY DEF StoreInv, Held
    <3>2. Asked(w, j)'
      BY <1>1, <1>3, <1>4, <2>2, <3>1 DEF HeldBy, Asked
    <3> QED
      BY <1>3, <1>4, <2>3, <3>1, <3>2 DEF HeldBy
  <2>5. sync'[w].count = Cardinality(StoredBy(w)')
    BY <1>3, <2>1 DEF StoreInv, Held
  <2>6. sync'[w].at = "upsert"
    BY <1>1, <1>3
  <2> QED
    BY <2>4, <2>5, <2>6 DEF Held
<1>6. \A v \in Runners : Held(v)'
  BY <1>1, <1>3, <1>5, HeldAside DEF StoreInv
<1>7. Together'
  BY <1>3 DEF StoreInv, Together
<1> QED
  BY <1>6, <1>7 DEF StoreInv

(* What a write leaves of the rows of its own sync: they hold one of the   *)
(* versions it was told, and the links of TMDb's answer.                   *)
LEMMA RowsStay ==
  ASSUME ShapeInv, StoreInv, imdb' = imdb, faults' = 0 => faults = 0,
         NEW w \in Runners, NEW i \in 1..MaxBatch, worker[w][i] # "none",
         movies' = movies \/ (worker[w][i] = "exec" /\ movies' = Written(w, i)),
         sync'[w].batch = sync[w].batch, sync'[w].shared = sync[w].shared,
         sync'[w].settled = sync[w].settled
  PROVE  /\ \A j \in 1..MaxBatch : worker[w][j] = "stored" => RowIsTrue(w, j)'
         /\ worker[w][i] = "exec" /\ movies' = Written(w, i) => RowIsTrue(w, i)'
<1>1. /\ \A id : VersionsFor(w, id)' = VersionsFor(w, id)
      /\ \A j : HasIMDb(w, j)' <=> HasIMDb(w, j)
  BY DEF VersionsFor, HasIMDb
<1> DEFINE item == sync[w].batch[i]
           row == Row(w, i)
<1>2. /\ row \in Rows /\ item.id \in Ids /\ row.version = item.version
      /\ i \in DOMAIN sync[w].batch
  BY RowType, AtWork
<1>3. row # None /\ row.version \in VersionsFor(w, item.id)
  <2>1. row # None
    BY <1>2, NoneAssumption
  <2> QED
    BY <1>2, <2>1 DEF VersionsFor
<1>4. ASSUME worker[w][i] = "exec", sync[w].settled, faults = 0
      PROVE  row.linked <=> item.id \in imdb
  <2>1. i \notin sync[w].bare <=> item.id \in imdb
    BY <1>4 DEF StoreInv, Held, HeldBy, Asked, HasIMDb
  <2> QED
    BY <2>1, RowType
<1>5. ASSUME NEW id \in Ids
      PROVE  \/ movies'[id] = movies[id]
             \/ id = item.id /\ movies'[id] = row /\ worker[w][i] = "exec"
  BY DEF Written, ShapeInv, Typed
<1> HIDE DEF row
<1>6. ASSUME NEW j \in 1..MaxBatch, worker[w][j] = "stored" PROVE RowIsTrue(w, j)'
  <2> DEFINE id == sync[w].batch[j].id
  <2>1. id \in Ids
    BY <1>6, AtWork DEF Items
  <2>2. /\ movies[id] # None
        /\ \/ sync[w].shared
           \/ /\ movies[id].version \in VersionsFor(w, id)
              /\ sync[w].settled /\ faults = 0 => (movies[id].linked <=> id \in imdb)
    BY <1>6 DEF StoreInv, Held, HeldBy, RowIsTrue, HasIMDb
  <2>3. /\ movies'[id] # None
        /\ \/ sync[w].shared
           \/ /\ movies'[id].version \in VersionsFor(w, id)
              /\ sync[w].settled /\ faults = 0 => (movies'[id].linked <=> id \in imdb)
    <3>1. CASE movies'[id] = movies[id]
      BY <2>2, <3>1
    <3>2. CASE id = item.id /\ movies'[id] = row /\ worker[w][i] = "exec"
      BY <1>3, <1>4, <3>2
    <3> QED
      BY <1>5, <2>1, <3>1, <3>2
  <2> QED
    BY <1>1, <2>3 DEF RowIsTrue, HasIMDb
<1>7. ASSUME worker[w][i] = "exec", movies' = Written(w, i) PROVE RowIsTrue(w, i)'
  <2>1. movies'[item.id] = row
    BY <1>2, <1>7 DEF Written, ShapeInv, Typed, row
  <2> QED
    BY <1>1, <1>3, <1>4, <1>7, <2>1 DEF RowIsTrue, HasIMDb
<1> QED
  BY <1>6, <1>7

(* And of the rows of the other sync.                                      *)
LEMMA HeldBeside ==
  ASSUME ShapeInv, StoreInv, imdb' = imdb, faults' = 0 => faults = 0,
         NEW w \in Runners, NEW i \in 1..MaxBatch, worker[w][i] # "none",
         movies' \in {movies, Written(w, i)},
         NEW v \in Runners, v # w, sync'[v] = sync[v], worker'[v] = worker[v]
  PROVE  Held(v)'
<1>1. ASSUME NEW j \in 1..MaxBatch, worker[v][j] = "stored" PROVE RowIsTrue(v, j)'
  <2> DEFINE id == sync[v].batch[j].id
  <2>1. id \in Ids /\ movies[id] # None
    BY <1>1, AtWork DEF Items, StoreInv, Held, HeldBy, RowIsTrue
  <2>2. sync[v].at = "upsert" /\ sync[w].at = "upsert"
    BY <1>1, AtWork
  <2>3. sync[v].shared
    BY <2>2 DEF StoreInv, Together, Runners
  <2>4. Row(w, i) # None
    BY RowType, NoneAssumption
  <2>5. movies'[id] # None
    BY <2>1, <2>4 DEF Written, ShapeInv, Typed
  <2> QED
    BY <2>3, <2>5 DEF RowIsTrue
<1>2. StoredBy(v)' = StoredBy(v)
  BY DEF StoredBy
<1>3. sync'[v].count = Cardinality(StoredBy(v)')
  BY <1>2 DEF StoreInv, Held
<1>4. ASSUME NEW j \in 1..MaxBatch PROVE HeldBy(v, j)'
  <2>1. HeldBy(v, j)
    BY DEF StoreInv, Held
  <2>2. Asked(v, j)'
    BY <2>1 DEF HeldBy, Asked, HasIMDb
  <2> QED
    BY <1>1, <2>1, <2>2 DEF HeldBy
<1>5. sync'[v].at # "upsert" => sync'[v].count = 0 /\ ~sync'[v].failed /\ sync'[v].bare = {}
  BY DEF StoreInv, Held
<1> QED
  BY <1>3, <1>4, <1>5 DEF Held

(* A goroutine that asks notes the answer; the others' notes stay.         *)
LEMMA WorkerAsked ==
  ASSUME ShapeInv, StoreInv, imdb' = imdb,
         NEW w \in Runners, NEW i \in 1..MaxBatch, WorkerStep(w, i),
         NEW j \in 1..MaxBatch
  PROVE  Asked(w, j)'
<1>1. /\ sync \in [Runners -> Syncs] /\ worker \in [Runners -> [1..MaxBatch -> Stages]]
      /\ faults \in Nat
  BY DEF ShapeInv, Typed
<1>2. /\ sync'[w].batch = sync[w].batch /\ sync'[w].settled = sync[w].settled
      /\ faults' = 0 => faults = 0
  BY WorkerWays, WorkerWrites
<1>3. Asked(w, j) /\ (HasIMDb(w, j)' <=> HasIMDb(w, j))
  BY <1>2 DEF StoreInv, Held, HeldBy, HasIMDb
<1>4. \A k \in 1..MaxBatch : k # i => worker'[w][k] = worker[w][k]
  <2>1. PICK stage \in Stages : worker' = [worker EXCEPT ![w][i] = stage]
    BY WorkerWays
  <2> QED
    BY <1>1, <2>1
<1>5. CASE Stored(w, i) \/ UpsertFails(w, i)
  <2>1. \/ sync' = [sync EXCEPT ![w].count = @ + 1]
        \/ sync' = [sync EXCEPT ![w] = [sync[w] EXCEPT !.failed = TRUE]]
    BY <1>5 DEF Stored, UpsertFails, ReportError
  <2>2. sync'[w].bare = sync[w].bare
    BY <1>1, <2>1 DEF Syncs
  <2>3. worker[w][i] = "exec" /\ worker'[w][i] \in {"stored", "failed"}
    BY <1>1, <1>5 DEF Stored, UpsertFails
  <2> QED
    BY <1>2, <1>3, <1>4, <2>2, <2>3 DEF Asked
<1>6. CASE FetchIDs(w, i)
  <2>1. worker[w][i] = "ids" /\ worker'[w][i] \in {"failed", "exec"}
    BY <1>1, <1>6 DEF FetchIDs
  <2>2. \/ HasIMDb(w, i) /\ sync' = sync
        \/ /\ ~HasIMDb(w, i) \/ faults' # 0
           /\ sync' = [sync EXCEPT ![w].bare = @ \cup {i}]
    BY <1>1, <1>6 DEF FetchIDs, Faulty
  <2>3. \/ HasIMDb(w, i) /\ sync'[w].bare = sync[w].bare
        \/ (~HasIMDb(w, i) \/ faults' # 0) /\ sync'[w].bare = sync[w].bare \cup {i}
    BY <1>1, <2>2 DEF Syncs
  <2>4. CASE j = i
    BY <1>2, <1>3, <2>1, <2>3, <2>4 DEF Asked
  <2>5. CASE j # i
    BY <1>2, <1>3, <1>4, <2>3, <2>5 DEF Asked
  <2> QED
    BY <2>4, <2>5
<1> QED
  BY <1>5, <1>6 DEF WorkerStep

LEMMA WorkerHeld ==
  ASSUME ShapeInv, StoreInv, imdb' = imdb,
         NEW w \in Runners, NEW i \in 1..MaxBatch, WorkerStep(w, i)
  PROVE  Held(w)'
<1>1. /\ sync \in [Runners -> Syncs] /\ worker \in [Runners -> [1..MaxBatch -> Stages]]
      /\ sync[w].count \in Nat
  BY DEF ShapeInv, Typed, Syncs
<1>2. /\ worker[w][i] \in {"ids", "exec"} /\ sync'[w].at = sync[w].at
      /\ movies' = movies \/ (worker[w][i] = "exec" /\ movies' = Written(w, i))
      /\ sync'[w].batch = sync[w].batch /\ sync'[w].shared = sync[w].shared
      /\ sync'[w].settled = sync[w].settled /\ (faults' = 0 => faults = 0)
  BY WorkerWays, WorkerWrites DEF Active
<1>3. sync[w].at = "upsert" /\ sync'[w].at = "upsert"
  BY <1>2, AtWork
<1>4. /\ \A j \in 1..MaxBatch : worker[w][j] = "stored" => RowIsTrue(w, j)'
      /\ worker[w][i] = "exec" /\ movies' = Written(w, i) => RowIsTrue(w, i)'
  BY <1>2, RowsStay
<1>5. /\ sync[w].count = Cardinality(StoredBy(w))
      /\ \A j \in 1..MaxBatch : worker[w][j] = "failed" => sync[w].failed
  BY DEF StoreInv, Held, HeldBy
<1>6. ASSUME NEW stage, worker' = [worker EXCEPT ![w][i] = stage], stage # "stored",
             sync'[w].count = sync[w].count, sync[w].failed => sync'[w].failed,
             stage = "failed" => sync'[w].failed
      PROVE  Held(w)'
  <2>1. \A j \in 1..MaxBatch : worker'[w][j] = IF j = i THEN stage ELSE worker[w][j]
    BY <1>1, <1>6
  <2>2. StoredBy(w)' = StoredBy(w)
    BY <1>2, <1>6, <2>1 DEF StoredBy
  <2>3. sync'[w].count = Cardinality(StoredBy(w)')
    BY <1>5, <1>6, <2>2
  <2>4. \A j \in 1..MaxBatch : /\ worker'[w][j] = "failed" => sync'[w].failed
                               /\ worker'[w][j] = "stored" => RowIsTrue(w, j)'
    BY <1>4, <1>5, <1>6, <2>1
  <2>5. \A j \in 1..MaxBatch : HeldBy(w, j)'
    BY <2>4, WorkerAsked DEF HeldBy
  <2> QED
    BY <1>3, <2>3, <2>5 DEF Held
<1>7. CASE FetchIDs(w, i)
  <2>1. PICK stage \in {"failed", "exec"} :
          worker' = [worker EXCEPT ![w][i] = stage] /\ (stage = "failed" => sync[w].failed)
    BY <1>7 DEF FetchIDs
  <2>2. sync' = sync \/ sync' = [sync EXCEPT ![w].bare = @ \cup {i}]
    BY <1>7 DEF FetchIDs
  <2>3. sync'[w].count = sync[w].count /\ sync'[w].failed = sync[w].failed
    BY <1>1, <2>2 DEF Syncs
  <2> QED
    BY <1>6, <2>1, <2>3
<1>8. CASE UpsertFails(w, i)
  <2>1. worker' = [worker EXCEPT ![w][i] = "failed"]
    BY <1>8 DEF UpsertFails
  <2>2. sync' = [sync EXCEPT ![w] = [sync[w] EXCEPT !.failed = TRUE]]
    BY <1>8 DEF UpsertFails, ReportError
  <2>3. sync'[w].count = sync[w].count /\ sync'[w].failed = TRUE
    BY <1>1, <2>2 DEF Syncs
  <2> QED
    BY <1>6, <2>1, <2>3
<1>9. CASE Stored(w, i)
  <2>1. /\ worker' = [worker EXCEPT ![w][i] = "stored"] /\ movies' = Written(w, i)
        /\ sync' = [sync EXCEPT ![w].count = @ + 1] /\ worker[w][i] = "exec"
    BY <1>9 DEF Stored
  <2>2. sync'[w].count = sync[w].count + 1 /\ sync'[w].failed = sync[w].failed
    BY <1>1, <2>1 DEF Syncs
  <2>3. \A j \in 1..MaxBatch : worker'[w][j] = IF j = i THEN "stored" ELSE worker[w][j]
    BY <1>1, <2>1
  <2>4. StoredBy(w)' = StoredBy(w) \cup {i} /\ i \notin StoredBy(w)
    BY <2>1, <2>3 DEF StoredBy
  <2>5. IsFiniteSet(StoredBy(w))
    <3>1. IsFiniteSet(1..MaxBatch)
      BY BoundsAssumption, FS_Interval
    <3>2. StoredBy(w) \subseteq 1..MaxBatch
      BY DEF StoredBy
    <3> QED
      BY <3>1, <3>2, FS_Subset
  <2>6. sync'[w].count = Cardinality(StoredBy(w)')
    <3>1. Cardinality(StoredBy(w) \cup {i}) = Cardinality(StoredBy(w)) + 1
      BY <2>4, <2>5, FS_AddElement
    <3> QED
      BY <1>5, <2>2, <2>4, <3>1
  <2>7. \A j \in 1..MaxBatch : /\ worker'[w][j] = "failed" => sync'[w].failed
                               /\ worker'[w][j] = "stored" => RowIsTrue(w, j)'
    BY <1>4, <1>5, <2>1, <2>2, <2>3
  <2>8. \A j \in 1..MaxBatch : HeldBy(w, j)'
    BY <2>7, WorkerAsked DEF HeldBy
  <2> QED
    BY <1>3, <2>6, <2>8 DEF Held
<1> QED
  BY <1>7, <1>8, <1>9 DEF WorkerStep

LEMMA WorkerStore ==
  ASSUME ShapeInv, StoreInv, imdb' = imdb,
         NEW w \in Runners, NEW i \in 1..MaxBatch, WorkerStep(w, i)
  PROVE  StoreInv'
<1>1. /\ worker[w][i] # "none" /\ movies' \in {movies, Written(w, i)}
      /\ faults' = 0 => faults = 0
  BY WorkerWays, WorkerWrites DEF Active
<1>2. \A v \in Runners : v # w => sync'[v] = sync[v] /\ worker'[v] = worker[v]
  BY WorkerWays DEF ShapeInv, Typed
<1>3. \A v \in Runners : Held(v)'
  BY <1>1, <1>2, WorkerHeld, HeldBeside
<1>4. Together'
  <2>1. \A v \in Runners : sync'[v].at = sync[v].at /\ sync'[v].shared = sync[v].shared
    BY WorkerWays
  <2> QED
    BY <2>1 DEF StoreInv, Together
<1> QED
  BY <1>3, <1>4 DEF StoreInv

LEMMA RestartStore ==
  ASSUME ShapeInv, Restart
  PROVE  StoreInv'
<1>1. sync' = Started(mode) /\ worker' = [w \in Runners |-> NoWorkers]
  BY DEF Restart
<1>2. ASSUME NEW w \in Runners PROVE Held(w)' /\ sync'[w].at # "upsert"
  <2>1. PICK at \in {"done", "timer", "check"} : sync'[w] = Sync(at)
    BY <1>1, StartedType
  <2>2. at \in Ats /\ at # "upsert"
    BY DEF Ats
  <2>3. worker'[w] = NoWorkers
    BY <1>1
  <2> QED
    BY <2>1, <2>2, <2>3, FreshType, HeldFresh
<1>3. Together'
  BY <1>2 DEF Together, Runners
<1> QED
  BY <1>2, <1>3 DEF StoreInv

LEMMA ReturnStore ==
  ASSUME ShapeInv, StoreInv, imdb' = imdb, NEW w \in Runners, Return(w)
  PROVE  StoreInv'
<1>1. worker \in [Runners -> [1..MaxBatch -> Stages]]
  BY DEF ShapeInv, Typed
<1>2. Ends(w) /\ worker' = [worker EXCEPT ![w] = NoWorkers] /\ UNCHANGED <<movies, faults>>
  BY ReturnWays
<1>3. worker'[w] = NoWorkers /\ \A v \in Runners : v # w => worker'[v] = worker[v]
  BY <1>1, <1>2
<1> QED
  BY <1>2, <1>3, EndsStore

LEMMA NextStore == ShapeInv /\ StoreInv /\ [Next]_vars => StoreInv'
<1> SUFFICES ASSUME ShapeInv, StoreInv, [Next]_vars PROVE StoreInv'
  OBVIOUS
<1>0. imdb' = imdb \/ TmdbIdentifies
  BY OnlyThenIds
<1>1. ASSUME NEW w \in Runners, Advance(w), imdb' = imdb PROVE StoreInv'
  BY <1>1, AsideStore, DiscoverStore, SpawnStore, ReturnStore, WorkerStore
     DEF Advance, WorkerStep
<1>2. CASE UNCHANGED vars
  <2>1. UNCHANGED <<imdb, movies, sync, worker, faults>>
    BY <1>2 DEF vars, outside
  <2>2. \A w \in Runners : Held(w)'
    BY <2>1, HeldAside DEF StoreInv
  <2>3. Together'
    BY <2>1 DEF StoreInv, Together
  <2> QED
    BY <2>2, <2>3 DEF StoreInv
<1> QED
  BY <1>0, <1>1, <1>2, AsideStore, IdentifiesStore, RestartStore DEF Next

(* The only step that ends an upsert without a failure.                    *)
LEMMA OnlyReturnEnds ==
  ASSUME ShapeInv, [Next]_vars, NEW w \in Runners, faults' = faults,
         sync[w].at = "upsert", sync'[w].at \in {"timer", "done"}
  PROVE  Return(w)
<1>1. sync \in [Runners -> Syncs] /\ faults \in Nat
  BY DEF ShapeInv, Typed
<1>2. ASSUME SeedCheck \/ Fire PROVE FALSE
  <2>1. PICK v \in Runners, at \in {"discover", "done"} :
          sync[v].at # "upsert" /\ sync' = [sync EXCEPT ![v].at = at]
    BY <1>2 DEF SeedCheck, Fire, Runners
  <2> QED
    BY <1>1, <2>1
<1>3. ASSUME TmdbChanges PROVE FALSE
  <2>1. sync'[w] \in {sync[w], [sync[w] EXCEPT !.steady = FALSE]} /\ sync[w] \in Syncs
    BY <1>1, <1>3 DEF TmdbChanges
  <2> QED
    BY <2>1 DEF Syncs
<1>4. ~Tick /\ ~Restart
  BY <1>1 DEF Tick, Restart, Faulty
<1>10. ASSUME TmdbIdentifies PROVE FALSE
  <2>1. sync'[w].at = sync[w].at
    BY <1>10, IdentifiesWays
  <2> QED
    BY <2>1
<1>5. ASSUME NEW v \in Runners, DiscoverPage(v) PROVE FALSE
  <2>1. sync[v].at = "discover" /\ v # w /\ ~Faulty
    BY <1>1, <1>5 DEF DiscoverPage, Faulty
  <2>2. Sharing(v)[w].at = sync[w].at
    BY <1>1, SharingSame
  <2> DEFINE batch == sync[v].batch \o Kept(sync[v].page)
  <2>3. \/ sync' = [Sharing(v) EXCEPT ![v].batch = batch, ![v].at = "upsert"]
        \/ sync' = [sync EXCEPT ![v].batch = batch, ![v].page = sync[v].page + 1]
    BY <1>5, <2>1, DiscoverWays
  <2> HIDE DEF batch
  <2>4. sync'[w].at = sync[w].at
    BY <1>1, <2>1, <2>2, <2>3 DEF Sharing
  <2> QED
    BY <2>4
<1>6. ASSUME NEW v \in Runners, Spawn(v) PROVE FALSE
  <2>1. sync' = [sync EXCEPT ![v].next = @ + 1]
    BY <1>6 DEF Spawn
  <2> QED
    BY <1>1, <2>1 DEF Syncs
<1>7. ASSUME NEW v \in Runners, NEW i \in 1..MaxBatch, WorkerStep(v, i) PROVE FALSE
  <2>1. sync'[w].at = sync[w].at
    BY <1>7, WorkerWays
  <2> QED
    BY <2>1
<1>8. ASSUME NEW v \in Runners, Return(v), v # w PROVE FALSE
  <2>1. sync'[w] = sync[w]
    BY <1>1, <1>8, ReturnWays, EndsFresh
  <2> QED
    BY <2>1
<1>9. ~(UNCHANGED vars)
  BY DEF vars
<1> QED
  BY <1>2, <1>3, <1>4, <1>5, <1>6, <1>7, <1>8, <1>9, <1>10
     DEF Next, Advance, WorkerStep

(* When every goroutine has ended and none has failed, all have stored.    *)
LEMMA AllStored ==
  ASSUME ShapeInv, StoreInv, NEW w \in Runners, Return(w), ~sync[w].failed
  PROVE  /\ sync[w].count = Len(sync[w].batch)
         /\ \A i \in DOMAIN sync[w].batch : RowIsTrue(w, i)
<1> DEFINE len == Len(sync[w].batch)
<1>1. len \in Nat /\ len <= MaxBatch /\ DOMAIN sync[w].batch = 1..len
  BY DEF ShapeInv, Typed, Placed, Syncs
<1>2. sync[w].next = len + 1 /\ Active(w) = {}
  BY ReturnWays
<1>3. ASSUME NEW i \in 1..MaxBatch PROVE i <= len <=> worker[w][i] = "stored"
  <2>1. worker[w][i] # "none" <=> i < len + 1
    BY <1>2 DEF ShapeInv, Placed
  <2>2. worker[w][i] \in Stages /\ worker[w][i] \notin {"ids", "exec", "failed"}
    BY <1>2 DEF ShapeInv, Typed, Active, StoreInv, Held, HeldBy
  <2> QED
    BY <1>1, <2>1, <2>2 DEF Stages
<1>4. StoredBy(w) = 1..len
  BY <1>1, <1>3, BoundsAssumption DEF StoredBy
<1>5. Cardinality(1..len) = len
  <2>1. ASSUME NEW last \in Nat PROVE Cardinality(1..last) = last
    BY FS_Interval
  <2> QED
    BY <1>1, <2>1
<1>6. sync[w].count = len
  BY <1>4, <1>5 DEF StoreInv, Held
<1>7. ASSUME NEW i \in 1..len PROVE RowIsTrue(w, i)
  <2>1. i \in 1..MaxBatch /\ worker[w][i] = "stored"
    BY <1>1, <1>3, BoundsAssumption
  <2> QED
    BY <2>1 DEF StoreInv, Held, HeldBy
<1> QED
  BY <1>1, <1>6, <1>7

(* A sync that returns without an error has stored all that TMDb named,    *)
(* with links for the movies TMDb has an IMDb id for and no others,        *)
(* however its goroutines ran and whatever happened to other syncs.        *)
THEOREM SuccessStored == Spec => SuccessMeansStored
<1>1. ShapeInv /\ StoreInv /\ [Next]_vars =>
        \A w \in Runners :
          sync[w].at = "upsert" /\ sync'[w].at \in {"timer", "done"}
              /\ ~sync[w].failed /\ faults' = faults =>
            /\ sync[w].count = Len(sync[w].batch)
            /\ \A i \in DOMAIN sync[w].batch : RowIsTrue(w, i)
  BY OnlyReturnEnds, AllStored
<1>2. Spec => []StoreInv
  BY ShapesKept, InitStore, NextStore, PTL DEF Spec
<1> QED
  BY <1>1, <1>2, ShapesKept, PTL DEF Spec, SuccessMeansStored

-----------------------------------------------------------------------------
(* What a discovery has found.                                             *)

Before(page) == 1..((page - 1) * PageSize)

(* A discovery that TMDb's list has not changed under holds the movies     *)
(* taken from the pages so far.                                            *)
Scanned(w) ==
  /\ sync[w].at \notin {"discover", "upsert"} => sync[w].page = 1
  /\ sync[w].at # "upsert" /\ sync[w].page = 1 => sync[w].batch = <<>>
  /\ sync[w].at = "discover" /\ sync[w].steady =>
       Lists(sync[w].batch, Taken \cap Before(sync[w].page))

ScanInv == \A w \in Runners : Scanned(w)

(* A page adds its places to those before it.                              *)
LEMMA PageAdds ==
  ASSUME tmdb \in Seq(Items), NEW page \in Nat \ {0}, NEW batch \in Seq(Items),
         Lists(batch, Taken \cap Before(page))
  PROVE  Lists(batch \o Kept(page), Taken \cap Before(page + 1))
<1> DEFINE P == Taken \cap Before(page)
           Q == Taken \cap OnPage(page)
<1>1. Kept(page) \in Seq(Items) /\ Lists(Kept(page), Q)
  BY KeptLists
<1>2. DOMAIN tmdb = 1..Len(tmdb) /\ Len(tmdb) \in Nat /\ PageSize \in Nat \ {0}
  BY ConcurrencyAssumption
<1>3. (page - 1) * PageSize \in Nat /\ page * PageSize = (page - 1) * PageSize + PageSize
  <2>1. page - 1 \in Nat
    OBVIOUS
  <2>2. ASSUME NEW n \in Nat
        PROVE  n * PageSize \in Nat /\ (n + 1) * PageSize = n * PageSize + PageSize
    BY <1>2
  <2>3. page = (page - 1) + 1
    OBVIOUS
  <2> QED
    BY <2>1, <2>2, <2>3
<1>4. (page + 1) - 1 = page
  OBVIOUS
<1>5. Taken \cap Before(page + 1) = P \cup Q
  BY <1>2, <1>3, <1>4 DEF Taken, Before, OnPage
<1>6. P \in SUBSET Nat /\ Q \in SUBSET Nat /\ \A p \in P, q \in Q : p < q
  BY <1>2, <1>3 DEF Taken, Before, OnPage
<1> HIDE DEF P, Q
<1>7. Lists(batch, P)
  BY DEF P
<1>8. Lists(batch \o Kept(page), P \cup Q)
  BY <1>1, <1>6, <1>7, ListsAppend
<1> QED
  BY <1>5, <1>8

(* Where the discovery stops, it has passed every taken movie.             *)
LEMMA StopsPastAll ==
  ASSUME tmdb \in Catalogues, NEW page \in Nat \ {0}, Stops(page)
  PROVE  Taken \cap Before(page + 1) = Taken
<1>1. tmdb \in Seq(Items) /\ DOMAIN tmdb = 1..Len(tmdb) /\ Len(tmdb) \in Nat
  BY CatalogueType
<1>2. page * PageSize \in Nat /\ (page + 1) - 1 = page
  BY ConcurrencyAssumption
<1>3. CASE page * PageSize >= Len(tmdb)
  BY <1>1, <1>2, <1>3 DEF Taken, Before
<1>4. CASE \E i \in OnPage(page) : tmdb[i].kind = "unpopular"
  <2>1. PICK i \in DOMAIN tmdb : i <= page * PageSize /\ tmdb[i].kind = "unpopular"
    BY <1>4 DEF OnPage
  <2>2. ASSUME NEW j \in Taken PROVE j <= i
    <3>1. j \in DOMAIN tmdb /\ tmdb[j].kind = "taken"
      BY DEF Taken
    <3>2. i < j => tmdb[j].kind # "taken"
      BY <2>1, <3>1, CataloguesAssumption
    <3> QED
      BY <1>1, <2>1, <3>1, <3>2
  <2>3. \A j \in Taken : j \in 1..(page * PageSize)
    BY <1>1, <1>2, <2>1, <2>2 DEF Taken
  <2> QED
    BY <1>2, <2>3 DEF Before
<1> QED
  BY <1>3, <1>4 DEF Stops

LEMMA ScannedFresh ==
  ASSUME NEW w \in Runners, NEW at \in Ats, at \notin {"discover", "upsert"}, sync'[w] = Sync(at)
  PROVE  Scanned(w)'
<1>1. sync'[w].at = at /\ sync'[w].page = 1 /\ sync'[w].batch = <<>>
  BY FreshType
<1> QED
  BY <1>1 DEF Scanned

LEMMA NextLists ==
  ASSUME NEW w \in Runners, NEW batch, batch = sync'[w].batch,
         NEW P, P = (Taken \cap Before(sync[w].page))',
         \E place \in [1..Len(batch) -> P] :
           /\ \A k \in 1..Len(batch) : batch[k] = tmdb'[place[k]]
           /\ \A k, l \in 1..Len(batch) : k < l => place[k] < place[l]
           /\ \A i \in P : \E k \in 1..Len(batch) : place[k] = i
  PROVE  Lists(sync[w].batch, Taken \cap Before(sync[w].page))'
BY DEF Lists

(* A sync that has asked for no page yet.                                  *)
LEMMA FirstPage ==
  ASSUME NEW w \in Runners, sync'[w].page = 1, sync'[w].batch = <<>>
  PROVE  Scanned(w)'
<1>1. {} = (Taken \cap Before(sync[w].page))' /\ Len(<<>>) = 0
  BY ConcurrencyAssumption DEF Before
<1>2. 1..0 = {}
  OBVIOUS
<1> DEFINE place == [k \in 1..0 |-> 0]
<1>3. place \in [1..Len(<<>>) -> {}]
  BY <1>1, <1>2
<1> HIDE DEF place
<1>4. \E list \in [1..Len(<<>>) -> {}] :
        /\ \A k \in 1..Len(<<>>) : <<>>[k] = tmdb'[list[k]]
        /\ \A k, l \in 1..Len(<<>>) : k < l => list[k] < list[l]
        /\ \A i \in {} : \E k \in 1..Len(<<>>) : list[k] = i
  BY <1>1, <1>2, <1>3
<1>5. Lists(sync[w].batch, Taken \cap Before(sync[w].page))'
  BY <1>1, <1>4, NextLists
<1> QED
  BY <1>5 DEF Scanned

LEMMA ListsStay ==
  ASSUME tmdb' = tmdb, NEW batch, NEW P, Lists(batch, P)
  PROVE  \E place \in [1..Len(batch) -> P] :
           /\ \A k \in 1..Len(batch) : batch[k] = tmdb'[place[k]]
           /\ \A k, l \in 1..Len(batch) : k < l => place[k] < place[l]
           /\ \A i \in P : \E k \in 1..Len(batch) : place[k] = i
BY DEF Lists

LEMMA StillLists ==
  ASSUME NEW w \in Runners, tmdb' = tmdb, NEW batch, batch = sync'[w].batch,
         NEW page, page = sync'[w].page, Lists(batch, Taken \cap Before(page))
  PROVE  Lists(sync[w].batch, Taken \cap Before(sync[w].page))'
<1> DEFINE P == Taken \cap Before(page)
<1>1. P = (Taken \cap Before(sync[w].page))'
  BY DEF Taken, Before
<1> HIDE DEF P
<1>2. Lists(batch, P)
  BY DEF P
<1>3. \E place \in [1..Len(batch) -> P] :
        /\ \A k \in 1..Len(batch) : batch[k] = tmdb'[place[k]]
        /\ \A k, l \in 1..Len(batch) : k < l => place[k] < place[l]
        /\ \A i \in P : \E k \in 1..Len(batch) : place[k] = i
  BY <1>2, ListsStay
<1> QED
  BY <1>1, <1>3 DEF Lists

LEMMA ScannedSame ==
  ASSUME NEW w \in Runners, Scanned(w), tmdb' = tmdb,
         sync'[w].at = sync[w].at, sync'[w].page = sync[w].page,
         sync'[w].batch = sync[w].batch, sync'[w].steady = sync[w].steady
  PROVE  Scanned(w)'
<1>1. ASSUME Lists(sync[w].batch, Taken \cap Before(sync[w].page))
      PROVE  Lists(sync[w].batch, Taken \cap Before(sync[w].page))'
  BY <1>1, StillLists
<1> QED
  BY <1>1 DEF Scanned

LEMMA InitScan == Init => ScanInv
<1> SUFFICES ASSUME Init, NEW w \in Runners PROVE Scanned(w)
  BY DEF ScanInv
<1>1. PICK at \in {"done", "timer", "check"} : sync[w] = Sync(at)
  BY StartedType DEF Init
<1>2. sync[w].at = at /\ sync[w].page = 1 /\ sync[w].batch = <<>>
  BY <1>1, FreshType DEF Ats
<1> QED
  BY <1>2 DEF Scanned

LEMMA CheckScan ==
  ASSUME ShapeInv, ScanInv, SeedCheck \/ Fire
  PROVE  ScanInv'
<1>1. PICK w \in Runners, at \in {"discover", "done"} :
        sync[w].at \in {"check", "timer"} /\ sync' = [sync EXCEPT ![w].at = at]
  BY DEF SeedCheck, Fire, Runners
<1>2. sync \in [Runners -> Syncs] /\ tmdb' = tmdb
  BY DEF ShapeInv, Typed, SeedCheck, Fire, outside
<1>3. /\ \A v \in Runners : v # w => sync'[v] = sync[v]
      /\ sync'[w].page = sync[w].page /\ sync'[w].batch = sync[w].batch
  BY <1>1, <1>2 DEF Syncs
<1>4. sync[w].page = 1 /\ sync[w].batch = <<>>
  BY <1>1 DEF ScanInv, Scanned
<1>5. Scanned(w)'
  BY <1>3, <1>4, FirstPage
<1>6. \A v \in Runners : v # w => Scanned(v)'
  BY <1>2, <1>3, ScannedSame DEF ScanInv
<1> QED
  BY <1>5, <1>6 DEF ScanInv

LEMMA ChangesScan ==
  ASSUME ShapeInv, ScanInv, TmdbChanges
  PROVE  ScanInv'
<1> SUFFICES ASSUME NEW w \in Runners PROVE Scanned(w)'
  BY DEF ScanInv
<1>1. sync[w] \in Syncs /\ Scanned(w)
  BY DEF ShapeInv, Typed, ScanInv
<1>2. sync'[w] = IF sync[w].at = "discover" /\ sync[w].page > 1
                   THEN [sync[w] EXCEPT !.steady = FALSE] ELSE sync[w]
  BY DEF TmdbChanges
<1>3. CASE sync[w].at = "discover" /\ sync[w].page > 1
  <2>1. /\ sync'[w].at = "discover" /\ sync'[w].page = sync[w].page
        /\ sync'[w].steady = FALSE
    BY <1>1, <1>2, <1>3 DEF Syncs
  <2>2. sync'[w].page # 1
    BY <1>1, <1>3, <2>1 DEF Syncs
  <2> QED
    BY <2>1, <2>2 DEF Scanned
<1>4. CASE sync[w].at = "upsert"
  BY <1>2, <1>4 DEF Scanned
<1>5. CASE ~(sync[w].at = "discover" /\ sync[w].page > 1) /\ sync[w].at # "upsert"
  <2>1. sync[w].page \in Nat \ {0}
    BY <1>1 DEF Syncs
  <2>2. sync[w].page = 1
    BY <1>1, <1>5, <2>1 DEF Scanned
  <2>3. sync[w].batch = <<>>
    BY <1>1, <1>5, <2>2 DEF Scanned
  <2> QED
    BY <1>2, <1>5, <2>2, <2>3, FirstPage
<1> QED
  BY <1>3, <1>4, <1>5

LEMMA DiscoverScan ==
  ASSUME ShapeInv, ScanInv, NEW w \in Runners, DiscoverPage(w)
  PROVE  ScanInv'
<1> DEFINE s == sync[w]
           batch == s.batch \o Kept(s.page)
<1>1. s.at = "discover" /\ tmdb' = tmdb
  BY DiscoverWays
<1>2. sync \in [Runners -> Syncs] /\ s \in Syncs /\ Scanned(w) /\ tmdb \in Seq(Items)
  BY CatalogueType DEF ShapeInv, Typed, ScanInv
<1>3. s.page \in Nat \ {0} /\ s.batch \in Seq(Items)
  BY <1>2 DEF Syncs
<1>4. s.steady => Lists(batch, Taken \cap Before(s.page + 1))
  BY <1>1, <1>2, <1>3, PageAdds DEF Scanned
<1> HIDE DEF batch
<1>5. CASE sync' = [Sharing(w) EXCEPT ![w].batch = batch, ![w].at = "upsert"]
  <2> DEFINE t == Sharing(w)
  <2>1. /\ t \in [Runners -> Syncs]
        /\ \A v \in Runners :
             /\ t[v].at = sync[v].at /\ t[v].page = sync[v].page
             /\ t[v].batch = sync[v].batch /\ t[v].steady = sync[v].steady
    BY <1>2, SharingSame
  <2>2. sync' = [t EXCEPT ![w].batch = batch, ![w].at = "upsert"]
    BY <1>5
  <2> HIDE DEF t
  <2>3. sync'[w].at = "upsert" /\ \A v \in Runners : v # w => sync'[v] = t[v]
    BY <2>1, <2>2 DEF Syncs
  <2>4. Scanned(w)'
    BY <2>3 DEF Scanned
  <2>5. \A v \in Runners : v # w => Scanned(v)'
    BY <1>1, <2>1, <2>3, ScannedSame DEF ScanInv
  <2> QED
    BY <2>4, <2>5 DEF ScanInv
<1>6. CASE sync' = [sync EXCEPT ![w].batch = batch, ![w].page = s.page + 1]
  <2>1. /\ sync'[w].at = "discover" /\ sync'[w].page = s.page + 1
        /\ sync'[w].batch = batch /\ sync'[w].steady = s.steady
        /\ \A v \in Runners : v # w => sync'[v] = sync[v]
    BY <1>1, <1>2, <1>6 DEF Syncs
  <2>2. sync'[w].page # 1
    BY <1>3, <2>1
  <2>3. s.steady => Lists(sync[w].batch, Taken \cap Before(sync[w].page))'
    BY <1>1, <1>4, <2>1, StillLists
  <2>4. Scanned(w)'
    BY <2>1, <2>2, <2>3 DEF Scanned
  <2>5. \A v \in Runners : v # w => Scanned(v)'
    BY <1>1, <2>1, ScannedSame DEF ScanInv
  <2> QED
    BY <2>4, <2>5 DEF ScanInv
<1>7. CASE Ends(w)
  <2>1. PICK at \in {"timer", "done"} : sync'[w] = Sync(at)
    BY <1>2, <1>7, EndsFresh
  <2>2. \A v \in Runners : v # w => sync'[v] = sync[v]
    BY <1>2, <1>7, EndsFresh
  <2>3. Scanned(w)'
    BY <2>1, ScannedFresh DEF Ats
  <2>4. \A v \in Runners : v # w => Scanned(v)'
    BY <1>1, <2>2, ScannedSame DEF ScanInv
  <2> QED
    BY <2>3, <2>4 DEF ScanInv
<1> QED
  BY <1>5, <1>6, <1>7, DiscoverWays DEF batch

(* The upserts leave what was discovered as it is.                         *)
LEMMA UpsertScan ==
  ASSUME ShapeInv, ScanInv, NEW w \in Runners,
         Spawn(w) \/ Return(w) \/ (\E i \in 1..MaxBatch : WorkerStep(w, i))
  PROVE  ScanInv'
<1>1. sync \in [Runners -> Syncs]
  BY DEF ShapeInv, Typed
<1>2. tmdb' = tmdb
  BY WorkerWays, ReturnWays DEF Spawn, outside
<1>3. CASE Spawn(w) \/ \E i \in 1..MaxBatch : WorkerStep(w, i)
  <2>1. \A v \in Runners : /\ sync'[v].at = sync[v].at /\ sync'[v].page = sync[v].page
                           /\ sync'[v].batch = sync[v].batch /\ sync'[v].steady = sync[v].steady
    <3>1. CASE Spawn(w)
      <4>1. sync' = [sync EXCEPT ![w].next = @ + 1]
        BY <3>1 DEF Spawn
      <4> QED
        BY <1>1, <4>1 DEF Syncs
    <3>2. ASSUME NEW i \in 1..MaxBatch, WorkerStep(w, i)
          PROVE  \A v \in Runners :
                   /\ sync'[v].at = sync[v].at /\ sync'[v].page = sync[v].page
                   /\ sync'[v].batch = sync[v].batch /\ sync'[v].steady = sync[v].steady
      BY <3>2, WorkerWays
    <3> QED
      BY <1>3, <3>1, <3>2
  <2> QED
    BY <1>2, <2>1, ScannedSame DEF ScanInv
<1>4. CASE Return(w)
  <2>1. Ends(w)
    BY <1>4, ReturnWays
  <2>2. PICK at \in {"timer", "done"} : sync'[w] = Sync(at)
    BY <1>1, <2>1, EndsFresh
  <2>3. \A v \in Runners : v # w => sync'[v] = sync[v]
    BY <1>1, <2>1, EndsFresh
  <2>4. Scanned(w)'
    BY <2>2, ScannedFresh DEF Ats
  <2>5. \A v \in Runners : v # w => Scanned(v)'
    BY <1>2, <2>3, ScannedSame DEF ScanInv
  <2> QED
    BY <2>4, <2>5 DEF ScanInv
<1> QED
  BY <1>3, <1>4

LEMMA RestartScan ==
  ASSUME Restart
  PROVE  ScanInv'
<1> SUFFICES ASSUME NEW w \in Runners PROVE Scanned(w)'
  BY DEF ScanInv
<1>1. PICK at \in {"done", "timer", "check"} : sync'[w] = Sync(at)
  BY StartedType DEF Restart
<1> QED
  BY <1>1, ScannedFresh DEF Ats

LEMMA NextScan == ShapeInv /\ ScanInv /\ [Next]_vars => ScanInv'
<1> SUFFICES ASSUME ShapeInv, ScanInv, [Next]_vars PROVE ScanInv'
  OBVIOUS
<1>1. ASSUME NEW w \in Runners, Advance(w) PROVE ScanInv'
  <2>1. CASE SeedCheck \/ Fire
    BY <2>1, CheckScan
  <2>2. CASE DiscoverPage(w)
    BY <2>2, DiscoverScan
  <2>3. CASE Spawn(w) \/ Return(w) \/ (\E i \in 1..MaxBatch : WorkerStep(w, i))
    BY <2>3, UpsertScan
  <2> QED
    BY <1>1, <2>1, <2>2, <2>3 DEF Advance, WorkerStep
<1>3. CASE TmdbIdentifies
  BY <1>3, IdentifiesWays, ScannedSame DEF ScanInv
<1>2. CASE Tick \/ UNCHANGED vars
  <2>1. sync' = sync /\ tmdb' = tmdb
    BY <1>2 DEF Tick, vars, outside
  <2> QED
    BY <2>1, ScannedSame DEF ScanInv
<1> QED
  BY <1>1, <1>2, <1>3, ChangesScan, RestartScan DEF Next

(* Only the last request of its discovery takes a sync to its upserts.     *)
LEMMA OnlyDiscoverStops ==
  ASSUME ShapeInv, [Next]_vars, NEW w \in Runners,
         sync[w].at = "discover", sync'[w].at = "upsert"
  PROVE  DiscoverPage(w)
<1>1. sync \in [Runners -> Syncs]
  BY DEF ShapeInv, Typed
<1>2. ASSUME SeedCheck \/ Fire PROVE FALSE
  <2>1. PICK v \in Runners, at \in {"discover", "done"} : sync' = [sync EXCEPT ![v].at = at]
    BY <1>2 DEF SeedCheck, Fire, Runners
  <2> QED
    BY <1>1, <2>1 DEF Syncs
<1>3. ASSUME TmdbChanges PROVE FALSE
  <2>1. sync'[w] \in {sync[w], [sync[w] EXCEPT !.steady = FALSE]} /\ sync[w] \in Syncs
    BY <1>1, <1>3 DEF TmdbChanges
  <2> QED
    BY <2>1 DEF Syncs
<1>4. ASSUME Restart PROVE FALSE
  <2>1. PICK at \in {"done", "timer", "check"} : sync'[w] = Sync(at)
    BY <1>4, StartedType DEF Restart
  <2> QED
    BY <2>1, FreshType DEF Ats
<1>5. ASSUME NEW v \in Runners, DiscoverPage(v), v # w PROVE FALSE
  <2> DEFINE batch == sync[v].batch \o Kept(sync[v].page)
  <2>1. \/ sync' = [Sharing(v) EXCEPT ![v].batch = batch, ![v].at = "upsert"]
        \/ sync' = [sync EXCEPT ![v].batch = batch, ![v].page = sync[v].page + 1]
        \/ Ends(v)
    BY <1>5, DiscoverWays
  <2> HIDE DEF batch
  <2>2. Sharing(v)[w].at = sync[w].at
    BY <1>1, SharingSame
  <2>3. Ends(v) => sync'[w] = sync[w]
    BY <1>1, <1>5, EndsFresh
  <2>4. sync'[w].at = sync[w].at
    BY <1>1, <1>5, <2>1, <2>2, <2>3 DEF Sharing
  <2> QED
    BY <2>4
<1>6. ASSUME NEW v \in Runners, Spawn(v) PROVE FALSE
  <2>1. sync' = [sync EXCEPT ![v].next = @ + 1]
    BY <1>6 DEF Spawn
  <2> QED
    BY <1>1, <2>1 DEF Syncs
<1>7. ASSUME NEW v \in Runners, NEW i \in 1..MaxBatch, WorkerStep(v, i) PROVE FALSE
  <2>1. sync'[w].at = sync[w].at
    BY <1>7, WorkerWays
  <2> QED
    BY <2>1
<1>8. ASSUME NEW v \in Runners, Return(v) PROVE FALSE
  <2>1. sync[v].at = "upsert" /\ Ends(v)
    BY <1>8, ReturnWays
  <2>2. sync'[w] = sync[w]
    BY <1>1, <2>1, EndsFresh
  <2> QED
    BY <2>2
<1>9. ~Tick /\ ~TmdbIdentifies /\ ~(UNCHANGED vars)
  BY IdentifiesWays DEF Tick, vars
<1> QED
  BY <1>2, <1>3, <1>4, <1>5, <1>6, <1>7, <1>8, <1>9 DEF Next, Advance, WorkerStep

LEMMA LastPageCompletes ==
  ASSUME ShapeInv, ScanInv, [Next]_vars, NEW w \in Runners,
         sync[w].at = "discover", sync'[w].at = "upsert", sync[w].steady
  PROVE  Lists(sync'[w].batch, Taken)
<1> DEFINE s == sync[w]
           batch == s.batch \o Kept(s.page)
<1>1. DiscoverPage(w)
  BY OnlyDiscoverStops
<1>2. /\ sync \in [Runners -> Syncs] /\ s \in Syncs /\ Scanned(w)
      /\ tmdb \in Catalogues /\ tmdb \in Seq(Items)
  BY CatalogueType DEF ShapeInv, Typed, ScanInv
<1>3. s.page \in Nat \ {0} /\ s.batch \in Seq(Items)
  BY <1>2 DEF Syncs
<1>4. Lists(batch, Taken \cap Before(s.page + 1))
  BY <1>2, <1>3, PageAdds DEF Scanned
<1> HIDE DEF batch
<1>5. Stops(s.page) /\ sync' = [Sharing(w) EXCEPT ![w].batch = batch, ![w].at = "upsert"]
  <2>1. ASSUME Ends(w) PROVE FALSE
    <3>1. PICK at \in {"timer", "done"} : sync'[w] = Sync(at)
      BY <1>2, <2>1, EndsFresh
    <3> QED
      BY <3>1, FreshType DEF Ats
  <2>2. ASSUME sync' = [sync EXCEPT ![w].batch = batch, ![w].page = s.page + 1] PROVE FALSE
    BY <1>2, <2>2 DEF Syncs
  <2> QED
    BY <1>1, <2>1, <2>2, DiscoverWays DEF batch
<1>6. sync'[w].batch = batch
  <2>1. Sharing(w) \in [Runners -> Syncs]
    BY <1>2, SharingSame
  <2> QED
    BY <1>5, <2>1 DEF Syncs
<1>7. Taken \cap Before(s.page + 1) = Taken
  BY <1>2, <1>3, <1>5, StopsPastAll
<1> QED
  BY <1>4, <1>6, <1>7

(* A discovery that the list did not change under takes every movie it     *)
(* should, once, in the list's order, however long the pages are.          *)
THEOREM DiscoveryComplete == Spec => SteadyDiscoveryIsComplete
<1>1. ShapeInv /\ ScanInv /\ [Next]_vars =>
        \A w \in Runners :
          sync[w].at = "discover" /\ sync'[w].at = "upsert" /\ sync[w].steady =>
            Lists(sync'[w].batch, Taken)
  BY LastPageCompletes
<1>2. Spec => []ScanInv
  BY ShapesKept, InitScan, NextScan, PTL DEF Spec
<1> QED
  BY <1>1, <1>2, ShapesKept, PTL DEF Spec, SteadyDiscoveryIsComplete
=============================================================================
