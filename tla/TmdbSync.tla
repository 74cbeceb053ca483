------------------------------ MODULE TmdbSync ------------------------------
(***************************************************************************)
(* The ways movies get into the table: the weekly sync, a goroutine with a *)
(* timer, in test mode a sync every 30 seconds in its place, and the seed  *)
(* that main runs at startup when the table is empty.  Each asks TMDb for  *)
(* the month's movies, page by page, and hands them to                     *)
(* UpsertMoviesFromTMDB, which upserts them from up to 10 goroutines under *)
(* an errgroup: the first error cancels the context of the others.         *)
(*                                                                         *)
(* Time passes in slots, two a day: before 03:00 UTC, and from 03:00 on.   *)
(* Slot 0 is the first half of a Sunday, and the week comes round again.   *)
(***************************************************************************)
EXTENDS Integers, Sequences, FiniteSets

CONSTANTS Ids,           \* TMDb ids
          Versions,      \* what TMDb may say of a movie
          Catalogues,    \* what TMDb may list for the month, most popular first
          Identified,    \* which movies TMDb may have an IMDb id for
          PageSize,      \* results on a page
          Concurrency,   \* workers at a time (10)
          StartSlots,    \* bound: when the first process may start
          MaxBatch,      \* bound: movies in one sync
          MaxChanges,    \* bound: changes of what TMDb says
          MaxFaults,     \* bound: failures in one behaviour
          None           \* an absent row

(* A movie is taken, "filtered" (an Indian language, adult, without a      *)
(* release date) or "unpopular" (below 3.0), where discovery stops.        *)
Items == [id: Ids, version: Versions, kind: {"taken", "filtered", "unpopular"}]
Rows == [version: Versions, linked: BOOLEAN]

ASSUME CataloguesAssumption ==
  \A list \in Catalogues :
    /\ list \in Seq(Items)
    /\ \A i, j \in DOMAIN list :
         i < j => /\ list[i].id # list[j].id
                  /\ list[i].kind = "unpopular" => list[j].kind # "taken"
ASSUME ConcurrencyAssumption == {Concurrency, PageSize} \subseteq Nat \ {0}
ASSUME BoundsAssumption == /\ StartSlots \subseteq 0..13      \* slots of a week
                           /\ {MaxBatch, MaxChanges, MaxFaults} \subseteq Nat
ASSUME NoneAssumption == None \notin Rows

VARIABLES mode,          \* "weekly", "test" (TMDB_TEST_MODE) or "off" (no TMDB_API_KEY)
          tmdb,          \* the list TMDb would give now
          imdb,          \* the movies TMDb would give an IMDb id for now
          changes,       \* changes of the two so far
          movies,        \* movies[id]: version of the row and whether it has links, or None
          clock,         \* the slot of the week of time.Now()
          left,          \* slots until the weekly timer fires
          sync,          \* sync[w]: the sync of runner w
          worker,        \* worker[w][i]: the goroutine of the i-th movie
          faults         \* failures so far

outside == <<mode, tmdb, imdb, changes>>
vars == <<outside, movies, clock, left, sync, worker, faults>>

Runners == {"periodic", "seed"}
-----------------------------------------------------------------------------
(* The first sync of a process.                                            *)

Day(t) == t \div 2
Weekday(t) == Day(t) % 7
ThreeOClock(day) == 2 * day + 1
Week == 14
DaysUntilMonday(t) == (1 - Weekday(t) + 7) % 7

NextSyncOnce(now) == ThreeOClock(Day(now) + DaysUntilMonday(now))

(* On a Monday past 03:00 "now" itself is moved by a week, and the result  *)
(* is compared with the moved one.                                         *)
NextSync(now) ==
  LET past == DaysUntilMonday(now) = 0 /\ ThreeOClock(Day(now)) <= now
      from == IF past THEN now + Week ELSE now
      next == ThreeOClock(Day(from) + DaysUntilMonday(from)) IN
  IF next > from THEN next ELSE next + Week
-----------------------------------------------------------------------------
(* A sync: the page to ask for next, the movies taken so far, the next one *)
(* to upsert, those no IMDb id has been found for, the rows written, and   *)
(* whether an upsert has failed.  Three fields are not in the code:        *)
(* "steady", TMDb's list has not changed since the request of page 1,      *)
(* "settled", nor have its IMDb ids since the first upsert, and "shared",  *)
(* the other runner was upserting at the same time.                        *)
Sync(at) == [at |-> at, page |-> 1, batch |-> <<>>, next |-> 1, bare |-> {},
             count |-> 0, failed |-> FALSE,
             steady |-> TRUE, settled |-> TRUE, shared |-> FALSE]
NoWorkers == [i \in 1..MaxBatch |-> "none"]

(* Without a client nothing is started.                                    *)
Started(m) == [w \in Runners |-> Sync(IF m = "off" THEN "done"
                                     ELSE IF w = "periodic" THEN "timer" ELSE "check")]

(* The test mode's ticker does not follow the clock, which then stands.    *)
FirstDue(m, now) == IF m = "weekly" THEN NextSync(now) - now ELSE 0

Init == /\ mode \in {"weekly", "test", "off"}
        /\ tmdb \in Catalogues /\ imdb \in Identified
        /\ changes = 0
        /\ movies = [id \in Ids |-> None]
        /\ clock \in StartSlots
        /\ left = FirstDue(mode, clock)
        /\ sync = Started(mode)
        /\ worker = [w \in Runners |-> NoWorkers]
        /\ faults = 0

Healthy == UNCHANGED faults
Faulty == faults < MaxFaults /\ faults' = faults + 1

(* The end of a sync: the timer is set for a week from now, the ticker     *)
(* goes on, and the seed never runs again.                               *)
Ends(w) ==
  /\ sync' = [sync EXCEPT ![w] = Sync(IF w = "periodic" THEN "timer" ELSE "done")]
  /\ left' = IF w = "periodic" /\ mode = "weekly" THEN Week ELSE left

(* SeedTMDBIfEmpty: HasMovies.                                             *)
SeedCheck ==
  /\ sync["seed"].at = "check"
  /\ \/ /\ \A id \in Ids : movies[id] = None
        /\ sync' = [sync EXCEPT !["seed"].at = "discover"] /\ Healthy
     \/ /\ \E id \in Ids : movies[id] # None
        /\ sync' = [sync EXCEPT !["seed"].at = "done"] /\ Healthy
     \/ sync' = [sync EXCEPT !["seed"].at = "done"] /\ Faulty
  /\ UNCHANGED <<outside, movies, clock, left, worker>>

Fire ==
  /\ sync["periodic"].at = "timer" /\ left = 0
  /\ sync' = [sync EXCEPT !["periodic"].at = "discover"]
  /\ UNCHANGED <<outside, movies, clock, left, worker, faults>>
-----------------------------------------------------------------------------
(* DiscoverByReleaseWindow.                                                *)

OnPage(page) == {i \in DOMAIN tmdb : (page - 1) * PageSize < i /\ i <= page * PageSize}
Taken == {i \in DOMAIN tmdb : tmdb[i].kind = "taken"}

(* Appended one after the other: the movies at these places of the list,   *)
(* the k-th being the one with k - 1 of them before it.                    *)
Appended(places) ==
  [k \in 1..Cardinality(places) |->
     tmdb[CHOOSE i \in places : Cardinality({j \in places : j < i}) = k - 1]]
Kept(page) == Appended(Taken \cap OnPage(page))

(* The loop is over after TMDb's last page, or one that holds a movie      *)
(* below the threshold; the movies before it on the page are kept.         *)
StopsShort(page) ==
  \/ page * PageSize >= Len(tmdb)
  \/ \E i \in OnPage(page) : tmdb[i].kind # "taken"
Stops(page) ==
  \/ page * PageSize >= Len(tmdb)
  \/ \E i \in OnPage(page) : tmdb[i].kind = "unpopular"

Sharing(w) ==
  LET beside == {v \in Runners \ {w} : sync[v].at = "upsert"} IN
  [v \in Runners |-> [sync[v] EXCEPT !.shared = @ \/ v \in beside \/ (v = w /\ beside # {})]]

(* One request.  An error drops the pages before it.                       *)
DiscoverPage(w) ==
  LET s == sync[w] IN
  /\ s.at = "discover"
  /\ \/ /\ Len(s.batch \o Kept(s.page)) <= MaxBatch
        /\ sync' = IF Stops(s.page)
                     THEN [Sharing(w) EXCEPT ![w].batch = @ \o Kept(s.page), ![w].at = "upsert"]
                     ELSE [sync EXCEPT ![w].batch = @ \o Kept(s.page), ![w].page = @ + 1]
        /\ Healthy /\ UNCHANGED left
     \/ Ends(w) /\ Faulty
  /\ UNCHANGED <<outside, movies, clock, worker>>

(* TMDb lists other movies, or in another order, or says more of them.     *)
TmdbChanges ==
  /\ changes < MaxChanges
  /\ changes' = changes + 1
  /\ tmdb' \in Catalogues \ {tmdb}
  /\ sync' = [w \in Runners |-> IF sync[w].at = "discover" /\ sync[w].page > 1
                               THEN [sync[w] EXCEPT !.steady = FALSE] ELSE sync[w]]
  /\ UNCHANGED <<mode, imdb, movies, clock, left, worker, faults>>

(* TMDb learns an IMDb id, or takes one back.                              *)
TmdbIdentifies ==
  /\ changes < MaxChanges
  /\ changes' = changes + 1
  /\ imdb' \in Identified \ {imdb}
  /\ sync' = [w \in Runners |-> IF sync[w].at = "upsert"
                               THEN [sync[w] EXCEPT !.settled = FALSE] ELSE sync[w]]
  /\ UNCHANGED <<mode, tmdb, movies, clock, left, worker, faults>>
-----------------------------------------------------------------------------
(* UpsertMoviesFromTMDB.                                                   *)

Spawned(w) == 1..(sync[w].next - 1)
Active(w) == {i \in 1..MaxBatch : worker[w][i] \in {"ids", "exec"}}

(* The semaphore is released by the worker's defer, on success or error.   *)
FreeSlotIgnored(w) == TRUE
FreeSlotKeptOnError(w) ==
  Cardinality({i \in Spawned(w) : worker[w][i] # "stored"}) < Concurrency
FreeSlot(w) == Cardinality(Active(w)) < Concurrency

(* After an error the loop goes on: its break only leaves the select.      *)
Spawn(w) ==
  /\ sync[w].at = "upsert" /\ sync[w].next <= Len(sync[w].batch)
  /\ FreeSlot(w)
  /\ sync' = [sync EXCEPT ![w].next = @ + 1]
  /\ worker' = [worker EXCEPT ![w][sync[w].next] = "ids"]
  /\ UNCHANGED <<outside, movies, clock, left, faults>>

(* GetExternalIDs, whose error is ignored and whose answer may hold no     *)
(* IMDb id, and the start of the upsert: a statement begun under the       *)
(* cancelled context fails at once.                                        *)
HasIMDb(w, i) == sync[w].batch[i].id \in imdb

FetchIDs(w, i) ==
  /\ worker[w][i] = "ids"
  /\ worker' = [worker EXCEPT ![w][i] = IF sync[w].failed THEN "failed" ELSE "exec"]
  /\ \/ HasIMDb(w, i) /\ Healthy /\ UNCHANGED sync
     \/ /\ (~HasIMDb(w, i) /\ Healthy) \/ Faulty
        /\ sync' = [sync EXCEPT ![w].bare = @ \cup {i}]
  /\ UNCHANGED <<outside, movies, clock, left>>

(* INSERT ... ON CONFLICT (id) DO UPDATE, of the links too: without an     *)
(* IMDb id they are cleared, both of them.                                 *)
Row(w, i) == [version |-> sync[w].batch[i].version, linked |-> i \notin sync[w].bare]
WrittenOnce(w, i) ==
  LET id == sync[w].batch[i].id IN
  IF movies[id] # None THEN movies ELSE [movies EXCEPT ![id] = Row(w, i)]
Written(w, i) == [movies EXCEPT ![sync[w].batch[i].id] = Row(w, i)]

Stored(w, i) ==
  /\ worker[w][i] = "exec"
  /\ movies' = Written(w, i)
  /\ worker' = [worker EXCEPT ![w][i] = "stored"]
  /\ sync' = [sync EXCEPT ![w].count = @ + 1]
  /\ UNCHANGED <<outside, clock, left, faults>>

(* An error, of the statement or by cancellation; the row may be written.  *)
SwallowError(s) == s
ReportError(s) == [s EXCEPT !.failed = TRUE]

UpsertFails(w, i) ==
  /\ worker[w][i] = "exec"
  /\ IF sync[w].failed THEN Healthy ELSE Faulty
  /\ movies' \in {movies, Written(w, i)}
  /\ worker' = [worker EXCEPT ![w][i] = "failed"]
  /\ sync' = [sync EXCEPT ![w] = ReportError(sync[w])]
  /\ UNCHANGED <<outside, clock, left>>

(* errgroup.Wait.                                                          *)
ReturnsOnError(w) ==
  sync[w].next > Len(sync[w].batch) /\ (Active(w) = {} \/ sync[w].failed)
Waited(w) == sync[w].next > Len(sync[w].batch) /\ Active(w) = {}

Return(w) ==
  /\ sync[w].at = "upsert"
  /\ Waited(w)
  /\ Ends(w)
  /\ worker' = [worker EXCEPT ![w] = [i \in 1..MaxBatch |->
                                     IF i \in Active(w) THEN worker[w][i] ELSE "none"]]
  /\ UNCHANGED <<outside, movies, clock, faults>>
-----------------------------------------------------------------------------
(* Bound: a periodic sync is over before its slot is.                      *)
Tick == /\ mode = "weekly"
        /\ sync["periodic"].at = "timer" /\ left > 0
        /\ clock' = (clock + 1) % Week
        /\ left' = left - 1
        /\ UNCHANGED <<outside, movies, sync, worker, faults>>

(* The process stops, at any moment, and starts again.                     *)
Restart == /\ Faulty
           /\ left' = FirstDue(mode, clock)
           /\ sync' = Started(mode)
           /\ worker' = [w \in Runners |-> NoWorkers]
           /\ UNCHANGED <<outside, movies, clock>>

Advance(w) == \/ w = "seed" /\ SeedCheck
              \/ w = "periodic" /\ Fire
              \/ DiscoverPage(w) \/ Spawn(w) \/ Return(w)
              \/ \E i \in 1..MaxBatch : FetchIDs(w, i) \/ Stored(w, i) \/ UpsertFails(w, i)

Next == \/ \E w \in Runners : Advance(w)
        \/ TmdbChanges \/ TmdbIdentifies
        \/ Tick
        \/ Restart

Spec == Init /\ [][Next]_vars

(* Goroutines are scheduled, statements and calls return, time passes.     *)
FairSpec == Spec /\ (\A w \in Runners : WF_vars(Advance(w))) /\ WF_vars(Tick)
-----------------------------------------------------------------------------
(* Properties.                                                             *)

(* The reason for the semaphore: no more than Concurrency movies of one    *)
(* sync are being fetched or upserted at a time.                           *)
SlotsKept == \A w \in Runners : Cardinality(Active(w)) <= Concurrency

(* Shapes, and the bound on the workers.                                   *)
TypeOK ==
  /\ movies \in [Ids -> Rows \cup {None}]
  /\ clock \in 0..(Week - 1) /\ left \in Nat /\ faults \in 0..MaxFaults
  /\ tmdb \in Catalogues /\ imdb \in Identified
  /\ \A w \in Runners :
       /\ sync[w].at \in {"timer", "check", "discover", "upsert", "done"}
       /\ sync[w].batch \in Seq(Items)
       /\ sync[w].next \in 1..(Len(sync[w].batch) + 1)
       /\ worker[w] \in [1..MaxBatch -> {"none", "ids", "exec", "stored", "failed"}]
  /\ SlotsKept

(* No goroutine of a sync is left at work once it has returned: the next   *)
(* sync, a week later, never meets the writes of the last.                 *)
NoWorkerOutlivesSync ==
  \A w \in Runners : sync[w].at # "upsert" => Active(w) = {}

(* The batch goes through these places of the list in its order, meeting   *)
(* each of them once.                                                      *)
Lists(batch, places) ==
  \E place \in [1..Len(batch) -> places] :
    /\ \A k \in 1..Len(batch) : batch[k] = tmdb[place[k]]
    /\ \A k, l \in 1..Len(batch) : k < l => place[k] < place[l]
    /\ \A i \in places : \E k \in 1..Len(batch) : place[k] = i

(* A discovery that TMDb's list did not change under takes exactly the     *)
(* movies above the threshold that no filter excludes, each once: no page  *)
(* is left out, and the stop at the first unpopular movie loses nothing.   *)
SteadyDiscoveryIsComplete ==
  [][\A w \in Runners :
       sync[w].at = "discover" /\ sync'[w].at = "upsert" /\ sync[w].steady =>
         Lists(sync'[w].batch, Taken)]_vars

VersionsFor(w, id) ==
  {sync[w].batch[i].version : i \in {j \in DOMAIN sync[w].batch : sync[w].batch[j].id = id}}

(* The row holds what TMDb said of the movie, one of the two versions if   *)
(* it was taken twice, and has links if TMDb has an IMDb id for it and only *)
(* then.  The other runner, upserting at the same time, may have written   *)
(* what it was told; the links are only compared when TMDb's IMDb ids have *)
(* not changed during the upserts and no request for one has failed.       *)
RowIsTrue(w, i) ==
  LET row == movies[sync[w].batch[i].id] IN
  /\ row # None
  /\ \/ sync[w].shared
     \/ /\ row.version \in VersionsFor(w, sync[w].batch[i].id)
        /\ sync[w].settled /\ faults = 0 => (row.linked <=> HasIMDb(w, i))

(* A sync that returns without an error has stored every movie TMDb named, *)
(* its count is right, and the rows say what TMDb said.                    *)
SuccessMeansStored ==
  [][\A w \in Runners :
       sync[w].at = "upsert" /\ sync'[w].at \in {"timer", "done"} /\ ~sync[w].failed /\ faults' = faults =>
         /\ sync[w].count = Len(sync[w].batch)
         /\ \A i \in DOMAIN sync[w].batch : RowIsTrue(w, i)]_vars

(* Every sync ends, whatever fails: the loop that waits for the semaphore, *)
(* and Wait, are always released.  The process serves no request and sets  *)
(* no snapshot timer before the seed has ended.                            *)
SyncEnds ==
  \A w \in Runners : sync[w].at = "discover" ~> sync[w].at \in {"timer", "done", "check"}

(* Whatever failed, and whatever moved between two pages, the table comes  *)
(* to hold what TMDb says of every movie, with links for those TMDb has an *)
(* IMDb id for and no others: the next sync repairs a half-done one, a     *)
(* missed movie, the links that a swallowed error cleared and those of an  *)
(* IMDb id that came late or was taken back.                               *)
CatchesUpWithTmdb ==
  mode # "off" =>
  <>[]\A i \in DOMAIN tmdb :
        tmdb[i].kind = "taken" =>
          movies[tmdb[i].id] = [version |-> tmdb[i].version, linked |-> tmdb[i].id \in imdb]

(* Whenever the process starts, the first sync is set for a Monday, 03:00, *)
(* that has not passed.                                                    *)
FirstSyncOnMonday ==
  LET first == NextSync(clock) IN
  first > clock /\ Weekday(first) = 1 /\ first = ThreeOClock(Day(first))

(* "Align to next Monday 03:00 UTC": the first sync is at most a week off. *)
NextMondayIsWithinAWeek == sync["periodic"].at = "timer" => left <= Week
=============================================================================
