# CineKami server: a verification development

TLA+ models of the CineKami server (the Go repository beside this directory),
model-checked with TLC on small instances, and theorems about it proved with
TLAPS. Paths below are relative to the repository.

## The system

One process serves HTTP and runs background jobs over a PostgreSQL database; a
response cache (in memory, or Valkey) sits in front of the read endpoints.

| Part | State it keeps | Operations |
|---|---|---|
| Vote handler: `routes/movie_[id]_votes.go`, `repos/votes.go` | tables `voters`, `votes`, `vote_tallies`; per request: the decoded body, the time it captured, the answer | `MovieVote`, `CreateVote` |
| Listing: `routes/movies.go`, `repos/movies.go` | per request: month, key, body | `MoviesActive`: look up, list, count, fill |
| Cache: `pkg/cache` | key to body with expiry | `Get`, `Set`, `DeletePrefix`, `Delete` |
| Tallies endpoint: `routes/movie_[id]_tallies.go` | none | two reads |
| Snapshot endpoints: `routes/snapshots.go` | cached pages, kept for a day | list a month, list the months |
| Snapshot job: `jobs/snapshot.go`, `repos/snapshots.go` | table `snapshots`; the month it waits for, the movies left | `StartMonthlySnapshot`, `StartTestSnapshot`, `SnapshotMonth` |
| TMDb sync: `jobs/tmdb.go`, `jobs/seed.go`, `pkg/tmdb`, `UpsertMoviesFromTMDB` | table `movies`; the timer; an errgroup with a semaphore of ten | weekly sync, seed, test sync |
| Cursor codec: `pkg/crypto` | the key | encode, decode |
| Lifecycle: `cmd/api-server/main.go`, `server/middleware.go` | the root context | start, stop on a signal |
| Router, middleware, helpers, configuration, migrations, generated code | none | |

How they meet: everything shares the database, and no two statements share a
transaction. The sync writes `movies`, which votes and listings read for the
release date and snapshots for the month. Votes write the counters, which
listings, the tallies endpoint and snapshots read. A vote drops the cached
listings of the month; nothing else invalidates anything. Cached pages and the
cursors in them outlive the process when the cache is Valkey.

What is hard:

* **Concurrency.** Every request is a goroutine; statements of different
  requests, of the jobs and of the fills of the cache interleave freely.
* **Partial failure.** Vote and counter, movie and movie, delete and delete
  are separate statements; any can fail, or commit and have its outcome lost
  (a cancelled request context, a broken connection).
* **Restarts.** Jobs keep their schedule in memory only; the cache, the backend
  it uses and the cursor secret may be others in the next process.
* **Time.** Voting closes against a time captured on arrival; months end while
  requests are in flight; the timers compute calendar dates.

What makes each part correct: votes are unique per movie and fingerprint,
counted once and never before they are recorded, and acknowledged truthfully
(vote handler); a cached body never shows what is not so and lacks only what is
about to be invalidated (listing and cache); a `Get` returns what was last
stored and not past its lifetime (cache); a client that follows the cursors
sees what stays put exactly once (paging); a snapshot covers its month and
holds only counted votes (snapshot job); a sync that reports success has stored
everything and leaves nothing running, and the table catches up with TMDb (sync).

## Modules

| Module | Models | Uses |
|---|---|---|
| `VoteLedger` | abstract: ballots cast once, counters that trail them | |
| `VoteHandler` | `POST /movies/{id}/votes`, with syncs, clock, failures, restarts | instance of `VoteLedger` |
| `VoteListing` | `GET /movies/active` over either cache and `GET /movies/{id}/tallies`, composed with the vote handler | extends `VoteHandler` |
| `ResponseCache` | abstract: what a read-through cache promises | |
| `ReadThrough` | the three handlers behind the cache, the in-memory map lock by lock, Valkey command by command | instance of `ResponseCache` |
| `KeysetPaging` | a client walking the pages of either listing while rows move, pages come from the cache and the process restarts | |
| `SnapshotJob` | `SnapshotMonth`, the monthly timer, the test-mode run, downtime | votes follow `VoteLedger` |
| `TmdbSync` | the weekly timer, the test mode, the seed, discovery page by page, `UpsertMoviesFromTMDB` | |
| `VoteProofs`, `VoteAnswerProofs` | proofs about `VoteHandler` | |
| `ListingProofs` | proofs about `VoteListing` | the two above |
| `CacheProofs` | proofs about `ReadThrough` | |
| `SyncProofs` | proofs about `TmdbSync` | `RankTheorems` |
| `SnapshotProofs` | proofs about `SnapshotJob` | |
| `PagingProofs` | proofs about `KeysetPaging` | `RankTheorems` |
| `RankTheorems` | lemmas: numbering a finite set along a strict order | |
| `MCVoteHandler`, `MCVoteListing`, `MCReadThrough`, `MCTmdbSync` | instances for TLC | |

### VoteHandler

The tables are functions: `release[m]` (the row of `movies`, `None` without
one), `voters`, `votes[m][f]` (the unique constraint of migration 0004 makes
this a function; a voter id stands for its fingerprint), `tallies[m][c]`.
`pc[r]` names the next SQL statement of request `r`, `job[r]` holds what it
decoded and the time it captured, `reply[r]` the answer.

| Action | Code |
|---|---|
| `Receive` | decoding, `UnmarshalJSON` of the category, missing fields |
| `CheckMovie` | `GetMovieReleaseDate`, voting closed, category not in the set |
| `GetVoter`, `InsertVoter` | the voter, with the unique constraint on fingerprints |
| `InsertVote`, `IncrementTally` | the vote and its counter |
| `LoadTallies`, `LoadVotedCategory`, `Respond` | the rest of the handler |
| `QueryFails`, `Committed`, `Crash` | a statement fails without or with effect; the process stops |
| `SyncMovie`, `Tick` | a sync upserts a movie; a day passes |

A category left out of the body never reaches the decoder and is rejected only
by `CreateVote`, after the check on the date: the model keeps `None` for it. A
missing movie is the driver's `ErrNoRows`, which `CreateVote` returns before its
own "movie not found" can apply, so the client sees 500 and the branch for 404
in the route is dead; the model has the 500. `clock` counts midnights: the
comparison with the release date is exact there, and a later instant of a day
compares as the next midnight does.

### VoteListing

`cache[month][key]`, `reader[q]`, `doomed[r]` and `viewer[v]`. Of the key only
month and fingerprint are kept: the other parameters make more keys of the same
kind. A hit changes nothing and is no action. `SharedCache` chooses between the
map, where `RespondAndInvalidate` deletes under one lock, and Valkey, where the
answer comes after `ListKeys` and a `DeleteKey` for each key found (`doomed[r]`
holds those left), every command may fail, and the entries survive `CrashAll`.
`Expire` may happen at any moment, which covers both lifetimes and the deletion
in `InMemoryCache.Get`. `StartView` and `FinishView` are the two queries of the
tallies endpoint; the error of the first is ignored. README.md:40 calls these
tallies cached; the handler does not use the cache, and neither does the model.
The field `overtaken` is a history variable for the properties.

### ReadThrough and ResponseCache

`memory` and `valkey` map keys to entries with the time they have left;
`backend` is the cache `main` chose at the start. `handler[h]` walks through
lookup, page, count and fill, the order in all three handlers (the list of
months has no count, which is as if nothing came between the two queries).
`InMemoryCache.Get` is three actions, since it reads under the read lock
(`GetMemory`), judges the copy without a lock (`CheckExpiry`) and deletes under
the write lock whatever the key then holds (`DropExpired`). `DeletePrefix` is one
action for the map and `ListKeys` then `DeleteKey` for Valkey. `table[k]` is the
version of the database's answer for `k`; `Change` stands for every writer.
Restarts keep Valkey's entries and may swap the backend, as `NewValkey` fails or
not.

`ResponseCache` keeps what a `Get` may find (`live`), what a process with the other
backend left behind (`hidden`), what a `Get` has seen and what it returned. The
mapping sends the store of the running process to `live` and the other one to
`hidden`.

### KeysetPaging

One walk: `NextPage` is one request, with the predicate and the `ORDER BY` of
`ListActiveMoviesFilteredPage` and `ListSnapshotsByMonthFilteredPage`, which are
the same, over a table `rows`; `Move` is a vote or a sync. A page is that of the
table now or of any earlier table in `past`, as the cache may hold it. The cursor
is the decoded pair and the secret that signed it: `Restart` draws a new secret
when none is configured, `Refuse` is the 400 for a cursor of another secret, after
which the client starts over. Popularity is a sort key like any other except
for the tie-break. `ORDER BY ... LIMIT` is by rank: the n-th row of a page is the
row behind the cursor with n - 1 such rows ahead of it.

### SnapshotJob

`run[w]` is the state of a runner: held up by the seed, waiting for its timer,
listing, reading a movie's counters, upserting its row, or down with the process.
The month in `run[w]` while the timer is set is the month that will be
snapshotted, so the timer is due when the clock is in a later month. `Stop` and
`Start` bracket a downtime of any length. Votes are steps of `VoteLedger`, which
`ImplementsLedger` justifies. `base`, `shared` and `missed` are history
variables. One assumption narrows the model and is stated at `Tick`: a monthly
run, which takes moments, is over before the month is in which it started.

### TmdbSync

`sync[w]` for the periodic job and the seed, `worker[w][i]` for the goroutine of
the i-th movie. `mode` is the weekly timer, the ticker of test mode, or a process
without an API key, where nothing runs. Time passes in slots of the day, before and
from 03:00, which is all `NextSync` distinguishes, and the week comes round
again. `DiscoverPage` is one request: the page, its filters, the threshold where
discovery stops; `TmdbChanges` may come between two. The filter is by rank too:
the n-th movie appended is the item taken with n - 1 taken before it.

The links come from a second request for each movie, `FetchIDs`. What TMDb would
answer is a variable, `imdb`, the movies it has an IMDb id for, apart from the
list `tmdb`: the request is sent while the upserts run, long after the discovery,
and `TmdbIdentifies` may come between any two steps. The code has three outcomes
(`repos/movies.go:197-203`). An answer with an id gives the row its links; an
answer without one, which is no error, and an error, which is ignored, both leave
the two links empty, and the upsert then clears those that were there. `bare`
holds the movies of the last two kinds. `steady`, `settled` and `shared` are
history variables: the list has not changed during the discovery, nor the IMDb
ids during the upserts, and the other runner was upserting too.

After an error the loop keeps spawning, since `break`
only leaves the `select`, and a statement begun under the cancelled context fails
at once.

## Runs

| Run | Question | Instance | Result |
|---|---|---|---|
| `vote_handler` | Are counters, answers and closed results right, and is the ledger implemented? | 2 requests, 2 fingerprints, 2 categories, 1 movie, release day 0 or 1, 3 days, 1 failure | about a million states, holds |
| `vote_lost_count` | Does `CreateVote` keep its comment's promise? | 1 category, 1 failure | violated |
| `voter_race` | Does "ensure voter exists" fail only by failure? | no failure allowed | violated |
| `listing_cache` | What may a cached body lack or show? | the map; 2 votes, 1 reader, keys with and without fingerprint, 1 failure | holds |
| `listing_liveness` | The same over Valkey and a month's end, the tallies endpoint; is every request answered, do counters and cache converge? | 1 vote, 1 listing, 1 tallies request, 2 months, 1 failure | holds |
| `read_through` | Do the two caches implement `ResponseCache`, and do they catch up? | 2 requests, 2 keys with different lifetimes, 1 change, 2 failures or restarts | 770,916 states, holds |
| `keyset_paging` | Does a walk deliver what stays put, in order, with accepted cursors, and end? | every table of 3 rows over 2 values, both directions, pages of 1 and 2, 2 moves, 1 restart | 1.4 million states, holds |
| `keyset_ties` | Is a walk over a static table complete? | no moves | violated |
| `snapshot_job` | Are snapshots complete, truthful, and missed only for a reason? | 2 movies, 2 runners, 3 months, 2 failures or stops | 370,156 states, holds |
| `snapshot_rewrite` | Are snapshots immutable? | the same | violated |
| `tmdb_sync` | Does discovery lose nothing, does a sync keep its limits, report the truth, end, catch up? | catalogues of up to 4 items, pages of 2, 2 workers at a time, every slot of a week, an IMDb id for one movie always and for another now and then, 1 change of TMDb's list or ids, 1 failure or restart | 522,446 states, holds |
| `sync_delay` | Is the first sync within a week? | starts before and after Monday 03:00 | violated |

### Why the bounds suffice

Two requests are what every race here needs: the voter race, two first votes of
one fingerprint, two increments of a counter. Idle requests are reused, so a
behaviour holds any number of votes one after the other. Two fingerprints
separate "the same voter" from "another vote for the same counter", two
categories separate a duplicate from a contradicting one. `MaxFaults = 1` puts
one failure, lost outcome or restart at every point of every behaviour;
`read_through` needs two, for the backend to be swapped and swapped back, and
`snapshot_job` two, for a failed run before a downtime. `MaxDay = 2` reaches the
day before, on and after closing, with `VotingDays = 1` for the code's 14. Movies
do not interact in the vote handler, so one is enough there; the snapshot job
takes them one after the other, so two. For paging, three rows are the least in
which a tie crosses a page boundary with a row on each side; `MaxSeen` stops a
walk that would never end, and `WalkEnds` would fail if it stopped any other. In
`tmdb_sync`, `Concurrency = 2` for the code's 10 makes the third movie wait, both
catalogues end in an unpopular item and have the filtered one on one page or the
other, and a change from one to the other between two pages makes a movie appear
twice or not at all. Of the two movies that can be taken one always has an IMDb id
and the other may, so a row may have to gain links, to lose them, and to get them
back after an error. The theorems below do not depend on any of these bounds.

Deadlock is checked where the system can always go on. It is off for
`KeysetPaging`, where the client's walk ends, and for `TmdbSync`, where a process
without an API key has nothing to do; there `SyncEnds` excludes that the
semaphore blocks a sync.

### Properties and what could break them

`vote_handler`: `TalliesTrailVotes` and `TalliesExactWithoutFaults` bound the
gap between counters and votes by the requests between the two statements;
`AcknowledgedOnceAndCounted` says a vote is acknowledged to one request and
stays counted; `AnswersMatchDatabase` compares what a 200 said with the tables
for as long as the answer is remembered; `SealedResultIsFinal` says precisely
when a result is final: after closing and once no request that arrived earlier
is left, unless a sync moves the date. `LedgerSpec` is the refinement.

`listing_cache`, `listing_liveness`: `FreshUnlessOvertaken` says that an entry
lacks at most the votes of requests that have counted and not yet invalidated,
also while Valkey deletes key by key. The exception is in the code: a fill that
read before an invalidation and stores after it. For it only `CacheConverges`
holds, by the two minutes. `StaleOnlyByOmission` holds for every entry.
`ShownChoiceIsCounted` rests on the order of the two queries of the tallies
endpoint: in the other order a voter could be shown a choice missing from the
counts beside it.

`read_through`: `CacheSpec` says that whatever `Get` does between its two locks,
and whatever restarts leave in Valkey, what it returns was stored under its key
and is within its lifetime. A fill may undo a deletion, or put an older answer
over a newer one, and a page may go with the total of another moment;
`CatchesUp` says that this ends when the database stops changing.

`keyset_paging`: `StableRowsSeenOnce` holds although pages come from the cache of
any earlier table. `HandedOutCursorsAccepted` has an exception: a first page in
Valkey hands out a cursor of the process before, refused again and again until
that page expires; `WalkEnds` says that it does.

`snapshot_job`: `RowsOnlyGrow` and `CompletedRunCoversMonth` except two runs
over one month at the same time (a test-mode run still at work at 00:05 on the
first), where the slower one writes what it read earlier.
`MonthGetsSnapshotted` lists the ways to miss a month: the run fails or is cut
short, or the month ends while the process is down or busy with the seed.

`tmdb_sync`: `SteadyDiscoveryIsComplete` for a list that does not move while it is
read; `SuccessMeansStored` for every sync, the versions unless the other runner was
upserting too, and the links, there exactly if TMDb has an IMDb id, unless the ids
have changed since the first upsert or something has failed (an error of
`GetExternalIDs` is no error of the sync); `CatchesUpWithTmdb` says that the next
sync repairs what a failure, a swallowed error, a moving list or an id that came
late has left, and clears the links of a movie that TMDb has no id for.

### Disagreements found

1. A vote can be recorded and never counted (`repos/votes.go:64`).
2. The loser of a race of two first votes gets a 500 (`repos/votes.go:43`).
3. Pages sorted by anything but popularity skip or repeat rows that tie
   (`store/movies.sql.go:129`, `store/snapshots.sql.go:179`).
4. Snapshots are overwritten in test mode, against "immutable per month".
5. A process started on a Monday past 03:00 syncs almost two weeks later
   (`jobs/tmdb.go:34`).

Noticed, and not run. A movie released late in a month is snapshotted on the
first while voting on it is open for up to 14 days, so the row lacks the later
votes for good; it also leaves the listing on the first, because the listing is
of the current month, while votes are still accepted. A sync asks for the current
month only, so after a month's end nothing is listed until the next Monday's
sync. README.md:40 calls the tallies endpoint cached, which it is not. README.md:48
gives the unique key of votes as `(movie_id, voter_id, category)`; since migration
0004 it is `(movie_id, voter_id)`, "regardless of category", which implies the
other. The models have the constraint of the migration.

## Fairness

`FairSpec` of `VoteHandler` and `FairListingSpec`: weak fairness of each
request's and reader's next step. The runtime schedules every goroutine, and the
driver returns from each statement with a result or an error. Failures,
arrivals and restarts are never required to happen. Expiry is fair because every
`Set` has a lifetime. `ReadThrough`: time passes and a request that has begun is
carried on; no request has to arrive, and no deletion to happen. `KeysetPaging`: the
client asks for the next page while there is one, and cached pages expire.
`SnapshotJob` and `TmdbSync`: the jobs' steps are taken, and time passes.

## Proofs

Every invariant and action property of a passing run is a theorem, and so are
the two refinements. They hold for all values of the constants under the named
assumptions of the modules: finitely many requests and fingerprints, finitely
many rows in a table that is paged through, days are numbers, months have at
least one day, the sentinels are no real values (`None` is no category, no set,
no row), TMDb's list for a month names a movie once and is sorted by popularity,
so nothing worth taking comes after the threshold. The bounds (`MaxDay`,
`MaxFaults`, `MaxVersion`, `MaxBatch`, ...) are arbitrary numbers, so clocks,
failures and changes are not bounded there.

**The vote handler** (`VoteProofs`, `VoteAnswerProofs`).

* `TypeCorrect`: `Spec => []TypeOK`. The invariant is inductive as it stands
  because `StageTyped` says what each stage of a request knows: `job[r]` is a
  real request once decoded, its category a real one from `GetVoter` on, and its
  movie has a row from the check on, since no action deletes movies.
* `TalliesTrail` and `TalliesExact`: `TalliesTrailVotes` and
  `TalliesExactWithoutFaults`. The induction counts, for a movie and a category,
  the voters and the requests at "increment": `InsertVote` adds one to both
  sides, `IncrementTally` moves one from the pending requests to the counter, and
  a failure only lowers the left side and leaves `faults = 0` for good. The
  lemmas are about adding and removing one element of a finite set.
* `ImplementsLedger`: `Spec => LedgerSpec`. `InsertVote` is `Cast`,
  `IncrementTally` is `Count`, everything else stutters. That `Count` is enabled
  (the counter is below the ballots) is `TalliesTrailVotes` with the incrementing
  request among the pending ones, which is why the invariant comes first.
* `AcknowledgedOnce` and `AnswersHold`: `AcknowledgedOnceAndCounted` and
  `AnswersMatchDatabase`. The strengthening is ownership: a request that has
  inserted a vote, and until its answer is forgotten, is the only one of its
  fingerprint and movie to have done so, and the stored category is its own.
  Counters only grow, so what `LoadTallies` read stays a lower bound, and what
  the requests have counted is a part of the counter.
* `ClosedResultFinal`: `SealedResultIsFinal`. With no request beyond the check and
  the clock only moving on, none passes it again.

**Listing and tallies endpoint** (`ListingProofs`).

* `ListingTypeCorrect`, `CacheShowsTheTruth` and `ChoicesShownCounted`:
  `ListingTypeOK`, `StaleOnlyByOmission` and `ShownChoiceIsCounted`. Each body in
  the cache and each body in a reader's hands is sound, that is below the
  counters and true to the votes; votes never change and counters never fall, so
  sound bodies stay sound in whatever order they are stored. For the shown
  choice, a stored vote is counted or pending until something fails, which is
  `TalliesExactWithoutFaults`.
* `CacheFreshUnlessOvertaken`: `FreshUnlessOvertaken`. What a body lacks is
  covered by requests that have yet to delete the entry. The strengthening
  carries this through a fill (a body in a reader's hands that no invalidation has
  overtaken), through Valkey's deletion (a request that has listed its keys
  still covers those it has not deleted), and needs that no entry is stored for a
  month to come, so a new month starts empty.
* `AnswersHoldBesideReaders`, `ImplementsLedgerBesideReaders` and
  `ClosedResultFinalBesideReaders`: what is proved of the vote handler alone holds
  of it composed with listings, tallies requests and either cache. A step of the
  composition is one of the handler, leaves its state alone but for a failure
  counted, or is the answer whose invalidation failed (`StepCases`); the inductive
  invariants of the handler carry over.

**Cache** (`CacheProofs`). `TypeCorrect`, and `ImplementsCache`: `Spec =>
CacheSpec`, action by action. The type invariant carries what the mapping
needs: a process with Valkey leaves the map empty, only a process with the map has
a `Get` between its two locks, a deletion key by key is Valkey's, and Valkey
holds nothing past its lifetime.

**Snapshot job** (`SnapshotProofs`). `TypeCorrect`, `RowsTrail`
(`RowsTrailTallies`), `RowsGrow` (`RowsOnlyGrow`) and `RunsCover`
(`CompletedRunCoversMonth`) from one invariant: the counters when the month was
listed are at most those read for the movie in hand, which are at most those of
now; two runs at work on one month know of each other; and a run that is alone
has a row, not below its base, for every movie behind it, and reads for the one
in hand no less than its row holds. That the movie in hand is one of those left
is that numbers have a least element.

**Paging** (`PagingProofs`).

* `CursorsAccepted`: `HandedOutCursorsAccepted`. With a configured secret every
  signature that is about is the server's; without one and without Valkey no page
  of an earlier process is left.
* `StableRowsDelivered`: `StableRowsSeenOnce`. The inductive invariant `WalkInv`
  says that the cursor divides the rows that stay put (never moved and, when the
  key is not popularity, never tied): those not after it were delivered exactly
  once, those after it not at all. They look the same in every table of `past`,
  so a page of any of them, cached however long ago, delivers of them just what
  is between two cursors.
* `DefaultPagesInOrder`: `DefaultOrder`, by the same invariant: what was
  delivered is not after the cursor, and a page holds only what is.

A page is a finite set of rows numbered along a strict order, and
`RankTheorems` proves what such a numbering does (there is an n-th element for
every n up to the cardinality, only one, and the numbers follow the order). It
does so by counting, since an injection of a finite set into an interval of the
same size is onto, so that no induction over sequences is needed.

**Sync** (`SyncProofs`).

* `TypeCorrect`: `TypeOK`, with `IdsTyped` for TMDb's ids and `Lists`: what a page appends is again a list of
  movies.
* `WorkersEndFirst`: `NoWorkerOutlivesSync`, from `ShapeInv`: there is a goroutine
  for each movie up to `next`, only while the sync is upserting, and `Return` waits
  for all of them; `SlotsKept` is the semaphore's bound.
* `FirstSyncAligned`: `FirstSyncOnMonday`. The date is arithmetic over the slots of
  two weeks.
* `SuccessStored`: `SuccessMeansStored`. `StoreInv` says that the count is the
  number of goroutines that have stored, that a failed one has left its error
  behind, that each movie stored so far still has its row, of this sync's own
  version unless another sync is upserting beside it, and, of each goroutine, that
  it has noted "no IMDb id" only if it has asked and, while TMDb's ids settle and
  nothing has failed, exactly if TMDb has none (`Asked`): only so can a row written
  by one goroutine be shown to agree with what another of the same movie wrote,
  when a movie was taken twice. A sync that has no error and as many stored movies as
  found ones has then stored them all.
* `DiscoveryComplete`: `SteadyDiscoveryIsComplete`. `ScanInv` says that a discovery
  whose list has stood still holds exactly the items to be taken at the places
  of the pages read so far. Where it stops, an unpopular item or the end of the
  list, the order of the list leaves nothing behind.

Model-checked only:

* the liveness properties (`CacheConverges`, `EveryRequestAnswered`,
  `CountersCatchUp`, `CatchesUp`, `WalkEnds`, `MonthGetsSnapshotted`, `SyncEnds`,
  `CatchesUpWithTmdb`): fairness is ENABLED, which is beyond the prover;
* the statements the five runs with a violation refute.

## Not modelled

Parsing and validation of query parameters and the popularity filter (they
choose a key and a subset of the rows), the bytes of a cursor (a pure, signed
round trip), the order of the items of the tallies endpoint, links to IMDb and
Cinemagia beyond their being there, headers, CORS, logging, JSON layout, the
configuration but for the secret, the API key, the test mode and the cache,
migrations and generated code. The pool's ten connections only delay
statements: none is held while another is waited for. The two grace periods of
the shutdown are a stop between two statements. The database is one that commits
each statement atomically; its session time zone is taken to be UTC, which the SQL
of the listing relies on. The growth of the in-memory map, which removes an expired
entry only when it is asked for, is a hazard no property covers: no behaviour
depends on it.

## Plan

Done: the vote handler and its ledger; listing, tallies endpoint and cache over
both backends; the cache and its abstract specification; paging with cached
pages, secrets and restarts; the snapshot job with downtime; the sync with
discovery; the theorems above.

Left, in this order:

1. An abstract specification of the snapshot archive (rows of a month that only
   grow until it is closed) for runs that are alone, and its refinement as a
   theorem.
2. The popularity filter in `KeysetPaging`, which makes rows enter and leave the
   selection when they move.
