----------------------------- MODULE VoteListing -----------------------------
(***************************************************************************)
(* The two readers beside the vote handler: GET /movies/active, with the   *)
(* response cache that it fills and that a vote invalidates, and GET       *)
(* /movies/{id}/tallies, which has no cache.                               *)
(*                                                                         *)
(* A listing looks its key up, and on a miss runs two queries and stores   *)
(* the body for two minutes.  Nothing ties the fill to the state it read,  *)
(* so a vote may be recorded, counted and invalidated between the query    *)
(* and the fill.  Of the key, the month and the fingerprint are kept: the  *)
(* other parameters only make more keys.  Module ReadThrough has the two   *)
(* caches in detail.                                                       *)
(***************************************************************************)
EXTENDS VoteHandler

CONSTANTS Readers,       \* listing requests the server can hold at a time
          Viewers,       \* tallies requests the server can hold at a time
          SharedCache,   \* whether the cache is Valkey and outlives the process
          Keys,          \* fingerprints sent with listings, None for no header
          MonthDays      \* days per month of the clock

ASSUME MonthAssumption == MonthDays \in Nat \ {0}
ASSUME KeysAssumption == Keys \subseteq Fingerprints \cup {None}
ASSUME SharedCacheAssumption == SharedCache \in BOOLEAN
ASSUME NoSetAssumption == None # {}

VARIABLES cache,         \* cache[month][key]: the stored body, or None
          reader,        \* reader[q]: the listing request q
          doomed,        \* doomed[r]: entries r has yet to delete, None before KEYS
          viewer         \* viewer[v]: the tallies request v

listingVars == <<cache, reader, doomed, viewer>>
allVars == <<vars, listingVars>>

Month(day) == day \div MonthDays
Months == 0..Month(MaxDay)

(* A body: the counts of the listed movies and the caller's own choices.   *)
(* "overtaken" is not in the code: it marks a body read before an          *)
(* invalidation that its fill did not see.                                 *)
NoBody == [counts |-> <<>>, voted |-> <<>>, overtaken |-> FALSE]
IsBody(b) == /\ DOMAIN b.counts \subseteq Movies /\ DOMAIN b.voted = DOMAIN b.counts
             /\ \A m \in DOMAIN b.counts : /\ b.counts[m] \in [Categories -> Nat]
                                          /\ b.voted[m] \in Categories \cup {None}
             /\ b.overtaken \in BOOLEAN

IdleReader == [at |-> "idle", key |-> None, now |-> 0, body |-> NoBody]
IdleViewer == [at |-> "idle", movie |-> None, fingerprint |-> None,
               choice |-> None, counts |-> Zeros]

ListingInit == /\ Init
               /\ cache = [n \in Months |-> [k \in Keys |-> None]]
               /\ reader = [q \in Readers |-> IdleReader]
               /\ doomed = [r \in Requests |-> None]
               /\ viewer = [v \in Viewers |-> IdleViewer]
-----------------------------------------------------------------------------
(* The listing handler.                                                    *)

(* The movies of the month of now whose voting is still open.              *)
Listed(now) == {m \in Movies : /\ release[m] # None
                               /\ Month(release[m]) = Month(now)
                               /\ now <= release[m] + VotingDays}

(* Cache.Get: a hit is served as it is, a miss goes to the database.  An   *)
(* error of Valkey is a miss.                                              *)
StartListing(q, k) ==
  /\ reader[q].at = "idle"
  /\ \/ cache[Month(clock)][k] = None /\ Healthy
     \/ SharedCache /\ cache[Month(clock)][k] # None /\ Faulty
  /\ reader' = [reader EXCEPT ![q] = [at |-> "list", key |-> k, now |-> clock,
                                      body |-> NoBody]]
  /\ UNCHANGED <<database, clock, pc, job, reply, cache, doomed, viewer>>

(* ListActiveMoviesPageFiltered: one query for movies, counts and votes.   *)
ReadListing(q) ==
  LET now == reader[q].now
      f == reader[q].key IN
  /\ reader[q].at = "list"
  /\ reader' = [reader EXCEPT
       ![q].at = "count",
       ![q].body = [counts |-> [m \in Listed(now) |-> tallies[m]],
                    voted |-> [m \in Listed(now) |->
                                 IF f = None THEN None ELSE votes[m][f]],
                    overtaken |-> FALSE]]
  /\ UNCHANGED <<vars, cache, doomed, viewer>>

(* CountActiveMoviesFiltered: the total, which only delays the fill here.  *)
CountListing(q) ==
  /\ reader[q].at = "count"
  /\ reader' = [reader EXCEPT ![q].at = "fill"]
  /\ UNCHANGED <<vars, cache, doomed, viewer>>

(* Cache.Set under the month captured at the start, then the answer.  An   *)
(* error of Set, which only Valkey has, is ignored.                        *)
FillKeyShared(q) == None
FillKey(q) == reader[q].key

FillCache(q) ==
  /\ reader[q].at = "fill"
  /\ \/ /\ cache' = [cache EXCEPT ![Month(reader[q].now)][FillKey(q)] = reader[q].body]
        /\ Healthy
     \/ SharedCache /\ Faulty /\ UNCHANGED cache
  /\ reader' = [reader EXCEPT ![q] = IdleReader]
  /\ UNCHANGED <<database, clock, pc, job, reply, doomed, viewer>>

ListingFails(q) ==
  /\ reader[q].at \in {"list", "count"}
  /\ Faulty
  /\ reader' = [reader EXCEPT ![q] = IdleReader]
  /\ UNCHANGED <<database, clock, pc, job, reply, cache, doomed, viewer>>

(* The two minutes are over; in memory the next Get drops the entry.       *)
ExpiresNever(n, k) == FALSE
Expires(n, k) == cache[n][k] # None

Expire(n, k) ==
  /\ Expires(n, k)
  /\ cache' = [cache EXCEPT ![n][k] = None]
  /\ UNCHANGED <<vars, reader, doomed, viewer>>
-----------------------------------------------------------------------------
(* The vote handler's part: DeletePrefix("active_movies:" + the month at   *)
(* the time of the answer), then the answer.                               *)

DroppedNothing(n) == cache
Dropped(n) == [cache EXCEPT ![n] = [k \in Keys |-> None]]

Overtake(n) == reader' = [q \in Readers |->
                 IF reader[q].at \in {"count", "fill"} /\ Month(reader[q].now) = n
                 THEN [reader[q] EXCEPT !.body.overtaken = TRUE] ELSE reader[q]]

(* In memory: all of them at once.                                         *)
RespondAndInvalidate(r) ==
  /\ ~SharedCache
  /\ Respond(r)
  /\ cache' = Dropped(Month(clock))
  /\ Overtake(Month(clock))
  /\ UNCHANGED <<doomed, viewer>>

(* Valkey: KEYS, ...                                                       *)
StoredExactly(n) == {}
Stored(n) == {<<n, k>> : k \in {j \in Keys : cache[n][j] # None}}

ListKeys(r) ==
  /\ SharedCache
  /\ At(r, "invalidate") /\ doomed[r] = None
  /\ doomed' = [doomed EXCEPT ![r] = Stored(Month(clock))]
  /\ Overtake(Month(clock))
  /\ UNCHANGED <<vars, cache, viewer>>

(* ... a DEL for each, whatever is stored there by then, ...               *)
LeftRelisted(r, e) == Stored(e[1])
Left(r, e) == doomed[r] \ {e}

DeleteKey(r, e) ==
  /\ doomed[r] # None /\ e \in doomed[r]
  /\ \/ cache' = [cache EXCEPT ![e[1]][e[2]] = None] /\ (Healthy \/ Faulty)
     \/ Faulty /\ UNCHANGED cache
  /\ doomed' = [doomed EXCEPT ![r] = Left(r, e)]
  /\ UNCHANGED <<database, clock, pc, job, reply, reader, viewer>>

(* ... and the answer.                                                     *)
RespondAfterDeletes(r) ==
  /\ doomed[r] = {}
  /\ Respond(r)
  /\ doomed' = [doomed EXCEPT ![r] = None]
  /\ UNCHANGED <<cache, reader, viewer>>

(* KEYS fails, and the answer is sent all the same.                        *)
RespondWithoutInvalidating(r) ==
  /\ SharedCache
  /\ At(r, "invalidate") /\ doomed[r] = None
  /\ Answer(r, "ok")
  /\ Faulty
  /\ UNCHANGED <<database, clock, job, listingVars>>

(* A restart empties an in-memory cache and leaves Valkey's alone.         *)
CrashAll ==
  /\ Crash
  /\ cache' = IF SharedCache THEN cache ELSE [n \in Months |-> [k \in Keys |-> None]]
  /\ reader' = [q \in Readers |-> IdleReader]
  /\ doomed' = [r \in Requests |-> None]
  /\ viewer' = [v \in Viewers |-> IdleViewer]
-----------------------------------------------------------------------------
(* The tallies handler: the voter's choice, then the counts, one query     *)
(* each.                                                                   *)

CountsFirst == <<"counts", "choice">>
ChoiceFirst == <<"choice", "counts">>
Queries == ChoiceFirst

(* GetVoterCategory and GetTalliesAllCategories.                           *)
Queried(view, query) ==
  IF query = "choice"
  THEN [view EXCEPT !.choice = IF view.fingerprint = None THEN None
                               ELSE votes[view.movie][view.fingerprint]]
  ELSE [view EXCEPT !.counts = tallies[view.movie]]

(* An error of the first query is ignored ...                              *)
StartView(v, m, f) ==
  LET view == [IdleViewer EXCEPT !.at = "second", !.movie = m, !.fingerprint = f] IN
  /\ viewer[v].at = "idle"
  /\ \/ viewer' = [viewer EXCEPT ![v] = Queried(view, Queries[1])] /\ Healthy
     \/ viewer' = [viewer EXCEPT ![v] = view] /\ f # None /\ Faulty
  /\ UNCHANGED <<database, clock, pc, job, reply, cache, reader, doomed>>

(* ... and one of the second is a 500: else Shown is the answer.           *)
Shown(v) == Queried(viewer[v], Queries[2])

FinishView(v) ==
  /\ viewer[v].at = "second"
  /\ viewer' = [viewer EXCEPT ![v] = IdleViewer]
  /\ Healthy \/ Faulty
  /\ UNCHANGED <<database, clock, pc, job, reply, cache, reader, doomed>>
-----------------------------------------------------------------------------
(* Every step of a vote but the last leaves the cache alone: in particular *)
(* a vote that ends in an error does, whatever it has recorded.            *)
VoteStep(r) ==
  \/ CheckMovie(r) \/ GetVoter(r) \/ InsertVoter(r) \/ InsertVote(r)
  \/ IncrementTally(r) \/ LoadTallies(r) \/ LoadVotedCategory(r)

AdvanceVote(r) == \/ VoteStep(r) /\ UNCHANGED listingVars
                  \/ RespondAndInvalidate(r)
                  \/ ListKeys(r) \/ (\E n \in Months, k \in Keys : DeleteKey(r, <<n, k>>))
                  \/ RespondAfterDeletes(r)
                  \/ RespondWithoutInvalidating(r)

AdvanceListing(q) == ReadListing(q) \/ CountListing(q) \/ FillCache(q)

ListingNext ==
  \/ \E r \in Requests :
       \/ \E m \in Movies \cup {None}, f \in Fingerprints \cup {None},
             c \in Categories \cup {None, Invalid} :
               Receive(r, m, c, f) /\ UNCHANGED listingVars
       \/ AdvanceVote(r)
       \/ QueryFails(r) /\ UNCHANGED listingVars
  \/ \E q \in Readers :
       \/ \E k \in Keys : StartListing(q, k)
       \/ AdvanceListing(q)
       \/ ListingFails(q)
  \/ \E v \in Viewers :
       \/ \E m \in Movies, f \in Fingerprints \cup {None} : StartView(v, m, f)
       \/ FinishView(v)
  \/ \E n \in Months, k \in Keys : Expire(n, k)
  \/ CrashAll
  \/ \E m \in Movies, d \in ReleaseDays : SyncMovie(m, d) /\ UNCHANGED listingVars
  \/ Tick /\ UNCHANGED listingVars

ListingSpec == ListingInit /\ [][ListingNext]_allVars

(* Handlers are scheduled, and every entry carries a time to live.         *)
FairListingSpec ==
  /\ ListingSpec
  /\ \A r \in Requests : WF_allVars(AdvanceVote(r))
  /\ \A q \in Readers : WF_allVars(AdvanceListing(q))
  /\ \A n \in Months, k \in Keys : WF_allVars(Expire(n, k))
-----------------------------------------------------------------------------
(* Properties.                                                             *)

(* Entries and fills keep their shape beside the tables and requests.      *)
ListingTypeOK ==
  /\ TypeOK
  /\ \A n \in Months, k \in Keys : cache[n][k] # None => IsBody(cache[n][k])
  /\ \A q \in Readers :
       /\ reader[q].at \in {"idle", "list", "count", "fill"}
       /\ reader[q].key \in Keys \cup {None}
       /\ IsBody(reader[q].body)
  /\ \A r \in Requests : doomed[r] # None =>
       SharedCache /\ At(r, "invalidate") /\ doomed[r] \subseteq Months \X Keys
  /\ \A v \in Viewers :
       /\ viewer[v].at \in {"idle", "second"}
       /\ viewer[v].at # "idle" => viewer[v].movie \in Movies
       /\ viewer[v].fingerprint \in Fingerprints \cup {None}
       /\ viewer[v].choice \in Categories \cup {None}
       /\ viewer[v].counts \in [Categories -> Nat]

Current == {k \in Keys : cache[Month(clock)][k] # None}
Body(k) == cache[Month(clock)][k]

(* The requests that have counted their vote and not invalidated yet.      *)
Announcing(m, c) ==
  {r \in Requests : /\ pc[r] \in {"tallies", "category", "invalidate"}
                    /\ reply[r].inserted
                    /\ job[r].movie = m /\ job[r].category = c}

(* Without failures, what an entry of the current month lacks is exactly   *)
(* covered by votes about to invalidate it, unless its fill was overtaken: *)
(* the order increment, then DeletePrefix leaves no other window, not even *)
(* where the deletion is a command per key and fills come in between.      *)
FreshUnlessOvertaken ==
  faults = 0 =>
    \A k \in Current : ~Body(k).overtaken =>
      \A m \in DOMAIN Body(k).counts :
        /\ \A c \in Categories :
             tallies[m][c] <= Body(k).counts[m][c] + Cardinality(Announcing(m, c))
        /\ k # None /\ votes[m][k] # None /\ Body(k).voted[m] = None =>
             \E r \in Requests : Busy(r) /\ job[r].movie = m /\ job[r].fingerprint = k

(* No entry ever shows more votes than were counted, or a choice that is   *)
(* not the stored one: staleness is always missing votes, never wrong ones. *)
StaleOnlyByOmission ==
  \A n \in Months, k \in Keys : cache[n][k] # None =>
    \A m \in DOMAIN cache[n][k].counts :
      /\ \A c \in Categories : cache[n][k].counts[m][c] <= tallies[m][c]
      /\ cache[n][k].voted[m] \in {None} \cup (IF k = None THEN {} ELSE {votes[m][k]})

(* Who is shown a choice is shown it counted, unless its vote is just then *)
(* between its two statements or something has failed: the tallies handler *)
(* reads the choice first and the counts after it, whenever that is.       *)
ShownChoiceIsCounted ==
  \A v \in Viewers :
    LET m == viewer[v].movie
        shown == Shown(v) IN
    viewer[v].at = "second" /\ shown.choice # None =>
      shown.counts[shown.choice] >= 1 \/ Pending(m, shown.choice) # {} \/ faults > 0

(* Stale entries do not outlive the votes: in the end every entry left     *)
(* agrees with the counters, overtaken or not, failures or not.            *)
CacheConverges ==
  <>[](\A n \in Months, k \in Keys : cache[n][k] # None =>
         \A m \in DOMAIN cache[n][k].counts : cache[n][k].counts[m] = tallies[m])
=============================================================================
