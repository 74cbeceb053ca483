---------------------------- MODULE ListingProofs ----------------------------
(***************************************************************************)
(* What readers beside the vote handler are shown, proved for every number *)
(* of requests, readers, viewers, movies and failures, for both caches.    *)
(***************************************************************************)
EXTENDS VoteListing, VoteAnswerProofs

(* What holds of the vote handler's own variables.                         *)
VoteInv == TypeOK /\ CountInv /\ clock <= MaxDay

(* A body shows no count and no choice that the tables do not hold.        *)
BodyTrue(b, k) ==
  \A m \in DOMAIN b.counts :
    /\ \A c \in Categories : b.counts[m][c] <= tallies[m][c]
    /\ b.voted[m] \in {None} \cup (IF k = None THEN {} ELSE {votes[m][k]})
BodyShape(b) == IsBody(b) /\ {"counts", "voted", "overtaken"} \subseteq DOMAIN b
BodySound(b, k) == BodyShape(b) /\ BodyTrue(b, k)

CacheSound ==
  /\ DOMAIN cache = Months
  /\ \A n \in Months : DOMAIN cache[n] = Keys
  /\ \A n \in Months, k \in Keys : cache[n][k] # None => BodySound(cache[n][k], k)

ReaderSound(q) ==
  /\ {"at", "key", "now", "body"} \subseteq DOMAIN reader[q]
  /\ reader[q].at \in {"idle", "list", "count", "fill"}
  /\ reader[q].key \in Keys \cup {None}
  /\ reader[q].now \in 0..clock
  /\ BodySound(reader[q].body, reader[q].key)
ReadersSound == DOMAIN reader = Readers /\ \A q \in Readers : ReaderSound(q)

DoomedSound ==
  /\ DOMAIN doomed = Requests
  /\ \A r \in Requests : doomed[r] # None =>
       SharedCache /\ At(r, "invalidate") /\ doomed[r] \subseteq Months \X Keys

Views == [at: {"idle", "second"}, movie: Movies \cup {None},
          fingerprint: Fingerprints \cup {None}, choice: Categories \cup {None},
          counts: [Categories -> Nat]]

(* A viewer between its queries names a movie, and the choice it has read  *)
(* is the stored one still.                                                *)
ViewerSound(v) ==
  viewer[v].at = "second" =>
    /\ viewer[v].movie \in Movies
    /\ viewer[v].choice # None =>
         /\ viewer[v].fingerprint \in Fingerprints
         /\ viewer[v].choice = votes[viewer[v].movie][viewer[v].fingerprint]
ViewersSound == viewer \in [Viewers -> Views] /\ \A v \in Viewers : ViewerSound(v)

ListingInv == VoteInv /\ CacheSound /\ ReadersSound /\ DoomedSound /\ ViewersSound

ListingStep == ListingNext \/ UNCHANGED allVars
-----------------------------------------------------------------------------
(* The vote handler's part of a step: one of its own, an answer without    *)
(* invalidation, or at most a failure.                                     *)

LEMMA StepCases ==
  ASSUME ListingStep
  PROVE  \/ [Next]_vars
         \/ UNCHANGED <<database, clock, pc, job, reply>> /\ (Healthy \/ Faulty)
         \/ \E r \in Requests : RespondWithoutInvalidating(r)
<1>1. ASSUME NEW r \in Requests, AdvanceVote(r)
      PROVE  \/ [Next]_vars
             \/ UNCHANGED <<database, clock, pc, job, reply>> /\ (Healthy \/ Faulty)
             \/ RespondWithoutInvalidating(r)
  <2>1. CASE VoteStep(r) \/ RespondAndInvalidate(r) \/ RespondAfterDeletes(r)
    BY <2>1 DEF VoteStep, RespondAndInvalidate, RespondAfterDeletes, Next, Advance
  <2>2. CASE ListKeys(r)
    BY <2>2 DEF ListKeys
  <2>3. CASE \E n \in Months, k \in Keys : DeleteKey(r, <<n, k>>)
    BY <2>3 DEF DeleteKey
  <2> QED
    BY <1>1, <2>1, <2>2, <2>3 DEF AdvanceVote
<1>2. ASSUME NEW q \in Readers,
             \/ \E k \in Keys : StartListing(q, k)
             \/ AdvanceListing(q)
             \/ ListingFails(q)
      PROVE  \/ UNCHANGED vars
             \/ UNCHANGED <<database, clock, pc, job, reply>> /\ (Healthy \/ Faulty)
  BY <1>2 DEF StartListing, AdvanceListing, ReadListing, CountListing, FillCache, ListingFails
<1>3. ASSUME NEW v \in Viewers,
             \/ \E m \in Movies, f \in Fingerprints \cup {None} : StartView(v, m, f)
             \/ FinishView(v)
      PROVE  UNCHANGED <<database, clock, pc, job, reply>> /\ (Healthy \/ Faulty)
  BY <1>3 DEF StartView, FinishView
<1>4. ASSUME \/ \E n \in Months, k \in Keys : Expire(n, k)
             \/ UNCHANGED allVars
      PROVE  UNCHANGED vars
  BY <1>4 DEF Expire, allVars
<1>5. ASSUME \/ \E r \in Requests : \E m \in Movies \cup {None}, f \in Fingerprints \cup {None},
                  c \in Categories \cup {None, Invalid} : Receive(r, m, c, f)
             \/ \E r \in Requests : QueryFails(r)
             \/ CrashAll
             \/ \E m \in Movies, d \in ReleaseDays : SyncMovie(m, d)
             \/ Tick
      PROVE  Next
  BY <1>5 DEF CrashAll, Next
<1> QED
  BY <1>1, <1>2, <1>3, <1>4, <1>5 DEF ListingStep, ListingNext

LEMMA VotePart ==
  ASSUME VoteInv, ListingStep
  PROVE  /\ VoteInv' /\ Monotone
         /\ clock' \in Nat /\ clock <= clock'
<1>0. clock \in Nat /\ MaxDay \in Nat /\ tallies \in [Movies -> [Categories -> Nat]]
  BY DaysAssumption DEF VoteInv, TypeOK, TablesTyped
<1>1. CASE [Next]_vars
  <2>1. TypeOK' /\ CountInv' /\ Monotone
    BY <1>1, NextTypeOK, NextCounts, StepsMonotone DEF VoteInv
  <2>2. clock' = clock \/ (clock < MaxDay /\ clock' = clock + 1)
    <3>1. ASSUME NEW r \in Requests, Advance(r) \/ QueryFails(r) PROVE clock' = clock
      BY <3>1 DEF Advance, CheckMovie, GetVoter, InsertVoter, InsertVote, IncrementTally,
                  LoadTallies, LoadVotedCategory, Respond, QueryFails, database
    <3>2. ASSUME \/ \E r \in Requests, m \in Movies \cup {None}, f \in Fingerprints \cup {None},
                       c \in Categories \cup {None, Invalid} : Receive(r, m, c, f)
                 \/ Crash
                 \/ \E m \in Movies, d \in ReleaseDays : SyncMovie(m, d)
                 \/ UNCHANGED vars
          PROVE  clock' = clock
      BY <3>2 DEF Receive, Crash, SyncMovie, vars
    <3> QED
      BY <1>1, <3>1, <3>2 DEF Next, Tick
  <2> QED
    BY <1>0, <2>1, <2>2 DEF VoteInv
<1>2. CASE UNCHANGED <<database, clock, pc, job, reply>> /\ (Healthy \/ Faulty)
  <2>1. faults' \in 0..MaxFaults /\ (Faulty \/ faults' = faults)
    BY <1>2, DaysAssumption DEF VoteInv, TypeOK, TablesTyped, Healthy, Faulty
  <2>2. TypeOK'
    <3>1. TablesTyped' /\ RequestsTyped'
      BY <1>2, <2>1 DEF VoteInv, TypeOK, TablesTyped, RequestsTyped, database
    <3>2. ASSUME NEW r \in Requests PROVE StageTyped(r)'
      BY <1>2, StageKept DEF VoteInv, TypeOK, database
    <3> QED
      BY <3>1, <3>2 DEF TypeOK
  <2>3. \A m \in Movies, c \in Categories : Pending(m, c)' = Pending(m, c)
    BY <1>2 DEF Pending, At
  <2>4. CountInv'
    BY <1>2, <2>1, <2>3, CountInvKept DEF VoteInv, database
  <2> QED
    BY <1>0, <1>2, <2>2, <2>4 DEF VoteInv, Monotone, database
<1>3. ASSUME NEW r \in Requests, RespondWithoutInvalidating(r)
      PROVE  VoteInv' /\ Monotone /\ clock' = clock
  <2>1. /\ UNCHANGED <<database, clock, job>> /\ Faulty /\ Answer(r, "ok")
        /\ pc[r] = "invalidate" /\ pc \in [Requests -> Steps]
    BY <1>3 DEF RespondWithoutInvalidating, VoteInv, TypeOK, RequestsTyped, At
  <2>2. TablesTyped'
    BY <2>1, DaysAssumption DEF VoteInv, TypeOK, TablesTyped, Faulty, database
  <2>3. TypeOK'
    BY <2>1, <2>2, AnswerTyped DEF VoteInv, TypeOK, Statuses, database
  <2>4. \A m \in Movies, c \in Categories : Pending(m, c)' = Pending(m, c)
    BY <2>1, PendingKept DEF VoteInv, Answer, Goto, At
  <2>5. CountInv'
    BY <2>1, <2>4, CountInvKept DEF VoteInv, database
  <2> QED
    BY <1>0, <2>1, <2>3, <2>5 DEF VoteInv, Monotone, database
<1> QED
  BY <1>0, <1>1, <1>2, <1>3, StepCases

(* What was true of a body stays true: votes stay and counters only grow.  *)
LEMMA BodyKept ==
  ASSUME VoteInv, VoteInv', Monotone, NEW b, NEW k \in Keys \cup {None}, BodySound(b, k)
  PROVE  BodySound(b, k)'
<1>1. ASSUME NEW m \in DOMAIN b.counts
      PROVE  /\ \A c \in Categories : b.counts[m][c] <= tallies'[m][c]
             /\ b.voted[m] \in {None} \cup (IF k = None THEN {} ELSE {votes'[m][k]})
  <2>1. /\ m \in Movies /\ b.counts[m] \in [Categories -> Nat]
        /\ b.voted[m] \in {None} \cup (IF k = None THEN {} ELSE {votes[m][k]})
        /\ \A c \in Categories : b.counts[m][c] <= tallies[m][c]
    BY DEF BodySound, BodyShape, IsBody, BodyTrue
  <2>2. \A c \in Categories : tallies[m][c] \in Nat /\ tallies'[m][c] \in Nat
    BY <2>1 DEF VoteInv, TypeOK, TablesTyped
  <2>3. \A c \in Categories : tallies[m][c] <= tallies'[m][c]
    BY <2>1 DEF Monotone
  <2>4. ASSUME NEW c \in Categories PROVE b.counts[m][c] <= tallies'[m][c]
    <3>1. b.counts[m][c] \in Nat
      BY <2>1
    <3> QED
      BY <2>1, <2>2, <2>3, <3>1
  <2>5. k # None => k \in Fingerprints
    BY KeysAssumption
  <2> QED
    BY <2>1, <2>4, <2>5 DEF Monotone
<1> QED
  BY <1>1 DEF BodySound, BodyShape, BodyTrue, IsBody
-----------------------------------------------------------------------------
(* The listings and their cache.                                           *)

LEMMA CacheMoves ==
  ASSUME CacheSound, ListingStep
  PROVE  /\ DOMAIN cache' = Months
         /\ \A n \in Months : DOMAIN cache'[n] = Keys
         /\ \A n \in Months, k \in Keys :
              \/ cache'[n][k] = cache[n][k]
              \/ cache'[n][k] = None
              \/ \E q \in Readers : /\ reader[q].at = "fill" /\ reader[q].key = k
                                    /\ n = Month(reader[q].now)
                                    /\ cache'[n][k] = reader[q].body
<1>0. /\ DOMAIN cache = Months /\ \A n \in Months : DOMAIN cache[n] = Keys
  BY DEF CacheSound
<1>1. CASE UNCHANGED cache
  BY <1>0, <1>1
<1>2. ASSUME NEW q \in Readers,
             cache' = [cache EXCEPT ![Month(reader[q].now)][FillKey(q)] = reader[q].body],
             reader[q].at = "fill"
      PROVE  /\ DOMAIN cache' = Months
             /\ \A n \in Months : DOMAIN cache'[n] = Keys
             /\ \A n \in Months, k \in Keys :
                  \/ cache'[n][k] = cache[n][k]
                  \/ /\ reader[q].key = k /\ n = Month(reader[q].now)
                     /\ cache'[n][k] = reader[q].body
  BY <1>0, <1>2 DEF FillKey
<1>3. ASSUME NEW e, cache' = [cache EXCEPT ![e[1]][e[2]] = None]
      PROVE  /\ DOMAIN cache' = Months
             /\ \A n \in Months : DOMAIN cache'[n] = Keys
             /\ \A n \in Months, k \in Keys : cache'[n][k] \in {cache[n][k], None}
  BY <1>0, <1>3
<1>4. ASSUME NEW n \in Months, NEW k \in Keys, cache' = [cache EXCEPT ![n][k] = None]
      PROVE  /\ DOMAIN cache' = Months
             /\ \A p \in Months : DOMAIN cache'[p] = Keys
             /\ \A p \in Months, j \in Keys : cache'[p][j] \in {cache[p][j], None}
  BY <1>0, <1>4
<1>5. ASSUME NEW n, cache' = Dropped(n)
      PROVE  /\ DOMAIN cache' = Months
             /\ \A p \in Months : DOMAIN cache'[p] = Keys
             /\ \A p \in Months, j \in Keys : cache'[p][j] \in {cache[p][j], None}
  BY <1>0, <1>5 DEF Dropped
<1>6. CASE cache' = [n \in Months |-> [k \in Keys |-> None]]
  BY <1>6
<1>7. \/ UNCHANGED cache
      \/ \E q \in Readers :
           /\ cache' = [cache EXCEPT ![Month(reader[q].now)][FillKey(q)] = reader[q].body]
           /\ reader[q].at = "fill"
      \/ \E e \in Months \X Keys : cache' = [cache EXCEPT ![e[1]][e[2]] = None]
      \/ \E n \in Months, k \in Keys : cache' = [cache EXCEPT ![n][k] = None]
      \/ cache' = Dropped(Month(clock))
      \/ cache' = [n \in Months |-> [k \in Keys |-> None]]
  <2>1. ASSUME NEW r \in Requests, AdvanceVote(r)
        PROVE  \/ UNCHANGED cache
               \/ \E e \in Months \X Keys : cache' = [cache EXCEPT ![e[1]][e[2]] = None]
               \/ cache' = Dropped(Month(clock))
    BY <2>1 DEF AdvanceVote, RespondAndInvalidate, ListKeys, DeleteKey, RespondAfterDeletes,
                RespondWithoutInvalidating, listingVars
  <2>2. ASSUME NEW q \in Readers,
               \/ \E k \in Keys : StartListing(q, k)
               \/ AdvanceListing(q)
               \/ ListingFails(q)
        PROVE  \/ UNCHANGED cache
               \/ /\ cache' = [cache EXCEPT ![Month(reader[q].now)][FillKey(q)] = reader[q].body]
                  /\ reader[q].at = "fill"
    BY <2>2 DEF StartListing, AdvanceListing, ReadListing, CountListing, FillCache, ListingFails
  <2>3. ASSUME \E n \in Months, k \in Keys : Expire(n, k)
        PROVE  \E n \in Months, k \in Keys : cache' = [cache EXCEPT ![n][k] = None]
    BY <2>3 DEF Expire
  <2>4. ASSUME CrashAll
        PROVE  UNCHANGED cache \/ cache' = [n \in Months |-> [k \in Keys |-> None]]
    BY <2>4 DEF CrashAll
  <2>5. ASSUME \/ \E v \in Viewers :
                    \/ \E m \in Movies, f \in Fingerprints \cup {None} : StartView(v, m, f)
                    \/ FinishView(v)
               \/ UNCHANGED listingVars
               \/ UNCHANGED allVars
        PROVE  UNCHANGED cache
    BY <2>5 DEF StartView, FinishView, listingVars, allVars
  <2> QED
    BY <2>1, <2>2, <2>3, <2>4, <2>5 DEF ListingStep, ListingNext
<1>8. ASSUME NEW q \in Readers,
             cache' = [cache EXCEPT ![Month(reader[q].now)][FillKey(q)] = reader[q].body],
             reader[q].at = "fill"
      PROVE  \A n \in Months, k \in Keys :
               \/ cache'[n][k] = cache[n][k]
               \/ \E p \in Readers : /\ reader[p].at = "fill" /\ reader[p].key = k
                                     /\ n = Month(reader[p].now)
                                     /\ cache'[n][k] = reader[p].body
  BY <1>2, <1>8
<1>9. CASE \/ UNCHANGED cache
           \/ \E e \in Months \X Keys : cache' = [cache EXCEPT ![e[1]][e[2]] = None]
           \/ \E n \in Months, k \in Keys : cache' = [cache EXCEPT ![n][k] = None]
           \/ cache' = Dropped(Month(clock))
           \/ cache' = [n \in Months |-> [k \in Keys |-> None]]
  <2>1. /\ DOMAIN cache' = Months
        /\ \A n \in Months : DOMAIN cache'[n] = Keys
        /\ \A n \in Months, k \in Keys : cache'[n][k] \in {cache[n][k], None}
    <3>1. CASE UNCHANGED cache
      BY <1>0, <3>1
    <3>2. CASE \E e \in Months \X Keys : cache' = [cache EXCEPT ![e[1]][e[2]] = None]
      <4>1. PICK e : cache' = [cache EXCEPT ![e[1]][e[2]] = None]
        BY <3>2
      <4> QED
        BY <1>3, <4>1
    <3>3. CASE \E n \in Months, k \in Keys : cache' = [cache EXCEPT ![n][k] = None]
      BY <1>4, <3>3
    <3>4. CASE cache' = Dropped(Month(clock))
      BY <1>5, <3>4
    <3>5. CASE cache' = [n \in Months |-> [k \in Keys |-> None]]
      BY <3>5
    <3> QED
      BY <1>9, <3>1, <3>2, <3>3, <3>4, <3>5
  <2> QED
    BY <2>1
<1>10. CASE \E q \in Readers :
              /\ cache' = [cache EXCEPT ![Month(reader[q].now)][FillKey(q)] = reader[q].body]
              /\ reader[q].at = "fill"
  <2>1. PICK q \in Readers :
              /\ cache' = [cache EXCEPT ![Month(reader[q].now)][FillKey(q)] = reader[q].body]
              /\ reader[q].at = "fill"
    BY <1>10
  <2>2. DOMAIN cache' = Months /\ \A n \in Months : DOMAIN cache'[n] = Keys
    BY <1>2, <2>1
  <2> QED
    BY <1>8, <2>1, <2>2
<1> QED
  BY <1>7, <1>9, <1>10

LEMMA CacheStaysSound ==
  ASSUME ListingInv, ListingStep
  PROVE  CacheSound'
<1>1. /\ DOMAIN cache' = Months
      /\ \A n \in Months : DOMAIN cache'[n] = Keys
      /\ \A n \in Months, k \in Keys :
           \/ cache'[n][k] = cache[n][k]
           \/ cache'[n][k] = None
           \/ \E q \in Readers : reader[q].key = k /\ cache'[n][k] = reader[q].body
  BY CacheMoves DEF ListingInv
<1>2. ASSUME NEW n \in Months, NEW k \in Keys, cache'[n][k] # None
      PROVE  BodySound(cache[n][k], k)'
  <2>1. CASE cache'[n][k] = cache[n][k]
    <3>1. BodySound(cache[n][k], k)
      BY <1>2, <2>1 DEF ListingInv, CacheSound
    <3>2. ASSUME NEW b, b = cache[n][k] PROVE BodySound(b, k)'
      BY <3>1, <3>2, VotePart, BodyKept DEF ListingInv
    <3> QED
      BY <2>1, <3>2
  <2>2. ASSUME NEW q \in Readers, reader[q].key = k, cache'[n][k] = reader[q].body
        PROVE  BodySound(cache[n][k], k)'
    <3>1. BodySound(reader[q].body, k)
      BY <2>2 DEF ListingInv, ReadersSound, ReaderSound
    <3>2. ASSUME NEW b, b = reader[q].body PROVE BodySound(b, k)'
      BY <3>1, <3>2, VotePart, BodyKept DEF ListingInv
    <3> QED
      BY <2>2, <3>2
  <2> QED
    BY <1>1, <1>2, <2>1, <2>2
<1> QED
  BY <1>1, <1>2 DEF CacheSound

LEMMA BodiesMade ==
  ASSUME VoteInv, NEW now \in Nat, NEW f \in Keys \cup {None},
         NEW b, b = [counts |-> [m \in Listed(now) |-> tallies[m]],
                     voted |-> [m \in Listed(now) |-> IF f = None THEN None ELSE votes[m][f]],
                     overtaken |-> FALSE]
  PROVE  BodySound(b, f)
<1>1. Listed(now) \subseteq Movies
  BY DEF Listed
<1>2. /\ tallies \in [Movies -> [Categories -> Nat]]
      /\ votes \in [Movies -> [Fingerprints -> Categories \cup {None}]]
  BY DEF VoteInv, TypeOK, TablesTyped
<1>3. f # None => f \in Fingerprints
  BY KeysAssumption
<1>4. ASSUME NEW m \in Listed(now)
      PROVE  /\ b.counts[m] = tallies[m] /\ b.voted[m] = IF f = None THEN None ELSE votes[m][f]
             /\ tallies[m] \in [Categories -> Nat]
             /\ f # None => votes[m][f] \in Categories \cup {None}
             /\ \A c \in Categories : tallies[m][c] <= tallies[m][c]
  BY <1>1, <1>2, <1>3
<1>5. DOMAIN b.counts = Listed(now) /\ DOMAIN b.voted = Listed(now) /\ b.overtaken = FALSE
  OBVIOUS
<1>6. BodyShape(b)
  BY <1>1, <1>4, <1>5 DEF BodyShape, IsBody
<1>7. BodyTrue(b, f)
  BY <1>4, <1>5 DEF BodyTrue
<1> QED
  BY <1>6, <1>7 DEF BodySound

LEMMA EmptyBody == ASSUME NEW k PROVE BodySound(NoBody, k) /\ BodySound(NoBody, k)'
<1>1. DOMAIN NoBody.counts = {} /\ DOMAIN NoBody.voted = {} /\ NoBody.overtaken = FALSE
  BY DEF NoBody
<1> QED
  BY <1>1 DEF BodySound, BodyShape, IsBody, BodyTrue, NoBody

(* The reader of a listing either stays, starts over, reads, goes on, or   *)
(* learns that it was overtaken.                                           *)
LEMMA ReaderMoves ==
  ASSUME ReadersSound, ListingStep
  PROVE  /\ DOMAIN reader' = Readers
         /\ \A q \in Readers :
              \/ reader'[q] = reader[q]
              \/ reader'[q] = IdleReader
              \/ \E k \in Keys : reader'[q] = [at |-> "list", key |-> k, now |-> clock,
                                               body |-> NoBody] /\ clock' = clock
              \/ ReadListing(q)
              \/ reader[q].at = "count" /\ reader'[q] = [reader[q] EXCEPT !.at = "fill"]
              \/ reader'[q] = [reader[q] EXCEPT !.body.overtaken = TRUE]
<1>0. DOMAIN reader = Readers
  BY DEF ReadersSound
<1>1. ASSUME NEW q \in Readers,
             \/ \E k \in Keys : StartListing(q, k)
             \/ AdvanceListing(q)
             \/ ListingFails(q)
      PROVE  /\ DOMAIN reader' = Readers
             /\ \A p \in Readers \ {q} : reader'[p] = reader[p]
             /\ \/ reader'[q] = IdleReader
                \/ \E k \in Keys : reader'[q] = [at |-> "list", key |-> k, now |-> clock,
                                                 body |-> NoBody] /\ clock' = clock
                \/ ReadListing(q)
                \/ reader[q].at = "count" /\ reader'[q] = [reader[q] EXCEPT !.at = "fill"]
  <2>1. ASSUME NEW k \in Keys, StartListing(q, k)
        PROVE  /\ reader' = [reader EXCEPT ![q] = [at |-> "list", key |-> k, now |-> clock,
                                                   body |-> NoBody]]
               /\ clock' = clock
    BY <2>1 DEF StartListing
  <2>2. CASE ReadListing(q)
    BY <1>0, <2>2 DEF ReadListing
  <2>3. CASE CountListing(q)
    BY <1>0, <2>3 DEF CountListing
  <2>4. CASE FillCache(q) \/ ListingFails(q)
    BY <1>0, <2>4 DEF FillCache, ListingFails
  <2> QED
    BY <1>0, <1>1, <2>1, <2>2, <2>3, <2>4 DEF AdvanceListing
<1>2. ASSUME NEW n, Overtake(n)
      PROVE  /\ DOMAIN reader' = Readers
             /\ \A q \in Readers : \/ reader'[q] = reader[q]
                                   \/ reader'[q] = [reader[q] EXCEPT !.body.overtaken = TRUE]
  BY <1>2 DEF Overtake
<1>3. ASSUME NEW r \in Requests, AdvanceVote(r)
      PROVE  UNCHANGED reader \/ Overtake(Month(clock))
  BY <1>3 DEF AdvanceVote, RespondAndInvalidate, ListKeys, DeleteKey, RespondAfterDeletes,
              RespondWithoutInvalidating, listingVars
<1>4. CASE CrashAll
  BY <1>4 DEF CrashAll
<1>5. ASSUME \/ \E v \in Viewers :
                  \/ \E m \in Movies, f \in Fingerprints \cup {None} : StartView(v, m, f)
                  \/ FinishView(v)
             \/ \E n \in Months, k \in Keys : Expire(n, k)
             \/ UNCHANGED listingVars
             \/ UNCHANGED allVars
      PROVE  UNCHANGED reader
  BY <1>5 DEF StartView, FinishView, Expire, listingVars, allVars
<1>6. \/ \E q \in Readers :
           \/ \E k \in Keys : StartListing(q, k)
           \/ AdvanceListing(q)
           \/ ListingFails(q)
      \/ Overtake(Month(clock))
      \/ CrashAll
      \/ UNCHANGED reader
  BY <1>3, <1>5 DEF ListingStep, ListingNext
<1>7. CASE \E q \in Readers :
           \/ \E k \in Keys : StartListing(q, k)
           \/ AdvanceListing(q)
           \/ ListingFails(q)
  <2>1. PICK q \in Readers :
           \/ \E k \in Keys : StartListing(q, k)
           \/ AdvanceListing(q)
           \/ ListingFails(q)
    BY <1>7
  <2>2. ASSUME NEW p \in Readers, p = q \/ p # q
        PROVE  \/ reader'[p] = reader[p]
               \/ reader'[p] = IdleReader
               \/ \E k \in Keys : reader'[p] = [at |-> "list", key |-> k, now |-> clock,
                                                body |-> NoBody] /\ clock' = clock
               \/ ReadListing(p)
               \/ reader[p].at = "count" /\ reader'[p] = [reader[p] EXCEPT !.at = "fill"]
    BY <1>1, <2>1
  <2> QED
    BY <1>1, <2>1, <2>2
<1>8. CASE Overtake(Month(clock))
  BY <1>2, <1>8
<1> QED
  BY <1>0, <1>4, <1>6, <1>7, <1>8

LEMMA ReadersStaySound ==
  ASSUME ListingInv, ListingStep
  PROVE  ReadersSound'
<1>0. VoteInv /\ VoteInv' /\ Monotone /\ clock \in Nat /\ clock' \in Nat /\ clock <= clock'
  BY VotePart DEF ListingInv, VoteInv, TypeOK, TablesTyped
<1>1. ASSUME NEW q \in Readers PROVE ReaderSound(q)'
  <2>0. ReaderSound(q) /\ BodySound(reader[q].body, reader[q].key)
    BY DEF ListingInv, ReadersSound, ReaderSound
  <2>1. ASSUME NEW b, NEW k, b = reader[q].body, k = reader[q].key PROVE BodySound(b, k)'
    BY <1>0, <2>0, <2>1, BodyKept DEF ReaderSound
  <2>2. CASE reader'[q] = reader[q]
    BY <1>0, <2>0, <2>1, <2>2 DEF ReaderSound
  <2>3. CASE reader'[q] = IdleReader
    <3>1. BodySound(reader[q].body, reader[q].key)'
      BY <2>3, EmptyBody DEF IdleReader
    <3> QED
      BY <1>0, <2>3, <3>1 DEF ReaderSound, IdleReader
  <2>4. ASSUME NEW k \in Keys, clock' = clock,
               reader'[q] = [at |-> "list", key |-> k, now |-> clock, body |-> NoBody]
        PROVE  ReaderSound(q)'
    <3>1. BodySound(reader[q].body, reader[q].key)'
      BY <2>4, EmptyBody
    <3> QED
      BY <1>0, <2>4, <3>1 DEF ReaderSound
  <2>5. CASE ReadListing(q)
    <3> DEFINE now == reader[q].now
               f == reader[q].key
               b == [counts |-> [m \in Listed(now) |-> tallies[m]],
                     voted |-> [m \in Listed(now) |-> IF f = None THEN None ELSE votes[m][f]],
                     overtaken |-> FALSE]
    <3>1. /\ reader'[q] = [reader[q] EXCEPT !.at = "count", !.body = b]
          /\ clock' = clock /\ UNCHANGED vars
      BY <2>5 DEF ReadListing, ListingInv, ReadersSound, vars
    <3>2. now \in Nat /\ f \in Keys \cup {None}
      BY <1>0, <2>0 DEF ReaderSound
    <3>3. BodySound(b, f)
      BY <1>0, <3>2, BodiesMade
    <3> HIDE DEF b
    <3>4. /\ reader'[q].at = "count" /\ reader'[q].key = f /\ reader'[q].now = now
          /\ reader'[q].body = b /\ DOMAIN reader'[q] = DOMAIN reader[q]
      BY <2>0, <3>1 DEF ReaderSound
    <3>5. BodySound(reader[q].body, reader[q].key)'
      BY <3>1, <3>3, <3>4 DEF BodySound, BodyShape, BodyTrue, IsBody, vars, database
    <3> QED
      BY <1>0, <2>0, <3>1, <3>4, <3>5 DEF ReaderSound
  <2>6. CASE reader'[q] = [reader[q] EXCEPT !.at = "fill"]
    <3>1. /\ reader'[q].at = "fill" /\ reader'[q].key = reader[q].key
          /\ reader'[q].now = reader[q].now
          /\ reader'[q].body = reader[q].body /\ DOMAIN reader'[q] = DOMAIN reader[q]
      BY <2>0, <2>6 DEF ReaderSound
    <3>2. BodySound(reader[q].body, reader[q].key)'
      BY <2>1, <3>1
    <3> QED
      BY <1>0, <2>0, <3>1, <3>2 DEF ReaderSound
  <2>7. CASE reader'[q] = [reader[q] EXCEPT !.body.overtaken = TRUE]
    <3>1. /\ reader'[q].at = reader[q].at /\ reader'[q].key = reader[q].key
          /\ reader'[q].now = reader[q].now
          /\ reader'[q].body = [reader[q].body EXCEPT !.overtaken = TRUE]
          /\ DOMAIN reader'[q] = DOMAIN reader[q]
      BY <2>0, <2>7 DEF ReaderSound
    <3>2. /\ reader'[q].body.counts = reader[q].body.counts
          /\ reader'[q].body.voted = reader[q].body.voted
          /\ reader'[q].body.overtaken = TRUE
          /\ DOMAIN reader'[q].body = DOMAIN reader[q].body
      BY <2>0, <3>1 DEF BodySound, BodyShape
    <3>3. BodySound(reader[q].body, reader[q].key)'
      BY <2>1, <3>1, <3>2 DEF BodySound, BodyShape, BodyTrue, IsBody
    <3> QED
      BY <1>0, <2>0, <3>1, <3>3 DEF ReaderSound
  <2> QED
    BY <2>2, <2>3, <2>4, <2>5, <2>6, <2>7, ReaderMoves DEF ListingInv
<1> QED
  BY <1>1, ReaderMoves DEF ListingInv, ReadersSound
-----------------------------------------------------------------------------
(* Deletions under way, and the viewers of the tallies.                    *)

LEMMA DoomedStaysSound ==
  ASSUME ListingInv, ListingStep
  PROVE  DoomedSound'
<1>0. /\ DOMAIN doomed = Requests /\ pc \in [Requests -> Steps]
      /\ Month(clock) \in Months /\ DOMAIN cache = Months
  <2>1. clock \in 0..MaxDay /\ MaxDay \in Nat
    BY DaysAssumption DEF ListingInv, VoteInv, TypeOK, TablesTyped
  <2>2. Month(clock) \in Months
    BY <2>1, MonthAssumption DEF Month, Months
  <2> QED
    BY <2>2 DEF ListingInv, VoteInv, TypeOK, RequestsTyped, DoomedSound, CacheSound
<1>1. ASSUME NEW r \in Requests, doomed'[r] = doomed[r], pc'[r] = pc[r],
             doomed'[r] # None
      PROVE  SharedCache /\ At(r, "invalidate")' /\ doomed'[r] \subseteq Months \X Keys
  BY <1>1 DEF ListingInv, DoomedSound, At
<1>2. CASE pc' = pc /\ doomed' = doomed
  BY <1>0, <1>1, <1>2 DEF DoomedSound
<1>3. ASSUME NEW r \in Requests, doomed' = doomed, ~At(r, "invalidate"),
             \E step \in Steps : pc' = [pc EXCEPT ![r] = step]
      PROVE  DoomedSound'
  <2>1. doomed[r] = None
    BY <1>3 DEF ListingInv, DoomedSound
  <2>2. \A s \in Requests \ {r} : pc'[s] = pc[s]
    BY <1>0, <1>3
  <2> QED
    BY <1>0, <1>1, <1>3, <2>1, <2>2 DEF DoomedSound
<1>4. ASSUME NEW r \in Requests, VoteStep(r) \/ QueryFails(r), UNCHANGED listingVars
      PROVE  DoomedSound'
  <2>1. /\ doomed' = doomed /\ ~At(r, "invalidate")
        /\ \E step \in Steps : pc' = [pc EXCEPT ![r] = step]
    BY <1>4 DEF listingVars, VoteStep, CheckMovie, GetVoter, InsertVoter, InsertVote,
                IncrementTally, LoadTallies, LoadVotedCategory, QueryFails, VoterTaken,
                Committed, Goto, Answer, At, Steps, Statements
  <2> QED
    BY <1>3, <2>1
<1>5. ASSUME NEW r \in Requests, NEW m \in Movies \cup {None},
             NEW f \in Fingerprints \cup {None}, NEW c \in Categories \cup {None, Invalid},
             Receive(r, m, c, f), UNCHANGED listingVars
      PROVE  DoomedSound'
  <2>1. /\ doomed' = doomed /\ ~At(r, "invalidate")
        /\ \/ pc' = pc
           \/ \E step \in Steps : pc' = [pc EXCEPT ![r] = step]
    BY <1>5 DEF listingVars, Receive, Busy, At, Goto, Steps, Statements
  <2> QED
    BY <1>2, <1>3, <2>1
<1>6. ASSUME NEW r \in Requests, RespondAndInvalidate(r) \/ RespondWithoutInvalidating(r)
      PROVE  DoomedSound'
  <2>1. doomed' = doomed /\ pc' = [pc EXCEPT ![r] = "idle"] /\ doomed[r] = None
    BY <1>6 DEF RespondAndInvalidate, RespondWithoutInvalidating, Respond, Answer, Goto,
                listingVars, ListingInv, DoomedSound
  <2>2. \A s \in Requests \ {r} : pc'[s] = pc[s]
    BY <1>0, <2>1
  <2> QED
    BY <1>0, <1>1, <2>1, <2>2 DEF DoomedSound
<1>7. ASSUME NEW r \in Requests, ListKeys(r)
      PROVE  DoomedSound'
  <2>1. Stored(Month(clock)) \subseteq Months \X Keys
    BY <1>0 DEF Stored
  <2>2. /\ doomed' = [doomed EXCEPT ![r] = Stored(Month(clock))]
        /\ pc' = pc /\ SharedCache /\ At(r, "invalidate")
    BY <1>7 DEF ListKeys, vars
  <2> QED
    BY <1>0, <1>1, <2>1, <2>2 DEF DoomedSound, At
<1>8. ASSUME NEW r \in Requests, NEW n \in Months, NEW k \in Keys, DeleteKey(r, <<n, k>>)
      PROVE  DoomedSound'
  <2>1. /\ doomed' = [doomed EXCEPT ![r] = doomed[r] \ {<<n, k>>}]
        /\ pc' = pc /\ doomed[r] # None
    BY <1>8 DEF DeleteKey, Left
  <2>2. SharedCache /\ At(r, "invalidate") /\ doomed[r] \subseteq Months \X Keys
    BY <2>1 DEF ListingInv, DoomedSound
  <2> QED
    BY <1>0, <1>1, <2>1, <2>2 DEF DoomedSound, At
<1>9. ASSUME NEW r \in Requests, RespondAfterDeletes(r)
      PROVE  DoomedSound'
  <2>1. doomed' = [doomed EXCEPT ![r] = None] /\ pc' = [pc EXCEPT ![r] = "idle"]
    BY <1>9 DEF RespondAfterDeletes, Respond, Answer, Goto
  <2>2. \A s \in Requests \ {r} : pc'[s] = pc[s] /\ doomed'[s] = doomed[s]
    BY <1>0, <2>1
  <2> QED
    BY <1>0, <1>1, <2>1, <2>2 DEF DoomedSound
<1>10. CASE CrashAll
  BY <1>10 DEF CrashAll, DoomedSound
<1>11. ASSUME \/ \E q \in Readers :
                   \/ \E k \in Keys : StartListing(q, k)
                   \/ AdvanceListing(q)
                   \/ ListingFails(q)
              \/ \E v \in Viewers :
                   \/ \E m \in Movies, f \in Fingerprints \cup {None} : StartView(v, m, f)
                   \/ FinishView(v)
              \/ \E n \in Months, k \in Keys : Expire(n, k)
              \/ (\E m \in Movies, d \in ReleaseDays : SyncMovie(m, d)) /\ UNCHANGED listingVars
              \/ Tick /\ UNCHANGED listingVars
              \/ UNCHANGED allVars
       PROVE  pc' = pc /\ doomed' = doomed
  BY <1>11 DEF StartListing, AdvanceListing, ReadListing, CountListing, FillCache, ListingFails,
               StartView, FinishView, Expire, SyncMovie, Tick, listingVars, allVars, vars
<1> QED
  BY <1>2, <1>4, <1>5, <1>6, <1>7, <1>8, <1>9, <1>10, <1>11
     DEF ListingStep, ListingNext, AdvanceVote

LEMMA ViewKept ==
  ASSUME VoteInv, Monotone, viewer \in [Viewers -> Views],
         NEW v \in Viewers, ViewerSound(v), viewer'[v] = viewer[v]
  PROVE  ViewerSound(v)'
<1>1. viewer[v] \in Views
  OBVIOUS
<1>2. viewer[v].choice # None => viewer[v].choice \in Categories
  BY <1>1 DEF Views
<1> QED
  BY <1>1, <1>2 DEF ViewerSound, Monotone

(* A viewer before its first query, and the choice that query finds.       *)
Started(m, f) == [IdleViewer EXCEPT !.at = "second", !.movie = m, !.fingerprint = f]
Choice(m, f) == IF f = None THEN None ELSE votes[m][f]

LEMMA ViewsMade ==
  ASSUME VoteInv, NEW m \in Movies, NEW f \in Fingerprints \cup {None}
  PROVE  /\ Started(m, f) \in Views
         /\ Started(m, f).choice = None /\ Started(m, f).movie = m
         /\ Queried(Started(m, f), Queries[1]) =
              [at |-> "second", movie |-> m, fingerprint |-> f,
               choice |-> Choice(m, f), counts |-> Zeros]
         /\ Queried(Started(m, f), Queries[1]) \in Views
<1>1. votes \in [Movies -> [Fingerprints -> Categories \cup {None}]]
  BY DEF VoteInv, TypeOK, TablesTyped
<1>2. Started(m, f) = [at |-> "second", movie |-> m, fingerprint |-> f,
                       choice |-> None, counts |-> Zeros]
  <2>1. ASSUME NEW view, view = [IdleViewer EXCEPT !.at = "second", !.movie = m, !.fingerprint = f]
        PROVE  view = [at |-> "second", movie |-> m, fingerprint |-> f,
                       choice |-> None, counts |-> Zeros]
    BY <2>1 DEF IdleViewer
  <2> QED
    BY <2>1 DEF Started
<1>3. Started(m, f) \in Views
  BY <1>2 DEF Views, Zeros
<1>4. Choice(m, f) \in Categories \cup {None}
  BY <1>1 DEF Choice
<1>5. Queries[1] = "choice"
  BY DEF Queries, ChoiceFirst
<1>6. Queried(Started(m, f), "choice") = [Started(m, f) EXCEPT !.choice = Choice(m, f)]
  BY <1>2 DEF Queried, Choice
<1>7. Queried(Started(m, f), "choice") =
        [at |-> "second", movie |-> m, fingerprint |-> f,
         choice |-> Choice(m, f), counts |-> Zeros]
  BY <1>2, <1>6
<1>8. Queried(Started(m, f), "choice") \in Views
  BY <1>4, <1>7 DEF Views, Zeros
<1> QED
  BY <1>2, <1>3, <1>5, <1>7, <1>8

LEMMA ViewersStaySound ==
  ASSUME ListingInv, ListingStep
  PROVE  ViewersSound'
<1>0. /\ VoteInv /\ VoteInv' /\ Monotone /\ viewer \in [Viewers -> Views]
      /\ \A v \in Viewers : ViewerSound(v)
  BY VotePart DEF ListingInv, ViewersSound
<1>1. IdleViewer \in Views /\ IdleViewer.at = "idle"
  BY DEF IdleViewer, Views, Zeros
<1>2. CASE UNCHANGED viewer
  BY <1>0, <1>2, ViewKept DEF ViewersSound
<1>3. CASE viewer' = [v \in Viewers |-> IdleViewer]
  BY <1>1, <1>3 DEF ViewersSound, ViewerSound
<1>4. ASSUME NEW v \in Viewers, FinishView(v) PROVE ViewersSound'
  <2>1. viewer' = [viewer EXCEPT ![v] = IdleViewer]
    BY <1>4 DEF FinishView
  <2>2. ViewerSound(v)'
    BY <1>0, <1>1, <2>1 DEF ViewerSound
  <2> QED
    BY <1>0, <1>1, <2>1, <2>2, ViewKept DEF ViewersSound
<1>5. ASSUME NEW v \in Viewers, NEW m \in Movies, NEW f \in Fingerprints \cup {None},
             StartView(v, m, f)
      PROVE  ViewersSound'
  <2> DEFINE view == Started(m, f)
             first == Queried(Started(m, f), Queries[1])
  <2>1. /\ viewer' = [viewer EXCEPT ![v] = first] \/ viewer' = [viewer EXCEPT ![v] = view]
        /\ votes' = votes
    BY <1>5 DEF StartView, database, Started
  <2>2. /\ view \in Views /\ first \in Views /\ view.choice = None /\ view.movie = m
        /\ first.movie = m /\ first.fingerprint = f /\ first.choice = Choice(m, f)
    <3>1. /\ view \in Views /\ first \in Views /\ view.choice = None /\ view.movie = m
          /\ first = [at |-> "second", movie |-> m, fingerprint |-> f,
                      choice |-> Choice(m, f), counts |-> Zeros]
      BY <1>0, ViewsMade, Zenon
    <3> QED
      BY <3>1
  <2> HIDE DEF view, first
  <2>3. ViewerSound(v)'
    BY <1>0, <2>1, <2>2 DEF ViewerSound, Choice
  <2> QED
    BY <1>0, <2>1, <2>2, <2>3, ViewKept DEF ViewersSound
<1>6. ASSUME NEW r \in Requests, AdvanceVote(r) PROVE UNCHANGED viewer
  BY <1>6 DEF AdvanceVote, RespondAndInvalidate, ListKeys, DeleteKey, RespondAfterDeletes,
              RespondWithoutInvalidating, listingVars
<1>7. ASSUME NEW q \in Readers,
             \/ \E k \in Keys : StartListing(q, k)
             \/ AdvanceListing(q)
             \/ ListingFails(q)
      PROVE  UNCHANGED viewer
  BY <1>7 DEF StartListing, AdvanceListing, ReadListing, CountListing, FillCache, ListingFails
<1>8. ASSUME \/ \E n \in Months, k \in Keys : Expire(n, k)
             \/ UNCHANGED listingVars
             \/ UNCHANGED allVars
      PROVE  UNCHANGED viewer
  BY <1>8 DEF Expire, listingVars, allVars
<1> QED
  BY <1>2, <1>3, <1>4, <1>5, <1>6, <1>7, <1>8 DEF ListingStep, ListingNext, CrashAll
-----------------------------------------------------------------------------
LEMMA InitListing == ListingInit => ListingInv
<1> SUFFICES ASSUME ListingInit PROVE ListingInv
  OBVIOUS
<1>1. VoteInv
  BY InitTypeOK, InitCounts, DaysAssumption DEF ListingInit, Init, VoteInv
<1>2. CacheSound
  BY DEF ListingInit, CacheSound
<1>3. ReadersSound
  <2>1. clock = 0
    BY DEF ListingInit, Init
  <2>2. ASSUME NEW q \in Readers PROVE ReaderSound(q)
    <3>1. reader[q] = IdleReader
      BY DEF ListingInit
    <3> QED
      BY <2>1, <3>1, EmptyBody DEF ReaderSound, IdleReader
  <2> QED
    BY <2>2 DEF ReadersSound, ListingInit
<1>4. DoomedSound
  BY DEF ListingInit, DoomedSound
<1>5. ViewersSound
  BY DEF ListingInit, ViewersSound, ViewerSound, Views, IdleViewer, Zeros
<1> QED
  BY <1>1, <1>2, <1>3, <1>4, <1>5 DEF ListingInv

LEMMA NextListing == ListingInv /\ [ListingNext]_allVars => ListingInv'
<1> SUFFICES ASSUME ListingInv, ListingStep PROVE ListingInv'
  BY DEF ListingStep
<1> QED
  BY VotePart, CacheStaysSound, ReadersStaySound, DoomedStaysSound, ViewersStaySound
     DEF ListingInv

LEMMA ListingFollows == ListingInv => StaleOnlyByOmission /\ ListingTypeOK
<1> SUFFICES ASSUME ListingInv PROVE StaleOnlyByOmission /\ ListingTypeOK
  OBVIOUS
<1>1. StaleOnlyByOmission
  BY DEF ListingInv, CacheSound, BodySound, BodyTrue, StaleOnlyByOmission
<1>2. ASSUME NEW v \in Viewers
      PROVE  /\ viewer[v].at \in {"idle", "second"}
             /\ viewer[v].at # "idle" => viewer[v].movie \in Movies
             /\ viewer[v].fingerprint \in Fingerprints \cup {None}
             /\ viewer[v].choice \in Categories \cup {None}
             /\ viewer[v].counts \in [Categories -> Nat]
  BY DEF ListingInv, ViewersSound, ViewerSound, Views
<1>3. ListingTypeOK
  BY <1>2 DEF ListingInv, VoteInv, CacheSound, ReadersSound, ReaderSound, DoomedSound,
              BodySound, BodyShape, ListingTypeOK
<1> QED
  BY <1>1, <1>3

(* A choice that is shown was stored when it was read, so it has a voter,  *)
(* and the counters read after it lack that voter only while its request   *)
(* is between its two statements.                                          *)
LEMMA ChoiceCounted == ListingInv => ShownChoiceIsCounted
<1>0. ListingInv => faults \in Nat
  BY DaysAssumption DEF ListingInv, VoteInv, TypeOK, TablesTyped
<1> SUFFICES ASSUME ListingInv, NEW v \in Viewers, viewer[v].at = "second",
                    Shown(v).choice # None, faults = 0
             PROVE  \/ Shown(v).counts[Shown(v).choice] >= 1
                    \/ Pending(viewer[v].movie, Shown(v).choice) # {}
  BY <1>0 DEF ShownChoiceIsCounted
<1> DEFINE m == viewer[v].movie
           f == viewer[v].fingerprint
           c == viewer[v].choice
<1>1. Shown(v) = [viewer[v] EXCEPT !.counts = tallies[m]]
  BY DEF Shown, Queried, Queries, ChoiceFirst
<1>2. viewer[v] \in Views
  BY DEF ListingInv, ViewersSound
<1>3. Shown(v).choice = c /\ Shown(v).counts = tallies[m]
  BY <1>1, <1>2 DEF Views
<1>4. m \in Movies /\ c \in Categories /\ f \in Fingerprints /\ c = votes[m][f]
  BY <1>2, <1>3 DEF ListingInv, ViewersSound, ViewerSound, Views
<1>5. f \in Voted(m, c)
  BY <1>4 DEF Voted
<1>6. Cardinality(Voted(m, c)) \in Nat /\ Cardinality(Voted(m, c)) # 0
  BY <1>4, <1>5, CountedSetsFinite, FS_EmptySet
<1>7. tallies[m][c] + Cardinality(Pending(m, c)) = Cardinality(Voted(m, c))
  BY <1>4 DEF ListingInv, VoteInv, CountInv, TalliesExactWithoutFaults
<1>8. tallies[m][c] \in Nat
  BY <1>4 DEF ListingInv, VoteInv, TypeOK, TablesTyped
<1>9. CASE Pending(m, c) = {}
  BY <1>3, <1>4, <1>6, <1>7, <1>8, <1>9, FS_EmptySet
<1> QED
  BY <1>3, <1>9

LEMMA ListingInvariant == ListingSpec => []ListingInv
BY InitListing, NextListing, PTL DEF ListingSpec

(* Every reachable state is well formed: entries and fills are whole       *)
(* bodies, and only a request of Valkey's deletes them one at a time.      *)
THEOREM ListingTypeCorrect == ListingSpec => []ListingTypeOK
BY ListingInvariant, ListingFollows, PTL

(* What the cache holds may lack votes and never invents one, with either  *)
(* cache, whatever is stored, deleted or fails in what order.              *)
THEOREM CacheShowsTheTruth == ListingSpec => []StaleOnlyByOmission
BY ListingInvariant, ListingFollows, PTL

(* A voter is shown a choice together with its count, unless its vote is   *)
(* just then between its two statements or something has failed.           *)
THEOREM ChoicesShownCounted == ListingSpec => []ShownChoiceIsCounted
BY ListingInvariant, ChoiceCounted, PTL
-----------------------------------------------------------------------------
(* What is proved of the vote handler holds of it beside its readers, with *)
(* the invalidation in steps, and its failures.                            *)

LEMMA AnswersBeside ==
  ASSUME VoteInv, AnswerInv, ListingStep
  PROVE  AnswerInv'
<1>1. TypeOK /\ TypeOK' /\ Monotone
  BY VotePart DEF VoteInv
<1>2. CASE [Next]_vars
  BY <1>1, <1>2, NextAnswers
<1>3. CASE UNCHANGED <<database, clock, pc, job, reply>>
  BY <1>1, <1>3, EnvironmentAnswers
<1>4. ASSUME NEW r \in Requests, RespondWithoutInvalidating(r) PROVE AnswerInv'
  <2>1. Answered(r)
    BY <1>4 DEF RespondWithoutInvalidating, Answered
  <2> QED
    BY <1>1, <2>1, AnswerBuilt
<1> QED
  BY <1>2, <1>3, <1>4, StepCases

(* No reader, no cache and no failed deletion makes an answer untrue.      *)
THEOREM AnswersHoldBesideReaders ==
  ListingSpec => [](AcknowledgedOnceAndCounted /\ AnswersMatchDatabase)
<1>1. ListingInit => ListingInv /\ AnswerInv
  BY InitListing, InitAnswers DEF ListingInit
<1>2. ListingInv /\ AnswerInv /\ [ListingNext]_allVars => (ListingInv /\ AnswerInv)'
  BY NextListing, AnswersBeside DEF ListingStep, ListingInv
<1>3. ListingInv /\ AnswerInv => AcknowledgedOnceAndCounted /\ AnswersMatchDatabase
  BY AnswersFollow DEF ListingInv, VoteInv
<1> QED
  BY <1>1, <1>2, <1>3, PTL DEF ListingSpec

(* The handler with its cache, readers and viewers implements the ledger.  *)
THEOREM ImplementsLedgerBesideReaders == ListingSpec => LedgerSpec
<1>1. ListingInit => Ledger!Init
  BY InitLedger DEF ListingInit
<1>2. ASSUME ListingInv, ListingStep PROVE [Ledger!Next]_Ledger!vars
  <2>1. TypeOK /\ CountInv
    BY <1>2 DEF ListingInv, VoteInv
  <2>2. CASE [Next]_vars
    BY <2>1, <2>2, StepLedger
  <2>3. CASE UNCHANGED database
    BY <2>3 DEF database, Ledger!vars
  <2> QED
    BY <1>2, <2>2, <2>3, StepCases DEF RespondWithoutInvalidating
<1>3. ListingInv /\ [ListingNext]_allVars => [Ledger!Next]_Ledger!vars
  BY <1>2 DEF ListingStep
<1> QED
  BY <1>1, <1>3, ListingInvariant, PTL DEF ListingSpec, Ledger!Spec, LedgerSpec

(* A closed result stays final beside its readers.                         *)
THEOREM ClosedResultFinalBesideReaders == ListingSpec => SealedResultIsFinal
<1>1. ASSUME ListingInv, ListingStep, NEW m \in Movies, Sealed(m), release'[m] = release[m]
      PROVE  Sealed(m)' /\ votes'[m] = votes[m] /\ tallies'[m] = tallies[m]
  <2>1. TypeOK
    BY <1>1 DEF ListingInv, VoteInv
  <2>2. CASE [Next]_vars
    BY <1>1, <2>1, <2>2, SealedStep
  <2>3. CASE UNCHANGED <<database, clock, pc, job, reply>>
    BY <1>1, <2>3 DEF database, Sealed, Busy, At
  <2>4. ASSUME NEW r \in Requests, RespondWithoutInvalidating(r)
        PROVE  Sealed(m)' /\ votes'[m] = votes[m] /\ tallies'[m] = tallies[m]
    <3>1. UNCHANGED <<database, clock, job>> /\ pc' = [pc EXCEPT ![r] = "idle"]
      BY <2>4 DEF RespondWithoutInvalidating, Answer, Goto
    <3>2. pc \in [Requests -> Steps]
      BY <2>1 DEF TypeOK, RequestsTyped
    <3> QED
      BY <1>1, <3>1, <3>2 DEF database, Sealed, Busy, At
  <2> QED
    BY <1>1, <2>2, <2>3, <2>4, StepCases
<1>2. ListingInv /\ [ListingNext]_allVars =>
        [\A m \in Movies :
           Sealed(m) /\ release'[m] = release[m] =>
             Sealed(m)' /\ votes'[m] = votes[m] /\ tallies'[m] = tallies[m]]_vars
  BY <1>1 DEF ListingStep
<1> QED
  BY <1>2, ListingInvariant, PTL DEF ListingSpec, SealedResultIsFinal
-----------------------------------------------------------------------------
(* Freshness.  A request is late from its INSERT on; it leaves that stage, *)
(* failures apart, only by invalidating.  The entries a request has yet to *)
(* delete, all of them before KEYS, are open for it.                       *)

Late(r) == pc[r] \in {"increment", "tallies", "category", "invalidate"}
Unlisted == {r \in Requests : doomed[r] = None}
OpenAt(n, k) == {r \in Requests : doomed[r] = None \/ <<n, k>> \in doomed[r]}

(* What a body lacks is covered by requests of R.                          *)
Fresh(b, k, R) ==
  \A m \in DOMAIN b.counts :
    /\ \A c \in Categories :
         tallies[m][c] <= b.counts[m][c] + Cardinality(Announcing(m, c) \cap R)
    /\ k # None /\ votes[m][k] # None /\ b.voted[m] = None =>
         \E r \in R : Late(r) /\ job[r].movie = m /\ job[r].fingerprint = k

EntryCovered(k) ==
  LET n == Month(clock) IN
  cache[n][k] # None /\ ~cache[n][k].overtaken => Fresh(cache[n][k], k, OpenAt(n, k))

ReaderCovered(q) ==
  /\ reader[q].at \in {"count", "fill"}
  /\ Month(reader[q].now) = Month(clock)
  /\ ~reader[q].body.overtaken
  => Fresh(reader[q].body, reader[q].key, Unlisted)

FutureEmpty == \A n \in Months, k \in Keys : n > Month(clock) => cache[n][k] = None

FreshInv == /\ FutureEmpty
            /\ faults = 0 => /\ \A k \in Keys : EntryCovered(k)
                             /\ \A q \in Readers : ReaderCovered(q)

(* A step carries R over to S: it counts no vote without a request to      *)
(* announce it, loses no late request of R, and every vote it records has  *)
(* a late request in S.                                                    *)
Carried(R, S) ==
  /\ \A m \in Movies, c \in Categories :
       tallies'[m][c] + Cardinality(Announcing(m, c) \cap R)
         <= tallies[m][c] + Cardinality(Announcing(m, c)' \cap S)
  /\ \A r \in R : Late(r) => r \in S /\ Late(r)' /\ job'[r] = job[r]
  /\ \A m \in Movies, f \in Fingerprints :
       votes'[m][f] # votes[m][f] =>
         \E r \in S : Late(r)' /\ job'[r].movie = m /\ job'[r].fingerprint = f

LEMMA AnnouncingFinite ==
  ASSUME NEW m, NEW c, NEW R
  PROVE  /\ IsFiniteSet(Announcing(m, c) \cap R)
         /\ Cardinality(Announcing(m, c) \cap R) \in Nat
         /\ IsFiniteSet(Announcing(m, c)' \cap R)
         /\ Cardinality(Announcing(m, c)' \cap R) \in Nat
<1>1. Announcing(m, c) \cap R \subseteq Requests /\ Announcing(m, c)' \cap R \subseteq Requests
  BY DEF Announcing
<1>2. IsFiniteSet(Announcing(m, c) \cap R) /\ IsFiniteSet(Announcing(m, c)' \cap R)
  BY <1>1, FiniteAssumption, FS_Subset
<1> QED
  BY <1>2, FS_CardinalityType

LEMMA FreshCarried ==
  ASSUME VoteInv, VoteInv', NEW b, NEW k \in Keys \cup {None}, BodySound(b, k),
         NEW R, NEW S, Fresh(b, k, R), Carried(R, S)
  PROVE  Fresh(b, k, S)'
<1>0. /\ tallies \in [Movies -> [Categories -> Nat]]
      /\ tallies' \in [Movies -> [Categories -> Nat]]
  BY DEF VoteInv, TypeOK, TablesTyped
<1>1. ASSUME NEW m \in DOMAIN b.counts
      PROVE  /\ \A c \in Categories :
                  tallies'[m][c] <= b.counts[m][c] + Cardinality(Announcing(m, c)' \cap S)
             /\ k # None /\ votes'[m][k] # None /\ b.voted[m] = None =>
                  \E r \in S : Late(r)' /\ job'[r].movie = m /\ job'[r].fingerprint = k
  <2>0. m \in Movies /\ b.counts[m] \in [Categories -> Nat]
    BY DEF BodySound, BodyShape, IsBody
  <2>1. ASSUME NEW c \in Categories
        PROVE  tallies'[m][c] <= b.counts[m][c] + Cardinality(Announcing(m, c)' \cap S)
    <3>1. tallies[m][c] <= b.counts[m][c] + Cardinality(Announcing(m, c) \cap R)
      BY DEF Fresh
    <3>2. tallies'[m][c] + Cardinality(Announcing(m, c) \cap R)
            <= tallies[m][c] + Cardinality(Announcing(m, c)' \cap S)
      BY <2>0 DEF Carried
    <3>3. tallies[m][c] \in Nat /\ tallies'[m][c] \in Nat /\ b.counts[m][c] \in Nat
      BY <1>0, <2>0
    <3>4. /\ Cardinality(Announcing(m, c) \cap R) \in Nat
          /\ Cardinality(Announcing(m, c)' \cap S) \in Nat
      BY AnnouncingFinite
    <3> QED
      BY <3>1, <3>2, <3>3, <3>4
  <2>2. ASSUME k # None, votes'[m][k] # None, b.voted[m] = None
        PROVE  \E r \in S : Late(r)' /\ job'[r].movie = m /\ job'[r].fingerprint = k
    <3>1. k \in Fingerprints
      BY <2>2, KeysAssumption
    <3>2. CASE votes'[m][k] # votes[m][k]
      BY <2>0, <3>1, <3>2 DEF Carried
    <3>3. CASE votes'[m][k] = votes[m][k]
      <4>1. PICK r \in R : Late(r) /\ job[r].movie = m /\ job[r].fingerprint = k
        BY <2>2, <3>3 DEF Fresh
      <4> QED
        BY <4>1 DEF Carried
    <3> QED
      BY <3>2, <3>3
  <2> QED
    BY <2>1, <2>2
<1> QED
  BY <1>1 DEF Fresh

(* Steps that record and count nothing and disturb no late request of R.   *)
LEMMA QuietCarries ==
  ASSUME VoteInv, NEW R \in SUBSET Requests, NEW S \in SUBSET Requests,
         votes' = votes, tallies' = tallies,
         \A r \in R : Late(r) => /\ r \in S /\ Late(r)' /\ job'[r] = job[r]
                                 /\ reply'[r].inserted = reply[r].inserted
                                 /\ At(r, "increment") <=> At(r, "increment")'
  PROVE  Carried(R, S)
<1>1. ASSUME NEW m \in Movies, NEW c \in Categories
      PROVE  tallies'[m][c] + Cardinality(Announcing(m, c) \cap R)
               <= tallies[m][c] + Cardinality(Announcing(m, c)' \cap S)
  <2>1. Announcing(m, c) \cap R \subseteq Announcing(m, c)' \cap S
    BY DEF Announcing, Late, At
  <2>2. Cardinality(Announcing(m, c) \cap R) <= Cardinality(Announcing(m, c)' \cap S)
    BY <2>1, AnnouncingFinite, FS_Subset
  <2>3. /\ tallies[m][c] \in Nat
        /\ Cardinality(Announcing(m, c) \cap R) \in Nat
        /\ Cardinality(Announcing(m, c)' \cap S) \in Nat
    BY AnnouncingFinite DEF VoteInv, TypeOK, TablesTyped
  <2> QED
    BY <2>2, <2>3
<1> QED
  BY <1>1 DEF Carried

(* The steps of a vote.                                                    *)
LEMMA VoteStepCarries ==
  ASSUME VoteInv, VoteInv', NEW r \in Requests, VoteStep(r), faults = 0, faults' = 0,
         NEW R \in SUBSET Requests, r \in R
  PROVE  Carried(R, R)
<1>0. /\ pc \in [Requests -> Steps] /\ job' = job /\ ~Faulty
      /\ reply \in [Requests -> Replies]
  BY DEF VoteInv, TypeOK, RequestsTyped, Faulty, VoteStep, CheckMovie, GetVoter, InsertVoter,
         InsertVote, IncrementTally, LoadTallies, LoadVotedCategory
<1>1. \A s \in Requests \ {r} : pc'[s] = pc[s] /\ reply'[s] = reply[s]
  BY <1>0 DEF VoteStep, CheckMovie, GetVoter, InsertVoter, InsertVote, IncrementTally,
              VoterTaken, Committed, LoadTallies, LoadVotedCategory, Goto, Answer
<1>2. CASE CheckMovie(r) \/ GetVoter(r) \/ InsertVoter(r) \/ LoadTallies(r) \/ LoadVotedCategory(r)
  <2>1. votes' = votes /\ tallies' = tallies
    BY <1>2 DEF CheckMovie, GetVoter, InsertVoter, LoadTallies, LoadVotedCategory, database
  <2>2. Late(r) => /\ Late(r)' /\ reply'[r].inserted = reply[r].inserted
                   /\ At(r, "increment") <=> At(r, "increment")'
    BY <1>0, <1>2 DEF CheckMovie, GetVoter, InsertVoter, LoadTallies, LoadVotedCategory,
                      Goto, Late, At, Replies
  <2> QED
    BY <1>0, <1>1, <2>1, <2>2, QuietCarries DEF Late, At
<1>3. CASE InsertVote(r)
  <2>1. CASE Goto(r, "tallies") /\ UNCHANGED <<votes, reply>>
    <3>1. tallies' = tallies /\ ~Late(r)
      BY <1>3 DEF InsertVote, Late, At
    <3> QED
      BY <1>0, <1>1, <2>1, <3>1, QuietCarries DEF Late, At
  <2>2. CASE /\ votes' = [votes EXCEPT ![job[r].movie][job[r].fingerprint] = job[r].category]
             /\ Goto(r, "increment") /\ UNCHANGED reply
    <3>1. tallies' = tallies /\ ~Late(r) /\ pc'[r] = "increment" /\ Late(r)'
      BY <1>0, <1>3, <2>2 DEF InsertVote, Late, At, Goto
    <3>2. \A s \in R : Late(s) => Late(s)'
      BY <1>1, <3>1 DEF Late
    <3>3. ASSUME NEW m \in Movies, NEW c \in Categories
          PROVE  tallies'[m][c] + Cardinality(Announcing(m, c) \cap R)
                   <= tallies[m][c] + Cardinality(Announcing(m, c)' \cap R)
      <4>1. Announcing(m, c)' = Announcing(m, c)
        BY <1>0, <1>1, <2>2, <3>1 DEF Announcing, Late
      <4>2. tallies[m][c] \in Nat /\ Cardinality(Announcing(m, c) \cap R) \in Nat
        BY AnnouncingFinite DEF VoteInv, TypeOK, TablesTyped
      <4> QED
        BY <3>1, <4>1, <4>2
    <3>4. ASSUME NEW m \in Movies, NEW f \in Fingerprints, votes'[m][f] # votes[m][f]
          PROVE  job[r].movie = m /\ job[r].fingerprint = f
      BY <2>2, <3>4 DEF VoteInv, TypeOK, TablesTyped
    <3> QED
      BY <1>0, <3>1, <3>2, <3>3, <3>4 DEF Carried
  <2> QED
    BY <1>0, <1>3, <2>1, <2>2 DEF InsertVote, Committed
<1>4. CASE IncrementTally(r)
  <2> DEFINE j == job[r]
  <2>1. /\ pc[r] = "increment" /\ pc'[r] = "tallies" /\ reply'[r].inserted
        /\ tallies' = [tallies EXCEPT ![j.movie][j.category] = @ + 1] /\ votes' = votes
    BY <1>0, <1>4 DEF IncrementTally, Incremented, Goto, At, Replies
  <2>2. \A s \in R : Late(s) => Late(s)'
    BY <1>1, <2>1 DEF Late
  <2>3. ASSUME NEW m \in Movies, NEW c \in Categories
        PROVE  tallies'[m][c] + Cardinality(Announcing(m, c) \cap R)
                 <= tallies[m][c] + Cardinality(Announcing(m, c)' \cap R)
    <3>0. /\ tallies[m][c] \in Nat /\ tallies \in [Movies -> [Categories -> Nat]]
          /\ Cardinality(Announcing(m, c) \cap R) \in Nat
      BY AnnouncingFinite DEF VoteInv, TypeOK, TablesTyped
    <3>1. CASE j.movie = m /\ j.category = c
      <4>1. /\ Announcing(m, c)' \cap R = (Announcing(m, c) \cap R) \cup {r}
            /\ r \notin Announcing(m, c) \cap R
        BY <1>0, <1>1, <2>1, <3>1 DEF Announcing
      <4>2. Cardinality(Announcing(m, c)' \cap R) = Cardinality(Announcing(m, c) \cap R) + 1
        BY <4>1, AnnouncingFinite, FS_AddElement
      <4>3. tallies'[m][c] = tallies[m][c] + 1
        BY <2>1, <3>0, <3>1
      <4> QED
        BY <3>0, <4>2, <4>3
    <3>2. CASE ~(j.movie = m /\ j.category = c)
      <4>1. Announcing(m, c)' = Announcing(m, c)
        BY <1>0, <1>1, <2>1, <3>2 DEF Announcing
      <4>2. tallies'[m][c] = tallies[m][c]
        BY <2>1, <3>0, <3>2
      <4> QED
        BY <3>0, <4>1, <4>2
    <3> QED
      BY <3>1, <3>2
  <2> QED
    BY <1>0, <2>1, <2>2, <2>3 DEF Carried
<1> QED
  BY <1>2, <1>3, <1>4 DEF VoteStep

LEMMA EntryKept ==
  ASSUME ListingInv, VoteInv', NEW k \in Keys, EntryCovered(k),
         NEW n \in Months, Month(clock) = n, Month(clock') = n,
         cache'[n][k] = cache[n][k],
         NEW S, S = OpenAt(n, k)', Carried(OpenAt(n, k), S)
  PROVE  EntryCovered(k)'
<1>1. ASSUME NEW b, b = cache[n][k], NEW R, R = OpenAt(n, k), b # None, ~b.overtaken
      PROVE  Fresh(b, k, S)'
  <2>1. BodySound(b, k) /\ VoteInv
    BY <1>1 DEF ListingInv, CacheSound
  <2>2. Fresh(b, k, R) /\ Carried(R, S)
    BY <1>1 DEF EntryCovered
  <2> QED
    BY <2>1, <2>2, FreshCarried
<1>2. SUFFICES ASSUME cache'[n][k] # None, ~cache'[n][k].overtaken
               PROVE  Fresh(cache[n][k], k, OpenAt(n, k))'
  BY DEF EntryCovered
<1> QED
  BY <1>1, <1>2

ReaderSame(q) == /\ reader'[q].body = reader[q].body /\ reader'[q].key = reader[q].key
                 /\ reader'[q].now = reader[q].now /\ reader[q].at \in {"count", "fill"}

LEMMA ReaderKept ==
  ASSUME ListingInv, VoteInv', NEW q \in Readers, Month(clock') = Month(clock),
         ReaderCovered(q), ReaderSame(q), NEW S, S = Unlisted', Carried(Unlisted, S)
  PROVE  ReaderCovered(q)'
<1>1. ASSUME NEW b, b = reader[q].body, NEW k, k = reader[q].key,
             NEW R, R = Unlisted,
             Month(reader[q].now) = Month(clock), ~b.overtaken
      PROVE  Fresh(b, k, S)'
  <2>1. BodySound(b, k) /\ VoteInv /\ k \in Keys \cup {None}
    BY <1>1 DEF ListingInv, ReadersSound, ReaderSound
  <2>2. Fresh(b, k, R) /\ Carried(R, S)
    BY <1>1 DEF ReaderCovered, ReaderSame
  <2> QED
    BY <2>1, <2>2, FreshCarried
<1>2. SUFFICES ASSUME Month(reader'[q].now) = Month(clock'), ~reader'[q].body.overtaken
               PROVE  Fresh(reader[q].body, reader[q].key, Unlisted)'
  BY DEF ReaderCovered
<1>3. Month(reader[q].now) = Month(clock) /\ ~reader[q].body.overtaken
  BY <1>2 DEF ReaderSame
<1> QED
  BY <1>1, <1>3 DEF ReaderSame

Covered == (\A k \in Keys : EntryCovered(k)) /\ (\A q \in Readers : ReaderCovered(q))

Quiet(q) == \/ reader'[q].at \notin {"count", "fill"}
            \/ reader'[q].body.overtaken
            \/ ReaderSame(q)

(* Steps that delete nothing by key: entries may go, readers may stop or   *)
(* be overtaken, and the late requests are carried.                        *)
LEMMA CalmStep ==
  ASSUME ListingInv, VoteInv', Covered, doomed' = doomed,
         NEW n \in Months, Month(clock) = n, Month(clock') = n,
         \A k \in Keys : cache'[n][k] \in {cache[n][k], None},
         \A q \in Readers : Quiet(q),
         \A R \in SUBSET Requests : Unlisted \subseteq R => Carried(R, R)
  PROVE  Covered'
<1>1. ASSUME NEW k \in Keys PROVE EntryCovered(k)'
  <2>1. ASSUME NEW R, R = OpenAt(n, k) PROVE R = OpenAt(n, k)' /\ Carried(R, R)
    BY <2>1 DEF OpenAt, Unlisted
  <2>2. CASE cache'[n][k] = None
    BY <2>2 DEF EntryCovered
  <2>3. CASE cache'[n][k] = cache[n][k]
    BY <2>1, <2>3, EntryKept DEF Covered
  <2> QED
    BY <2>2, <2>3
<1>2. ASSUME NEW q \in Readers PROVE ReaderCovered(q)'
  <2>1. ASSUME NEW R, R = Unlisted PROVE R = Unlisted' /\ Carried(R, R)
    BY <2>1 DEF Unlisted
  <2>2. CASE reader'[q].at \notin {"count", "fill"} \/ reader'[q].body.overtaken
    BY <2>2 DEF ReaderCovered
  <2>3. CASE ReaderSame(q)
    BY <2>1, <2>3, ReaderKept DEF Covered
  <2> QED
    BY <2>2, <2>3 DEF Quiet
<1> QED
  BY <1>1, <1>2 DEF Covered

LEMMA UnchangedCarries ==
  ASSUME VoteInv, UNCHANGED <<votes, tallies, pc, job, reply>>,
         NEW R \in SUBSET Requests, NEW S \in SUBSET Requests, R \subseteq S
  PROVE  Carried(R, S)
BY QuietCarries DEF Late, At

(* Invalidation in memory, and each of the three steps of it in Valkey.    *)
LEMMA InvalidationCovers ==
  ASSUME ListingInv, VoteInv', Covered,
         NEW n \in Months, Month(clock) = n, Month(clock') = n,
         faults = 0, faults' = 0, NEW r \in Requests,
         \/ RespondAndInvalidate(r) \/ ListKeys(r) \/ RespondAfterDeletes(r)
         \/ \E p \in Months, k \in Keys : DeleteKey(r, <<p, k>>)
  PROVE  Covered'
<1>0. /\ VoteInv /\ ~Faulty /\ clock' = clock
      /\ DOMAIN reader = Readers /\ \A q \in Readers : {"at", "key", "now", "body"} \subseteq DOMAIN reader[q]
      /\ \A q \in Readers : {"counts", "voted", "overtaken"} \subseteq DOMAIN reader[q].body
      /\ pc \in [Requests -> Steps] /\ DOMAIN doomed = Requests
      /\ DOMAIN cache = Months /\ \A p \in Months : DOMAIN cache[p] = Keys
  <2>1. VoteInv /\ pc \in [Requests -> Steps] /\ DOMAIN doomed = Requests
    BY DEF ListingInv, VoteInv, TypeOK, RequestsTyped, DoomedSound
  <2>2. DOMAIN cache = Months /\ \A p \in Months : DOMAIN cache[p] = Keys
    BY DEF ListingInv, CacheSound
  <2>3. /\ DOMAIN reader = Readers
        /\ \A q \in Readers : /\ {"at", "key", "now", "body"} \subseteq DOMAIN reader[q]
                              /\ {"counts", "voted", "overtaken"} \subseteq DOMAIN reader[q].body
    BY DEF ListingInv, ReadersSound, ReaderSound, BodySound, BodyShape
  <2>4. clock' = clock
    BY DEF RespondAndInvalidate, ListKeys, RespondAfterDeletes, DeleteKey, Respond, vars
  <2>5. ~Faulty
    BY DEF Faulty
  <2> QED
    BY <2>1, <2>2, <2>3, <2>4, <2>5
<1>1. ASSUME Overtake(n), NEW q \in Readers PROVE ReaderCovered(q)'
  <2>1. CASE reader[q].at \in {"count", "fill"} /\ Month(reader[q].now) = n
    <3>1. reader'[q] = [reader[q] EXCEPT !.body.overtaken = TRUE]
      BY <1>1, <2>1 DEF Overtake
    <3>2. reader'[q].body.overtaken
      BY <1>0, <3>1
    <3> QED
      BY <3>2 DEF ReaderCovered
  <2>2. CASE ~(reader[q].at \in {"count", "fill"} /\ Month(reader[q].now) = n)
    <3>1. reader'[q] = reader[q]
      BY <1>1, <2>2 DEF Overtake
    <3> QED
      BY <2>2, <3>1 DEF ReaderCovered
  <2> QED
    BY <2>1, <2>2
<1>2. CASE RespondAndInvalidate(r)
  <2>1. cache' = Dropped(n) /\ Overtake(n)
    BY <1>2 DEF RespondAndInvalidate
  <2>2. \A k \in Keys : cache'[n][k] = None
    BY <1>0, <2>1 DEF Dropped
  <2> QED
    BY <1>1, <2>1, <2>2 DEF Covered, EntryCovered
<1>3. CASE ListKeys(r)
  <2>1. /\ UNCHANGED <<votes, tallies, pc, job, reply, cache>> /\ Overtake(n)
        /\ doomed[r] = None /\ doomed' = [doomed EXCEPT ![r] = Stored(n)]
    BY <1>3 DEF ListKeys, vars, database
  <2>2. ASSUME NEW k \in Keys, cache[n][k] # None PROVE EntryCovered(k)'
    <3>1. <<n, k>> \in Stored(n)
      BY <2>2 DEF Stored
    <3>2. OpenAt(n, k) \subseteq OpenAt(n, k)'
      BY <1>0, <2>1, <3>1 DEF OpenAt
    <3>3. ASSUME NEW S, S = OpenAt(n, k)' PROVE Carried(OpenAt(n, k), S)
      <4>1. OpenAt(n, k) \in SUBSET Requests /\ S \in SUBSET Requests
        BY <3>3 DEF OpenAt
      <4> QED
        BY <1>0, <2>1, <3>2, <3>3, <4>1, UnchangedCarries
    <3> QED
      BY <2>1, <3>3, EntryKept DEF Covered
  <2>3. ASSUME NEW k \in Keys, cache[n][k] = None PROVE EntryCovered(k)'
    BY <2>1, <2>3 DEF EntryCovered
  <2> QED
    BY <1>1, <2>1, <2>2, <2>3 DEF Covered
<1>4. ASSUME NEW p \in Months, NEW j \in Keys, DeleteKey(r, <<p, j>>)
      PROVE  Covered'
  <2>1. /\ UNCHANGED <<votes, tallies, pc, job, reply, reader>>
        /\ cache' = [cache EXCEPT ![p][j] = None]
        /\ doomed[r] # None /\ doomed' = [doomed EXCEPT ![r] = doomed[r] \ {<<p, j>>}]
    BY <1>0, <1>4 DEF DeleteKey, Left, database
  <2>2. Unlisted \subseteq Unlisted'
    BY <1>0, <2>1 DEF Unlisted
  <2>3. ASSUME NEW S, S = Unlisted' PROVE Carried(Unlisted, S)
    <3>1. Unlisted \in SUBSET Requests /\ S \in SUBSET Requests
      BY <2>3 DEF Unlisted
    <3> QED
      BY <1>0, <2>1, <2>2, <2>3, <3>1, UnchangedCarries
  <2>4. ASSUME NEW q \in Readers PROVE ReaderCovered(q)'
    <3>1. CASE reader[q].at \in {"count", "fill"}
      BY <2>1, <2>3, <3>1, ReaderKept DEF Covered, ReaderSame
    <3>2. CASE reader[q].at \notin {"count", "fill"}
      BY <2>1, <3>2 DEF ReaderCovered
    <3> QED
      BY <3>1, <3>2
  <2>5. ASSUME NEW k \in Keys, n = p /\ k = j PROVE EntryCovered(k)'
    BY <1>0, <2>1, <2>5 DEF EntryCovered
  <2>6. ASSUME NEW k \in Keys, ~(n = p /\ k = j) PROVE EntryCovered(k)'
    <3>1. cache'[n][k] = cache[n][k]
      BY <1>0, <2>1, <2>6
    <3>2. OpenAt(n, k) \subseteq OpenAt(n, k)'
      BY <1>0, <2>1, <2>6 DEF OpenAt
    <3>3. ASSUME NEW S, S = OpenAt(n, k)' PROVE Carried(OpenAt(n, k), S)
      <4>1. OpenAt(n, k) \in SUBSET Requests /\ S \in SUBSET Requests
        BY <3>3 DEF OpenAt
      <4> QED
        BY <1>0, <2>1, <3>2, <3>3, <4>1, UnchangedCarries
    <3> QED
      BY <3>1, <3>3, EntryKept DEF Covered
  <2> QED
    BY <2>4, <2>5, <2>6 DEF Covered
<1>5. CASE RespondAfterDeletes(r)
  <2>1. /\ UNCHANGED <<votes, tallies, job, reader, cache>>
        /\ doomed[r] = {} /\ doomed[r] # None /\ doomed' = [doomed EXCEPT ![r] = None]
        /\ \A s \in Requests \ {r} : pc'[s] = pc[s] /\ reply'[s] = reply[s]
    BY <1>0, <1>5, NoSetAssumption
       DEF RespondAfterDeletes, Respond, Answer, Goto, database
  <2>2. ASSUME NEW R \in SUBSET Requests, NEW S \in SUBSET Requests, R \subseteq S, r \notin R
        PROVE  Carried(R, S)
    BY <1>0, <2>1, <2>2, QuietCarries DEF Late, At
  <2>3. ASSUME NEW S, S = Unlisted' PROVE Carried(Unlisted, S)
    <3>1. /\ Unlisted \subseteq S /\ r \notin Unlisted
          /\ Unlisted \in SUBSET Requests /\ S \in SUBSET Requests
      BY <1>0, <2>1, <2>3 DEF Unlisted
    <3> QED
      BY <2>2, <3>1
  <2>4. ASSUME NEW q \in Readers PROVE ReaderCovered(q)'
    <3>1. CASE reader[q].at \in {"count", "fill"}
      BY <2>1, <2>3, <3>1, ReaderKept DEF Covered, ReaderSame
    <3>2. CASE reader[q].at \notin {"count", "fill"}
      BY <2>1, <3>2 DEF ReaderCovered
    <3> QED
      BY <3>1, <3>2
  <2>5. ASSUME NEW k \in Keys PROVE EntryCovered(k)'
    <3>1. ASSUME NEW S, S = OpenAt(n, k)' PROVE Carried(OpenAt(n, k), S)
      <4>1. /\ OpenAt(n, k) \subseteq S /\ r \notin OpenAt(n, k)
            /\ OpenAt(n, k) \in SUBSET Requests /\ S \in SUBSET Requests
        BY <1>0, <2>1, <3>1 DEF OpenAt
      <4> QED
        BY <2>2, <4>1
    <3> QED
      BY <2>1, <3>1, EntryKept DEF Covered
  <2> QED
    BY <2>4, <2>5 DEF Covered
<1> QED
  BY <1>2, <1>3, <1>4, <1>5

LEMMA MadeFresh ==
  ASSUME VoteInv, NEW now \in Nat, NEW f, NEW R \in SUBSET Requests,
         NEW b, b = [counts |-> [m \in Listed(now) |-> tallies[m]],
                     voted |-> [m \in Listed(now) |-> IF f = None THEN None ELSE votes[m][f]],
                     overtaken |-> FALSE]
  PROVE  Fresh(b, f, R)
<1>1. ASSUME NEW m \in Listed(now)
      PROVE  /\ \A c \in Categories :
                  tallies[m][c] <= b.counts[m][c] + Cardinality(Announcing(m, c) \cap R)
             /\ ~(f # None /\ votes[m][f] # None /\ b.voted[m] = None)
  <2>1. b.counts[m] = tallies[m] /\ b.voted[m] = IF f = None THEN None ELSE votes[m][f]
    OBVIOUS
  <2>2. m \in Movies
    BY DEF Listed
  <2>3. ASSUME NEW c \in Categories
        PROVE  tallies[m][c] <= tallies[m][c] + Cardinality(Announcing(m, c) \cap R)
    <3>1. tallies[m][c] \in Nat /\ Cardinality(Announcing(m, c) \cap R) \in Nat
      BY <2>2, AnnouncingFinite DEF VoteInv, TypeOK, TablesTyped
    <3> QED
      BY <3>1
  <2> QED
    BY <2>1, <2>3
<1>2. DOMAIN b.counts = Listed(now)
  OBVIOUS
<1> QED
  BY <1>1, <1>2 DEF Fresh

(* The handler of the listings.                                            *)
LEMMA ListingCovers ==
  ASSUME ListingInv, VoteInv', Covered,
         NEW n \in Months, Month(clock) = n, Month(clock') = n,
         faults = 0, faults' = 0, NEW q \in Readers,
         \/ \E k \in Keys : StartListing(q, k)
         \/ AdvanceListing(q)
         \/ ListingFails(q)
  PROVE  Covered'
<1>0. /\ VoteInv /\ ~Faulty /\ DOMAIN reader = Readers
      /\ UNCHANGED <<votes, tallies, pc, job, reply, doomed, clock>>
      /\ {"at", "key", "now", "body"} \subseteq DOMAIN reader[q]
      /\ reader[q].key \in Keys \cup {None}
      /\ DOMAIN cache = Months /\ \A p \in Months : DOMAIN cache[p] = Keys
  <2>1. VoteInv /\ DOMAIN reader = Readers
        /\ {"at", "key", "now", "body"} \subseteq DOMAIN reader[q]
        /\ reader[q].key \in Keys \cup {None}
    BY DEF ListingInv, ReadersSound, ReaderSound
  <2>2. ~Faulty
    BY DEF Faulty
  <2>3. UNCHANGED <<votes, tallies, pc, job, reply, doomed, clock>>
    BY DEF StartListing, AdvanceListing, ReadListing, CountListing, FillCache, ListingFails,
           database, vars
  <2>4. DOMAIN cache = Months /\ \A p \in Months : DOMAIN cache[p] = Keys
    BY DEF ListingInv, CacheSound
  <2> QED
    BY <2>1, <2>2, <2>3, <2>4
<1>1. \A R \in SUBSET Requests : Carried(R, R)
  BY <1>0, UnchangedCarries
<1>2. ASSUME UNCHANGED cache, NEW k \in Keys PROVE EntryCovered(k)'
  <2>1. ASSUME NEW R, R = OpenAt(n, k) PROVE R = OpenAt(n, k)' /\ Carried(R, R)
    BY <1>0, <1>1, <2>1 DEF OpenAt
  <2> QED
    BY <1>2, <2>1, EntryKept DEF Covered
<1>3. ASSUME NEW p \in Readers, reader'[p] = reader[p] PROVE ReaderCovered(p)'
  <2>1. ASSUME NEW R, R = Unlisted PROVE R = Unlisted' /\ Carried(R, R)
    BY <1>0, <1>1, <2>1 DEF Unlisted
  <2>2. CASE reader[p].at \in {"count", "fill"}
    BY <1>3, <2>1, <2>2, ReaderKept DEF Covered, ReaderSame
  <2>3. CASE reader[p].at \notin {"count", "fill"}
    BY <1>3, <2>3 DEF ReaderCovered
  <2> QED
    BY <2>2, <2>3
<1>4. CASE \E k \in Keys : StartListing(q, k)
  <2>1. UNCHANGED cache /\ reader'[q].at = "list" /\ \A p \in Readers \ {q} : reader'[p] = reader[p]
    BY <1>0, <1>4 DEF StartListing
  <2>2. ReaderCovered(q)'
    BY <2>1 DEF ReaderCovered
  <2> QED
    BY <1>2, <1>3, <2>1, <2>2 DEF Covered
<1>5. CASE ReadListing(q)
  <2> DEFINE now == reader[q].now
             f == reader[q].key
             made == [counts |-> [m \in Listed(now) |-> tallies[m]],
                      voted |-> [m \in Listed(now) |-> IF f = None THEN None ELSE votes[m][f]],
                      overtaken |-> FALSE]
  <2>1. /\ UNCHANGED cache /\ UNCHANGED vars
        /\ reader' = [reader EXCEPT ![q].at = "count", ![q].body = made]
        /\ \A p \in Readers \ {q} : reader'[p] = reader[p]
    BY <1>0, <1>5 DEF ReadListing
  <2>2. now \in Nat
    BY <1>0 DEF ListingInv, ReadersSound, ReaderSound, VoteInv, TypeOK, TablesTyped
  <2>3. ASSUME NEW b, b = made, NEW k, k = f, NEW R \in SUBSET Requests PROVE Fresh(b, k, R)
    BY <1>0, <2>2, <2>3, MadeFresh
  <2>4. reader'[q].body = made /\ reader'[q].key = f
    BY <1>0, <2>1
  <2> HIDE DEF made, f
  <2>5. ASSUME NEW b, b = made, NEW k, k = f, NEW R \in SUBSET Requests PROVE Fresh(b, k, R)'
    <3>1. Fresh(b, k, R)
      BY <2>3, <2>5
    <3> QED
      BY <2>1, <3>1 DEF Fresh, Announcing, Late, vars, database
  <2>6. Unlisted' \in SUBSET Requests
    BY DEF Unlisted
  <2>7. Fresh(reader[q].body, reader[q].key, Unlisted)'
    BY <2>4, <2>5, <2>6
  <2>8. ReaderCovered(q)'
    BY <2>7 DEF ReaderCovered
  <2> QED
    BY <1>2, <1>3, <2>1, <2>8 DEF Covered
<1>6. CASE CountListing(q)
  <2>1. /\ UNCHANGED cache /\ \A p \in Readers \ {q} : reader'[p] = reader[p]
        /\ ReaderSame(q)
    BY <1>0, <1>6 DEF CountListing, ReaderSame
  <2>2. ASSUME NEW R, R = Unlisted PROVE R = Unlisted' /\ Carried(R, R)
    BY <1>0, <1>1, <2>2 DEF Unlisted
  <2>3. ReaderCovered(q)'
    BY <2>1, <2>2, ReaderKept DEF Covered
  <2> QED
    BY <1>2, <1>3, <2>1, <2>3 DEF Covered
<1>7. CASE FillCache(q)
  <2>1. /\ cache' = [cache EXCEPT ![Month(reader[q].now)][reader[q].key] = reader[q].body]
        /\ reader[q].at = "fill" /\ reader'[q].at = "idle"
        /\ \A p \in Readers \ {q} : reader'[p] = reader[p]
    BY <1>0, <1>7 DEF FillCache, FillKey, IdleReader
  <2>2. ReaderCovered(q)'
    BY <2>1 DEF ReaderCovered
  <2>3. ASSUME NEW k \in Keys PROVE EntryCovered(k)'
    <3>1. CASE Month(reader[q].now) = n /\ k = reader[q].key
      <4>1. cache'[n][k] = reader[q].body
        BY <1>0, <2>1, <3>1
      <4>2. ASSUME NEW b, b = reader[q].body, ~b.overtaken, NEW R, R = Unlisted,
                   NEW S, S = OpenAt(n, k)'
            PROVE  Fresh(b, k, S)'
        <5>1. Fresh(b, k, R) /\ BodySound(b, k)
          BY <2>1, <3>1, <4>2 DEF Covered, ReaderCovered, ListingInv, ReadersSound, ReaderSound
        <5>2. R \in SUBSET Requests /\ S \in SUBSET Requests /\ R \subseteq S
          BY <1>0, <4>2 DEF Unlisted, OpenAt
        <5>3. Carried(R, S)
          BY <1>0, <5>2, UnchangedCarries
        <5> QED
          BY <1>0, <5>1, <5>3, FreshCarried
      <4>3. ~cache'[n][k].overtaken => Fresh(cache[n][k], k, OpenAt(n, k))'
        BY <4>1, <4>2
      <4> QED
        BY <4>3 DEF EntryCovered
    <3>2. CASE ~(Month(reader[q].now) = n /\ k = reader[q].key)
      <4>1. cache'[n][k] = cache[n][k]
        BY <1>0, <2>1, <3>2
      <4>2. ASSUME NEW R, R = OpenAt(n, k) PROVE R = OpenAt(n, k)' /\ Carried(R, R)
        BY <1>0, <1>1, <4>2 DEF OpenAt
      <4> QED
        BY <4>1, <4>2, EntryKept DEF Covered
    <3> QED
      BY <3>1, <3>2
  <2> QED
    BY <1>3, <2>1, <2>2, <2>3 DEF Covered
<1> QED
  BY <1>0, <1>4, <1>5, <1>6, <1>7 DEF AdvanceListing, ListingFails

LEMMA MonthsGrow ==
  ASSUME NEW a \in Nat, NEW b \in Nat, a <= b
  PROVE  Month(a) \in Nat /\ Month(b) \in Nat /\ Month(a) <= Month(b)
BY MonthAssumption DEF Month

LEMMA ClockMonth == VoteInv => clock \in Nat /\ Month(clock) \in Months /\ Months \subseteq Nat
<1> SUFFICES ASSUME VoteInv PROVE clock \in Nat /\ Month(clock) \in Months /\ Months \subseteq Nat
  OBVIOUS
<1>1. clock \in Nat /\ MaxDay \in Nat /\ clock <= MaxDay
  BY DaysAssumption DEF VoteInv, TypeOK, TablesTyped
<1> QED
  BY <1>1, MonthsGrow DEF Months

(* No entry is stored for a month to come: a fill goes to the month of its *)
(* request.                                                                *)
LEMMA FutureStaysEmpty ==
  ASSUME ListingInv, FutureEmpty, ListingStep
  PROVE  FutureEmpty'
<1>1. /\ clock \in Nat /\ clock' \in Nat /\ Months \subseteq Nat
      /\ Month(clock) \in Nat /\ Month(clock') \in Nat /\ Month(clock) <= Month(clock')
  BY VotePart, ClockMonth, MonthsGrow DEF ListingInv
<1>2. ASSUME NEW n \in Months, NEW k \in Keys, n > Month(clock') PROVE cache'[n][k] = None
  <2>1. n > Month(clock) /\ n \in Nat
    BY <1>1, <1>2
  <2>2. cache[n][k] = None
    BY <2>1 DEF FutureEmpty
  <2>3. ASSUME NEW q \in Readers, n = Month(reader[q].now) PROVE FALSE
    <3>1. reader[q].now \in Nat /\ reader[q].now <= clock
      BY <1>1 DEF ListingInv, ReadersSound, ReaderSound
    <3>2. Month(reader[q].now) <= Month(clock) /\ Month(reader[q].now) \in Nat
      BY <1>1, <3>1, MonthsGrow
    <3> QED
      BY <1>1, <2>1, <2>3, <3>2
  <2> QED
    BY <2>2, <2>3, CacheMoves DEF ListingInv
<1> QED
  BY <1>2 DEF FutureEmpty

LEMMA NextFresh ==
  ASSUME ListingInv, FreshInv, ListingStep
  PROVE  FreshInv'
<1>0. /\ VoteInv /\ VoteInv' /\ clock \in Nat /\ clock' \in Nat /\ clock <= clock'
      /\ Month(clock) \in Months /\ Month(clock') \in Months /\ Months \subseteq Nat
      /\ faults \in Nat /\ faults' \in Nat
  <2>1. VoteInv /\ VoteInv' /\ clock' \in Nat /\ clock <= clock'
    BY VotePart DEF ListingInv
  <2>2. clock \in Nat /\ Month(clock) \in Months /\ Months \subseteq Nat
    BY <2>1, ClockMonth
  <2>4. Month(clock') \in Months
    <3>1. VoteInv' => clock' \in Nat /\ clock' <= MaxDay
      BY DEF VoteInv, TypeOK, TablesTyped
    <3>2. clock' \in Nat /\ clock' <= MaxDay /\ MaxDay \in Nat
      BY <2>1, <3>1, DaysAssumption
    <3>3. /\ Month(clock') \in Nat /\ Month(MaxDay) \in Nat
          /\ Month(clock') <= Month(MaxDay)
      BY <3>2, MonthsGrow
    <3> QED
      BY <3>3 DEF Months
  <2>3. faults \in Nat /\ faults' \in Nat
    BY <2>1, DaysAssumption DEF VoteInv, TypeOK, TablesTyped
  <2> QED
    BY <2>1, <2>2, <2>3, <2>4
<1>1. FutureEmpty'
  BY FutureStaysEmpty DEF FreshInv
<1>2. faults' = faults \/ Faulty
  <2>1. ASSUME Next PROVE faults' = faults \/ Faulty
    <3>1. ASSUME NEW r \in Requests, Advance(r) \/ QueryFails(r) PROVE faults' = faults \/ Faulty
      BY <3>1 DEF Advance, QueryFails, CheckMovie, GetVoter, InsertVoter, InsertVote,
                  IncrementTally, LoadTallies, LoadVotedCategory, Respond, Committed, Healthy
    <3>2. ASSUME \/ \E r \in Requests, m \in Movies \cup {None}, f \in Fingerprints \cup {None},
                       c \in Categories \cup {None, Invalid} : Receive(r, m, c, f)
                 \/ Crash
                 \/ \E m \in Movies, d \in ReleaseDays : SyncMovie(m, d)
                 \/ Tick
          PROVE  faults' = faults \/ Faulty
      BY <3>2 DEF Receive, Crash, SyncMovie, Tick
    <3> QED
      BY <2>1, <3>1, <3>2 DEF Next
  <2>2. ASSUME NEW r \in Requests, RespondWithoutInvalidating(r) PROVE Faulty
    BY <2>2 DEF RespondWithoutInvalidating
  <2> QED
    BY <2>1, <2>2, StepCases DEF Healthy, vars
<1>3. SUFFICES ASSUME faults' = 0 PROVE Covered'
  BY <1>1 DEF FreshInv, Covered
<1>4. ~Faulty /\ faults = 0 /\ Covered
  <2>1. ~Faulty
    BY <1>0, <1>3 DEF Faulty
  <2> QED
    BY <1>2, <1>3, <2>1 DEF FreshInv, Covered
<1>5. ASSUME NEW r \in Requests, VoteStep(r), UNCHANGED listingVars
      PROVE  /\ UNCHANGED <<cache, reader, doomed>> /\ clock' = clock
             /\ \A R \in SUBSET Requests : Unlisted \subseteq R => Carried(R, R)
  <2>1. UNCHANGED <<cache, reader, doomed>> /\ ~At(r, "invalidate") /\ clock' = clock
    BY <1>5 DEF listingVars, VoteStep, CheckMovie, GetVoter, InsertVoter, InsertVote,
                IncrementTally, LoadTallies, LoadVotedCategory, At, database
  <2>2. r \in Unlisted
    BY <2>1 DEF ListingInv, DoomedSound, Unlisted
  <2> QED
    BY <1>0, <1>3, <1>4, <1>5, <2>1, <2>2, VoteStepCarries
<1>6. ASSUME NEW r \in Requests, NEW m \in Movies \cup {None},
             NEW f \in Fingerprints \cup {None}, NEW c \in Categories \cup {None, Invalid},
             Receive(r, m, c, f), UNCHANGED listingVars
      PROVE  /\ UNCHANGED <<cache, reader, doomed>> /\ clock' = clock
             /\ \A R \in SUBSET Requests : Carried(R, R)
  <2>1. /\ UNCHANGED <<cache, reader, doomed, votes, tallies>> /\ ~Late(r) /\ clock' = clock
        /\ \A s \in Requests \ {r} : pc'[s] = pc[s] /\ job'[s] = job[s] /\ reply'[s] = reply[s]
    BY <1>0, <1>6 DEF Receive, Goto, Busy, Late, listingVars, database, VoteInv, TypeOK,
                      RequestsTyped
  <2>2. ASSUME NEW R \in SUBSET Requests PROVE Carried(R, R)
    BY <1>0, <2>1, QuietCarries DEF Late, At
  <2> QED
    BY <2>1, <2>2
<1>7. ASSUME \/ \E n \in Months, k \in Keys : Expire(n, k)
             \/ \E v \in Viewers :
                  \/ \E m \in Movies, f \in Fingerprints \cup {None} : StartView(v, m, f)
                  \/ FinishView(v)
             \/ (\E m \in Movies, d \in ReleaseDays : SyncMovie(m, d)) /\ UNCHANGED listingVars
             \/ Tick /\ UNCHANGED listingVars
             \/ UNCHANGED allVars
      PROVE  /\ UNCHANGED <<reader, doomed>>
             /\ UNCHANGED cache \/ \E n \in Months, k \in Keys : Expire(n, k)
             /\ \A R \in SUBSET Requests : Carried(R, R)
  <2>1. /\ UNCHANGED <<votes, tallies, pc, job, reply, reader, doomed>>
        /\ UNCHANGED cache \/ \E n \in Months, k \in Keys : Expire(n, k)
    BY <1>7 DEF Expire, StartView, FinishView, SyncMovie, Tick, listingVars, allVars, vars,
                database
  <2> QED
    BY <1>0, <2>1, UnchangedCarries
<1>8. ASSUME NEW n \in Months, n = Month(clock), Month(clock') = n,
             UNCHANGED <<reader, doomed>>,
             UNCHANGED cache \/ \E p \in Months, k \in Keys : Expire(p, k),
             \A R \in SUBSET Requests : Unlisted \subseteq R => Carried(R, R)
      PROVE  Covered'
  <2>1. \A k \in Keys : cache'[n][k] \in {cache[n][k], None}
    <3>1. \A p \in Months : DOMAIN cache[p] = Keys
      BY DEF ListingInv, CacheSound
    <3>2. DOMAIN cache = Months
      BY DEF ListingInv, CacheSound
    <3> QED
      BY <1>8, <3>1, <3>2 DEF Expire
  <2>2. \A q \in Readers : Quiet(q)
    BY <1>8 DEF Quiet, ReaderSame
  <2>3. ListingInv /\ VoteInv' /\ Covered
    BY <1>0, <1>4
  <2> QED
    BY <1>8, <2>1, <2>2, <2>3, CalmStep
<1>9. CASE Month(clock') = Month(clock)
  <2>1. ASSUME NEW r \in Requests, AdvanceVote(r) PROVE Covered'
    <3>1. CASE VoteStep(r) /\ UNCHANGED listingVars
      BY <1>0, <1>5, <1>8, <1>9, <3>1
    <3>2. CASE RespondWithoutInvalidating(r)
      BY <1>4, <3>2 DEF RespondWithoutInvalidating
    <3>3. CASE \/ RespondAndInvalidate(r) \/ ListKeys(r) \/ RespondAfterDeletes(r)
               \/ \E p \in Months, k \in Keys : DeleteKey(r, <<p, k>>)
      BY <1>0, <1>3, <1>4, <1>9, <3>3, InvalidationCovers
    <3> QED
      BY <2>1, <3>1, <3>2, <3>3 DEF AdvanceVote
  <2>2. ASSUME NEW q \in Readers,
               \/ \E k \in Keys : StartListing(q, k)
               \/ AdvanceListing(q)
               \/ ListingFails(q)
        PROVE  Covered'
    BY <1>0, <1>3, <1>4, <1>9, <2>2, ListingCovers
  <2>3. ASSUME \/ \E r \in Requests : QueryFails(r)
               \/ CrashAll
        PROVE  FALSE
    BY <1>4, <2>3 DEF QueryFails, CrashAll, Crash
  <2>4. ASSUME \E r \in Requests, m \in Movies \cup {None}, f \in Fingerprints \cup {None},
                  c \in Categories \cup {None, Invalid} :
                    Receive(r, m, c, f) /\ UNCHANGED listingVars
        PROVE  Covered'
    BY <1>0, <1>6, <1>8, <1>9, <2>4
  <2>5. ASSUME \/ \E n \in Months, k \in Keys : Expire(n, k)
               \/ \E v \in Viewers :
                    \/ \E m \in Movies, f \in Fingerprints \cup {None} : StartView(v, m, f)
                    \/ FinishView(v)
               \/ (\E m \in Movies, d \in ReleaseDays : SyncMovie(m, d)) /\ UNCHANGED listingVars
               \/ Tick /\ UNCHANGED listingVars
               \/ UNCHANGED allVars
        PROVE  Covered'
    BY <1>0, <1>7, <1>8, <1>9, <2>5
  <2> QED
    BY <2>1, <2>2, <2>3, <2>4, <2>5 DEF ListingStep, ListingNext
<1>10. CASE Month(clock') # Month(clock)
  <2>1. Month(clock) \in Nat /\ Month(clock') \in Nat /\ Month(clock) < Month(clock')
    BY <1>0, <1>10, MonthsGrow
  <2>2. \A q \in Readers : reader[q].now \in Nat /\ Month(reader[q].now) <= Month(clock)
                           /\ Month(reader[q].now) \in Nat
    BY <1>0, MonthsGrow DEF ListingInv, ReadersSound, ReaderSound
  <2>3. ASSUME NEW k \in Keys PROVE EntryCovered(k)'
    <3>1. cache[Month(clock')][k] = None
      BY <1>0, <2>1 DEF FreshInv, FutureEmpty
    <3>2. ~\E q \in Readers : Month(clock') = Month(reader[q].now)
      BY <2>1, <2>2
    <3>3. cache'[Month(clock')][k] = None
      BY <1>0, <3>1, <3>2, CacheMoves DEF ListingInv
    <3> QED
      BY <3>3 DEF EntryCovered
  <2>4. reader' = reader
    <3>1. ASSUME NEW r \in Requests, AdvanceVote(r) PROVE clock' = clock
      BY <3>1 DEF AdvanceVote, VoteStep, CheckMovie, GetVoter, InsertVoter, InsertVote,
                  IncrementTally, LoadTallies, LoadVotedCategory, RespondAndInvalidate,
                  ListKeys, DeleteKey, RespondAfterDeletes, RespondWithoutInvalidating,
                  Respond, vars, database
    <3>2. ASSUME \/ \E q \in Readers :
                      \/ \E k \in Keys : StartListing(q, k)
                      \/ AdvanceListing(q)
                      \/ ListingFails(q)
                 \/ \E r \in Requests : QueryFails(r)
                 \/ CrashAll
                 \/ \E r \in Requests, m \in Movies \cup {None}, f \in Fingerprints \cup {None},
                       c \in Categories \cup {None, Invalid} : Receive(r, m, c, f)
                 \/ \E m \in Movies, d \in ReleaseDays : SyncMovie(m, d)
          PROVE  clock' = clock
      BY <3>2 DEF StartListing, AdvanceListing, ReadListing, CountListing, FillCache,
                  ListingFails, QueryFails, CrashAll, Crash, Receive, SyncMovie, vars
    <3> QED
      BY <1>7, <1>10, <3>1, <3>2 DEF ListingStep, ListingNext
  <2>5. ASSUME NEW q \in Readers PROVE ReaderCovered(q)'
    BY <2>1, <2>2, <2>4 DEF ReaderCovered
  <2> QED
    BY <2>3, <2>5 DEF Covered
<1> QED
  BY <1>9, <1>10

LEMMA InitFresh == ListingInit => FreshInv
<1> SUFFICES ASSUME ListingInit PROVE FreshInv
  OBVIOUS
<1>1. ListingInv
  BY InitListing
<1>2. Month(clock) \in Months
  BY <1>1, ClockMonth DEF ListingInv
<1> QED
  BY <1>2 DEF ListingInit, FreshInv, FutureEmpty, EntryCovered, ReaderCovered, IdleReader

LEMMA FreshFollows == ListingInv /\ FreshInv => FreshUnlessOvertaken
<1> SUFFICES ASSUME ListingInv, FreshInv, faults = 0,
                    NEW k \in Current, ~Body(k).overtaken, NEW m \in DOMAIN Body(k).counts
             PROVE  /\ \A c \in Categories :
                         tallies[m][c] <= Body(k).counts[m][c] + Cardinality(Announcing(m, c))
                    /\ k # None /\ votes[m][k] # None /\ Body(k).voted[m] = None =>
                         \E r \in Requests : Busy(r) /\ job[r].movie = m /\ job[r].fingerprint = k
  BY DEF FreshUnlessOvertaken
<1> DEFINE b == cache[Month(clock)][k]
           R == OpenAt(Month(clock), k)
<1>1. /\ Body(k) = b /\ k \in Keys /\ b # None
      /\ Fresh(b, k, R) /\ BodySound(b, k) /\ R \subseteq Requests
  BY ClockMonth DEF Body, Current, FreshInv, EntryCovered, ListingInv, CacheSound, OpenAt
<1> HIDE DEF b, R
<1>2. m \in Movies /\ m \in DOMAIN b.counts /\ b.counts[m] \in [Categories -> Nat]
  BY <1>1 DEF BodySound, BodyShape, IsBody
<1>3. ASSUME NEW c \in Categories
      PROVE  tallies[m][c] <= b.counts[m][c] + Cardinality(Announcing(m, c))
  <2>1. tallies[m][c] <= b.counts[m][c] + Cardinality(Announcing(m, c) \cap R)
    BY <1>1, <1>2 DEF Fresh
  <2>2. Announcing(m, c) \subseteq Requests /\ Announcing(m, c) \cap R \subseteq Announcing(m, c)
    BY DEF Announcing
  <2>3. IsFiniteSet(Announcing(m, c))
    BY <2>2, FiniteAssumption, FS_Subset
  <2>4. /\ Cardinality(Announcing(m, c) \cap R) <= Cardinality(Announcing(m, c))
        /\ Cardinality(Announcing(m, c)) \in Nat
        /\ Cardinality(Announcing(m, c) \cap R) \in Nat
    BY <2>2, <2>3, AnnouncingFinite, FS_Subset, FS_CardinalityType
  <2>5. tallies[m][c] \in Nat /\ b.counts[m][c] \in Nat
    BY <1>2 DEF ListingInv, VoteInv, TypeOK, TablesTyped
  <2> QED
    BY <2>1, <2>4, <2>5
<1>4. ASSUME k # None, votes[m][k] # None, b.voted[m] = None
      PROVE  \E r \in Requests : Busy(r) /\ job[r].movie = m /\ job[r].fingerprint = k
  BY <1>1, <1>2, <1>4 DEF Fresh, Late, Busy
<1> QED
  BY <1>1, <1>3, <1>4

(* While nothing fails, what a cached listing of the month lacks is a vote *)
(* whose request is about to delete it, unless the fill was overtaken:     *)
(* counting before invalidating leaves no other window, whether the cache  *)
(* is dropped at once or one key at a time.                                *)
THEOREM CacheFreshUnlessOvertaken == ListingSpec => []FreshUnlessOvertaken
<1>1. ListingInit => ListingInv /\ FreshInv
  BY InitListing, InitFresh
<1>2. ListingInv /\ FreshInv /\ [ListingNext]_allVars => (ListingInv /\ FreshInv)'
  BY NextListing, NextFresh DEF ListingStep
<1> QED
  BY <1>1, <1>2, FreshFollows, PTL DEF ListingSpec
=============================================================================
