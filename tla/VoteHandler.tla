----------------------------- MODULE VoteHandler -----------------------------
(***************************************************************************)
(* POST /movies/{id}/votes: the handler MovieVote, the repository function *)
(* CreateVote and the tables movies, voters, votes and vote_tallies.       *)
(*                                                                         *)
(* Requests are served concurrently and share only the database.  Each SQL *)
(* statement commits on its own (no transaction spans two of them), so one *)
(* statement together with the checks on its result is one step and        *)
(* pc[r] names the next one.  A statement may fail before it takes effect, *)
(* or take effect while its outcome is lost (a cancelled request context,  *)
(* a broken connection), and the process may stop between any two.         *)
(***************************************************************************)
EXTENDS Integers, FiniteSets

CONSTANTS Movies,        \* movie ids a client may name (0 is None)
          Fingerprints,  \* non-empty fingerprints
          Categories,    \* model.AllowedCategories
          Requests,      \* requests the server can hold at a time
          ReleaseDays,   \* release dates TMDb may report
          VotingDays,    \* voting stays open this long after release (14)
          MaxDay,        \* bound: last day of the clock
          MaxFaults,     \* bound: failures in one behaviour
          None,          \* an empty string, a zero id, an absent row
          Invalid        \* a category the JSON decoder rejects

ASSUME FiniteAssumption == /\ IsFiniteSet(Requests)
                           /\ IsFiniteSet(Fingerprints)
ASSUME DaysAssumption == /\ ReleaseDays \subseteq Nat
                         /\ VotingDays \in Nat
                         /\ MaxDay \in Nat
                         /\ MaxFaults \in Nat
ASSUME NoneAssumption == /\ None \notin Movies \cup Fingerprints \cup Categories
                         /\ None \notin ReleaseDays
                         /\ Invalid \notin Categories \cup {None}

VARIABLES release,   \* movies: release[m] is its release date, None without a row
          voters,    \* voters: the fingerprints that have a row
          votes,     \* votes: votes[m][f] is the category of the row, or None
          tallies,   \* vote_tallies: tallies[m][c], 0 without a row
          clock,     \* the day time.Now() reports
          pc,        \* pc[r]: the next statement of request r
          job,       \* job[r]: the decoded request and the time it captured
          reply,     \* reply[r]: the answer under construction, then sent
          faults     \* failures so far

database == <<release, voters, votes, tallies>>
vars == <<database, clock, pc, job, reply, faults>>

Statements == {"release", "voter", "insertVoter", "insertVote", "increment",
               "tallies", "category"}
Writing == {"voter", "insertVoter", "insertVote", "increment"}
Steps == Statements \cup {"idle", "invalidate"}

Jobs == [movie: Movies, fingerprint: Fingerprints,
         category: Categories \cup {None}, now: Nat]
NoJob == [movie |-> None, fingerprint |-> None, category |-> None, now |-> 0]

Statuses == {"none", "lost", "ok", "badRequest", "forbidden", "internal"}
Replies == [status: Statuses, inserted: BOOLEAN,
            counts: [Categories -> Nat], voted: Categories \cup {None}]
Zeros == [c \in Categories |-> 0]
NoReply == [status |-> "none", inserted |-> FALSE, counts |-> Zeros, voted |-> None]

Voted(m, c) == {f \in Fingerprints : votes[m][f] = c}
Busy(r) == pc[r] # "idle"

Init == /\ release = [m \in Movies |-> None]
        /\ voters = {}
        /\ votes = [m \in Movies |-> [f \in Fingerprints |-> None]]
        /\ tallies = [m \in Movies |-> Zeros]
        /\ clock = 0
        /\ pc = [r \in Requests |-> "idle"]
        /\ job = [r \in Requests |-> NoJob]
        /\ reply = [r \in Requests |-> NoReply]
        /\ faults = 0
-----------------------------------------------------------------------------
(* How a step ends: with the next statement, with an answer, or faulty.    *)

At(r, step) == pc[r] = step
Goto(r, step) == pc' = [pc EXCEPT ![r] = step]
Answer(r, status) == /\ Goto(r, "idle")
                     /\ reply' = [reply EXCEPT ![r].status = status]

Healthy == UNCHANGED faults
Faulty == faults < MaxFaults /\ faults' = faults + 1

(* A statement that has committed: the handler goes on, or it sees an      *)
(* error although the row is there.                                        *)
Committed(r, step) ==
  \/ Goto(r, step) /\ Healthy /\ UNCHANGED reply
  \/ Answer(r, "internal") /\ Faulty
-----------------------------------------------------------------------------
(* The handler, one statement at a time.                                   *)

(* Decode and validate.  A category left out of the body is the empty      *)
(* string, which the decoder never sees and CreateVote rejects.            *)
AcceptableAnyCategory(m, c, f) == m # None /\ f # None
Acceptable(m, c, f) == m # None /\ f # None /\ c # Invalid

Receive(r, m, c, f) ==
  /\ ~Busy(r)
  /\ \/ /\ Acceptable(m, c, f)
        /\ Goto(r, "release")
        /\ job' = [job EXCEPT ![r] = [movie |-> m, fingerprint |-> f,
                                      category |-> c, now |-> clock]]
        /\ reply' = [reply EXCEPT ![r] = NoReply]
     \/ /\ ~Acceptable(m, c, f)
        /\ job' = [job EXCEPT ![r] = NoJob]
        /\ reply' = [reply EXCEPT ![r] = [NoReply EXCEPT !.status = "badRequest"]]
        /\ UNCHANGED pc
  /\ UNCHANGED <<database, clock, faults>>

VotingClosedLate(m, now) == now > release[m] + VotingDays + 1
VotingClosed(m, now) == now > release[m] + VotingDays

(* GetMovieReleaseDate and the checks on its result.  A missing row is the *)
(* driver's ErrNoRows, which CreateVote hands on as an internal error.     *)
CheckMovie(r) ==
  LET j == job[r] IN
  /\ At(r, "release")
  /\ \/ release[j.movie] = None /\ Answer(r, "internal")
     \/ /\ release[j.movie] # None
        /\ \/ VotingClosed(j.movie, j.now) /\ Answer(r, "forbidden")
           \/ /\ ~VotingClosed(j.movie, j.now)
              /\ \/ j.category = None /\ Answer(r, "badRequest")
                 \/ j.category # None /\ Goto(r, "voter") /\ UNCHANGED reply
  /\ UNCHANGED <<database, clock, job, faults>>

GetVoter(r) ==
  /\ At(r, "voter")
  /\ Goto(r, IF job[r].fingerprint \in voters THEN "insertVote" ELSE "insertVoter")
  /\ UNCHANGED <<database, clock, job, reply, faults>>

(* A plain INSERT: the loser of a race on one fingerprint violates the     *)
(* unique constraint and its request fails.                                *)
VoterTakenRetries(r) == Goto(r, "insertVoter") /\ UNCHANGED reply
VoterTaken(r) == Answer(r, "internal")

InsertVoter(r) ==
  LET f == job[r].fingerprint IN
  /\ At(r, "insertVoter")
  /\ \/ f \in voters /\ VoterTaken(r) /\ Healthy /\ UNCHANGED voters
     \/ f \notin voters /\ voters' = voters \cup {f} /\ Committed(r, "insertVote")
  /\ UNCHANGED <<release, votes, tallies, clock, job>>

(* INSERT ... ON CONFLICT (movie_id, voter_id) DO NOTHING.                 *)
HasVotedNever(j) == FALSE
HasVotedThis(j) == votes[j.movie][j.fingerprint] = j.category
HasVoted(j) == votes[j.movie][j.fingerprint] # None

InsertVote(r) ==
  LET j == job[r] IN
  /\ At(r, "insertVote")
  /\ \/ /\ HasVoted(j)
        /\ Goto(r, "tallies") /\ Healthy /\ UNCHANGED <<votes, reply>>
     \/ /\ ~HasVoted(j)
        /\ votes' = [votes EXCEPT ![j.movie][j.fingerprint] = j.category]
        /\ Committed(r, "increment")
  /\ UNCHANGED <<release, voters, tallies, clock, job>>

(* INSERT ... ON CONFLICT (movie_id, category) DO UPDATE count + 1.         *)
IncrementedToOne(j) == [tallies EXCEPT ![j.movie][j.category] = 1]
Incremented(j) == [tallies EXCEPT ![j.movie][j.category] = @ + 1]

IncrementTally(r) ==
  LET j == job[r] IN
  /\ At(r, "increment")
  /\ tallies' = Incremented(j)
  /\ \/ /\ Goto(r, "tallies") /\ Healthy
        /\ reply' = [reply EXCEPT ![r].inserted = TRUE]
     \/ Answer(r, "internal") /\ Faulty
  /\ UNCHANGED <<release, voters, votes, clock, job>>

(* GetTalliesAllCategories: the counts the answer will carry.              *)
LoadTallies(r) ==
  /\ At(r, "tallies")
  /\ reply' = [reply EXCEPT ![r].counts = tallies[job[r].movie]]
  /\ Goto(r, "category")
  /\ UNCHANGED <<database, clock, job, faults>>

(* GetVoterCategory: the stored choice, which a duplicate may contradict.  *)
(* Its errors are swallowed.                                               *)
RequestedCategory(j) == j.category
VotedCategory(j) == votes[j.movie][j.fingerprint]

LoadVotedCategory(r) ==
  /\ At(r, "category")
  /\ \/ /\ reply' = [reply EXCEPT ![r].voted = VotedCategory(job[r])]
        /\ Healthy
     \/ Faulty /\ UNCHANGED reply
  /\ Goto(r, "invalidate")
  /\ UNCHANGED <<database, clock, job>>

(* DeletePrefix on the listing cache, its error ignored, then the answer.  *)
(* The cache itself is the subject of module VoteListing.                  *)
Respond(r) ==
  /\ At(r, "invalidate")
  /\ Answer(r, "ok")
  /\ UNCHANGED <<database, clock, job, faults>>
-----------------------------------------------------------------------------
(* The environment.                                                        *)

(* A statement fails before it takes effect, or the context is cancelled.  *)
QueryFails(r) ==
  /\ pc[r] \in Statements \ {"category"}
  /\ Answer(r, "internal")
  /\ Faulty
  /\ UNCHANGED <<database, clock, job>>

(* The process stops and starts again: requests in flight are gone, the    *)
(* database stays as it is.                                                *)
Crash ==
  /\ Faulty
  /\ pc' = [r \in Requests |-> "idle"]
  /\ reply' = [r \in Requests |->
                 IF Busy(r) THEN [reply[r] EXCEPT !.status = "lost"] ELSE reply[r]]
  /\ UNCHANGED <<database, clock, job>>

(* UpsertMovie, by a TMDb sync that runs beside the requests.              *)
SyncMovie(m, d) ==
  /\ release' = [release EXCEPT ![m] = d]
  /\ UNCHANGED <<voters, votes, tallies, clock, pc, job, reply, faults>>

Tick ==
  /\ clock < MaxDay
  /\ clock' = clock + 1
  /\ UNCHANGED <<database, pc, job, reply, faults>>

Advance(r) == \/ CheckMovie(r)
              \/ GetVoter(r)
              \/ InsertVoter(r)
              \/ InsertVote(r)
              \/ IncrementTally(r)
              \/ LoadTallies(r)
              \/ LoadVotedCategory(r)
              \/ Respond(r)

Next == \/ \E r \in Requests :
              \/ \E m \in Movies \cup {None}, f \in Fingerprints \cup {None},
                    c \in Categories \cup {None, Invalid} : Receive(r, m, c, f)
              \/ Advance(r)
              \/ QueryFails(r)
        \/ Crash
        \/ \E m \in Movies, d \in ReleaseDays : SyncMovie(m, d)
        \/ Tick

Spec == Init /\ [][Next]_vars

(* Every goroutine is scheduled and every statement returns.               *)
FairSpec == Spec /\ \A r \in Requests : WF_vars(Advance(r))
-----------------------------------------------------------------------------
(* Properties.                                                             *)

TablesTyped ==
  /\ release \in [Movies -> ReleaseDays \cup {None}]
  /\ voters \subseteq Fingerprints
  /\ votes \in [Movies -> [Fingerprints -> Categories \cup {None}]]
  /\ tallies \in [Movies -> [Categories -> Nat]]
  /\ clock \in Nat
  /\ faults \in 0..MaxFaults

RequestsTyped ==
  /\ pc \in [Requests -> Steps]
  /\ job \in [Requests -> Jobs \cup {NoJob}]
  /\ reply \in [Requests -> Replies]

StageTyped(r) ==
  /\ Busy(r) \/ reply[r].inserted \/ reply[r].status = "ok" => job[r] \in Jobs
  /\ pc[r] \in {"release"} \cup Writing => ~reply[r].inserted
  /\ pc[r] \in Writing \/ reply[r].inserted => job[r].category \in Categories
  /\ pc[r] \notin {"idle", "release"} => release[job[r].movie] # None

(* Every variable keeps its shape, a request beyond decoding has all the   *)
(* fields CreateVote needs (what MovieVote's validation is for), and one   *)
(* beyond the checks has a known movie and a category.                     *)
TypeOK == TablesTyped /\ RequestsTyped /\ \A r \in Requests : StageTyped(r)

(* The requests whose vote is recorded and not counted yet.                *)
Pending(m, c) ==
  {r \in Requests : At(r, "increment") /\ job[r].movie = m /\ job[r].category = c}

(* The counter never runs ahead of the votes, whatever fails and however   *)
(* requests interleave: InsertVote and IncrementTally are two statements.  *)
TalliesTrailVotes ==
  \A m \in Movies, c \in Categories :
    tallies[m][c] + Cardinality(Pending(m, c)) <= Cardinality(Voted(m, c))

(* Without a failure the only votes missing from a counter are those of    *)
(* requests between the two statements: nothing is lost or counted twice.  *)
TalliesExactWithoutFaults ==
  faults = 0 =>
    \A m \in Movies, c \in Categories :
      tallies[m][c] + Cardinality(Pending(m, c)) = Cardinality(Voted(m, c))

(* CreateVote's contract as its comment states it, "inserts a vote ... if  *)
(* not already present and increments tallies", read when nothing runs.    *)
RecordedVotesAreCounted ==
  (\A r \in Requests : ~Busy(r)) =>
    \A m \in Movies, c \in Categories : tallies[m][c] = Cardinality(Voted(m, c))

(* The requests told, or about to be told, that their vote was recorded.   *)
Acknowledged(m, c) ==
  {r \in Requests : reply[r].inserted /\ job[r].movie = m /\ job[r].category = c}

(* An acknowledged vote is durable and counted, and no two requests of one *)
(* fingerprint are both told they were the first.                          *)
AcknowledgedOnceAndCounted ==
  /\ \A m \in Movies, c \in Categories :
        Cardinality(Acknowledged(m, c)) <= tallies[m][c]
  /\ \A r, s \in Requests :
        /\ reply[r].inserted /\ reply[s].inserted
        /\ job[r].movie = job[s].movie
        /\ job[r].fingerprint = job[s].fingerprint
        => r = s

(* What a 200 tells the client stays true: the category shown is the one   *)
(* stored, a first vote sees itself in the counts, and a request reported  *)
(* as a duplicate has a stored vote even if the first answer was lost.     *)
AnswersMatchDatabase ==
  \A r \in Requests :
    LET j == job[r]
        a == reply[r] IN
    a.status = "ok" =>
      /\ votes[j.movie][j.fingerprint] # None
      /\ a.voted \in {votes[j.movie][j.fingerprint], None}
      /\ a.inserted => /\ votes[j.movie][j.fingerprint] = j.category
                       /\ a.counts[j.category] >= 1
      /\ \A c \in Categories : a.counts[c] <= tallies[j.movie][c]

(* Voting on m has ended and every request that could still get in is done. *)
Sealed(m) ==
  /\ release[m] # None
  /\ clock > release[m] + VotingDays
  /\ \A r \in Requests :
        Busy(r) /\ job[r].movie = m =>
          At(r, "release") /\ job[r].now > release[m] + VotingDays

(* Requests carry the time they captured on arrival, so some pass the      *)
(* check after closing; once those are gone the result is final, unless a  *)
(* sync moves the release date.                                            *)
SealedResultIsFinal ==
  [][\A m \in Movies :
       Sealed(m) /\ release'[m] = release[m] =>
         Sealed(m)' /\ votes'[m] = votes[m] /\ tallies'[m] = tallies[m]]_vars

(* "Ensure voter exists (by fingerprint)": registering the voter fails only *)
(* because a statement failed.                                             *)
EnsureVoterSucceeds ==
  [][\A r \in Requests :
       At(r, "insertVoter") /\ pc'[r] = "idle" => faults' > faults]_vars

(* The vote tables behave as the ledger promises: one immutable ballot per *)
(* fingerprint and movie, counters that trail the ballots.                 *)
Ledger == INSTANCE VoteLedger WITH ballots <- votes, counts <- tallies
LedgerSpec == Ledger!Spec

(* Every request is answered.                                              *)
EveryRequestAnswered == \A r \in Requests : Busy(r) ~> ~Busy(r)

(* As long as nothing fails the counters catch up with the votes for good. *)
CountersCatchUp ==
  \/ <>(faults > 0)
  \/ \A m \in Movies, c \in Categories :
       <>[](tallies[m][c] = Cardinality(Voted(m, c)))
=============================================================================
