----------------------------- MODULE VoteProofs -----------------------------
(***************************************************************************)
(* Theorems about VoteHandler for any number of movies, fingerprints,      *)
(* categories, requests and failures: its types, that its counters stay    *)
(* consistent with its votes, and that it implements VoteLedger.           *)
(***************************************************************************)
EXTENDS VoteHandler, FiniteSetTheorems, TLAPS

-----------------------------------------------------------------------------
(* Type correctness.                                                       *)

LEMMA InitTypeOK == Init => TypeOK
<1> SUFFICES ASSUME Init PROVE TypeOK
  OBVIOUS
<1> USE DEF Init
<1>1. TablesTyped
  BY DaysAssumption DEF TablesTyped, Zeros
<1>2. RequestsTyped
  BY DEF RequestsTyped, Steps, Replies, Statuses, NoReply, Zeros
<1>3. \A r \in Requests : StageTyped(r)
  BY DEF StageTyped, Busy, NoReply, Writing
<1> QED
  BY <1>1, <1>2, <1>3 DEF TypeOK

(* The ways a step updates the answers keep their shape.                   *)
LEMMA ReplyUpdates ==
  ASSUME RequestsTyped, NEW r \in Requests
  PROVE  /\ \A s \in Statuses : [reply EXCEPT ![r].status = s] \in [Requests -> Replies]
         /\ [reply EXCEPT ![r].inserted = TRUE] \in [Requests -> Replies]
         /\ \A k \in [Categories -> Nat] :
              [reply EXCEPT ![r].counts = k] \in [Requests -> Replies]
         /\ \A v \in Categories \cup {None} :
              [reply EXCEPT ![r].voted = v] \in [Requests -> Replies]
         /\ [reply EXCEPT ![r] = NoReply] \in [Requests -> Replies]
         /\ [reply EXCEPT ![r] = [NoReply EXCEPT !.status = "badRequest"]]
              \in [Requests -> Replies]
BY DEF RequestsTyped, Replies, Statuses, NoReply, Zeros

(* A request that a step does not touch keeps its stage.                   *)
LEMMA StageKept ==
  ASSUME NEW s \in Requests, StageTyped(s), release' = release,
         pc'[s] = pc[s], job'[s] = job[s], reply'[s] = reply[s]
  PROVE  StageTyped(s)'
BY DEF StageTyped, Busy

LEMMA ReceiveTyped ==
  ASSUME TypeOK, NEW r \in Requests, NEW m \in Movies \cup {None},
         NEW c \in Categories \cup {None, Invalid}, NEW f \in Fingerprints \cup {None},
         Receive(r, m, c, f)
  PROVE  TypeOK'
<1> USE DEF TypeOK, Receive, Goto, database
<1> DEFINE new == [movie |-> m, fingerprint |-> f, category |-> c, now |-> clock]
<1>1. TablesTyped'
  BY DEF TablesTyped
<1>2. CASE Acceptable(m, c, f)
  <2>1. new \in Jobs
    BY <1>2 DEF Acceptable, Jobs, TablesTyped
  <2>2. /\ pc' = [pc EXCEPT ![r] = "release"]
        /\ job' = [job EXCEPT ![r] = new]
        /\ reply' = [reply EXCEPT ![r] = NoReply]
        /\ release' = release
    BY <1>2
  <2> HIDE DEF new
  <2>3. RequestsTyped'
    BY <2>1, <2>2, ReplyUpdates DEF RequestsTyped, Steps, Statements
  <2>4. ASSUME NEW s \in Requests PROVE StageTyped(s)'
    <3>1. CASE s = r
      BY <2>1, <2>2, <3>1 DEF StageTyped, RequestsTyped, Busy, Writing, NoReply
    <3>2. CASE s # r
      BY <2>2, <3>2, StageKept DEF RequestsTyped
    <3> QED
      BY <3>1, <3>2
  <2> QED
    BY <1>1, <2>3, <2>4
<1>3. CASE ~Acceptable(m, c, f)
  <2>1. RequestsTyped'
    BY <1>3, ReplyUpdates DEF RequestsTyped
  <2>2. ASSUME NEW s \in Requests PROVE StageTyped(s)'
    <3>1. CASE s = r
      BY <1>3, <3>1 DEF StageTyped, RequestsTyped, Busy, Writing, NoReply
    <3>2. CASE s # r
      BY <1>3, <3>2, StageKept DEF RequestsTyped
    <3> QED
      BY <3>1, <3>2
  <2> QED
    BY <1>1, <2>1, <2>2
<1> QED
  BY <1>2, <1>3

(* A step of one request that leaves its job and the movies alone.         *)
LEMMA StepTyped ==
  ASSUME TypeOK, NEW r \in Requests, NEW step \in Steps, NEW a \in Replies,
         release' = release, job' = job, pc[r] # "idle",
         pc' = [pc EXCEPT ![r] = step], reply' = [reply EXCEPT ![r] = a],
         StageTyped(r)'
  PROVE  RequestsTyped' /\ \A s \in Requests : StageTyped(s)'
<1>1. RequestsTyped'
  BY DEF TypeOK, RequestsTyped
<1>2. ASSUME NEW s \in Requests, s # r PROVE StageTyped(s)'
  BY <1>2, StageKept DEF TypeOK, RequestsTyped
<1> QED
  BY <1>1, <1>2

(* The ways a handler step ends: the next statement with the answer so far, *)
(* or an answer.                                                           *)
LEMMA GotoTyped ==
  ASSUME TypeOK, NEW r \in Requests, NEW step \in Steps, Goto(r, step),
         release' = release, job' = job, reply' = reply, pc[r] # "idle",
         step # "release",
         step \in Writing => ~reply[r].inserted /\ job[r].category \in Categories,
         release[job[r].movie] # None
  PROVE  RequestsTyped' /\ \A s \in Requests : StageTyped(s)'
<1>1. RequestsTyped'
  BY DEF TypeOK, RequestsTyped, Goto
<1>2. ASSUME NEW s \in Requests PROVE StageTyped(s)'
  <2>1. CASE s = r
    BY <2>1 DEF TypeOK, RequestsTyped, StageTyped, Busy, Goto, Writing
  <2>2. CASE s # r
    BY <2>2, StageKept DEF TypeOK, RequestsTyped, Goto
  <2> QED
    BY <2>1, <2>2
<1> QED
  BY <1>1, <1>2

LEMMA AnswerTyped ==
  ASSUME TypeOK, NEW r \in Requests, NEW status \in Statuses, Answer(r, status),
         release' = release, job' = job, pc[r] # "idle"
  PROVE  RequestsTyped' /\ \A s \in Requests : StageTyped(s)'
<1>1. RequestsTyped'
  BY ReplyUpdates DEF TypeOK, RequestsTyped, Answer, Goto, Steps
<1>2. ASSUME NEW s \in Requests PROVE StageTyped(s)'
  <2>1. CASE s = r
    BY <2>1 DEF TypeOK, RequestsTyped, StageTyped, Busy, Answer, Goto, Writing, Replies
  <2>2. CASE s # r
    BY <2>2, StageKept DEF TypeOK, RequestsTyped, Answer, Goto
  <2> QED
    BY <2>1, <2>2
<1> QED
  BY <1>1, <1>2
LEMMA CommittedTyped ==
  ASSUME TypeOK, NEW r \in Requests, NEW step \in Steps, Committed(r, step),
         release' = release, job' = job, pc[r] \in Writing, step \in Writing
  PROVE  /\ RequestsTyped' /\ \A s \in Requests : StageTyped(s)'
         /\ faults' \in 0..MaxFaults
<1>1. CASE Goto(r, step) /\ Healthy /\ UNCHANGED reply
  <2>1. /\ ~reply[r].inserted /\ job[r].category \in Categories
        /\ release[job[r].movie] # None /\ pc[r] # "idle" /\ step # "release"
    BY DEF TypeOK, StageTyped, Writing
  <2> QED
    BY <1>1, <2>1, GotoTyped DEF Healthy, TypeOK, TablesTyped
<1>2. CASE Answer(r, "internal") /\ Faulty
  <2>1. faults' \in 0..MaxFaults
    BY <1>2, DaysAssumption DEF Faulty, TypeOK, TablesTyped
  <2> QED
    BY <1>2, <2>1, AnswerTyped DEF Statuses, Writing
<1> QED
  BY <1>1, <1>2 DEF Committed

LEMMA CheckMovieTyped ==
  ASSUME TypeOK, NEW r \in Requests, CheckMovie(r)
  PROVE  TypeOK'
<1> USE DEF CheckMovie, database, At
<1>1. TablesTyped'
  BY DEF TypeOK, TablesTyped
<1>2. CASE \E status \in {"internal", "forbidden", "badRequest"} : Answer(r, status)
  BY <1>1, <1>2, AnswerTyped DEF TypeOK, Statuses
<1>3. CASE /\ release[job[r].movie] # None /\ job[r].category # None
           /\ Goto(r, "voter") /\ UNCHANGED reply
  <2>1. job[r] \in Jobs /\ ~reply[r].inserted
    BY DEF TypeOK, StageTyped, Busy
  <2>2. job[r].category \in Categories
    BY <1>3, <2>1 DEF Jobs
  <2> QED
    BY <1>1, <1>3, <2>1, <2>2, GotoTyped DEF TypeOK, Steps, Statements
<1> QED
  BY <1>2, <1>3

LEMMA GetVoterTyped ==
  ASSUME TypeOK, NEW r \in Requests, GetVoter(r)
  PROVE  TypeOK'
<1> USE DEF GetVoter, database, At
<1>1. TablesTyped'
  BY DEF TypeOK, TablesTyped
<1>2. PICK step \in {"insertVote", "insertVoter"} : Goto(r, step)
  OBVIOUS
<1>3. /\ ~reply[r].inserted /\ job[r].category \in Categories
      /\ release[job[r].movie] # None
  BY DEF TypeOK, StageTyped, Writing
<1> QED
  BY <1>1, <1>2, <1>3, GotoTyped DEF TypeOK, Steps, Statements

LEMMA InsertVoterTyped ==
  ASSUME TypeOK, NEW r \in Requests, InsertVoter(r)
  PROVE  TypeOK'
<1> USE DEF InsertVoter, At
<1> DEFINE f == job[r].fingerprint
<1>1. CASE f \in voters /\ VoterTaken(r) /\ Healthy /\ UNCHANGED voters
  <2>1. TablesTyped'
    BY <1>1 DEF TypeOK, TablesTyped, Healthy
  <2> QED
    BY <1>1, <2>1, AnswerTyped DEF TypeOK, Statuses, VoterTaken
<1>2. CASE voters' = voters \cup {f} /\ Committed(r, "insertVote")
  <2>1. f \in Fingerprints
    BY DEF TypeOK, StageTyped, Busy, Jobs
  <2>2. /\ RequestsTyped' /\ \A s \in Requests : StageTyped(s)'
        /\ faults' \in 0..MaxFaults
    BY <1>2, CommittedTyped DEF Steps, Statements, Writing
  <2>3. TablesTyped'
    BY <1>2, <2>1, <2>2 DEF TypeOK, TablesTyped
  <2> QED
    BY <2>2, <2>3 DEF TypeOK
<1> QED
  BY <1>1, <1>2

LEMMA InsertVoteTyped ==
  ASSUME TypeOK, NEW r \in Requests, InsertVote(r)
  PROVE  TypeOK'
<1> USE DEF InsertVote, At
<1>1. CASE Goto(r, "tallies") /\ Healthy /\ UNCHANGED <<votes, reply>>
  <2>1. TablesTyped'
    BY <1>1 DEF TypeOK, TablesTyped, Healthy
  <2>2. release[job[r].movie] # None
    BY DEF TypeOK, StageTyped
  <2> QED
    BY <1>1, <2>1, <2>2, GotoTyped DEF TypeOK, Steps, Statements, Writing
<1>2. CASE /\ votes' = [votes EXCEPT ![job[r].movie][job[r].fingerprint] = job[r].category]
           /\ Committed(r, "increment")
  <2>1. job[r] \in Jobs
    BY DEF TypeOK, StageTyped, Busy
  <2>2. /\ RequestsTyped' /\ \A s \in Requests : StageTyped(s)'
        /\ faults' \in 0..MaxFaults
    BY <1>2, CommittedTyped DEF Steps, Statements, Writing
  <2>3. TablesTyped'
    BY <1>2, <2>1, <2>2 DEF TypeOK, TablesTyped, Jobs
  <2> QED
    BY <2>2, <2>3 DEF TypeOK
<1> QED
  BY <1>1, <1>2
LEMMA IncrementTallyTyped ==
  ASSUME TypeOK, NEW r \in Requests, IncrementTally(r)
  PROVE  TypeOK'
<1> USE DEF IncrementTally, At
<1>1. job[r] \in Jobs /\ job[r].category \in Categories /\ release[job[r].movie] # None
  BY DEF TypeOK, StageTyped, Busy, Writing
<1>2. faults' \in 0..MaxFaults
  BY DaysAssumption DEF TypeOK, TablesTyped, Healthy, Faulty
<1>3. TablesTyped'
  BY <1>1, <1>2 DEF TypeOK, TablesTyped, Jobs, Incremented
<1>4. CASE /\ Goto(r, "tallies")
           /\ reply' = [reply EXCEPT ![r].inserted = TRUE]
  <2>1. [reply[r] EXCEPT !.inserted = TRUE] \in Replies
    BY DEF TypeOK, RequestsTyped, Replies
  <2>2. StageTyped(r)'
    BY <1>1, <1>4 DEF TypeOK, RequestsTyped, StageTyped, Goto, Writing, Replies
  <2> QED
    BY <1>3, <1>4, <2>1, <2>2, StepTyped DEF TypeOK, Goto, Steps, Statements
<1>5. CASE Answer(r, "internal")
  BY <1>3, <1>5, AnswerTyped DEF TypeOK, Statuses
<1> QED
  BY <1>4, <1>5

LEMMA LoadTalliesTyped ==
  ASSUME TypeOK, NEW r \in Requests, LoadTallies(r)
  PROVE  TypeOK'
<1> USE DEF LoadTallies, At, database
<1> DEFINE a == [reply[r] EXCEPT !.counts = tallies[job[r].movie]]
<1>1. job[r] \in Jobs
  BY DEF TypeOK, StageTyped, Busy
<1>2. TablesTyped'
  BY DEF TypeOK, TablesTyped
<1>3. a \in Replies
  BY <1>1 DEF TypeOK, TablesTyped, RequestsTyped, Replies, Jobs
<1>4. reply' = [reply EXCEPT ![r] = a]
  OBVIOUS
<1>5. StageTyped(r)'
  BY <1>1 DEF TypeOK, RequestsTyped, StageTyped, Goto, Writing, Replies
<1> QED
  BY <1>2, <1>3, <1>4, <1>5, StepTyped DEF TypeOK, Goto, Steps, Statements

LEMMA LoadVotedCategoryTyped ==
  ASSUME TypeOK, NEW r \in Requests, LoadVotedCategory(r)
  PROVE  TypeOK'
<1> USE DEF LoadVotedCategory, At, database
<1>1. job[r] \in Jobs /\ release[job[r].movie] # None
  BY DEF TypeOK, StageTyped, Busy
<1>2. faults' \in 0..MaxFaults
  BY DaysAssumption DEF TypeOK, TablesTyped, Healthy, Faulty
<1>3. TablesTyped'
  BY <1>2 DEF TypeOK, TablesTyped
<1>4. CASE reply' = [reply EXCEPT ![r].voted = VotedCategory(job[r])]
  <2>0. VotedCategory(job[r]) \in Categories \cup {None}
    BY <1>1 DEF TypeOK, TablesTyped, Jobs, VotedCategory
  <2>1. [reply[r] EXCEPT !.voted = VotedCategory(job[r])] \in Replies
    BY <2>0 DEF TypeOK, RequestsTyped, Replies
  <2>2. StageTyped(r)'
    BY <1>1, <1>4 DEF TypeOK, RequestsTyped, StageTyped, Goto, Writing, Replies
  <2> QED
    BY <1>3, <1>4, <2>1, <2>2, StepTyped DEF TypeOK, Goto, Steps, Statements
<1>5. CASE UNCHANGED reply
  BY <1>1, <1>3, <1>5, GotoTyped DEF TypeOK, Steps, Statements, Writing
<1> QED
  BY <1>4, <1>5

LEMMA RespondTyped ==
  ASSUME TypeOK, NEW r \in Requests, Respond(r)
  PROVE  TypeOK'
<1>1. TablesTyped'
  BY DEF TypeOK, TablesTyped, Respond, database
<1> QED
  BY <1>1, AnswerTyped DEF TypeOK, Respond, At, Statuses, database

LEMMA EnvironmentTyped ==
  ASSUME TypeOK,
         \/ \E r \in Requests : QueryFails(r)
         \/ Crash
         \/ \E m \in Movies, d \in ReleaseDays : SyncMovie(m, d)
         \/ Tick
  PROVE  TypeOK'
<1>1. ASSUME NEW r \in Requests, QueryFails(r) PROVE TypeOK'
  <2>1. TablesTyped'
    BY <1>1, DaysAssumption DEF TypeOK, TablesTyped, QueryFails, Faulty, database
  <2> QED
    BY <1>1, <2>1, AnswerTyped DEF TypeOK, QueryFails, Statements, Statuses, database
<1>2. CASE Crash
  <2>1. TablesTyped'
    BY <1>2, DaysAssumption DEF TypeOK, TablesTyped, Crash, Faulty, database
  <2>2. RequestsTyped'
    BY <1>2 DEF TypeOK, RequestsTyped, Crash, Steps, Replies, Statuses
  <2>3. ASSUME NEW s \in Requests PROVE StageTyped(s)'
    BY <1>2 DEF TypeOK, RequestsTyped, StageTyped, Crash, Busy, Writing, Replies
  <2> QED
    BY <2>1, <2>2, <2>3 DEF TypeOK
<1>3. ASSUME NEW m \in Movies, NEW d \in ReleaseDays, SyncMovie(m, d) PROVE TypeOK'
  <2>1. TablesTyped' /\ RequestsTyped'
    BY <1>3 DEF TypeOK, TablesTyped, RequestsTyped, SyncMovie
  <2>2. ASSUME NEW s \in Requests PROVE StageTyped(s)'
    BY <1>3, NoneAssumption
       DEF TypeOK, TablesTyped, RequestsTyped, StageTyped, SyncMovie, Busy, Jobs
  <2> QED
    BY <2>1, <2>2 DEF TypeOK
<1>4. CASE Tick
  <2>1. TablesTyped' /\ RequestsTyped'
    BY <1>4 DEF TypeOK, TablesTyped, RequestsTyped, Tick, database
  <2>2. ASSUME NEW s \in Requests PROVE StageTyped(s)'
    BY <1>4 DEF TypeOK, StageTyped, Tick, Busy, database
  <2> QED
    BY <2>1, <2>2 DEF TypeOK
<1> QED
  BY <1>1, <1>2, <1>3, <1>4

LEMMA NextTypeOK == TypeOK /\ [Next]_vars => TypeOK'
<1> SUFFICES ASSUME TypeOK, [Next]_vars PROVE TypeOK'
  OBVIOUS
<1>1. ASSUME NEW r \in Requests, NEW m \in Movies \cup {None},
             NEW f \in Fingerprints \cup {None},
             NEW c \in Categories \cup {None, Invalid}, Receive(r, m, c, f)
      PROVE  TypeOK'
  BY <1>1, ReceiveTyped
<1>2. ASSUME NEW r \in Requests, Advance(r) PROVE TypeOK'
  BY <1>2, CheckMovieTyped, GetVoterTyped, InsertVoterTyped, InsertVoteTyped,
     IncrementTallyTyped, LoadTalliesTyped, LoadVotedCategoryTyped, RespondTyped
     DEF Advance
<1>3. CASE UNCHANGED vars
  BY <1>3 DEF vars, database, TypeOK, TablesTyped, RequestsTyped, StageTyped, Busy
<1> QED
  BY <1>1, <1>2, <1>3, EnvironmentTyped DEF Next

(* Every reachable state is well formed: no statement of CreateVote runs   *)
(* with a movie, a category or a fingerprint its checks should have caught. *)
THEOREM TypeCorrect == Spec => []TypeOK
BY InitTypeOK, NextTypeOK, PTL DEF Spec
-----------------------------------------------------------------------------
(* The counters.                                                           *)

(* The two halves are inductive together: the bound survives failures, the *)
(* equality holds until the first one.                                     *)
CountInv == TalliesTrailVotes /\ TalliesExactWithoutFaults

LEMMA CountedSetsFinite ==
  ASSUME NEW m \in Movies, NEW c \in Categories
  PROVE  /\ IsFiniteSet(Pending(m, c)) /\ Cardinality(Pending(m, c)) \in Nat
         /\ IsFiniteSet(Voted(m, c)) /\ Cardinality(Voted(m, c)) \in Nat
<1>1. Pending(m, c) \subseteq Requests /\ Voted(m, c) \subseteq Fingerprints
  BY DEF Pending, Voted
<1>2. IsFiniteSet(Pending(m, c)) /\ IsFiniteSet(Voted(m, c))
  BY <1>1, FiniteAssumption, FS_Subset
<1> QED
  BY <1>2, FS_CardinalityType

(* A step that records and counts nothing, and loses no request between    *)
(* the two statements unless it is a failure.                              *)
LEMMA CountInvKept ==
  ASSUME TypeOK, CountInv, votes' = votes, tallies' = tallies,
         \A m \in Movies, c \in Categories : Pending(m, c)' \subseteq Pending(m, c),
         \/ Faulty
         \/ /\ faults' = faults
            /\ \A m \in Movies, c \in Categories : Pending(m, c)' = Pending(m, c)
  PROVE  CountInv'
<1>1. ASSUME NEW m \in Movies, NEW c \in Categories
      PROVE  /\ Cardinality(Pending(m, c)') <= Cardinality(Pending(m, c))
             /\ Cardinality(Pending(m, c)') \in Nat
             /\ Voted(m, c)' = Voted(m, c)
  BY CountedSetsFinite, FS_Subset, FS_CardinalityType DEF Voted
<1>2. faults \in Nat /\ \A m \in Movies, c \in Categories : tallies[m][c] \in Nat
  BY DaysAssumption DEF TypeOK, TablesTyped
<1>3. TalliesTrailVotes'
  BY <1>1, <1>2, CountedSetsFinite DEF CountInv, TalliesTrailVotes
<1>4. TalliesExactWithoutFaults'
  BY <1>1, <1>2 DEF CountInv, TalliesExactWithoutFaults, Faulty
<1> QED
  BY <1>3, <1>4 DEF CountInv

(* A request that neither enters nor leaves the gap between the statements. *)
LEMMA PendingKept ==
  ASSUME NEW r \in Requests, TypeOK,
         ~At(r, "increment"), pc'[r] # "increment",
         \A s \in Requests \ {r} : pc'[s] = pc[s] /\ job'[s] = job[s]
  PROVE  \A m \in Movies, c \in Categories : Pending(m, c)' = Pending(m, c)
BY DEF Pending, At

LEMMA PendingLeft ==
  ASSUME NEW r \in Requests, TypeOK, pc'[r] # "increment", job' = job,
         \A s \in Requests \ {r} : pc'[s] = pc[s]
  PROVE  \A m \in Movies, c \in Categories : Pending(m, c)' = Pending(m, c) \ {r}
BY DEF Pending, At

LEMMA PendingEntered ==
  ASSUME NEW r \in Requests, TypeOK, pc'[r] = "increment", job' = job,
         \A s \in Requests \ {r} : pc'[s] = pc[s]
  PROVE  \A m \in Movies, c \in Categories :
           Pending(m, c)' = IF job[r].movie = m /\ job[r].category = c
                            THEN Pending(m, c) \cup {r} ELSE Pending(m, c) \ {r}
BY DEF Pending, At

LEMMA InsertVoteCounts ==
  ASSUME TypeOK, CountInv, NEW r \in Requests, InsertVote(r)
  PROVE  CountInv'
<1> DEFINE j == job[r]
<1>1. /\ j \in Jobs /\ j.movie \in Movies /\ j.fingerprint \in Fingerprints
      /\ j.category \in Categories
  BY DEF TypeOK, StageTyped, InsertVote, At, Busy, Writing, Jobs
<1>2. pc \in [Requests -> Steps] /\ At(r, "insertVote") /\ job' = job /\ tallies' = tallies
  BY DEF TypeOK, RequestsTyped, InsertVote
<1>3. CASE Goto(r, "tallies") /\ Healthy /\ UNCHANGED <<votes, reply>>
  <2>1. \A m \in Movies, c \in Categories : Pending(m, c)' = Pending(m, c)
    BY <1>2, <1>3, PendingKept DEF Goto, At
  <2> QED
    BY <1>2, <1>3, <2>1, CountInvKept DEF Healthy
<1>4. CASE /\ ~HasVoted(j)
           /\ votes' = [votes EXCEPT ![j.movie][j.fingerprint] = j.category]
           /\ Committed(r, "increment")
  <2>1. ASSUME NEW m \in Movies, NEW c \in Categories
        PROVE  IF j.movie = m /\ j.category = c
               THEN Voted(m, c)' = Voted(m, c) \cup {j.fingerprint} /\ j.fingerprint \notin Voted(m, c)
               ELSE Voted(m, c)' = Voted(m, c)
    BY <1>1, <1>4, NoneAssumption DEF TypeOK, TablesTyped, HasVoted, Voted
  <2>2. ASSUME NEW m \in Movies, NEW c \in Categories
        PROVE  Cardinality(Voted(m, c)') =
                 IF j.movie = m /\ j.category = c
                 THEN Cardinality(Voted(m, c)) + 1 ELSE Cardinality(Voted(m, c))
    BY <2>1, CountedSetsFinite, FS_AddElement
  <2>3. faults \in Nat /\ \A m \in Movies, c \in Categories : tallies[m][c] \in Nat
    BY DaysAssumption DEF TypeOK, TablesTyped
  <2>4. CASE Goto(r, "increment") /\ Healthy
    <3>1. \A m \in Movies, c \in Categories :
            /\ r \notin Pending(m, c)
            /\ Pending(m, c)' = IF j.movie = m /\ j.category = c
                                THEN Pending(m, c) \cup {r} ELSE Pending(m, c)
      <4>1. \A m \in Movies, c \in Categories : r \notin Pending(m, c)
        BY <1>2 DEF Pending, At
      <4> QED
        BY <1>2, <2>4, <4>1, PendingEntered DEF Goto
    <3>2. ASSUME NEW m \in Movies, NEW c \in Categories
          PROVE  Cardinality(Pending(m, c)') =
                   IF j.movie = m /\ j.category = c
                   THEN Cardinality(Pending(m, c)) + 1 ELSE Cardinality(Pending(m, c))
      BY <3>1, CountedSetsFinite, FS_AddElement
    <3>3. TalliesTrailVotes'
      BY <1>2, <2>2, <2>3, <3>2, CountedSetsFinite DEF CountInv, TalliesTrailVotes
    <3>4. TalliesExactWithoutFaults'
      BY <1>2, <2>2, <2>3, <2>4, <3>2, CountedSetsFinite
         DEF CountInv, TalliesExactWithoutFaults, Healthy
    <3> QED
      BY <3>3, <3>4 DEF CountInv
  <2>5. CASE Answer(r, "internal") /\ Faulty
    <3>1. \A m \in Movies, c \in Categories : Pending(m, c)' = Pending(m, c)
      BY <1>2, <2>5, PendingKept DEF Answer, Goto, At
    <3>2. TalliesTrailVotes'
      BY <1>2, <2>2, <2>3, <3>1, CountedSetsFinite DEF CountInv, TalliesTrailVotes
    <3> QED
      BY <2>3, <2>5, <3>2 DEF CountInv, TalliesExactWithoutFaults, Faulty
  <2> QED
    BY <1>4, <2>4, <2>5 DEF Committed
<1> QED
  BY <1>3, <1>4 DEF InsertVote

LEMMA IncrementTallyCounts ==
  ASSUME TypeOK, CountInv, NEW r \in Requests, IncrementTally(r)
  PROVE  CountInv'
<1> DEFINE j == job[r]
<1>1. j.movie \in Movies /\ j.category \in Categories
  BY DEF TypeOK, StageTyped, IncrementTally, At, Busy, Writing, Jobs
<1>2. /\ pc \in [Requests -> Steps] /\ At(r, "increment") /\ job' = job /\ votes' = votes
      /\ tallies' = [tallies EXCEPT ![j.movie][j.category] = @ + 1]
      /\ pc' = [pc EXCEPT ![r] = "tallies"] \/ pc' = [pc EXCEPT ![r] = "idle"]
  BY DEF TypeOK, RequestsTyped, IncrementTally, Incremented, Goto, Answer
<1>3. /\ faults \in Nat /\ \A m \in Movies, c \in Categories : tallies[m][c] \in Nat
      /\ tallies \in [Movies -> [Categories -> Nat]]
      /\ faults' = faults \/ faults' = faults + 1
  BY DaysAssumption DEF TypeOK, TablesTyped, IncrementTally, Healthy, Faulty
<1>4. ASSUME NEW m \in Movies, NEW c \in Categories
      PROVE  /\ Voted(m, c)' = Voted(m, c)
             /\ tallies'[m][c] = IF j.movie = m /\ j.category = c
                                 THEN tallies[m][c] + 1 ELSE tallies[m][c]
  BY <1>1, <1>2, <1>3 DEF Voted
<1>5. ASSUME NEW m \in Movies, NEW c \in Categories
      PROVE  Cardinality(Pending(m, c)') =
               IF j.movie = m /\ j.category = c
               THEN Cardinality(Pending(m, c)) - 1 ELSE Cardinality(Pending(m, c))
  <2>1. Pending(m, c)' = Pending(m, c) \ {r}
    BY <1>2, PendingLeft
  <2>2. r \in Pending(m, c) <=> j.movie = m /\ j.category = c
    BY <1>2 DEF Pending
  <2> QED
    BY <2>1, <2>2, CountedSetsFinite, FS_RemoveElement
<1>6. TalliesTrailVotes'
  BY <1>3, <1>4, <1>5, CountedSetsFinite DEF CountInv, TalliesTrailVotes
<1>7. TalliesExactWithoutFaults'
  BY <1>3, <1>4, <1>5, CountedSetsFinite DEF CountInv, TalliesExactWithoutFaults
<1> QED
  BY <1>6, <1>7 DEF CountInv
(* Every other step of a request stays out of the gap.                     *)
LEMMA OtherStepsCount ==
  ASSUME TypeOK, CountInv, NEW r \in Requests,
         \/ CheckMovie(r) \/ GetVoter(r) \/ InsertVoter(r)
         \/ LoadTallies(r) \/ LoadVotedCategory(r) \/ Respond(r)
  PROVE  CountInv'
<1>1. pc \in [Requests -> Steps]
  BY DEF TypeOK, RequestsTyped
<1>2. /\ votes' = votes /\ tallies' = tallies /\ job' = job
      /\ ~At(r, "increment")
      /\ \E step \in Steps \ {"increment"} : pc' = [pc EXCEPT ![r] = step]
  BY DEF CheckMovie, GetVoter, InsertVoter, VoterTaken, Committed, LoadTallies,
         LoadVotedCategory, Respond, Answer, Goto, At, database, Steps, Statements
<1>3. faults' = faults \/ Faulty
  BY DEF CheckMovie, GetVoter, InsertVoter, Committed, LoadTallies, LoadVotedCategory,
         Respond, Healthy
<1>4. \A m \in Movies, c \in Categories : Pending(m, c)' = Pending(m, c)
  BY <1>1, <1>2, PendingKept DEF At
<1> QED
  BY <1>2, <1>3, <1>4, CountInvKept

LEMMA InitCounts == Init => CountInv
<1> SUFFICES ASSUME Init PROVE CountInv
  OBVIOUS
<1>1. ASSUME NEW m \in Movies, NEW c \in Categories
      PROVE  Pending(m, c) = {} /\ Voted(m, c) = {} /\ tallies[m][c] = 0
  BY NoneAssumption DEF Init, Pending, Voted, At, Zeros
<1>2. ASSUME NEW m \in Movies, NEW c \in Categories
      PROVE  tallies[m][c] + Cardinality(Pending(m, c)) = Cardinality(Voted(m, c))
  <2>1. Cardinality(Pending(m, c)) = 0 /\ Cardinality(Voted(m, c)) = 0
    BY <1>1, FS_EmptySet
  <2> QED
    BY <1>1, <2>1
<1>3. TalliesExactWithoutFaults
  BY <1>2 DEF TalliesExactWithoutFaults
<1>4. TalliesTrailVotes
  BY <1>2, CountedSetsFinite DEF TalliesTrailVotes
<1> QED
  BY <1>3, <1>4 DEF CountInv

LEMMA NextCounts == TypeOK /\ CountInv /\ [Next]_vars => CountInv'
<1> SUFFICES ASSUME TypeOK, CountInv, [Next]_vars PROVE CountInv'
  OBVIOUS
<1>0. pc \in [Requests -> Steps]
  BY DEF TypeOK, RequestsTyped
<1>1. ASSUME NEW r \in Requests, NEW m \in Movies \cup {None},
             NEW f \in Fingerprints \cup {None},
             NEW c \in Categories \cup {None, Invalid}, Receive(r, m, c, f)
      PROVE  CountInv'
  <2>1. ~At(r, "increment") /\ pc'[r] # "increment"
    BY <1>0, <1>1 DEF Receive, Goto, At, Busy
  <2>2. \A s \in Requests \ {r} : pc'[s] = pc[s] /\ job'[s] = job[s]
    BY <1>0, <1>1 DEF Receive, Goto, TypeOK, RequestsTyped
  <2>3. \A n \in Movies, d \in Categories : Pending(n, d)' = Pending(n, d)
    BY <2>1, <2>2, PendingKept
  <2> QED
    BY <1>1, <2>3, CountInvKept DEF Receive, database
<1>2. ASSUME NEW r \in Requests, Advance(r) PROVE CountInv'
  BY <1>2, InsertVoteCounts, IncrementTallyCounts, OtherStepsCount DEF Advance
<1>3. ASSUME NEW r \in Requests, QueryFails(r) PROVE CountInv'
  <2>1. \A m \in Movies, c \in Categories : Pending(m, c)' = Pending(m, c) \ {r}
    BY <1>0, <1>3, PendingLeft DEF QueryFails, Answer, Goto
  <2> QED
    BY <1>3, <2>1, CountInvKept DEF QueryFails, database
<1>4. CASE Crash
  <2>1. \A m \in Movies, c \in Categories : Pending(m, c)' \subseteq Pending(m, c)
    BY <1>4 DEF Crash, Pending, At
  <2> QED
    BY <1>4, <2>1, CountInvKept DEF Crash, database
<1>5. CASE (\E m \in Movies, d \in ReleaseDays : SyncMovie(m, d)) \/ Tick \/ UNCHANGED vars
  <2>1. UNCHANGED <<votes, tallies, pc, job, faults>>
    BY <1>5 DEF SyncMovie, Tick, vars, database
  <2>2. \A m \in Movies, c \in Categories : Pending(m, c)' = Pending(m, c)
    BY <2>1 DEF Pending, At
  <2> QED
    BY <2>1, <2>2, CountInvKept
<1> QED
  BY <1>1, <1>2, <1>3, <1>4, <1>5 DEF Next

LEMMA TalliesConsistent == Spec => []CountInv
<1>1. Init => TypeOK /\ CountInv
  BY InitTypeOK, InitCounts
<1>2. TypeOK /\ CountInv /\ [Next]_vars => (TypeOK /\ CountInv)'
  BY NextTypeOK, NextCounts
<1> QED
  BY <1>1, <1>2, PTL DEF Spec

(* Whatever fails and whenever, no counter of a movie ever exceeds the     *)
(* votes behind it: what IncrementTally adds, InsertVote has put there.    *)
THEOREM TalliesTrail == Spec => []TalliesTrailVotes
BY TalliesConsistent, PTL DEF CountInv

(* Until something fails every recorded vote is counted or about to be:    *)
(* the gap between InsertVote and IncrementTally is the only one.          *)
THEOREM TalliesExact == Spec => []TalliesExactWithoutFaults
BY TalliesConsistent, PTL DEF CountInv

-----------------------------------------------------------------------------
(* The handler implements the ledger.                                      *)

LEMMA InitLedger == Init => Ledger!Init
BY DEF Init, Ledger!Init, Zeros

LEMMA StepLedger == TypeOK /\ CountInv /\ [Next]_vars => [Ledger!Next]_Ledger!vars
<1> SUFFICES ASSUME TypeOK, CountInv, [Next]_vars PROVE [Ledger!Next]_Ledger!vars
  OBVIOUS
<1>1. ASSUME NEW r \in Requests, InsertVote(r) PROVE [Ledger!Next]_Ledger!vars
  <2> DEFINE j == job[r]
  <2>1. /\ j.movie \in Movies /\ j.fingerprint \in Fingerprints
        /\ j.category \in Categories
    BY <1>1 DEF TypeOK, StageTyped, InsertVote, At, Busy, Writing, Jobs
  <2>2. CASE votes' = votes
    BY <1>1, <2>2 DEF InsertVote, Ledger!vars
  <2>3. CASE ~HasVoted(j) /\ votes' = [votes EXCEPT ![j.movie][j.fingerprint] = j.category]
    <3>1. Ledger!Cast(j.movie, j.fingerprint, j.category)
      BY <1>1, <2>3 DEF InsertVote, HasVoted, Ledger!Cast
    <3> QED
      BY <2>1, <3>1 DEF Ledger!Next
  <2> QED
    BY <1>1, <2>2, <2>3 DEF InsertVote
<1>2. ASSUME NEW r \in Requests, IncrementTally(r) PROVE [Ledger!Next]_Ledger!vars
  <2> DEFINE m == job[r].movie
             c == job[r].category
  <2>1. m \in Movies /\ c \in Categories /\ tallies[m][c] \in Nat
    BY <1>2 DEF TypeOK, TablesTyped, StageTyped, IncrementTally, At, Busy, Writing, Jobs
  <2>2. r \in Pending(m, c)
    BY <1>2 DEF IncrementTally, Pending
  <2>3. Cardinality(Pending(m, c)) # 0
    BY <2>1, <2>2, CountedSetsFinite, FS_EmptySet
  <2>4. tallies[m][c] < Cardinality(Voted(m, c))
    BY <2>1, <2>3, CountedSetsFinite DEF CountInv, TalliesTrailVotes
  <2>5. Ledger!Supporters(m, c) = Voted(m, c)
    BY DEF Ledger!Supporters, Voted
  <2>6. tallies' = [tallies EXCEPT ![m][c] = @ + 1] /\ votes' = votes
    BY <1>2 DEF IncrementTally, Incremented
  <2>7. Ledger!Cardinality(Voted(m, c)) = Cardinality(Voted(m, c))
    BY DEF Ledger!Cardinality, Cardinality
  <2>8. Ledger!Count(m, c)
    BY <2>4, <2>5, <2>6, <2>7 DEF Ledger!Count
  <2> QED
    BY <2>1, <2>8 DEF Ledger!Next
<1>3. ASSUME NEW r \in Requests, Advance(r), ~InsertVote(r), ~IncrementTally(r)
      PROVE  UNCHANGED Ledger!vars
  BY <1>3 DEF Advance, CheckMovie, GetVoter, InsertVoter, LoadTallies, LoadVotedCategory,
              Respond, database, Ledger!vars
<1>4. ASSUME NEW r \in Requests, NEW m \in Movies \cup {None},
             NEW f \in Fingerprints \cup {None},
             NEW c \in Categories \cup {None, Invalid}, Receive(r, m, c, f)
      PROVE  UNCHANGED Ledger!vars
  BY <1>4 DEF Receive, database, Ledger!vars
<1>5. ASSUME \/ \E r \in Requests : QueryFails(r)
             \/ Crash
             \/ \E m \in Movies, d \in ReleaseDays : SyncMovie(m, d)
             \/ Tick
             \/ UNCHANGED vars
      PROVE  UNCHANGED Ledger!vars
  BY <1>5 DEF QueryFails, Crash, SyncMovie, Tick, vars, database, Ledger!vars
<1> QED
  BY <1>1, <1>2, <1>3, <1>4, <1>5 DEF Next, Advance

(* MovieVote over the SQL tables implements the ledger: one ballot per     *)
(* fingerprint and movie, never changed, and counters that trail them.     *)
THEOREM ImplementsLedger == Spec => LedgerSpec
BY TypeCorrect, TalliesConsistent, InitLedger, StepLedger, PTL DEF Spec, Ledger!Spec, LedgerSpec
=============================================================================
