-------------------------- MODULE VoteAnswerProofs --------------------------
(***************************************************************************)
(* What POST /movies/{id}/votes tells its clients is true and stays true,  *)
(* and a closed result is final: proved for every number of requests,      *)
(* fingerprints, movies and failures.                                      *)
(***************************************************************************)
EXTENDS VoteProofs

(* The requests whose INSERT created the vote of their fingerprint.        *)
Owns(r) == reply[r].inserted \/ At(r, "increment")
StoredFor(r) == votes[job[r].movie][job[r].fingerprint]

OwnersHoldVote == \A r \in Requests : Owns(r) => StoredFor(r) = job[r].category

SoleOwner ==
  \A r, s \in Requests :
    /\ Owns(r) /\ Owns(s)
    /\ job[r].movie = job[s].movie /\ job[r].fingerprint = job[s].fingerprint
    => r = s

AcknowledgedCounted ==
  \A m \in Movies, c \in Categories : Cardinality(Acknowledged(m, c)) <= tallies[m][c]

(* What the answer of r holds so far, from its statements on until another *)
(* request takes its place.                                                *)
AnswerTrue(r) ==
  LET a == reply[r]
      j == job[r] IN
  Busy(r) \/ a.status = "ok" =>
    /\ a.status = "ok" => ~Busy(r)
    /\ a.voted \in {StoredFor(r), None}
    /\ \A c \in Categories : a.counts[c] <= tallies[j.movie][c]
    /\ pc[r] \in {"tallies", "category", "invalidate"} \/ a.status = "ok" => StoredFor(r) # None
    /\ a.inserted /\ (pc[r] \in {"category", "invalidate"} \/ a.status = "ok")
         => a.counts[j.category] >= 1

AnswerInv == /\ OwnersHoldVote /\ SoleOwner /\ AcknowledgedCounted
             /\ \A r \in Requests : AnswerTrue(r)
-----------------------------------------------------------------------------
(* What no step takes back.                                                *)

Monotone == \A m \in Movies :
  /\ \A f \in Fingerprints : votes[m][f] # None => votes'[m][f] = votes[m][f]
  /\ \A c \in Categories : tallies[m][c] <= tallies'[m][c]

(* No statement of the handler, nothing beside it and no failure changes a *)
(* stored vote or lowers a counter.                                        *)
LEMMA StepsMonotone == TypeOK /\ [Next]_vars => Monotone
<1> SUFFICES ASSUME TypeOK, [Next]_vars PROVE Monotone
  OBVIOUS
<1>0. \A m \in Movies, c \in Categories : tallies[m][c] \in Nat
  BY DEF TypeOK, TablesTyped
<1>1. CASE UNCHANGED <<votes, tallies>>
  BY <1>0, <1>1 DEF Monotone
<1>2. ASSUME NEW r \in Requests, InsertVote(r) PROVE Monotone
  <2>1. job[r].movie \in Movies /\ job[r].fingerprint \in Fingerprints
    BY <1>2 DEF TypeOK, StageTyped, InsertVote, At, Busy, Jobs
  <2>2. CASE votes' = votes
    BY <1>0, <1>2, <2>2 DEF Monotone, InsertVote
  <2>3. CASE /\ ~HasVoted(job[r])
             /\ votes' = [votes EXCEPT ![job[r].movie][job[r].fingerprint] = job[r].category]
    BY <1>0, <1>2, <2>1, <2>3 DEF Monotone, InsertVote, HasVoted, TypeOK, TablesTyped
  <2> QED
    BY <1>2, <2>2, <2>3 DEF InsertVote
<1>3. ASSUME NEW r \in Requests, IncrementTally(r) PROVE Monotone
  BY <1>0, <1>3 DEF Monotone, IncrementTally, Incremented, TypeOK, TablesTyped
<1> QED
  BY <1>1, <1>2, <1>3
     DEF Next, Advance, Receive, CheckMovie, GetVoter, InsertVoter, LoadTallies,
         LoadVotedCategory, Respond, QueryFails, Crash, SyncMovie, Tick, vars, database

LEMMA AcknowledgedFinite ==
  ASSUME NEW m \in Movies, NEW c \in Categories
  PROVE  IsFiniteSet(Acknowledged(m, c)) /\ Cardinality(Acknowledged(m, c)) \in Nat
<1>1. Acknowledged(m, c) \subseteq Requests
  BY DEF Acknowledged
<1>2. IsFiniteSet(Acknowledged(m, c))
  BY <1>1, FiniteAssumption, FS_Subset
<1> QED
  BY <1>2, FS_CardinalityType

(* A step that makes nobody the first voter and gives nobody a first       *)
(* acknowledgement keeps what is said about those.                         *)
LEMMA OwnersKept ==
  ASSUME TypeOK, AnswerInv, Monotone, tallies' \in [Movies -> [Categories -> Nat]],
         \A r \in Requests : Owns(r)' => Owns(r) /\ job'[r] = job[r],
         \A r \in Requests : reply'[r].inserted => reply[r].inserted
  PROVE  (OwnersHoldVote /\ SoleOwner /\ AcknowledgedCounted)'
<1>1. ASSUME NEW r \in Requests, Owns(r)' PROVE StoredFor(r)' = job'[r].category
  <2>1. Owns(r) /\ job'[r] = job[r] /\ StoredFor(r) = job[r].category
    BY <1>1 DEF AnswerInv, OwnersHoldVote
  <2>2. job[r] \in Jobs /\ job[r].category \in Categories
    BY <2>1 DEF Owns, TypeOK, StageTyped, At, Busy, Writing
  <2> QED
    BY <2>1, <2>2, NoneAssumption DEF Monotone, StoredFor, Jobs
<1>2. SoleOwner'
  BY DEF AnswerInv, SoleOwner
<1>3. ASSUME NEW m \in Movies, NEW c \in Categories
      PROVE  Cardinality(Acknowledged(m, c)') <= tallies'[m][c]
  <2>1. Acknowledged(m, c)' \subseteq Acknowledged(m, c)
    BY DEF Acknowledged, Owns
  <2>2. Cardinality(Acknowledged(m, c)') <= Cardinality(Acknowledged(m, c))
        /\ Cardinality(Acknowledged(m, c)') \in Nat
    BY <2>1, AcknowledgedFinite, FS_Subset, FS_CardinalityType
  <2>3. tallies[m][c] <= tallies'[m][c] /\ tallies[m][c] \in Nat /\ tallies'[m][c] \in Nat
    BY DEF Monotone, TypeOK, TablesTyped
  <2>4. Cardinality(Acknowledged(m, c)) <= tallies[m][c]
    BY DEF AnswerInv, AcknowledgedCounted
  <2> QED
    BY <2>2, <2>3, <2>4, AcknowledgedFinite
<1> QED
  BY <1>1, <1>2, <1>3 DEF OwnersHoldVote, AcknowledgedCounted

(* An answer stays true while its request stands still or ends.            *)
LEMMA AnswerKept ==
  ASSUME TypeOK, TypeOK', Monotone, NEW r \in Requests, AnswerTrue(r),
         job'[r] = job[r],
         reply'[r] = reply[r] \/ (\E st \in Statuses \ {"ok"} : reply'[r] = [reply[r] EXCEPT !.status = st]),
         \/ pc'[r] = pc[r]
         \/ /\ Busy(r) /\ pc'[r] \notin {"tallies", "category", "invalidate"}
            /\ pc'[r] # "idle" \/ reply'[r].status # "ok"
  PROVE  AnswerTrue(r)'
<1>1. CASE Busy(r) \/ reply[r].status = "ok"
  <2>1. job[r] \in Jobs /\ reply[r] \in Replies /\ reply'[r] \in Replies
    BY <1>1 DEF TypeOK, RequestsTyped, StageTyped
  <2>2. /\ job[r].movie \in Movies /\ job[r].fingerprint \in Fingerprints
        /\ reply[r].inserted => job[r].category \in Categories
    BY <2>1 DEF Jobs, TypeOK, StageTyped
  <2>3. /\ reply'[r].voted = reply[r].voted /\ reply'[r].counts = reply[r].counts
        /\ reply'[r].inserted = reply[r].inserted
        /\ reply'[r].status = "ok" => reply[r].status = "ok"
    BY <2>1 DEF Replies
  <2>4. StoredFor(r) # None => StoredFor(r)' = StoredFor(r)
    BY <2>2 DEF StoredFor, Monotone
  <2>5. ASSUME NEW c \in Categories, reply[r].counts[c] <= tallies[job[r].movie][c]
        PROVE  reply[r].counts[c] <= tallies'[job[r].movie][c]
    <3>1. /\ reply[r].counts[c] \in Nat /\ tallies[job[r].movie][c] \in Nat
          /\ tallies'[job[r].movie][c] \in Nat
      BY <2>1, <2>2 DEF Replies, TypeOK, TablesTyped
    <3> QED
      BY <2>2, <2>5, <3>1 DEF Monotone
  <2> QED
    BY <1>1, <2>2, <2>3, <2>4, <2>5 DEF AnswerTrue, Busy
<1>2. CASE ~Busy(r) /\ reply[r].status # "ok"
  BY <1>2 DEF AnswerTrue, Busy, TypeOK, RequestsTyped, Replies
<1> QED
  BY <1>1, <1>2
-----------------------------------------------------------------------------
(* One lemma per step that changes what the invariant speaks of.           *)

LEMMA InitAnswers == Init => AnswerInv
<1> SUFFICES ASSUME Init PROVE AnswerInv
  OBVIOUS
<1>1. \A r \in Requests : ~Owns(r) /\ AnswerTrue(r)
  BY DEF Init, Owns, At, NoReply, AnswerTrue, Busy
<1>2. ASSUME NEW m \in Movies, NEW c \in Categories
      PROVE  Cardinality(Acknowledged(m, c)) <= tallies[m][c]
  <2>1. Acknowledged(m, c) = {}
    BY <1>1 DEF Acknowledged, Owns
  <2> QED
    BY <2>1, FS_EmptySet DEF Init, Zeros
<1> QED
  BY <1>1, <1>2 DEF AnswerInv, OwnersHoldVote, SoleOwner, AcknowledgedCounted

(* Steps of r before its INSERT, and failures: no owner is made, r has no  *)
(* answer yet or loses it.                                                 *)
LEMMA QuietStep ==
  ASSUME TypeOK, TypeOK', AnswerInv, Monotone, NEW r \in Requests,
         \/ CheckMovie(r) \/ GetVoter(r) \/ InsertVoter(r) \/ QueryFails(r)
  PROVE  AnswerInv'
<1>0. /\ pc \in [Requests -> Steps] /\ job' = job /\ Busy(r)
      /\ reply \in [Requests -> Replies] /\ reply' \in [Requests -> Replies]
      /\ tallies' \in [Movies -> [Categories -> Nat]]
  BY DEF TypeOK, TablesTyped, RequestsTyped, CheckMovie, GetVoter, InsertVoter, QueryFails,
         Statements, At, Busy
<1>1. \/ /\ reply' = reply
         /\ \E step \in {"voter", "insertVoter", "insertVote"} : Goto(r, step)
      \/ \E st \in Statuses \ {"ok"} : Answer(r, st)
  BY DEF CheckMovie, GetVoter, InsertVoter, QueryFails, VoterTaken, Committed, Statuses
<1>2. \A s \in Requests : /\ Owns(s)' => Owns(s) /\ job'[s] = job[s]
                          /\ reply'[s].inserted => reply[s].inserted
  BY <1>0, <1>1 DEF Owns, At, Goto, Answer, Replies
<1>3. (OwnersHoldVote /\ SoleOwner /\ AcknowledgedCounted)'
  BY <1>0, <1>2, OwnersKept
<1>4. ASSUME NEW s \in Requests PROVE AnswerTrue(s)'
  <2>1. AnswerTrue(s)
    BY DEF AnswerInv
  <2>2. CASE s # r
    <3>1. job'[s] = job[s] /\ reply'[s] = reply[s] /\ pc'[s] = pc[s]
      BY <1>0, <1>1, <2>2 DEF Goto, Answer
    <3> QED
      BY <2>1, <3>1, AnswerKept
  <2>3. CASE s = r
    <3>1. /\ job'[s] = job[s] /\ Busy(s)
          /\ \/ reply'[s] = reply[s] /\ pc'[s] \in {"voter", "insertVoter", "insertVote"}
             \/ /\ \E st \in Statuses \ {"ok"} :
                     reply'[s] = [reply[s] EXCEPT !.status = st] /\ reply'[s].status = st
                /\ pc'[s] = "idle"
      BY <1>0, <1>1, <2>3 DEF Goto, Answer, Replies
    <3> QED
      BY <2>1, <3>1, AnswerKept
  <2> QED
    BY <2>2, <2>3
<1> QED
  BY <1>3, <1>4 DEF AnswerInv

LEMMA InsertVoteAnswers ==
  ASSUME TypeOK, TypeOK', AnswerInv, Monotone, NEW r \in Requests, InsertVote(r)
  PROVE  AnswerInv'
<1> DEFINE j == job[r]
<1>0. /\ pc \in [Requests -> Steps] /\ job' = job /\ tallies' = tallies
      /\ Busy(r) /\ pc[r] = "insertVote" /\ ~reply[r].inserted
      /\ reply \in [Requests -> Replies] /\ reply' \in [Requests -> Replies]
      /\ tallies' \in [Movies -> [Categories -> Nat]]
      /\ j \in Jobs /\ j.category \in Categories
  BY DEF TypeOK, TablesTyped, RequestsTyped, InsertVote, At, Busy, StageTyped, Writing
<1>1. ASSUME NEW s \in Requests, s # r
      PROVE  /\ job'[s] = job[s] /\ reply'[s] = reply[s] /\ pc'[s] = pc[s]
             /\ AnswerTrue(s)'
  <2>1. job'[s] = job[s] /\ reply'[s] = reply[s] /\ pc'[s] = pc[s]
    BY <1>0, <1>1 DEF InsertVote, Committed, Goto, Answer
  <2> QED
    BY <2>1, AnswerKept DEF AnswerInv
<1>2. AnswerTrue(r)
  BY DEF AnswerInv
<1>3. CASE HasVoted(j) /\ Goto(r, "tallies") /\ UNCHANGED <<votes, reply>>
  <2>1. pc'[r] = "tallies" /\ reply' = reply /\ StoredFor(r)' # None
        /\ StoredFor(r)' = StoredFor(r)
    BY <1>0, <1>3 DEF Goto, HasVoted, StoredFor
  <2>2. AnswerTrue(r)'
    BY <1>0, <1>2, <2>1 DEF AnswerTrue, Busy
  <2>3. \A s \in Requests : /\ Owns(s)' => Owns(s) /\ job'[s] = job[s]
                            /\ reply'[s].inserted => reply[s].inserted
    BY <1>0, <1>1, <2>1 DEF Owns, At
  <2>4. (OwnersHoldVote /\ SoleOwner /\ AcknowledgedCounted)'
    BY <1>0, <2>3, OwnersKept
  <2> QED
    BY <1>1, <2>2, <2>4 DEF AnswerInv
<1>4. CASE ~HasVoted(j) /\ Answer(r, "internal")
  <2>1. pc'[r] = "idle" /\ reply'[r] = [reply[r] EXCEPT !.status = "internal"]
        /\ reply'[r].status = "internal" /\ ~reply'[r].inserted
    BY <1>0, <1>4 DEF Answer, Goto, Replies
  <2>2. AnswerTrue(r)'
    BY <2>1 DEF AnswerTrue, Busy
  <2>3. \A s \in Requests : /\ Owns(s)' => Owns(s) /\ job'[s] = job[s]
                            /\ reply'[s].inserted => reply[s].inserted
    BY <1>0, <1>1, <2>1 DEF Owns, At
  <2>4. (OwnersHoldVote /\ SoleOwner /\ AcknowledgedCounted)'
    BY <1>0, <2>3, OwnersKept
  <2> QED
    BY <1>1, <2>2, <2>4 DEF AnswerInv
<1>5. CASE /\ ~HasVoted(j) /\ Goto(r, "increment") /\ UNCHANGED reply
           /\ votes' = [votes EXCEPT ![j.movie][j.fingerprint] = j.category]
  <2>1. pc'[r] = "increment" /\ reply' = reply
    BY <1>0, <1>5 DEF Goto
  <2>2. StoredFor(r) = None /\ StoredFor(r)' = j.category
    BY <1>0, <1>5 DEF HasVoted, StoredFor, Jobs, TypeOK, TablesTyped
  <2>3. AnswerTrue(r)'
    <3>1. reply[r].voted = None \/ reply[r].voted = StoredFor(r)
      BY <1>0, <1>2 DEF AnswerTrue
    <3>2. reply[r].status # "ok"
      BY <1>2, <2>2 DEF AnswerTrue
    <3>3. \A c \in Categories : reply[r].counts[c] <= tallies[j.movie][c]
      BY <1>0, <1>2 DEF AnswerTrue
    <3> QED
      BY <1>0, <2>1, <2>2, <3>1, <3>2, <3>3 DEF AnswerTrue, Busy
  <2>4. ASSUME NEW s \in Requests, s # r, Owns(s)'
        PROVE  /\ Owns(s) /\ StoredFor(s) = job[s].category /\ job[s] \in Jobs
               /\ job[s].category \in Categories
    <3>1. Owns(s)
      BY <1>1, <2>4 DEF Owns, At
    <3>2. job[s] \in Jobs /\ job[s].category \in Categories
      BY <3>1 DEF Owns, TypeOK, StageTyped, At, Busy, Writing
    <3> QED
      BY <3>1, <3>2 DEF AnswerInv, OwnersHoldVote
  <2>5. ASSUME NEW s \in Requests, s # r, Owns(s)'
        PROVE  /\ ~(job[s].movie = j.movie /\ job[s].fingerprint = j.fingerprint)
               /\ StoredFor(s)' = job[s].category
    <3>1. StoredFor(s) # None
      BY <2>4, <2>5, NoneAssumption
    <3>2. StoredFor(s)' = StoredFor(s)
      BY <1>0, <2>4, <2>5, <3>1 DEF StoredFor, Monotone, Jobs
    <3> QED
      BY <2>2, <2>4, <2>5, <3>1, <3>2 DEF StoredFor
  <2>6. OwnersHoldVote'
    BY <1>0, <2>2, <2>5 DEF OwnersHoldVote
  <2>7. SoleOwner'
    BY <1>0, <2>4, <2>5 DEF AnswerInv, SoleOwner
  <2>8. AcknowledgedCounted'
    BY <1>0, <2>1 DEF AnswerInv, AcknowledgedCounted, Acknowledged
  <2> QED
    BY <1>1, <2>3, <2>6, <2>7, <2>8 DEF AnswerInv
<1> QED
  BY <1>3, <1>4, <1>5 DEF InsertVote, Committed

LEMMA IncrementTallyAnswers ==
  ASSUME TypeOK, TypeOK', AnswerInv, Monotone, NEW r \in Requests, IncrementTally(r)
  PROVE  AnswerInv'
<1> DEFINE j == job[r]
<1>0. /\ pc \in [Requests -> Steps] /\ job' = job /\ votes' = votes
      /\ Busy(r) /\ pc[r] = "increment" /\ ~reply[r].inserted
      /\ reply \in [Requests -> Replies] /\ reply' \in [Requests -> Replies]
      /\ tallies \in [Movies -> [Categories -> Nat]]
      /\ tallies' \in [Movies -> [Categories -> Nat]]
      /\ j \in Jobs /\ j.category \in Categories
  BY DEF TypeOK, TablesTyped, RequestsTyped, IncrementTally, At, Busy, StageTyped, Writing
<1>1. ASSUME NEW s \in Requests, s # r
      PROVE  /\ job'[s] = job[s] /\ reply'[s] = reply[s] /\ pc'[s] = pc[s]
             /\ AnswerTrue(s)'
  <2>1. job'[s] = job[s] /\ reply'[s] = reply[s] /\ pc'[s] = pc[s]
    BY <1>0, <1>1 DEF IncrementTally, Goto, Answer
  <2> QED
    BY <2>1, AnswerKept DEF AnswerInv
<1>2. AnswerTrue(r) /\ Owns(r) /\ StoredFor(r) = j.category
  BY <1>0 DEF AnswerInv, OwnersHoldVote, Owns, At
<1>3. CASE Answer(r, "internal")
  <2>1. pc'[r] = "idle" /\ reply'[r] = [reply[r] EXCEPT !.status = "internal"]
        /\ reply'[r].status = "internal" /\ ~reply'[r].inserted
    BY <1>0, <1>3 DEF Answer, Goto, Replies
  <2>2. AnswerTrue(r)'
    BY <2>1 DEF AnswerTrue, Busy
  <2>3. \A s \in Requests : /\ Owns(s)' => Owns(s) /\ job'[s] = job[s]
                            /\ reply'[s].inserted => reply[s].inserted
    BY <1>0, <1>1, <2>1 DEF Owns, At
  <2>4. (OwnersHoldVote /\ SoleOwner /\ AcknowledgedCounted)'
    BY <1>0, <2>3, OwnersKept
  <2> QED
    BY <1>1, <2>2, <2>4 DEF AnswerInv
<1>4. CASE Goto(r, "tallies") /\ reply' = [reply EXCEPT ![r].inserted = TRUE]
  <2>1. /\ pc'[r] = "tallies" /\ reply'[r].inserted
        /\ reply'[r].voted = reply[r].voted /\ reply'[r].counts = reply[r].counts
    BY <1>0, <1>4 DEF Goto, Replies
  <2>2. StoredFor(r)' = StoredFor(r) /\ StoredFor(r)' # None
    BY <1>0, <1>2, NoneAssumption DEF StoredFor
  <2>3. AnswerTrue(r)'
    <3>1. reply[r].status # "ok" /\ reply'[r].status # "ok"
      <4>1. reply[r].status # "ok"
        BY <1>0, <1>2 DEF AnswerTrue
      <4> QED
        BY <1>0, <1>4, <4>1 DEF Replies
    <3>2. \A c \in Categories : reply[r].counts[c] <= tallies'[j.movie][c]
      <4>1. ASSUME NEW c \in Categories PROVE reply[r].counts[c] <= tallies'[j.movie][c]
        <5>1. j.movie \in Movies /\ reply[r].counts[c] \in Nat
          BY <1>0 DEF Jobs, Replies
        <5>2. reply[r].counts[c] <= tallies[j.movie][c]
          BY <1>0, <1>2 DEF AnswerTrue
        <5> QED
          BY <1>0, <5>1, <5>2 DEF Monotone
      <4> QED
        BY <4>1
    <3> QED
      BY <1>0, <1>2, <2>1, <2>2, <3>1, <3>2 DEF AnswerTrue
  <2>4. \A s \in Requests : Owns(s)' => Owns(s)
    BY <1>1, <1>2 DEF Owns, At
  <2>5. OwnersHoldVote' /\ SoleOwner'
    BY <1>0, <2>4 DEF AnswerInv, OwnersHoldVote, SoleOwner, StoredFor
  <2>6. ASSUME NEW m \in Movies, NEW c \in Categories
        PROVE  Cardinality(Acknowledged(m, c)') <= tallies'[m][c]
    <3>1. Cardinality(Acknowledged(m, c)) <= tallies[m][c]
      BY DEF AnswerInv, AcknowledgedCounted
    <3>2. CASE j.movie = m /\ j.category = c
      <4>1. Acknowledged(m, c)' = Acknowledged(m, c) \cup {r} /\ r \notin Acknowledged(m, c)
        BY <1>0, <1>1, <2>1, <3>2 DEF Acknowledged
      <4>2. Cardinality(Acknowledged(m, c)') = Cardinality(Acknowledged(m, c)) + 1
        BY <4>1, AcknowledgedFinite, FS_AddElement
      <4>3. tallies'[m][c] = tallies[m][c] + 1
        BY <1>0, <3>2 DEF IncrementTally, Incremented
      <4> QED
        BY <1>0, <3>1, <4>2, <4>3, AcknowledgedFinite
    <3>3. CASE ~(j.movie = m /\ j.category = c)
      <4>1. Acknowledged(m, c)' = Acknowledged(m, c)
        BY <1>0, <1>1, <3>3 DEF Acknowledged
      <4>2. tallies'[m][c] = tallies[m][c]
        BY <1>0, <3>3 DEF IncrementTally, Incremented
      <4> QED
        BY <3>1, <4>1, <4>2
    <3> QED
      BY <3>2, <3>3
  <2> QED
    BY <1>1, <2>3, <2>5, <2>6 DEF AnswerInv, AcknowledgedCounted
<1> QED
  BY <1>3, <1>4 DEF IncrementTally

(* The rest of the handler: what it puts into the answer is what is stored. *)
(* The last step of a vote, with a failure of the cache's or without.      *)
Answered(r) == At(r, "invalidate") /\ Answer(r, "ok") /\ UNCHANGED <<database, clock, job>>

LEMMA AnswerBuilt ==
  ASSUME TypeOK, TypeOK', AnswerInv, Monotone, NEW r \in Requests,
         \/ LoadTallies(r) \/ LoadVotedCategory(r) \/ Answered(r)
  PROVE  AnswerInv'
<1> DEFINE j == job[r]
<1>0. /\ pc \in [Requests -> Steps] /\ job' = job /\ votes' = votes /\ tallies' = tallies
      /\ Busy(r) /\ pc[r] \in {"tallies", "category", "invalidate"}
      /\ reply \in [Requests -> Replies] /\ reply' \in [Requests -> Replies]
      /\ tallies' \in [Movies -> [Categories -> Nat]]
      /\ j \in Jobs /\ j.movie \in Movies /\ AnswerTrue(r)
      /\ reply[r].inserted => j.category \in Categories
  BY DEF TypeOK, TablesTyped, RequestsTyped, LoadTallies, LoadVotedCategory, Answered, At, Busy,
         StageTyped, database, AnswerInv, Jobs
<1>1. ASSUME NEW s \in Requests, s # r
      PROVE  /\ job'[s] = job[s] /\ reply'[s] = reply[s] /\ pc'[s] = pc[s]
             /\ AnswerTrue(s)'
  <2>1. job'[s] = job[s] /\ reply'[s] = reply[s] /\ pc'[s] = pc[s]
    BY <1>0, <1>1 DEF LoadTallies, LoadVotedCategory, Answered, Goto, Answer
  <2> QED
    BY <2>1, AnswerKept DEF AnswerInv
<1>2. reply'[r].inserted = reply[r].inserted /\ pc'[r] # "increment"
  BY <1>0 DEF LoadTallies, LoadVotedCategory, Answered, Goto, Answer, Replies, At
<1>3. (OwnersHoldVote /\ SoleOwner /\ AcknowledgedCounted)'
  <2>1. \A s \in Requests : /\ Owns(s)' => Owns(s) /\ job'[s] = job[s]
                            /\ reply'[s].inserted => reply[s].inserted
    BY <1>0, <1>1, <1>2 DEF Owns, At
  <2> QED
    BY <1>0, <2>1, OwnersKept
<1>4. StoredFor(r)' = StoredFor(r) /\ StoredFor(r) # None
  BY <1>0 DEF AnswerTrue, StoredFor
<1>5. CASE LoadTallies(r)
  <2>1. /\ reply'[r].counts = tallies[j.movie] /\ reply'[r].voted = reply[r].voted
        /\ reply'[r].status = reply[r].status /\ pc'[r] = "category"
    BY <1>0, <1>5 DEF LoadTallies, Goto, Replies
  <2>2. reply[r].inserted => tallies[j.movie][j.category] >= 1
    <3>1. SUFFICES ASSUME reply[r].inserted PROVE tallies[j.movie][j.category] >= 1
      OBVIOUS
    <3>2. r \in Acknowledged(j.movie, j.category) /\ j.category \in Categories
      BY <1>0, <3>1 DEF Acknowledged
    <3>3. Cardinality(Acknowledged(j.movie, j.category)) # 0
      BY <1>0, <3>2, AcknowledgedFinite, FS_EmptySet
    <3>4. Cardinality(Acknowledged(j.movie, j.category)) <= tallies[j.movie][j.category]
      BY <1>0, <3>2 DEF AnswerInv, AcknowledgedCounted
    <3>5. Cardinality(Acknowledged(j.movie, j.category)) \in Nat
      BY <1>0, <3>2, AcknowledgedFinite
    <3>6. tallies[j.movie][j.category] \in Nat
      BY <1>0, <3>2
    <3> QED
      BY <3>3, <3>4, <3>5, <3>6
  <2>3. \A c \in Categories : tallies[j.movie][c] <= tallies'[j.movie][c]
    BY <1>0 DEF Monotone
  <2>4. AnswerTrue(r)'
    BY <1>0, <1>2, <1>4, <2>1, <2>2, <2>3 DEF AnswerTrue, Busy
  <2> QED
    BY <1>1, <1>3, <2>4 DEF AnswerInv
<1>6. CASE LoadVotedCategory(r)
  <2>1. /\ reply'[r].counts = reply[r].counts
        /\ reply'[r].voted = StoredFor(r) \/ reply'[r].voted = reply[r].voted
        /\ reply'[r].status = reply[r].status /\ pc[r] = "category" /\ pc'[r] = "invalidate"
    BY <1>0, <1>6 DEF LoadVotedCategory, VotedCategory, StoredFor, Goto, Replies, At
  <2>2. AnswerTrue(r)'
    BY <1>0, <1>2, <1>4, <2>1 DEF AnswerTrue, Busy
  <2> QED
    BY <1>1, <1>3, <2>2 DEF AnswerInv
<1>7. CASE Answered(r)
  <2>1. /\ reply'[r].counts = reply[r].counts /\ reply'[r].voted = reply[r].voted
        /\ pc[r] = "invalidate" /\ pc'[r] = "idle"
    BY <1>0, <1>7 DEF Answered, Answer, Goto, Replies, At
  <2>2. AnswerTrue(r)'
    BY <1>0, <1>2, <1>4, <2>1 DEF AnswerTrue, Busy
  <2> QED
    BY <1>1, <1>3, <2>2 DEF AnswerInv
<1> QED
  BY <1>5, <1>6, <1>7

(* A new request starts with an empty answer; a restart empties none.      *)
LEMMA ReceiveAnswers ==
  ASSUME TypeOK, TypeOK', AnswerInv, Monotone, NEW r \in Requests,
         NEW m \in Movies \cup {None}, NEW f \in Fingerprints \cup {None},
         NEW c \in Categories \cup {None, Invalid}, Receive(r, m, c, f)
  PROVE  AnswerInv'
<1>0. /\ pc \in [Requests -> Steps] /\ ~Busy(r)
      /\ tallies' = tallies /\ votes' = votes
      /\ tallies' \in [Movies -> [Categories -> Nat]]
      /\ job \in [Requests -> Jobs \cup {NoJob}] /\ reply \in [Requests -> Replies]
  BY DEF TypeOK, TablesTyped, RequestsTyped, Receive, database
<1>1. ASSUME NEW s \in Requests, s # r
      PROVE  /\ job'[s] = job[s] /\ reply'[s] = reply[s] /\ pc'[s] = pc[s]
             /\ AnswerTrue(s)'
  <2>1. job'[s] = job[s] /\ reply'[s] = reply[s] /\ pc'[s] = pc[s]
    BY <1>0, <1>1 DEF Receive, Goto
  <2> QED
    BY <2>1, AnswerKept DEF AnswerInv
<1>2. /\ pc'[r] \in {"release", "idle"}
      /\ pc'[r] = "release" => job'[r].movie \in Movies
      /\ reply'[r].status # "ok" /\ ~reply'[r].inserted
      /\ reply'[r].voted = None /\ reply'[r].counts = Zeros
  BY <1>0 DEF Receive, Acceptable, Goto, Busy, NoReply
<1>3. AnswerTrue(r)'
  <2>1. CASE pc'[r] = "idle"
    BY <1>2, <2>1 DEF AnswerTrue, Busy
  <2>2. CASE pc'[r] = "release"
    <3>1. \A d \in Categories : Zeros[d] = 0 /\ 0 <= tallies'[job'[r].movie][d]
      BY <1>0, <1>2, <2>2 DEF Zeros
    <3> QED
      BY <1>2, <2>2, <3>1 DEF AnswerTrue, Busy
  <2> QED
    BY <1>2, <2>1, <2>2
<1>4. \A s \in Requests : /\ Owns(s)' => Owns(s) /\ job'[s] = job[s]
                          /\ reply'[s].inserted => reply[s].inserted
  BY <1>1, <1>2 DEF Owns, At
<1>5. (OwnersHoldVote /\ SoleOwner /\ AcknowledgedCounted)'
  BY <1>0, <1>4, OwnersKept
<1> QED
  BY <1>1, <1>3, <1>5 DEF AnswerInv

LEMMA EnvironmentAnswers ==
  ASSUME TypeOK, TypeOK', AnswerInv, Monotone,
         \/ Crash
         \/ \E m \in Movies, d \in ReleaseDays : SyncMovie(m, d)
         \/ Tick
         \/ UNCHANGED <<database, clock, pc, job, reply>>
  PROVE  AnswerInv'
<1>0. /\ pc \in [Requests -> Steps] /\ job' = job /\ reply \in [Requests -> Replies]
      /\ tallies' \in [Movies -> [Categories -> Nat]]
  BY DEF TypeOK, TablesTyped, RequestsTyped, Crash, SyncMovie, Tick, database
<1>1. ASSUME NEW s \in Requests
      PROVE  /\ \/ pc'[s] = pc[s] /\ reply'[s] = reply[s]
                \/ /\ Busy(s) /\ pc'[s] = "idle"
                   /\ reply'[s] = [reply[s] EXCEPT !.status = "lost"]
                \/ ~Busy(s) /\ pc'[s] = "idle" /\ reply'[s] = reply[s]
             /\ reply'[s].inserted = reply[s].inserted
             /\ reply'[s] = [reply[s] EXCEPT !.status = "lost"] => reply'[s].status = "lost"
  BY <1>0 DEF Crash, SyncMovie, Tick, database, Replies
<1>2. ASSUME NEW s \in Requests PROVE AnswerTrue(s)'
  <2>1. AnswerTrue(s) /\ job'[s] = job[s]
    BY <1>0 DEF AnswerInv
  <2> QED
    BY <1>1, <2>1, AnswerKept DEF Busy, Statuses
<1>3. \A s \in Requests : /\ Owns(s)' => Owns(s) /\ job'[s] = job[s]
                          /\ reply'[s].inserted => reply[s].inserted
  BY <1>0, <1>1 DEF Owns, At
<1>4. (OwnersHoldVote /\ SoleOwner /\ AcknowledgedCounted)'
  BY <1>0, <1>3, OwnersKept
<1> QED
  BY <1>2, <1>4 DEF AnswerInv

LEMMA NextAnswers == TypeOK /\ AnswerInv /\ [Next]_vars => AnswerInv'
<1> SUFFICES ASSUME TypeOK, AnswerInv, [Next]_vars PROVE AnswerInv'
  OBVIOUS
<1>1. TypeOK' /\ Monotone
  BY NextTypeOK, StepsMonotone
<1>2. ASSUME NEW r \in Requests, Advance(r) \/ QueryFails(r) PROVE AnswerInv'
  BY <1>1, <1>2, QuietStep, InsertVoteAnswers, IncrementTallyAnswers, AnswerBuilt
     DEF Advance, Respond, Answered
<1>3. ASSUME NEW r \in Requests, NEW m \in Movies \cup {None},
             NEW f \in Fingerprints \cup {None},
             NEW c \in Categories \cup {None, Invalid}, Receive(r, m, c, f)
      PROVE  AnswerInv'
  BY <1>1, <1>3, ReceiveAnswers
<1> QED
  BY <1>1, <1>2, <1>3, EnvironmentAnswers DEF Next, vars

LEMMA AnswersFollow ==
  TypeOK /\ AnswerInv => AcknowledgedOnceAndCounted /\ AnswersMatchDatabase
<1> SUFFICES ASSUME TypeOK, AnswerInv
             PROVE  AcknowledgedOnceAndCounted /\ AnswersMatchDatabase
  OBVIOUS
<1>1. AcknowledgedOnceAndCounted
  BY DEF AnswerInv, AcknowledgedCounted, SoleOwner, Owns, AcknowledgedOnceAndCounted
<1>2. ASSUME NEW r \in Requests, reply[r].status = "ok"
      PROVE  /\ StoredFor(r) # None
             /\ reply[r].voted \in {StoredFor(r), None}
             /\ reply[r].inserted => /\ StoredFor(r) = job[r].category
                                     /\ reply[r].counts[job[r].category] >= 1
             /\ \A c \in Categories : reply[r].counts[c] <= tallies[job[r].movie][c]
  <2>1. AnswerTrue(r)
    BY DEF AnswerInv
  <2>2. reply[r].inserted => StoredFor(r) = job[r].category
    BY DEF AnswerInv, OwnersHoldVote, Owns
  <2> QED
    BY <1>2, <2>1, <2>2 DEF AnswerTrue
<1> QED
  BY <1>1, <1>2 DEF AnswersMatchDatabase, StoredFor

LEMMA AnswersInvariant == Spec => []AnswerInv
<1>1. Init => TypeOK /\ AnswerInv
  BY InitTypeOK, InitAnswers
<1>2. TypeOK /\ AnswerInv /\ [Next]_vars => (TypeOK /\ AnswerInv)'
  BY NextTypeOK, NextAnswers
<1> QED
  BY <1>1, <1>2, PTL DEF Spec

(* At most one request of a fingerprint is told that it was the first, and *)
(* its vote is stored and counted, whatever fails, restarts or overtakes.  *)
THEOREM AcknowledgedOnce == Spec => []AcknowledgedOnceAndCounted
BY TypeCorrect, AnswersInvariant, AnswersFollow, PTL

(* What a 200 said about votes and counts holds from then on.              *)
THEOREM AnswersHold == Spec => []AnswersMatchDatabase
BY TypeCorrect, AnswersInvariant, AnswersFollow, PTL

-----------------------------------------------------------------------------
(* The result of a closed vote.                                            *)

LEMMA SealedStep ==
  ASSUME TypeOK, [Next]_vars, NEW m \in Movies, Sealed(m), release'[m] = release[m]
  PROVE  Sealed(m)' /\ votes'[m] = votes[m] /\ tallies'[m] = tallies[m]
<1> DEFINE closing == release[m] + VotingDays
<1>0. /\ pc \in [Requests -> Steps] /\ job \in [Requests -> Jobs \cup {NoJob}]
      /\ clock \in Nat /\ release[m] \in Nat /\ release[m] # None /\ VotingDays \in Nat
      /\ closing \in Nat /\ clock > closing
      /\ votes \in [Movies -> [Fingerprints -> Categories \cup {None}]]
      /\ tallies \in [Movies -> [Categories -> Nat]]
  <2>1. /\ pc \in [Requests -> Steps] /\ job \in [Requests -> Jobs \cup {NoJob}]
        /\ votes \in [Movies -> [Fingerprints -> Categories \cup {None}]]
        /\ tallies \in [Movies -> [Categories -> Nat]]
    BY DEF TypeOK, TablesTyped, RequestsTyped
  <2>2. /\ clock \in Nat /\ release[m] # None /\ release[m] \in ReleaseDays
        /\ clock > release[m] + VotingDays
    BY DEF TypeOK, TablesTyped, Sealed
  <2>3. release[m] \in Nat /\ VotingDays \in Nat
    BY <2>2, DaysAssumption
  <2> QED
    BY <2>1, <2>2, <2>3
<1>1. \A s \in Requests : Busy(s) /\ job[s].movie = m => At(s, "release") /\ job[s].now > closing
  BY DEF Sealed
<1> HIDE DEF closing
<1>2. SUFFICES /\ clock' > closing
               /\ \A s \in Requests : Busy(s)' /\ job'[s].movie = m =>
                                        pc'[s] = "release" /\ job'[s].now > closing
               /\ votes'[m] = votes[m] /\ tallies'[m] = tallies[m]
  BY <1>0 DEF Sealed, At, closing
<1>3. ASSUME NEW r \in Requests, Advance(r)
      PROVE  /\ clock' = clock /\ job' = job
             /\ \E step \in Steps : pc' = [pc EXCEPT ![r] = step]
  BY <1>3 DEF Advance, CheckMovie, GetVoter, InsertVoter, InsertVote, IncrementTally, VoterTaken,
              LoadTallies, LoadVotedCategory, Respond, Committed, Goto, Answer, database,
              Steps, Statements
<1>4. ASSUME NEW r \in Requests, Advance(r), job[r].movie # m
      PROVE  votes'[m] = votes[m] /\ tallies'[m] = tallies[m]
  BY <1>0, <1>4 DEF Advance, CheckMovie, GetVoter, InsertVoter, InsertVote, IncrementTally,
                    Incremented, LoadTallies, LoadVotedCategory, Respond, database
<1>5. ASSUME NEW r \in Requests, Advance(r), job[r].movie = m
      PROVE  pc'[r] = "idle" /\ votes' = votes /\ tallies' = tallies
  <2>1. Busy(r)
    BY <1>5 DEF Advance, CheckMovie, GetVoter, InsertVoter, InsertVote, IncrementTally,
                LoadTallies, LoadVotedCategory, Respond, At, Busy
  <2>2. pc[r] = "release" /\ job[r].now > closing
    BY <1>1, <1>5, <2>1 DEF At
  <2>3. CheckMovie(r)
    BY <1>5, <2>2 DEF Advance, GetVoter, InsertVoter, InsertVote, IncrementTally,
                      LoadTallies, LoadVotedCategory, Respond, At
  <2>4. VotingClosed(m, job[r].now)
    BY <2>2 DEF VotingClosed, closing
  <2> QED
    BY <1>0, <1>5, <2>3, <2>4 DEF CheckMovie, Answer, Goto, database
<1>6. CASE \E r \in Requests : Advance(r)
  BY <1>0, <1>1, <1>3, <1>4, <1>5, <1>6 DEF Busy, At
<1>7. ASSUME NEW r \in Requests, NEW n \in Movies \cup {None},
             NEW f \in Fingerprints \cup {None},
             NEW c \in Categories \cup {None, Invalid}, Receive(r, n, c, f)
      PROVE  /\ \A s \in Requests : Busy(s)' /\ job'[s].movie = m =>
                                      pc'[s] = "release" /\ job'[s].now > closing
             /\ clock' = clock /\ votes' = votes /\ tallies' = tallies
  BY <1>0, <1>1, <1>7 DEF Receive, Goto, Busy, At, database
<1>8. CASE \/ \E r \in Requests : QueryFails(r)
           \/ Crash
           \/ \E n \in Movies, d \in ReleaseDays : SyncMovie(n, d)
           \/ Tick
           \/ UNCHANGED vars
  <2>1. /\ job' = job /\ votes' = votes /\ tallies' = tallies
        /\ clock' = clock \/ clock' = clock + 1
        /\ \A s \in Requests : pc'[s] = pc[s] \/ pc'[s] = "idle"
    BY <1>0, <1>8 DEF QueryFails, Crash, SyncMovie, Tick, vars, database, Answer, Goto
  <2> QED
    BY <1>0, <1>1, <2>1 DEF Busy, At
<1> QED
  BY <1>0, <1>6, <1>7, <1>8 DEF Next

(* Once voting on a movie is closed and the requests that came before are  *)
(* gone, votes and counters of the movie stay as they are, for as long as  *)
(* no sync moves its release date.                                         *)
THEOREM ClosedResultFinal == Spec => SealedResultIsFinal
<1>1. TypeOK /\ [Next]_vars =>
        [\A m \in Movies :
           Sealed(m) /\ release'[m] = release[m] =>
             Sealed(m)' /\ votes'[m] = votes[m] /\ tallies'[m] = tallies[m]]_vars
  BY SealedStep
<1> QED
  BY <1>1, TypeCorrect, PTL DEF Spec, SealedResultIsFinal
=============================================================================
