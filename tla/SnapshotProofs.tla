---------------------------- MODULE SnapshotProofs ----------------------------
(***************************************************************************)
(* Proofs about the snapshot job: the type invariant, that a row never     *)
(* shows a vote its movie was not given, that rows only grow, and that a   *)
(* run that ends without an error covers its month.                        *)
(*                                                                         *)
(* The argument follows one movie through a run: the counters when the     *)
(* month was listed are at most those read for the movie, which are at     *)
(* most those of later, because counters only grow; and as long as no      *)
(* other run is at work on the month, the row is at most what was read.    *)
(***************************************************************************)
EXTENDS SnapshotJob, WellFoundedInduction, TLAPS

(* Every nonempty set of numbers has a least element, which makes InHand   *)
(* one of the movies left.                                                 *)
Before == OpToRel(<, Nat)

LEMMA BeforeIsLess == \A x, y \in Nat : <<x, y>> \in Before <=> x < y
BY DEF Before, OpToRel

LEMMA NotLess == ASSUME NEW a \in Nat, NEW b \in Nat, ~ (b < a) PROVE a <= b
OBVIOUS

LEMMA LeastExists ==
  ASSUME NEW T, T \subseteq Nat, T # {}
  PROVE  \E x \in T : \A y \in T : x <= y
<1>1. IsWellFoundedOn(Before, Nat)
  BY NatLessThanWellFounded DEF Before
<1>2. PICK x \in T : \A y \in T : ~ (<<y, x>> \in Before)
  BY <1>1, WFMin
<1> HIDE DEF Before
<1>3. ASSUME NEW y \in T PROVE x <= y
  <2>1. x \in Nat /\ y \in Nat
    OBVIOUS
  <2>2. ~ (<<y, x>> \in Before)
    BY <1>2
  <2>3. ~ (y < x)
    BY <2>1, <2>2, BeforeIsLess
  <2> QED
    BY <2>1, <2>3, NotLess
<1> QED
  BY <1>3

LeastIn(T) == CHOOSE m \in T : \A o \in T : m <= o

LEMMA LeastIsIn == ASSUME NEW T, T \subseteq Nat, T # {} PROVE LeastIn(T) \in T
BY LeastExists DEF LeastIn

LEMMA InHandIsLeast == \A w : InHand(w) = LeastIn(run[w].todo)
BY DEF InHand, LeastIn

LEMMA InHandIsLeastNext == \A w : InHand(w)' = LeastIn(run'[w].todo)
BY DEF InHand, LeastIn
-----------------------------------------------------------------------------
(* Types.                                                                  *)

Places == {"seed", "timer", "list", "read", "upsert", "done", "down"}
Counted == [Categories -> Nat]
Runs == [at: Places, month: Nat, listed: SUBSET Movies, todo: SUBSET Movies,
         counts: Counted, base: [Movies -> Counted], shared: BOOLEAN]

Copying(w) == run[w].at \in {"read", "upsert"}

Shapes ==
  /\ release \in [Movies -> ReleaseDays \cup {None}]
  /\ votes \in [Movies -> [Fingerprints -> Categories \cup {None}]]
  /\ tallies \in [Movies -> Counted]
  /\ snapshots \in [Months -> [Movies -> Counted \cup {None}]]
  /\ clock \in Nat /\ clock <= MaxDay
  /\ faults \in Nat
  /\ run \in [Runners -> Runs]
  /\ \A w \in Runners : /\ run[w].todo \subseteq run[w].listed
                        /\ Copying(w) => run[w].todo # {}
                        /\ run[w].month \in 0..Month(clock)

LEMMA ShapesAreTypes == Shapes => TypeOK
BY DEF Shapes, TypeOK, Copying, Places, Counted, Runs

LEMMA MonthsGrow ==
  ASSUME NEW a \in Nat, NEW b \in Nat, a <= b
  PROVE  Month(a) \in Nat /\ Month(b) \in Nat /\ Month(a) <= Month(b)
BY DaysAssumption DEF Month

LEMMA RunShape ==
  ASSUME NEW at \in Places, NEW n \in Nat
  PROVE  /\ Run(at, n) \in Runs
         /\ Run(at, n).at = at /\ Run(at, n).month = n
         /\ Run(at, n).todo = {} /\ Run(at, n).listed = {}
BY DEF Run, Runs, Zeros, Counted

LEMMA MonthlyRuns == "monthly" \in Runners
BY DEF Runners

(* A runner that is not copying, in a month up to n.                       *)
Resting(r, n) == /\ r \in Runs /\ r.at \notin {"read", "upsert"}
                 /\ r.todo \subseteq r.listed /\ r.month \in 0..n

LEMMA RunsRest ==
  ASSUME clock \in Nat, NEW w
  PROVE  /\ Resting(Armed(clock), Month(clock))
         /\ Resting(Started(w), Month(clock))
         /\ Resting(Finished(w), Month(clock))
         /\ Resting(Run("down", 0), Month(clock))
<1>1. Month(clock) \in Nat
  BY MonthsGrow
<1>2. /\ Resting(Run("timer", Month(clock)), Month(clock))
      /\ Resting(Run("seed", Month(clock)), Month(clock))
      /\ Resting(Run("list", Month(clock)), Month(clock))
      /\ Resting(Run("done", 0), Month(clock))
      /\ Resting(Run("down", 0), Month(clock))
  BY <1>1, RunShape DEF Resting, Places
<1> QED
  BY <1>2 DEF Armed, Started, Finished

LEMMA InHandLeft ==
  ASSUME Shapes, NEW w \in Runners, Copying(w)
  PROVE  InHand(w) \in run[w].todo /\ InHand(w) \in Movies
<1>1. run[w].todo \subseteq Movies /\ run[w].todo # {} /\ Movies \subseteq Nat
  BY MoviesAssumption DEF Shapes, Runs
<1>2. LeastIn(run[w].todo) \in run[w].todo
  BY <1>1, LeastIsIn
<1> QED
  BY <1>1, <1>2, InHandIsLeast

LEMMA MonthOfRun ==
  ASSUME Shapes, NEW w \in Runners
  PROVE  run[w].month \in Months /\ run[w].month \in Nat
<1>1. clock \in Nat /\ MaxDay \in Nat /\ clock <= MaxDay /\ run[w].month \in 0..Month(clock)
  BY BoundsAssumption DEF Shapes
<1>2. Month(clock) \in Nat /\ Month(MaxDay) \in Nat /\ Month(clock) <= Month(MaxDay)
  BY <1>1, MonthsGrow
<1> QED
  BY <1>1, <1>2 DEF Months

LEMMA InitShapes == Init => Shapes
<1> SUFFICES ASSUME Init PROVE Shapes
  OBVIOUS
<1>1. clock = 0 /\ clock \in Nat /\ clock <= MaxDay
  BY BoundsAssumption DEF Init
<1>2. \A w \in Runners : Resting(run[w], Month(clock))
  BY <1>1, RunsRest DEF Init
<1>3. run \in [Runners -> Runs]
  BY <1>2 DEF Init, Resting
<1>4. /\ release \in [Movies -> ReleaseDays \cup {None}]
      /\ votes \in [Movies -> [Fingerprints -> Categories \cup {None}]]
      /\ tallies \in [Movies -> Counted]
      /\ snapshots \in [Months -> [Movies -> Counted \cup {None}]]
      /\ faults \in Nat
  BY DEF Init, Ledger!Init, Counted
<1> QED
  BY <1>1, <1>2, <1>3, <1>4 DEF Shapes, Resting, Copying
-----------------------------------------------------------------------------
(* The steps, by what they do to runs, rows and counters.                  *)

Writes(w) ==
  run[w].at = "upsert" /\ snapshots' = Upserted(run[w].month, InHand(w), run[w].counts)

(* Every runner but those that rest now goes on as it was.                 *)
Settles == /\ run' \in [Runners -> Runs]
           /\ \A w \in Runners : run'[w] = run[w] \/ Resting(run'[w], Month(clock))

LEMMA OneRunRests ==
  ASSUME Shapes, NEW w \in Runners, NEW r, Resting(r, Month(clock)),
         run' = [run EXCEPT ![w] = r]
  PROVE  Settles
BY DEF Shapes, Settles, Resting

LEMMA ArmSettles == ASSUME Shapes, NEW w \in Runners, Arm(w) PROVE Settles
<1>1. Resting(Armed(clock), Month(clock))
  BY RunsRest DEF Shapes
<1> QED
  BY <1>1, OneRunRests DEF Arm

LEMMA FireSettles == ASSUME Shapes, NEW w \in Runners, Fire(w) PROVE Settles
<1>1. run[w] \in Runs /\ run[w].todo \subseteq run[w].listed /\ run[w].month \in 0..Month(clock)
  BY DEF Shapes
<1>2. Resting([run[w] EXCEPT !.at = "list"], Month(clock))
  BY <1>1 DEF Resting, Runs, Places
<1>3. run' = [run EXCEPT ![w] = [run[w] EXCEPT !.at = "list"]]
  BY DEF Fire, Shapes
<1> QED
  BY <1>2, <1>3, OneRunRests

LEMMA FailureSettles ==
  ASSUME Shapes, NEW w \in Runners, SnapshotFails(w)
  PROVE  Settles /\ Resting(run'[w], Month(clock))
<1>1. Resting(Finished(w), Month(clock))
  BY RunsRest DEF Shapes
<1>2. run' = [run EXCEPT ![w] = Finished(w)]
  BY DEF SnapshotFails
<1> QED
  BY <1>1, <1>2, OneRunRests DEF Shapes

LEMMA StopStartSettle == ASSUME Shapes, Stop \/ Start PROVE Settles
<1>1. \A w \in Runners : /\ Resting(Run("down", 0), Month(clock))
                         /\ Resting(Started(w), Month(clock))
  BY RunsRest DEF Shapes
<1> QED
  BY <1>1 DEF Stop, Start, Settles, Resting

LEMMA OthersLeaveRuns ==
  ASSUME Shapes, UNCHANGED run
  PROVE  Settles
BY DEF Shapes, Settles

LEMMA WriteEffect ==
  ASSUME Shapes, NEW w \in Runners, Writes(w)
  PROVE  /\ snapshots' \in [Months -> [Movies -> Counted \cup {None}]]
         /\ snapshots'[run[w].month][InHand(w)] = run[w].counts
         /\ \A n \in Months, m \in Movies :
              n # run[w].month \/ m # InHand(w) => snapshots'[n][m] = snapshots[n][m]
<1>1. run[w].month \in Months /\ InHand(w) \in Movies
  BY InHandLeft, MonthOfRun DEF Writes, Copying
<1>2. run[w].counts \in Counted /\ snapshots \in [Months -> [Movies -> Counted \cup {None}]]
  BY DEF Shapes, Runs
<1> DEFINE n == run[w].month
           m == InHand(w)
<1>3. snapshots' = [snapshots EXCEPT ![n][m] = run[w].counts]
  BY DEF Writes, Upserted
<1> HIDE DEF n, m
<1>4. n \in Months /\ m \in Movies
  BY <1>1 DEF n, m
<1> QED
  BY <1>2, <1>3, <1>4 DEF n, m

(* A vote recorded or counted only raises counters.                        *)
VotesGrow == /\ tallies' \in [Movies -> Counted]
             /\ \A m \in Movies, c \in Categories : tallies[m][c] <= tallies'[m][c]

LEMMA VoteGrows ==
  ASSUME Shapes, NEW m \in Voted, NEW c \in Categories, Vote(m, c)
  PROVE  /\ VotesGrow
         /\ votes' \in [Movies -> [Fingerprints -> Categories \cup {None}]]
         /\ UNCHANGED <<release, clock, snapshots, run, faults>>
<1>1. m \in Movies
  BY MoviesAssumption
<1>2. ASSUME Ledger!Count(m, c) PROVE VotesGrow /\ votes' = votes
  BY <1>1, <1>2 DEF Ledger!Count, VotesGrow, Shapes, Counted
<1>3. ASSUME NEW f \in Fingerprints, Ledger!Cast(m, f, c)
      PROVE  VotesGrow /\ votes' \in [Movies -> [Fingerprints -> Categories \cup {None}]]
  BY <1>1, <1>3 DEF Ledger!Cast, VotesGrow, Shapes, Counted
<1> QED
  BY <1>2, <1>3 DEF Vote, Shapes

(* The list is taken: the run's movies are those of the month.             *)
LEMMA ListEffect ==
  ASSUME Shapes, NEW w \in Runners, ListMovieIDs(w)
  PROVE  \/ Settles
         \/ /\ run' \in [Runners -> Runs]
            /\ run'[w].at = "read" /\ run'[w].month = run[w].month
            /\ run'[w].listed = run'[w].todo /\ run'[w].todo # {}
            /\ run'[w].base = tallies
            /\ run'[w].shared = (Beside(w) # {})
            /\ \A v \in Runners \ {w} :
                 run'[v] = [run[v] EXCEPT !.shared = @ \/ v \in Beside(w)]
<1> DEFINE ids == OfMonth(run[w].month)
<1>1. ids \subseteq Movies
  BY DEF OfMonth
<1>2. CASE ids = {} /\ run' = [run EXCEPT ![w] = Finished(w)]
  <2>1. Resting(Finished(w), Month(clock))
    BY RunsRest DEF Shapes
  <2> QED
    BY <1>2, <2>1, OneRunRests
<1> DEFINE mine == [run[w] EXCEPT !.at = "read", !.listed = ids, !.todo = ids,
                                  !.base = tallies, !.shared = Beside(w) # {}]
           theirs(v) == [run[v] EXCEPT !.shared = @ \/ v \in Beside(w)]
<1>3. CASE ids # {} /\ run' = [v \in Runners |-> IF v = w THEN mine ELSE theirs(v)]
  <2>1. /\ mine \in Runs /\ mine.at = "read" /\ mine.month = run[w].month
        /\ mine.listed = ids /\ mine.todo = ids /\ mine.base = tallies
        /\ mine.shared = (Beside(w) # {})
    <3>1. run[w] \in Runs /\ tallies \in [Movies -> Counted] /\ (Beside(w) # {}) \in BOOLEAN
      BY DEF Shapes
    <3> HIDE DEF ids
    <3> QED
      BY <1>1, <3>1 DEF Runs, Places
  <2>2. ASSUME NEW v \in Runners PROVE theirs(v) \in Runs
    <3>1. run[v] \in Runs
      BY DEF Shapes
    <3> QED
      BY <3>1 DEF Runs
  <2> HIDE DEF mine, theirs
  <2>3. run' \in [Runners -> Runs] /\ run'[w] = mine /\ \A v \in Runners \ {w} : run'[v] = theirs(v)
    BY <1>3, <2>1, <2>2
  <2>4. run'[w].listed = run'[w].todo /\ run'[w].todo # {}
    BY <1>3, <2>1, <2>3
  <2>5. /\ run'[w].at = "read" /\ run'[w].month = run[w].month
        /\ run'[w].base = tallies /\ run'[w].shared = (Beside(w) # {})
    BY <2>1, <2>3
  <2> QED
    BY <2>3, <2>4, <2>5 DEF theirs
<1> QED
  BY <1>2, <1>3 DEF ListMovieIDs

(* The counters of the movie in hand are read ...                          *)
LEMMA ReadEffect ==
  ASSUME Shapes, NEW w \in Runners, ReadTallies(w)
  PROVE  /\ run' \in [Runners -> Runs]
         /\ run'[w] = [run[w] EXCEPT !.at = "upsert", !.counts = tallies[InHand(w)]]
         /\ InHand(w)' = InHand(w)
         /\ \A v \in Runners \ {w} : run'[v] = run[v]
<1>1. InHand(w) \in Movies
  BY InHandLeft DEF ReadTallies, Copying
<1> DEFINE counts == tallies[InHand(w)]
<1>2. counts \in Counted
  BY <1>1 DEF Shapes
<1> HIDE DEF counts
<1>3. run' = [run EXCEPT ![w] = [run[w] EXCEPT !.at = "upsert", !.counts = counts]]
  BY DEF ReadTallies, CountsOf, counts, Shapes
<1>4. [run[w] EXCEPT !.at = "upsert", !.counts = counts] \in Runs
  BY <1>2 DEF Shapes, Runs, Places
<1>5. /\ run' \in [Runners -> Runs]
      /\ run'[w] = [run[w] EXCEPT !.at = "upsert", !.counts = counts]
      /\ \A v \in Runners \ {w} : run'[v] = run[v]
  BY <1>3, <1>4 DEF Shapes
<1>6. run'[w].todo = run[w].todo
  BY <1>5 DEF Shapes, Runs
<1> QED
  BY <1>5, <1>6, InHandIsLeast, InHandIsLeastNext DEF counts

(* ... and its row is written: the run goes on with the next, or rests.    *)
LEMMA UpsertEffect ==
  ASSUME Shapes, NEW w \in Runners, UpsertSnapshot(w)
  PROVE  /\ Writes(w)
         /\ run' \in [Runners -> Runs]
         /\ \A v \in Runners \ {w} : run'[v] = run[v]
         /\ \/ run[w].todo = {InHand(w)} /\ Resting(run'[w], Month(clock))
            \/ /\ run[w].todo # {InHand(w)}
               /\ run'[w] = [run[w] EXCEPT !.at = "read", !.todo = @ \ {InHand(w)}]
               /\ run'[w].todo # {}
<1>1. InHand(w) \in run[w].todo
  BY InHandLeft DEF UpsertSnapshot, Copying
<1>2. Writes(w)
  BY DEF Writes, UpsertSnapshot
<1> DEFINE rest == run[w].todo \ {InHand(w)}
           onward == [run[w] EXCEPT !.at = "read", !.todo = rest]
<1>3. rest \subseteq Movies /\ (rest = {} <=> run[w].todo = {InHand(w)})
  BY <1>1 DEF Shapes, Runs
<1>4. onward \in Runs /\ onward.todo = rest
  BY <1>3 DEF Shapes, Runs, Places
<1>5. Resting(Finished(w), Month(clock))
  BY RunsRest DEF Shapes
<1>6. CASE rest = {}
  <2>1. run' = [run EXCEPT ![w] = Finished(w)]
    BY <1>6 DEF UpsertSnapshot, Continue
  <2> QED
    BY <1>2, <1>3, <1>5, <1>6, <2>1 DEF Resting, Shapes
<1>7. CASE rest # {}
  <2>1. run' = [run EXCEPT ![w] = onward]
    BY <1>7 DEF UpsertSnapshot, Continue
  <2> HIDE DEF rest
  <2>2. run' \in [Runners -> Runs] /\ run'[w] = onward /\ \A v \in Runners \ {w} : run'[v] = run[v]
    BY <1>4, <2>1 DEF Shapes
  <2> QED
    BY <1>2, <1>3, <1>4, <1>7, <2>2 DEF rest
<1> QED
  BY <1>6, <1>7

(* Every step is one of these.                                             *)
LEMMA StepCases ==
  ASSUME Shapes, [Next]_vars
  PROVE  /\ release' \in [Movies -> ReleaseDays \cup {None}]
         /\ votes' \in [Movies -> [Fingerprints -> Categories \cup {None}]]
         /\ clock' \in Nat /\ clock <= clock' /\ clock' <= MaxDay /\ faults' \in Nat
         /\ \/ Settles /\ UNCHANGED <<tallies, snapshots>>
            \/ VotesGrow /\ UNCHANGED <<snapshots, run>>
            \/ /\ Settles /\ UNCHANGED tallies
               /\ \E w \in Runners : Writes(w) /\ Resting(run'[w], Month(clock))
            \/ \E w \in Runners : ListMovieIDs(w)
            \/ \E w \in Runners : ReadTallies(w)
            \/ \E w \in Runners : UpsertSnapshot(w)
<1> DEFINE Tables ==
      /\ release' \in [Movies -> ReleaseDays \cup {None}]
      /\ votes' \in [Movies -> [Fingerprints -> Categories \cup {None}]]
      /\ clock' \in Nat /\ clock <= clock' /\ clock' <= MaxDay /\ faults' \in Nat
<1>1. ASSUME UNCHANGED <<release, votes, clock>>, faults' \in Nat PROVE Tables
  BY <1>1 DEF Shapes
<1>2. ASSUME NEW w \in Runners, AdvanceRun(w) PROVE Tables
  BY <1>1, <1>2 DEF AdvanceRun, Arm, Fire, ListMovieIDs, ReadTallies, UpsertSnapshot, ledger, Shapes
<1>3. ASSUME NEW w \in Runners, Arm(w) \/ Fire(w)
      PROVE  Settles /\ UNCHANGED <<tallies, snapshots>>
  BY <1>3, ArmSettles, FireSettles DEF Arm, Fire, ledger
<1>4. ASSUME NEW w \in Runners, SnapshotFails(w)
      PROVE  /\ Tables /\ Settles /\ Resting(run'[w], Month(clock)) /\ UNCHANGED tallies
             /\ UNCHANGED snapshots \/ Writes(w)
  <2>1. Settles /\ Resting(run'[w], Month(clock))
    BY <1>4, FailureSettles
  <2>2. UNCHANGED <<release, ledger, clock>> /\ Faulty /\ (UNCHANGED snapshots \/ Writes(w))
    BY <1>4 DEF SnapshotFails, Writes
  <2>3. faults' \in Nat
    BY <2>2 DEF Faulty, Shapes
  <2> QED
    BY <1>1, <2>1, <2>2, <2>3 DEF ledger
<1>5. ASSUME Stop \/ Start
      PROVE  Tables /\ Settles /\ UNCHANGED <<tallies, snapshots>>
  <2>1. faults' \in Nat /\ UNCHANGED <<release, ledger, clock, snapshots>>
    BY <1>5 DEF Stop, Start, Faulty, Shapes
  <2> QED
    BY <1>1, <1>5, <2>1, StopStartSettle DEF ledger
<1>6. ASSUME NEW m \in Voted, NEW c \in Categories, Vote(m, c)
      PROVE  Tables /\ VotesGrow /\ UNCHANGED <<snapshots, run>>
  BY <1>6, VoteGrows DEF Shapes
<1>7. ASSUME NEW m \in Movies, NEW d \in ReleaseDays, SyncMovie(m, d)
      PROVE  Tables /\ Settles /\ UNCHANGED <<tallies, snapshots>>
  BY <1>7, OthersLeaveRuns DEF SyncMovie, ledger, Shapes
<1>8. ASSUME Tick PROVE Tables /\ Settles /\ UNCHANGED <<tallies, snapshots>>
  <2>1. clock < MaxDay /\ clock' = clock + 1 /\ UNCHANGED <<release, ledger, snapshots, run, faults>>
    BY <1>8 DEF Tick
  <2>2. clock' \in Nat /\ clock <= clock' /\ clock' <= MaxDay
    BY <2>1, BoundsAssumption DEF Shapes
  <2> QED
    BY <2>1, <2>2, OthersLeaveRuns DEF ledger, Shapes
<1>9. ASSUME UNCHANGED vars PROVE Tables /\ Settles /\ UNCHANGED <<tallies, snapshots>>
  BY <1>9, OthersLeaveRuns DEF vars, ledger, Shapes
<1>10. /\ Tables
       /\ \/ Settles /\ UNCHANGED <<tallies, snapshots>>
          \/ VotesGrow /\ UNCHANGED <<snapshots, run>>
          \/ /\ Settles /\ UNCHANGED tallies
             /\ \E w \in Runners : Writes(w) /\ Resting(run'[w], Month(clock))
          \/ \E w \in Runners : ListMovieIDs(w) \/ ReadTallies(w) \/ UpsertSnapshot(w)
  <2> HIDE DEF Tables
  <2> QED
    BY <1>2, <1>3, <1>4, <1>5, <1>6, <1>7, <1>8, <1>9 DEF Next, AdvanceRun
<1> QED
  BY <1>10

LEMMA StepShapes == ASSUME Shapes, [Next]_vars PROVE Shapes'
<1>1. /\ release' \in [Movies -> ReleaseDays \cup {None}]
      /\ votes' \in [Movies -> [Fingerprints -> Categories \cup {None}]]
      /\ clock' \in Nat /\ clock' <= MaxDay /\ faults' \in Nat
  BY StepCases
<1>2. /\ Month(clock) \in Nat /\ Month(clock') \in Nat /\ Month(clock) <= Month(clock')
  BY StepCases, MonthsGrow DEF Shapes
<1>3. tallies' \in [Movies -> Counted]
  <2>1. \/ UNCHANGED tallies \/ VotesGrow
    BY StepCases DEF ListMovieIDs, ReadTallies, UpsertSnapshot, ledger
  <2> QED
    BY <2>1 DEF VotesGrow, Shapes
<1>4. snapshots' \in [Months -> [Movies -> Counted \cup {None}]]
  <2>1. UNCHANGED snapshots \/ \E w \in Runners : Writes(w)
    BY StepCases, UpsertEffect DEF ListMovieIDs, ReadTallies
  <2> QED
    BY <2>1, WriteEffect DEF Shapes
<1> DEFINE Kept == \A w \in Runners : /\ run'[w].todo \subseteq run'[w].listed
                                      /\ run'[w].at \in {"read", "upsert"} => run'[w].todo # {}
                                      /\ run'[w].month \in 0..Month(clock)
<1>5. ASSUME Settles PROVE run' \in [Runners -> Runs] /\ Kept
  BY <1>5 DEF Settles, Resting, Shapes, Copying
<1>6. ASSUME UNCHANGED run PROVE run' \in [Runners -> Runs] /\ Kept
  BY <1>6 DEF Shapes, Copying
<1>7. ASSUME NEW w \in Runners, ListMovieIDs(w), ~Settles PROVE run' \in [Runners -> Runs] /\ Kept
  <2>1. /\ run' \in [Runners -> Runs]
        /\ run'[w].month = run[w].month
        /\ run'[w].listed = run'[w].todo /\ run'[w].todo # {}
        /\ \A v \in Runners \ {w} :
             run'[v] = [run[v] EXCEPT !.shared = @ \/ v \in Beside(w)]
    BY <1>7, ListEffect
  <2>2. \A v \in Runners \ {w} : /\ run'[v].todo = run[v].todo /\ run'[v].listed = run[v].listed
                                 /\ run'[v].at = run[v].at /\ run'[v].month = run[v].month
    BY <2>1 DEF Shapes, Runs
  <2> QED
    BY <2>1, <2>2 DEF Shapes, Copying
<1>8. ASSUME NEW w \in Runners, ReadTallies(w) PROVE run' \in [Runners -> Runs] /\ Kept
  <2>1. /\ run' \in [Runners -> Runs]
        /\ run'[w] = [run[w] EXCEPT !.at = "upsert", !.counts = tallies[InHand(w)]]
        /\ \A v \in Runners \ {w} : run'[v] = run[v]
    BY <1>8, ReadEffect
  <2>2. /\ run'[w].todo = run[w].todo /\ run'[w].listed = run[w].listed
        /\ run'[w].month = run[w].month /\ Copying(w)
    BY <1>8, <2>1 DEF Shapes, Runs, ReadTallies, Copying
  <2> QED
    BY <2>1, <2>2 DEF Shapes, Copying
<1>9. ASSUME NEW w \in Runners, UpsertSnapshot(w) PROVE run' \in [Runners -> Runs] /\ Kept
  <2>1. /\ run' \in [Runners -> Runs]
        /\ \A v \in Runners \ {w} : run'[v] = run[v]
        /\ \/ Resting(run'[w], Month(clock))
           \/ /\ run'[w] = [run[w] EXCEPT !.at = "read", !.todo = @ \ {InHand(w)}]
              /\ run'[w].todo # {}
    BY <1>9, UpsertEffect
  <2>2. CASE run'[w] = [run[w] EXCEPT !.at = "read", !.todo = @ \ {InHand(w)}] /\ run'[w].todo # {}
    <3>1. /\ run'[w].todo \subseteq run[w].todo /\ run'[w].listed = run[w].listed
          /\ run'[w].month = run[w].month
      BY <2>2 DEF Shapes, Runs
    <3> QED
      BY <2>1, <2>2, <3>1 DEF Shapes, Copying
  <2>3. CASE Resting(run'[w], Month(clock))
    BY <2>1, <2>3 DEF Shapes, Copying, Resting
  <2> QED
    BY <2>1, <2>2, <2>3
<1>10. run' \in [Runners -> Runs] /\ Kept
  <2> HIDE DEF Kept
  <2> QED
    BY StepCases, <1>5, <1>6, <1>7, <1>8, <1>9
<1>11. \A w \in Runners : run'[w].month \in 0..Month(clock')
  <2>1. \A w \in Runners : run'[w].month \in 0..Month(clock)
    BY <1>10
  <2> QED
    BY <1>2, <2>1
<1>12. \A w \in Runners : /\ run'[w].todo \subseteq run'[w].listed
                          /\ run'[w].at \in {"read", "upsert"} => run'[w].todo # {}
  BY <1>10
<1>13. run' \in [Runners -> Runs]
  BY <1>10
<1> HIDE DEF Kept
<1> QED
  BY <1>1, <1>3, <1>4, <1>11, <1>12, <1>13 DEF Shapes, Copying
-----------------------------------------------------------------------------
(* The invariant.                                                          *)

(* What a run has copied, or read, is not ahead of the counters.           *)
Truthful(w) ==
  /\ run[w].at = "upsert" => AtMost(run[w].counts, tallies[InHand(w)])
  /\ Copying(w) => \A m \in Movies : AtMost(run[w].base[m], tallies[m])

(* A run that no other is beside has written what it has left behind it,   *)
(* and what it is about to write is not below what it found.               *)
Written(w) ==
  \A m \in run[w].listed \ run[w].todo :
    snapshots[run[w].month][m] # None /\ AtMost(run[w].base[m], snapshots[run[w].month][m])
Writable(w) ==
  /\ AtMost(run[w].base[InHand(w)], run[w].counts)
  /\ snapshots[run[w].month][InHand(w)] # None =>
       AtMost(snapshots[run[w].month][InHand(w)], run[w].counts)
Alone(w) == Copying(w) /\ ~run[w].shared => Written(w) /\ (run[w].at = "upsert" => Writable(w))

(* Two runs at work on one month know of each other.                       *)
Company ==
  \A v, w \in Runners :
    v # w /\ Copying(v) /\ Copying(w) /\ run[v].month = run[w].month => run[v].shared

RunInv == /\ Shapes
          /\ RowsTrailTallies
          /\ \A w \in Runners : Truthful(w) /\ Alone(w)
          /\ Company

LEMMA AtMostTrans ==
  ASSUME NEW a \in Counted, NEW b \in Counted, NEW d \in Counted, AtMost(a, b), AtMost(b, d)
  PROVE  AtMost(a, d)
BY DEF AtMost, Counted

(* What a step does to one runner.                                         *)
GoesOn(w) ==
  /\ run'[w].at = run[w].at /\ run'[w].month = run[w].month
  /\ run'[w].listed = run[w].listed /\ run'[w].todo = run[w].todo
  /\ run'[w].counts = run[w].counts /\ run'[w].base = run[w].base
  /\ run[w].shared => run'[w].shared
  /\ VotesGrow \/ UNCHANGED tallies
  /\ UNCHANGED snapshots \/ \E v \in Runners \ {w} : Writes(v)
Lists(w) ==
  /\ run'[w].at = "read" /\ run'[w].listed = run'[w].todo /\ run'[w].base = tallies
  /\ UNCHANGED <<tallies, snapshots>>
Reads(w) ==
  /\ run[w].at = "read"
  /\ run'[w] = [run[w] EXCEPT !.at = "upsert", !.counts = tallies[InHand(w)]]
  /\ InHand(w)' = InHand(w)
  /\ UNCHANGED <<tallies, snapshots>>
Upserts(w) ==
  /\ Writes(w)
  /\ run'[w] = [run[w] EXCEPT !.at = "read", !.todo = @ \ {InHand(w)}]
  /\ UNCHANGED tallies

LEMMA Fates ==
  ASSUME Shapes, [Next]_vars, NEW w \in Runners
  PROVE  GoesOn(w) \/ Lists(w) \/ Reads(w) \/ Upserts(w) \/ Resting(run'[w], Month(clock))
<1> USE DEF GoesOn
<1>1. CASE Settles /\ UNCHANGED <<tallies, snapshots>>
  BY <1>1 DEF Settles
<1>2. CASE VotesGrow /\ UNCHANGED <<snapshots, run>>
  BY <1>2
<1>3. ASSUME Settles, UNCHANGED tallies,
             NEW v \in Runners, Writes(v), Resting(run'[v], Month(clock))
      PROVE  GoesOn(w) \/ Resting(run'[w], Month(clock))
  BY <1>3 DEF Settles
<1>4. ASSUME NEW v \in Runners, ListMovieIDs(v)
      PROVE  GoesOn(w) \/ Lists(w) \/ Resting(run'[w], Month(clock))
  <2>1. UNCHANGED <<tallies, snapshots>>
    BY <1>4 DEF ListMovieIDs, ledger
  <2>2. CASE Settles
    BY <2>1, <2>2 DEF Settles
  <2>3. CASE v = w /\ ~Settles
    BY <1>4, <2>1, <2>3, ListEffect DEF Lists
  <2>4. CASE v # w /\ ~Settles
    <3>1. run'[w] = [run[w] EXCEPT !.shared = @ \/ w \in Beside(v)]
      BY <1>4, <2>4, ListEffect
    <3>2. /\ run'[w].at = run[w].at /\ run'[w].month = run[w].month
          /\ run'[w].listed = run[w].listed /\ run'[w].todo = run[w].todo
          /\ run'[w].counts = run[w].counts /\ run'[w].base = run[w].base
          /\ run'[w].shared = (run[w].shared \/ w \in Beside(v))
      BY <3>1 DEF Shapes, Runs
    <3> QED
      BY <2>1, <3>2
  <2> QED
    BY <2>2, <2>3, <2>4
<1>5. ASSUME NEW v \in Runners, ReadTallies(v) PROVE GoesOn(w) \/ Reads(w)
  <2>1. UNCHANGED <<tallies, snapshots>> /\ run[v].at = "read"
    BY <1>5 DEF ReadTallies, ledger
  <2> QED
    BY <1>5, <2>1, ReadEffect DEF Reads
<1>6. ASSUME NEW v \in Runners, UpsertSnapshot(v)
      PROVE  GoesOn(w) \/ Upserts(w) \/ Resting(run'[w], Month(clock))
  <2>1. UNCHANGED tallies
    BY <1>6 DEF UpsertSnapshot, ledger
  <2> QED
    BY <1>6, <2>1, UpsertEffect DEF Upserts
<1> HIDE DEF GoesOn
<1> QED
  BY StepCases, <1>1, <1>2, <1>3, <1>4, <1>5, <1>6
-----------------------------------------------------------------------------
(* The invariant holds at first, and every step keeps each of its parts.   *)

LEMMA InitRunInv == Init => RunInv
<1> SUFFICES ASSUME Init PROVE RunInv
  OBVIOUS
<1>1. Shapes
  BY InitShapes
<1>2. \A w \in Runners : ~Copying(w) /\ run[w].at # "upsert"
  <2>1. Month(0) \in Nat
    BY MonthsGrow
  <2>2. \A w \in Runners : Started(w).at \in {"seed", "list"}
    BY <2>1, RunShape DEF Started, Init, Places
  <2> QED
    BY <2>2 DEF Init, Copying
<1>3. RowsTrailTallies
  BY DEF Init, RowsTrailTallies
<1> QED
  BY <1>1, <1>2, <1>3 DEF RunInv, Truthful, Alone, Company

LEMMA CompanyStays == ASSUME Shapes, Company, [Next]_vars PROVE Company'
<1> SUFFICES ASSUME NEW v \in Runners, NEW w \in Runners, v # w,
                    run'[v].at \in {"read", "upsert"}, run'[w].at \in {"read", "upsert"},
                    run'[v].month = run'[w].month
             PROVE  run'[v].shared
  BY DEF Company, Copying
<1> DEFINE Keeps(x) == /\ Copying(x) /\ run'[x].month = run[x].month
                       /\ run'[x].shared = run[x].shared
<1>1. ASSUME Keeps(v), Keeps(w) PROVE run'[v].shared
  BY <1>1 DEF Company
<1>2. CASE Settles
  BY <1>1, <1>2 DEF Settles, Resting, Copying
<1>3. CASE UNCHANGED run
  BY <1>1, <1>3 DEF Copying
<1>4. ASSUME NEW u \in Runners, ListMovieIDs(u), ~Settles PROVE run'[v].shared
  <2>1. /\ run'[u].month = run[u].month
        /\ run'[u].shared = (Beside(u) # {})
        /\ \A x \in Runners \ {u} : run'[x] = [run[x] EXCEPT !.shared = @ \/ x \in Beside(u)]
    BY <1>4, ListEffect
  <2>2. \A x \in Runners \ {u} : /\ run'[x].at = run[x].at /\ run'[x].month = run[x].month
                                 /\ run'[x].shared = (run[x].shared \/ x \in Beside(u))
    BY <2>1 DEF Shapes, Runs
  <2>3. CASE u = v
    BY <2>1, <2>2, <2>3 DEF Beside
  <2>4. CASE u = w
    BY <2>1, <2>2, <2>4 DEF Beside
  <2>5. CASE u # v /\ u # w
    BY <2>2, <2>5 DEF Company, Copying
  <2> QED
    BY <2>3, <2>4, <2>5
<1>5. ASSUME NEW u \in Runners, ReadTallies(u) PROVE Keeps(v) /\ Keeps(w)
  <2>1. /\ run'[u] = [run[u] EXCEPT !.at = "upsert", !.counts = tallies[InHand(u)]]
        /\ \A x \in Runners \ {u} : run'[x] = run[x]
        /\ Copying(u)
    BY <1>5, ReadEffect DEF ReadTallies, Copying
  <2>2. run'[u].month = run[u].month /\ run'[u].shared = run[u].shared
    BY <2>1 DEF Shapes, Runs
  <2> QED
    BY <2>1, <2>2 DEF Copying
<1>6. ASSUME NEW u \in Runners, UpsertSnapshot(u) PROVE Keeps(v) /\ Keeps(w)
  <2>1. /\ Copying(u)
        /\ \A x \in Runners \ {u} : run'[x] = run[x]
        /\ \/ Resting(run'[u], Month(clock))
           \/ run'[u] = [run[u] EXCEPT !.at = "read", !.todo = @ \ {InHand(u)}]
    BY <1>6, UpsertEffect DEF UpsertSnapshot, Copying
  <2>2. \/ Resting(run'[u], Month(clock))
        \/ run'[u].month = run[u].month /\ run'[u].shared = run[u].shared
    BY <2>1 DEF Shapes, Runs
  <2> QED
    BY <2>1, <2>2 DEF Copying, Resting
<1> HIDE DEF Keeps
<1> QED
  BY StepCases, <1>1, <1>2, <1>3, <1>4, <1>5, <1>6

LEMMA RowsOrCounters ==
  ASSUME Shapes, [Next]_vars
  PROVE  /\ VotesGrow \/ UNCHANGED tallies
         /\ UNCHANGED snapshots \/ \E w \in Runners : Writes(w) /\ UNCHANGED tallies
BY StepCases, UpsertEffect DEF ListMovieIDs, ReadTallies, UpsertSnapshot, ledger

LEMMA RowsStay == ASSUME RunInv, [Next]_vars PROVE RowsTrailTallies'
<1> SUFFICES ASSUME NEW n \in Months, NEW m \in Movies, snapshots'[n][m] # None
             PROVE  \A c \in Categories : snapshots'[n][m][c] <= tallies'[m][c]
  BY DEF RowsTrailTallies, AtMost
<1>0. Shapes
  BY DEF RunInv
<1>1. CASE UNCHANGED snapshots
  <2>1. AtMost(snapshots[n][m], tallies[m]) /\ snapshots[n][m] \in Counted
    BY <1>0, <1>1 DEF RunInv, RowsTrailTallies, Shapes
  <2> QED
    BY <1>0, <1>1, <2>1, RowsOrCounters DEF VotesGrow, Shapes, AtMost, Counted
<1>2. ASSUME NEW w \in Runners, Writes(w), UNCHANGED tallies
      PROVE  \A c \in Categories : snapshots'[n][m][c] <= tallies'[m][c]
  <2>1. CASE n = run[w].month /\ m = InHand(w)
    <3>1. snapshots'[n][m] = run[w].counts
      BY <1>0, <1>2, <2>1, WriteEffect
    <3>2. AtMost(run[w].counts, tallies[m])
      BY <1>2, <2>1 DEF RunInv, Truthful, Writes
    <3> QED
      BY <1>2, <3>1, <3>2 DEF AtMost
  <2>2. CASE ~(n = run[w].month /\ m = InHand(w))
    <3>1. snapshots'[n][m] = snapshots[n][m]
      BY <1>0, <1>2, <2>2, WriteEffect
    <3> QED
      BY <1>2, <3>1 DEF RunInv, RowsTrailTallies, AtMost
  <2> QED
    BY <2>1, <2>2
<1> QED
  BY <1>0, <1>1, <1>2, RowsOrCounters

LEMMA TruthStays ==
  ASSUME RunInv, [Next]_vars, NEW w \in Runners
  PROVE  Truthful(w)'
<1>0. /\ Shapes /\ Truthful(w) /\ run[w] \in Runs /\ tallies \in [Movies -> Counted]
      /\ InHand(w)' = LeastIn(run'[w].todo) /\ InHand(w) = LeastIn(run[w].todo)
  BY InHandIsLeast, InHandIsLeastNext DEF RunInv, Shapes
<1>1. CASE Resting(run'[w], Month(clock))
  BY <1>1 DEF Truthful, Copying, Resting
<1>2. CASE GoesOn(w)
  <2>1. /\ run'[w].at = run[w].at /\ run'[w].todo = run[w].todo
        /\ run'[w].counts = run[w].counts /\ run'[w].base = run[w].base
        /\ VotesGrow \/ UNCHANGED tallies
    BY <1>2 DEF GoesOn
  <2>2. InHand(w)' = InHand(w) /\ (run[w].at = "upsert" => InHand(w) \in Movies)
    BY <1>0, <2>1, InHandLeft DEF Copying
  <2>3. \A m \in Movies, c \in Categories : /\ tallies[m][c] <= tallies'[m][c]
                                            /\ tallies[m][c] \in Nat /\ tallies'[m][c] \in Nat
    BY <1>0, <2>1 DEF VotesGrow, Counted
  <2>4. run[w].counts \in Counted /\ run[w].base \in [Movies -> Counted]
    BY <1>0 DEF Runs
  <2>5. ASSUME run'[w].at = "upsert", NEW c \in Categories
        PROVE  run'[w].counts[c] <= tallies'[InHand(w)'][c]
    BY <1>0, <2>1, <2>2, <2>3, <2>4, <2>5 DEF Truthful, AtMost, Counted
  <2>6. ASSUME run'[w].at \in {"read", "upsert"}, NEW m \in Movies, NEW c \in Categories
        PROVE  run'[w].base[m][c] <= tallies'[m][c]
    BY <1>0, <2>1, <2>3, <2>4, <2>6 DEF Truthful, Copying, AtMost, Counted
  <2> QED
    BY <2>5, <2>6 DEF Truthful, Copying, AtMost
<1>3. CASE Lists(w)
  BY <1>0, <1>3 DEF Lists, Truthful, Copying, AtMost, Counted
<1>4. CASE Reads(w)
  <2>1. /\ run'[w].at = "upsert" /\ run'[w].counts = tallies[InHand(w)]
        /\ run'[w].base = run[w].base /\ run[w].at = "read"
        /\ InHand(w)' = InHand(w) /\ tallies' = tallies
    BY <1>0, <1>4 DEF Reads, Runs
  <2>2. InHand(w) \in Movies
    BY <1>0, <2>1, InHandLeft DEF Copying
  <2> QED
    BY <1>0, <2>1, <2>2 DEF Truthful, Copying, AtMost, Counted
<1>5. CASE Upserts(w)
  <2>1. /\ run'[w].at = "read" /\ run'[w].base = run[w].base /\ tallies' = tallies
        /\ Copying(w)
    BY <1>0, <1>5 DEF Upserts, Writes, Copying, Runs
  <2> QED
    BY <1>0, <2>1 DEF Truthful, Copying, AtMost
<1> QED
  BY <1>0, <1>1, <1>2, <1>3, <1>4, <1>5, Fates

LEMMA AloneStays ==
  ASSUME RunInv, [Next]_vars, NEW w \in Runners
  PROVE  Alone(w)'
<1>0. /\ Shapes /\ Truthful(w) /\ Alone(w) /\ Company /\ RowsTrailTallies
      /\ run[w] \in Runs /\ tallies \in [Movies -> Counted]
      /\ InHand(w)' = LeastIn(run'[w].todo) /\ InHand(w) = LeastIn(run[w].todo)
      /\ run[w].month \in Months /\ run[w].listed \subseteq Movies
  BY InHandIsLeast, InHandIsLeastNext, MonthOfRun DEF RunInv, Shapes, Runs
<1>1. CASE Resting(run'[w], Month(clock))
  BY <1>1 DEF Alone, Copying, Resting
<1>2. CASE GoesOn(w)
  <2>1. /\ run'[w].at = run[w].at /\ run'[w].month = run[w].month
        /\ run'[w].listed = run[w].listed /\ run'[w].todo = run[w].todo
        /\ run'[w].counts = run[w].counts /\ run'[w].base = run[w].base
        /\ run[w].shared => run'[w].shared
        /\ UNCHANGED snapshots \/ \E v \in Runners \ {w} : Writes(v)
        /\ InHand(w)' = InHand(w)
    BY <1>0, <1>2 DEF GoesOn
  <2>2. SUFFICES ASSUME Copying(w), ~run[w].shared PROVE Alone(w)'
    BY <2>1 DEF Alone, Copying
  <2>3. \A m \in Movies : snapshots'[run[w].month][m] = snapshots[run[w].month][m]
    <3>1. ASSUME NEW v \in Runners \ {w}, Writes(v)
          PROVE  \A m \in Movies : snapshots'[run[w].month][m] = snapshots[run[w].month][m]
      <4>1. run[v].month # run[w].month
        BY <1>0, <2>2, <3>1 DEF Company, Writes, Copying
      <4> QED
        BY <1>0, <3>1, <4>1, WriteEffect
    <3> QED
      BY <2>1, <3>1
  <2>4. Written(w) /\ (run[w].at = "upsert" => Writable(w))
    BY <1>0, <2>2 DEF Alone
  <2>5. Written(w)'
    BY <1>0, <2>1, <2>3, <2>4 DEF Written, AtMost
  <2>6. run[w].at = "upsert" => InHand(w) \in Movies
    BY <1>0, InHandLeft DEF Copying
  <2>7. run[w].at = "upsert" => Writable(w)'
    BY <2>1, <2>3, <2>4, <2>6 DEF Writable, AtMost
  <2> QED
    BY <2>1, <2>5, <2>7 DEF Alone
<1>3. CASE Lists(w)
  BY <1>3 DEF Lists, Alone, Written
<1>4. CASE Reads(w)
  <2>1. /\ run'[w].at = "upsert" /\ run'[w].counts = tallies[InHand(w)]
        /\ run'[w].base = run[w].base /\ run[w].at = "read" /\ run'[w].month = run[w].month
        /\ run'[w].listed = run[w].listed /\ run'[w].todo = run[w].todo
        /\ run'[w].shared = run[w].shared
        /\ InHand(w)' = InHand(w) /\ snapshots' = snapshots
    BY <1>0, <1>4 DEF Reads, Runs
  <2>2. InHand(w) \in Movies
    BY <1>0, <2>1, InHandLeft DEF Copying
  <2>3. AtMost(run[w].base[InHand(w)], tallies[InHand(w)])
    BY <1>0, <2>1, <2>2 DEF Truthful, Copying
  <2>4. snapshots[run[w].month][InHand(w)] # None =>
          AtMost(snapshots[run[w].month][InHand(w)], tallies[InHand(w)])
    BY <1>0, <2>2 DEF RowsTrailTallies
  <2>5. Writable(w)'
    BY <2>1, <2>3, <2>4 DEF Writable, AtMost
  <2>6. ~run[w].shared => Written(w)
    BY <1>0, <2>1 DEF Alone, Copying
  <2>7. Written(w) => Written(w)'
    BY <2>1 DEF Written, AtMost
  <2> QED
    BY <2>1, <2>5, <2>6, <2>7 DEF Alone
<1>5. CASE Upserts(w)
  <2>1. /\ run'[w].at = "read" /\ run'[w].base = run[w].base /\ run'[w].month = run[w].month
        /\ run'[w].listed = run[w].listed /\ run'[w].todo = run[w].todo \ {InHand(w)}
        /\ run'[w].shared = run[w].shared /\ Writes(w) /\ Copying(w) /\ run[w].at = "upsert"
    BY <1>0, <1>5 DEF Upserts, Writes, Copying, Runs
  <2>2. SUFFICES ASSUME ~run[w].shared PROVE Written(w)'
    BY <2>1 DEF Alone
  <2>3. Written(w) /\ Writable(w)
    BY <1>0, <2>1, <2>2 DEF Alone
  <2>4. /\ snapshots'[run[w].month][InHand(w)] = run[w].counts
        /\ \A m \in Movies : m # InHand(w) =>
             snapshots'[run[w].month][m] = snapshots[run[w].month][m]
    BY <1>0, <2>1, WriteEffect
  <2>5. run[w].counts # None
    BY <1>0, NoneAssumption DEF Runs, Counted
  <2>6. ASSUME NEW m \in run'[w].listed \ run'[w].todo
        PROVE  /\ snapshots'[run[w].month][m] # None
               /\ \A c \in Categories : run[w].base[m][c] <= snapshots'[run[w].month][m][c]
    <3>1. CASE m = InHand(w)
      BY <2>3, <2>4, <2>5, <3>1 DEF Writable, AtMost
    <3>2. CASE m # InHand(w)
      <4>1. m \in run[w].listed \ run[w].todo /\ m \in Movies
        BY <1>0, <2>1, <2>6, <3>2
      <4> QED
        BY <2>3, <2>4, <3>2, <4>1 DEF Written, AtMost
    <3> QED
      BY <3>1, <3>2
  <2> QED
    BY <2>1, <2>6 DEF Written, AtMost
<1> QED
  BY <1>0, <1>1, <1>2, <1>3, <1>4, <1>5, Fates

LEMMA StepRunInv == ASSUME RunInv, [Next]_vars PROVE RunInv'
<1>1. Shapes' /\ RowsTrailTallies' /\ Company'
  BY StepShapes, RowsStay, CompanyStays DEF RunInv
<1>2. \A w \in Runners : Truthful(w)' /\ Alone(w)'
  BY TruthStays, AloneStays
<1> QED
  BY <1>1, <1>2 DEF RunInv
-----------------------------------------------------------------------------
(* The theorems.                                                           *)

LEMMA RunInvariant == Spec => []RunInv
BY InitRunInv, StepRunInv, PTL DEF Spec

(* Every reachable state is well formed: a run that reads or writes has a  *)
(* movie of its list left to do, and its month has begun.                  *)
THEOREM TypeCorrect == Spec => []TypeOK
<1>1. RunInv => TypeOK
  BY ShapesAreTypes DEF RunInv
<1> QED
  BY <1>1, RunInvariant, PTL

(* No row of a snapshot shows a vote that its movie was not given,         *)
(* whatever is counted while the job reads and writes.                     *)
THEOREM RowsTrail == Spec => []RowsTrailTallies
<1>1. RunInv => RowsTrailTallies
  BY DEF RunInv
<1> QED
  BY <1>1, RunInvariant, PTL

(* A row is rewritten only with counts at least as high, as long as one    *)
(* run at a time is at work on its month.                                  *)
THEOREM RowsGrow == Spec => RowsOnlyGrow
<1>1. ASSUME RunInv, [Next]_vars, NEW n \in Months, NEW m \in Movies, snapshots[n][m] # None,
             \A w \in Runners : run[w].month = n => ~run[w].shared
      PROVE  snapshots'[n][m] # None /\ \A c \in Categories : snapshots[n][m][c] <= snapshots'[n][m][c]
  <2>0. Shapes /\ snapshots[n][m] \in Counted
    BY <1>1 DEF RunInv, Shapes
  <2>1. CASE snapshots'[n][m] = snapshots[n][m]
    BY <1>1, <2>0, <2>1 DEF Counted
  <2>2. ASSUME NEW w \in Runners, Writes(w), n = run[w].month, m = InHand(w)
        PROVE  snapshots'[n][m] # None /\ \A c \in Categories : snapshots[n][m][c] <= snapshots'[n][m][c]
    <3>1. snapshots'[n][m] = run[w].counts
      BY <2>0, <2>2, WriteEffect
    <3>2. Writable(w)
      BY <1>1, <2>2 DEF RunInv, Alone, Writes, Copying
    <3>3. run[w].counts # None
      BY <2>0, NoneAssumption DEF Shapes, Runs, Counted
    <3> QED
      BY <1>1, <2>2, <3>1, <3>2, <3>3 DEF Writable, AtMost
  <2>3. \/ snapshots'[n][m] = snapshots[n][m]
        \/ \E w \in Runners : Writes(w) /\ n = run[w].month /\ m = InHand(w)
    <3>1. ASSUME NEW w \in Runners, Writes(w), ~(n = run[w].month /\ m = InHand(w))
          PROVE  snapshots'[n][m] = snapshots[n][m]
      BY <2>0, <3>1, WriteEffect
    <3> QED
      BY <1>1, <2>0, <3>1, RowsOrCounters
  <2> QED
    BY <2>1, <2>2, <2>3
<1>2. RunInv /\ [Next]_vars =>
        [\A n \in Months, m \in Movies :
           snapshots[n][m] # None =>
             \/ snapshots'[n][m] # None /\ AtMost(snapshots[n][m], snapshots'[n][m])
             \/ \E w \in Runners : run[w].month = n /\ run[w].shared]_vars
  BY <1>1 DEF AtMost
<1> QED
  BY InitRunInv, StepRunInv, <1>2, PTL DEF Spec, RowsOnlyGrow

(* A run that ends without an error in this step does so with its last     *)
(* upsert.                                                                 *)
LEMMA CompletesByUpsert ==
  ASSUME Shapes, [Next]_vars, NEW w \in Runners, Completes(w)
  PROVE  UpsertSnapshot(w)
<1>0. run[w].at = "upsert" /\ run'[w].at \in {"timer", "done"} /\ faults' = faults /\ faults \in Nat
  BY DEF Completes, Shapes
<1>1. ASSUME NEW v \in Runners, Arm(v) \/ Fire(v) PROVE FALSE
  <2>1. run[v].at \in {"seed", "timer"} /\ v # w
    BY <1>0, <1>1 DEF Arm, Fire, Due
  <2>2. run'[w] = run[w]
    BY <1>1, <2>1 DEF Arm, Fire, Shapes
  <2> QED
    BY <1>0, <2>2
<1>2. ASSUME NEW v \in Runners, ListMovieIDs(v) PROVE FALSE
  <2>1. run[v].at = "list" /\ v # w
    BY <1>0, <1>2 DEF ListMovieIDs
  <2>2. \/ run' = [run EXCEPT ![v] = Finished(v)]
        \/ run'[w] = [run[w] EXCEPT !.shared = @ \/ w \in Beside(v)]
    BY <1>2, <2>1 DEF ListMovieIDs
  <2>3. run'[w].at = run[w].at
    BY <2>1, <2>2 DEF Shapes, Runs
  <2> QED
    BY <1>0, <2>3
<1>3. ASSUME NEW v \in Runners, ReadTallies(v) PROVE FALSE
  BY <1>0, <1>3, ReadEffect DEF ReadTallies
<1>4. ASSUME NEW v \in Runners, UpsertSnapshot(v) PROVE v = w
  BY <1>0, <1>4, UpsertEffect
<1>5. ASSUME \/ \E v \in Runners : SnapshotFails(v)
             \/ Stop
      PROVE  FALSE
  BY <1>0, <1>5 DEF SnapshotFails, Stop, Faulty
<1>6. ASSUME Start PROVE FALSE
  <2>1. Month(clock) \in Nat
    BY MonthsGrow DEF Shapes
  <2>2. Started(w).at \in {"seed", "list"}
    BY <2>1, RunShape DEF Started, Places
  <2> QED
    BY <1>0, <1>6, <2>2 DEF Start
<1>7. ASSUME UNCHANGED run PROVE FALSE
  BY <1>0, <1>7
<1>8. ASSUME \/ \E m \in Voted, c \in Categories : Vote(m, c)
             \/ \E m \in Movies, d \in ReleaseDays : SyncMovie(m, d)
             \/ Tick \/ UNCHANGED vars
      PROVE  UNCHANGED run
  BY <1>8 DEF Vote, SyncMovie, Tick, vars
<1> QED
  BY <1>1, <1>2, <1>3, <1>4, <1>5, <1>6, <1>7, <1>8 DEF Next, AdvanceRun

(* A run that ends without an error has left, for every movie it listed, a *)
(* row with all the votes counted when it listed them.                     *)
THEOREM RunsCover == Spec => CompletedRunCoversMonth
<1>1. ASSUME RunInv, [Next]_vars, NEW w \in Runners, Completes(w), ~run[w].shared,
             NEW m \in run[w].listed
      PROVE  /\ snapshots'[run[w].month][m] # None
             /\ \A c \in Categories : run[w].base[m][c] <= snapshots'[run[w].month][m][c]
  <2>0. Shapes /\ run[w] \in Runs /\ run[w].month \in Months /\ m \in Movies
    BY <1>1, MonthOfRun DEF RunInv, Shapes, Runs
  <2>1. UpsertSnapshot(w)
    BY <1>1, <2>0, CompletesByUpsert
  <2>2. Writes(w) /\ run[w].todo = {InHand(w)}
    <3>1. run'[w].at # "read"
      BY <1>1 DEF Completes
    <3>2. run'[w] = [run[w] EXCEPT !.at = "read", !.todo = @ \ {InHand(w)}] => run'[w].at = "read"
      BY <2>0 DEF Runs
    <3> QED
      BY <2>0, <2>1, <3>1, <3>2, UpsertEffect
  <2>3. Written(w) /\ Writable(w)
    BY <1>1, <2>2 DEF RunInv, Alone, Writes, Copying
  <2>4. run[w].counts # None
    BY <2>0, NoneAssumption DEF Runs, Counted
  <2>5. CASE m = InHand(w)
    BY <2>0, <2>2, <2>3, <2>4, <2>5, WriteEffect DEF Writable, AtMost
  <2>6. CASE m # InHand(w)
    <3>1. snapshots'[run[w].month][m] = snapshots[run[w].month][m]
      BY <2>0, <2>2, <2>6, WriteEffect
    <3>2. m \in run[w].listed \ run[w].todo
      BY <1>1, <2>2, <2>6
    <3> QED
      BY <2>3, <3>1, <3>2 DEF Written, AtMost
  <2> QED
    BY <2>5, <2>6
<1>2. RunInv /\ [Next]_vars =>
        [\A w \in Runners :
           Completes(w) /\ ~run[w].shared =>
             \A m \in run[w].listed :
               LET row == snapshots'[run[w].month][m] IN
               row # None /\ AtMost(run[w].base[m], row)]_vars
  BY <1>1 DEF AtMost
<1> QED
  BY InitRunInv, StepRunInv, <1>2, PTL DEF Spec, CompletedRunCoversMonth
=============================================================================
