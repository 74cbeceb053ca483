----------------------------- MODULE SnapshotJob -----------------------------
(***************************************************************************)
(* The snapshot job beside the vote handler: SnapshotMonth copies the      *)
(* counters of a month's movies into the table snapshots, one movie at a   *)
(* time and without a transaction, while votes keep coming in.  The votes  *)
(* follow VoteLedger, which the vote handler implements.                   *)
(*                                                                         *)
(* Two runners may be at work: the monthly timer, which fires at 00:05 on  *)
(* the first and snapshots the month before, and in test mode one run over *)
(* the current month at every start of the process.                        *)
(***************************************************************************)
EXTENDS Integers, FiniteSets

CONSTANTS Movies,        \* movie ids, numbers
          Fingerprints,  \* voter fingerprints
          Categories,    \* model.AllowedCategories
          ReleaseDays,   \* release dates TMDb may report
          MonthDays,     \* days per month of the clock
          TestMode,      \* TMDB_TEST_MODE
          Voted,         \* bound: the movies that get votes
          MaxDay,        \* bound: last day of the clock
          MaxFaults,     \* bound: failures in one behaviour
          None           \* an absent row

ASSUME MoviesAssumption == Movies \subseteq Nat /\ IsFiniteSet(Movies) /\ Voted \subseteq Movies
ASSUME DaysAssumption == ReleaseDays \subseteq Nat /\ MonthDays \in Nat \ {0}
ASSUME BoundsAssumption == MaxDay \in Nat /\ MaxFaults \in Nat
ASSUME TestModeAssumption == TestMode \in BOOLEAN
ASSUME NoneAssumption == None \notin [Categories -> Nat]

VARIABLES release,       \* movies: release[m] is its release date, None without a row
          votes,         \* votes: votes[m][f] is the category of the row, or None
          tallies,       \* vote_tallies: tallies[m][c], 0 without a row
          clock,         \* the day time.Now() reports
          snapshots,     \* snapshots[month][movie]: the counts of the row, or None
          run,           \* run[w]: what runner w is doing
          missed,        \* not in the code: the months whose run failed or never began
          faults         \* failures so far

ledger == <<votes, tallies>>
vars == <<release, ledger, clock, snapshots, run, missed, faults>>

Ledger == INSTANCE VoteLedger WITH ballots <- votes, counts <- tallies

Runners == {"monthly"} \cup (IF TestMode THEN {"test"} ELSE {})

Month(day) == day \div MonthDays
Months == 0..Month(MaxDay)

(* A run: its month, the movies listed and those left, and the counts read *)
(* for the movie in hand.  The properties need two things that are not in  *)
(* the code: "base", the counters at the time of the list, and "shared",   *)
(* whether another run was at work on the same month.                      *)
Zeros == [c \in Categories |-> 0]
Run(at, month) == [at |-> at, month |-> month, listed |-> {}, todo |-> {},
                   counts |-> Zeros, base |-> [m \in Movies |-> Zeros],
                   shared |-> FALSE]

(* On day d the timer is set for the first of the next month, and the      *)
(* month it will snapshot is the one before, that is the month of d.       *)
ArmedPastShortMonth(d) == Run("timer", Month(d + 1))
Armed(d) == Run("timer", Month(d))

(* main sets the timer only after the seed, which asks TMDb for all pages. *)
Started(w) == Run(IF w = "monthly" THEN "seed" ELSE "list", Month(clock))
Finished(w) == IF w = "monthly" THEN Armed(clock) ELSE Run("done", 0)

Healthy == UNCHANGED faults
Faulty == faults < MaxFaults /\ faults' = faults + 1

Init == /\ Ledger!Init
        /\ release = [m \in Movies |-> None]
        /\ clock = 0
        /\ snapshots = [n \in Months |-> [m \in Movies |-> None]]
        /\ run = [w \in Runners |-> Started(w)]
        /\ missed = {}
        /\ faults = 0
-----------------------------------------------------------------------------
(* SnapshotMonth.                                                          *)

Arm(w) ==
  /\ run[w].at = "seed"
  /\ run' = [run EXCEPT ![w] = Armed(clock)]
  /\ UNCHANGED <<release, ledger, clock, snapshots, missed, faults>>

Due(w) == run[w].at = "timer" /\ Month(clock) > run[w].month
Running(w) == run[w].at \in {"list", "read", "upsert"}

Fire(w) ==
  /\ Due(w)
  /\ run' = [run EXCEPT ![w].at = "list"]
  /\ UNCHANGED <<release, ledger, clock, snapshots, missed, faults>>

OfMonth(n) == {m \in Movies : release[m] # None /\ Month(release[m]) = n}

Continue(w, todo) == IF todo = {} THEN Finished(w)
                     ELSE [run[w] EXCEPT !.at = "read", !.todo = todo]

Beside(w) == {v \in Runners \ {w} : /\ run[v].month = run[w].month
                                    /\ run[v].at \in {"read", "upsert"}}

ListMovieIDs(w) ==
  LET ids == OfMonth(run[w].month) IN
  /\ run[w].at = "list"
  /\ \/ ids = {} /\ run' = [run EXCEPT ![w] = Finished(w)]
     \/ /\ ids # {}
        /\ run' = [v \in Runners |->
             IF v = w THEN [run[w] EXCEPT !.at = "read", !.listed = ids, !.todo = ids,
                                          !.base = tallies, !.shared = Beside(w) # {}]
             ELSE [run[v] EXCEPT !.shared = @ \/ v \in Beside(w)]]
  /\ UNCHANGED <<release, ledger, clock, snapshots, missed, faults>>

(* The ids come ORDER BY id, so the least one left is next.                *)
InHand(w) == CHOOSE m \in run[w].todo : \A o \in run[w].todo : m <= o

(* GetTalliesByMovie over a map of zeroes made anew for every movie.       *)
CountsOverLast(w) == [c \in Categories |->
  IF tallies[InHand(w)][c] = 0 THEN run[w].counts[c] ELSE tallies[InHand(w)][c]]
CountsOf(w) == tallies[InHand(w)]

ReadTallies(w) ==
  /\ run[w].at = "read"
  /\ run' = [run EXCEPT ![w].at = "upsert", ![w].counts = CountsOf(w)]
  /\ UNCHANGED <<release, ledger, clock, snapshots, missed, faults>>

(* INSERT ... ON CONFLICT (month, movie_id) DO UPDATE.                      *)
UpsertedOnce(n, m, counts) ==
  IF snapshots[n][m] # None THEN snapshots ELSE [snapshots EXCEPT ![n][m] = counts]
Upserted(n, m, counts) == [snapshots EXCEPT ![n][m] = counts]

UpsertSnapshot(w) ==
  /\ run[w].at = "upsert"
  /\ snapshots' = Upserted(run[w].month, InHand(w), run[w].counts)
  /\ run' = [run EXCEPT ![w] = Continue(w, run[w].todo \ {InHand(w)})]
  /\ UNCHANGED <<release, ledger, clock, missed, faults>>

(* The month that w would leave without its run if it ended here.          *)
Owed(w) == IF w = "monthly" /\ (Running(w) \/ Due(w)) THEN {run[w].month} ELSE {}

(* The first error ends the run; what it wrote stays and nothing retries.  *)
(* The failed upsert may have committed.                                   *)
SnapshotFails(w) ==
  /\ Running(w)
  /\ run' = [run EXCEPT ![w] = Finished(w)]
  /\ missed' = missed \cup Owed(w)
  /\ Faulty
  /\ \/ UNCHANGED snapshots
     \/ /\ run[w].at = "upsert"
        /\ snapshots' = Upserted(run[w].month, InHand(w), run[w].counts)
  /\ UNCHANGED <<release, ledger, clock>>

(* The process stops at any moment; nothing of the job survives but rows.  *)
Stop ==
  /\ run["monthly"].at # "down"
  /\ Faulty
  /\ run' = [w \in Runners |-> Run("down", 0)]
  /\ missed' = missed \cup Owed("monthly")
  /\ UNCHANGED <<release, ledger, clock, snapshots>>

(* In test mode a start snapshots the month of the day at once.            *)
Start ==
  /\ run["monthly"].at = "down"
  /\ run' = [w \in Runners |-> Started(w)]
  /\ UNCHANGED <<release, ledger, clock, snapshots, missed, faults>>
-----------------------------------------------------------------------------
(* What goes on beside the job.                                            *)

(* A vote is recorded, or counted.  Only a movie with a row gets votes.    *)
Vote(m, c) ==
  /\ release[m] # None
  /\ Ledger!Count(m, c) \/ \E f \in Fingerprints : Ledger!Cast(m, f, c)
  /\ UNCHANGED <<release, clock, snapshots, run, missed, faults>>

(* UpsertMovie by a TMDb sync.                                             *)
SyncMovie(m, d) ==
  /\ release' = [release EXCEPT ![m] = d]
  /\ UNCHANGED <<ledger, clock, snapshots, run, missed, faults>>

(* Bound: the monthly run is over before the month is in which it started. *)
(* No timer is set while the process is down or busy with the seed: a      *)
(* month that ends then gets no run, and no later start makes up for it.   *)
Tick ==
  /\ clock < MaxDay
  /\ run["monthly"].at \in {"timer", "seed", "down"} /\ ~Due("monthly")
  /\ clock' = clock + 1
  /\ missed' = IF run["monthly"].at # "timer" /\ Month(clock') > Month(clock)
               THEN missed \cup {Month(clock)} ELSE missed
  /\ UNCHANGED <<release, ledger, snapshots, run, faults>>

AdvanceRun(w) == Arm(w) \/ Fire(w) \/ ListMovieIDs(w) \/ ReadTallies(w) \/ UpsertSnapshot(w)

Next == \/ \E w \in Runners : AdvanceRun(w) \/ SnapshotFails(w)
        \/ Stop \/ Start
        \/ \E m \in Voted, c \in Categories : Vote(m, c)
        \/ \E m \in Movies, d \in ReleaseDays : SyncMovie(m, d)
        \/ Tick

Spec == Init /\ [][Next]_vars

(* The job's goroutines are scheduled, their statements return, time passes. *)
FairSpec == /\ Spec
            /\ \A w \in Runners : WF_vars(AdvanceRun(w))
            /\ WF_vars(Tick)
-----------------------------------------------------------------------------
(* Properties.                                                             *)

AtMost(a, b) == \A c \in Categories : a[c] <= b[c]

(* Rows and runs keep their shape, the movie in hand is a listed one, and  *)
(* the monthly timer is never set for a month that is still to come.       *)
TypeOK ==
  /\ release \in [Movies -> ReleaseDays \cup {None}]
  /\ votes \in [Movies -> [Fingerprints -> Categories \cup {None}]]
  /\ tallies \in [Movies -> [Categories -> Nat]]
  /\ snapshots \in [Months -> [Movies -> [Categories -> Nat] \cup {None}]]
  /\ \A w \in Runners :
       /\ run[w].at \in {"seed", "timer", "list", "read", "upsert", "done", "down"}
       /\ run[w].todo \subseteq run[w].listed
       /\ run[w].listed \subseteq Movies
       /\ run[w].at \in {"read", "upsert"} => run[w].todo # {}
       /\ run[w].month \in 0..Month(clock)
       /\ run[w].counts \in [Categories -> Nat]
       /\ run[w].base \in [Movies -> [Categories -> Nat]]

(* A snapshot never shows a vote that its movie was not given, although    *)
(* one map of counts is filled per movie while votes are being counted.    *)
RowsTrailTallies ==
  \A n \in Months, m \in Movies :
    snapshots[n][m] # None => AtMost(snapshots[n][m], tallies[m])

(* A row is rewritten, by a later run over its month, only with counts at *)
(* least as high, unless two runs over the month were at work at once: the *)
(* slower one may then write what it read before the other wrote.          *)
RowsOnlyGrow ==
  [][\A n \in Months, m \in Movies :
       snapshots[n][m] # None =>
         \/ snapshots'[n][m] # None /\ AtMost(snapshots[n][m], snapshots'[n][m])
         \/ \E w \in Runners : run[w].month = n /\ run[w].shared]_vars

(* The run of w ends in this step without an error.                        *)
Completes(w) == run[w].at = "upsert" /\ run'[w].at \in {"timer", "done"} /\ faults' = faults

(* A run that ends without an error leaves, for every movie of its list, a *)
(* row with all the votes counted when it listed them.                     *)
CompletedRunCoversMonth ==
  [][\A w \in Runners :
       Completes(w) /\ ~run[w].shared =>
         \A m \in run[w].listed :
           LET row == snapshots'[run[w].month][m] IN
           row # None /\ AtMost(run[w].base[m], row)]_vars

(* A movie known before its month ends is snapshotted, unless a sync moves *)
(* it to another month, the month's run fails or is cut short, or the      *)
(* month ends while the process is down or has not set its timer.  A stop  *)
(* in the middle of a month, or the failure of another month, costs none.  *)
MonthGetsSnapshotted ==
  \A n \in 0..(Month(MaxDay) - 1), m \in Movies :
    m \in OfMonth(n) /\ Month(clock) <= n ~>
      snapshots[n][m] # None \/ n \in missed \/ m \notin OfMonth(n)

(* "snapshots: immutable per month": a row, once written, never changes.   *)
SnapshotsImmutable ==
  [][\A n \in Months, m \in Movies :
       snapshots[n][m] # None => snapshots'[n][m] = snapshots[n][m]]_vars
=============================================================================
