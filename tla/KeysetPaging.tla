---------------------------- MODULE KeysetPaging ----------------------------
(***************************************************************************)
(* How a client walks GET /movies/active or GET /snapshots/{year}/{month}  *)
(* page by page.  The cursor is the sort key and id of the last row of a   *)
(* page; the next page holds the rows after that pair.  The rows are       *)
(* ordered by key, then, unless the key is the popularity itself, by       *)
(* popularity, and only then by id.                                        *)
(*                                                                         *)
(* Between two pages votes and TMDb syncs move rows.  Both endpoints run   *)
(* the same predicate and the same ORDER BY over their own base rows, and  *)
(* answer through the response cache: a page may be that of an earlier     *)
(* table.  Cursors are signed, and a process without a configured secret   *)
(* draws its own: the cursors of another process are refused, also those   *)
(* that a page in Valkey still hands out.                                  *)
(***************************************************************************)
EXTENDS Integers, Sequences, FiniteSets

CONSTANTS Ids,          \* row ids, numbers
          Values,       \* values of keys and popularities
          Limits,       \* page sizes a client may ask for
          MaxMoves,     \* bound: rows moved during a walk
          MaxRestarts,  \* bound: restarts of the process during a walk
          MaxSeen       \* bound: rows received when the last page is asked for

ASSUME PagingAssumption == /\ Ids \subseteq Nat \ {0} /\ IsFiniteSet(Ids)
                           /\ Values \subseteq Nat
                           /\ Limits \subseteq Nat \ {0}
                           /\ MaxMoves \in Nat /\ MaxRestarts \in Nat
                           /\ MaxSeen \in Nat

VARIABLES deployment,   \* whether a secret is configured, whether Valkey is used
          rows,         \* rows[i]: the sort key and the popularity of row i
          secret,       \* the secret of this process
          past,         \* the tables and secrets of which pages may be cached
          restarts,     \* restarts so far
          fresh,        \* the cursor of the client was handed out by this process
          query,        \* sort_by (popularity or another key), sort_dir, limit
          cursor,       \* the cursor of the next request
          seen,         \* the ids received so far, in order
          done,         \* the last response carried no next_cursor
          moved,        \* the rows changed during the walk
          tied          \* the rows that shared their key with another one

server == <<deployment, rows, secret, past, restarts>>
walk == <<cursor, seen, done>>
vars == <<server, query, walk, moved, tied, fresh>>

ByPopularity == query.sort = "popularity"

(* Without a cursor the bound is an infinity and id 0: every row is after. *)
First == [key |-> -1, id |-> 0, signed |-> 0]

Tied(table) == {i \in Ids : \E j \in Ids \ {i} : table[i].key = table[j].key}

(* With a configured secret, to lose the map at a restart is what expiry   *)
(* does to it anyway: that deployment needs no behaviours of its own.      *)
Deployments == {d \in [configured: BOOLEAN, shared: BOOLEAN] : d.configured => d.shared}

Init == /\ query \in [sort: {"popularity", "other"}, dir: {"asc", "desc"}, limit: Limits]
        /\ rows \in [Ids -> [key: Values, popularity: Values]]
        /\ ByPopularity => \A i \in Ids : rows[i].key = rows[i].popularity
        /\ deployment \in Deployments
        /\ secret = 0 /\ past = {} /\ restarts = 0 /\ fresh = FALSE
        /\ cursor = First
        /\ seen = <<>>
        /\ done = FALSE
        /\ moved = {}
        /\ tied = Tied(rows)
-----------------------------------------------------------------------------
(* The WHERE clause: strictly after the cursor in (key, id) order.         *)
AfterByKey(x, c) == IF query.dir = "desc" THEN x.key < c.key ELSE x.key > c.key
AfterOrSame(x, i, c) == AfterByKey(x, c) \/ x.key = c.key
AfterCursor(x, i, c) ==
  \/ AfterByKey(x, c)
  \/ x.key = c.key /\ IF query.dir = "desc" THEN i < c.id ELSE i > c.id

(* The ORDER BY clause, with popularity before id for the other keys.      *)
Precedes(table, i, j) ==
  LET x == table[i]
      y == table[j]
      sorted(a, b) == IF query.dir = "desc" THEN a > b ELSE a < b IN
  \/ sorted(x.key, y.key)
  \/ x.key = y.key /\ ~ByPopularity /\ x.popularity > y.popularity
  \/ /\ x.key = y.key /\ (ByPopularity \/ x.popularity = y.popularity)
     /\ sorted(i, j)

Selected(table) == {i \in Ids : cursor = First \/ AfterCursor(table[i], i, cursor)}
Ahead(table, i) == {j \in Selected(table) : Precedes(table, j, i)}

(* LIMIT: the n-th row is the selected one that n - 1 others are ahead of. *)
Size(table) == LET all == Cardinality(Selected(table)) IN
               IF all < query.limit THEN all ELSE query.limit
Page(table) == [n \in 1..Size(table) |->
                  CHOOSE i \in Selected(table) : Cardinality(Ahead(table, i)) = n - 1]

(* The cursor of a full page: its last row, signed by whoever made it.     *)
CursorOfFirst(v, page) == [key |-> v.rows[page[1]].key, id |-> page[1], signed |-> v.secret]
CursorOf(v, page) == LET last == page[Len(page)] IN
                     [key |-> v.rows[last].key, id |-> last, signed |-> v.secret]

(* A cache key holds the cursor with its signature: what is found under a  *)
(* cursor was made by a process with that secret, what is found without    *)
(* one by any process that shared the cache.                               *)
Now == [rows |-> rows, secret |-> secret]
Accepted == cursor = First \/ cursor.signed = secret
Cached == {v \in past : cursor = First \/ v.secret = cursor.signed}

(* One request: a cached page or one of the table as it is, and a          *)
(* next_cursor when the page is full.                                      *)
NextPage ==
  /\ ~done /\ Accepted
  /\ Len(seen) <= MaxSeen
  /\ \E v \in Cached \cup {Now} :
       LET page == Page(v.rows) IN
       /\ seen' = seen \o page
       /\ IF Len(page) = query.limit
          THEN cursor' = CursorOf(v, page) /\ UNCHANGED done
          ELSE done' = TRUE /\ UNCHANGED cursor
  /\ fresh' = TRUE
  /\ UNCHANGED <<server, query, moved, tied>>

(* The signature does not verify, the request is refused before the cache  *)
(* is asked, and the client starts over.                                   *)
Refuse ==
  /\ ~done /\ ~Accepted
  /\ cursor' = First /\ seen' = <<>> /\ fresh' = FALSE
  /\ UNCHANGED <<server, query, done, moved, tied>>

(* FromEnv at the next start, and what the cache keeps of the last one.    *)
DrawnAnyway == secret + 1
NextSecret == IF deployment.configured THEN secret ELSE secret + 1

Restart ==
  /\ ~done /\ restarts < MaxRestarts
  /\ restarts' = restarts + 1
  /\ secret' = NextSecret
  /\ past' = IF deployment.shared THEN past \cup {Now} ELSE {}
  /\ fresh' = FALSE
  /\ UNCHANGED <<deployment, rows, query, walk, moved, tied>>

(* The last page of an earlier table is gone.                              *)
ExpiresIfSameSecret(v) == v \in past /\ v.secret = secret
Expires(v) == v \in past

Expire(v) ==
  /\ ~done /\ Expires(v)
  /\ past' = past \ {v}
  /\ UNCHANGED <<deployment, rows, secret, restarts, query, walk, moved, tied, fresh>>

(* A vote or a sync gives a row another key.                               *)
Move(i, v) ==
  /\ ~done
  /\ Cardinality(moved) < MaxMoves /\ i \notin moved /\ v # rows[i].key
  /\ rows' = [rows EXCEPT ![i].key = v,
                          ![i].popularity = IF ByPopularity THEN v ELSE @]
  /\ past' = past \cup {Now}
  /\ moved' = moved \cup {i}
  /\ tied' = tied \cup Tied(rows')
  /\ UNCHANGED <<deployment, secret, restarts, query, walk, fresh>>

Next == \/ NextPage \/ Refuse \/ Restart
        \/ \E v \in past : Expire(v)
        \/ \E i \in Ids, v \in Values : Move(i, v)

Spec == Init /\ [][Next]_vars

(* The client asks for the next page while there is one, and every cached  *)
(* page has a time to live.                                                *)
FairSpec == Spec /\ WF_vars(NextPage \/ Refuse) /\ WF_vars(\E v \in past : Expire(v))
-----------------------------------------------------------------------------
(* Properties.                                                             *)

Times(i) == Cardinality({n \in DOMAIN seen : seen[n] = i})

(* However other rows move, and whichever of its pages come from the cache *)
(* and how old they are, a row that stays put is delivered exactly once by *)
(* a finished walk; for sort keys other than the popularity it must never  *)
(* have shared its key, where cursor and order disagree.                   *)
StableRowsSeenOnce ==
  \A i \in Ids \ moved :
    ByPopularity \/ i \notin tied =>
      /\ Times(i) <= 1
      /\ done => Times(i) = 1

(* "Sorted by popularity DESC, id DESC": while nothing moves, the pages of  *)
(* the default query concatenate to the list sorted that way.              *)
DefaultOrder ==
  ByPopularity /\ query.dir = "desc" /\ moved = {} =>
    \A m, n \in DOMAIN seen : m < n =>
      \/ rows[seen[m]].popularity > rows[seen[n]].popularity
      \/ rows[seen[m]].popularity = rows[seen[n]].popularity /\ seen[m] > seen[n]

(* "cursor-paginated active movies": while nothing moves, a finished walk  *)
(* has delivered every row once.                                           *)
WalkIsComplete == done /\ moved = {} => \A i \in Ids : Times(i) = 1

(* A walk ends, although a full last page announces one page more, and     *)
(* although a first page in Valkey may hand out a cursor of the process    *)
(* before, which is refused again and again until that page has expired.   *)
WalkEnds == <>done

(* "Use next cursor for subsequent page": a cursor is accepted for as long *)
(* as the process that handed it out lives, and by the next ones if the    *)
(* secret is configured; except where Valkey holds pages of a process with *)
(* another secret, whose cursors this one hands out and refuses.           *)
HandedOutCursorsAccepted ==
  /\ deployment.configured => Accepted
  /\ fresh /\ ~deployment.shared => Accepted
=============================================================================
