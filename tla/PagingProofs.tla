----------------------------- MODULE PagingProofs -----------------------------
(***************************************************************************)
(* Proofs about KeysetPaging, for any number of rows, moves, restarts and  *)
(* cached pages: where cursors are accepted, that rows which stay put are  *)
(* delivered exactly once, and that the default query delivers in order.   *)
(***************************************************************************)
EXTENDS KeysetPaging, RankTheorems

-----------------------------------------------------------------------------
(* Cursors.  The signatures that are about, in the client's cursor and in  *)
(* the cache, are the server's own, with a configured secret always,       *)
(* without one as long as no page of an earlier process is left.           *)

PastIsOwn == \A v \in past : v.secret = secret

CursorInv ==
  /\ deployment.configured => PastIsOwn /\ Accepted
  /\ ~deployment.shared => PastIsOwn /\ (fresh => Accepted)

LEMMA InitCursor == Init => CursorInv
BY DEF Init, CursorInv, PastIsOwn, Accepted

LEMMA PageCursor ==
  ASSUME PastIsOwn, NextPage
  PROVE  Accepted'
<1>1. PICK v \in Cached \cup {Now} :
        LET page == Page(v.rows) IN
        IF Len(page) = query.limit THEN cursor' = CursorOf(v, page) ELSE UNCHANGED cursor
  BY DEF NextPage
<1>2. v.secret = secret
  BY DEF Cached, Now, PastIsOwn
<1>3. secret' = secret /\ Accepted
  BY DEF NextPage, server
<1>4. CASE UNCHANGED cursor
  BY <1>3, <1>4 DEF Accepted
<1>5. ASSUME NEW page, cursor' = CursorOf(v, page) PROVE Accepted'
  <2>1. cursor'.signed = v.secret
    BY <1>5 DEF CursorOf
  <2> QED
    BY <1>2, <1>3, <2>1 DEF Accepted
<1> QED
  BY <1>1, <1>4, <1>5

LEMMA NextCursor == CursorInv /\ [Next]_vars => CursorInv'
<1> SUFFICES ASSUME CursorInv, [Next]_vars PROVE CursorInv'
  OBVIOUS
<1>1. CASE NextPage
  <2>1. UNCHANGED <<deployment, past, secret>>
    BY <1>1 DEF NextPage, server
  <2>2. PastIsOwn => PastIsOwn' /\ Accepted'
    BY <1>1, <2>1, PageCursor DEF PastIsOwn
  <2> QED
    BY <2>1, <2>2 DEF CursorInv
<1>2. CASE Refuse
  BY <1>2 DEF Refuse, server, CursorInv, PastIsOwn, Accepted
<1>3. CASE Restart
  <2>1. /\ UNCHANGED <<deployment, cursor>> /\ fresh' = FALSE
        /\ secret' = NextSecret
        /\ past' = IF deployment.shared THEN past \cup {Now} ELSE {}
    BY <1>3 DEF Restart, walk
  <2>2. ~deployment.shared => PastIsOwn'
    BY <2>1 DEF PastIsOwn
  <2>3. deployment.configured => PastIsOwn' /\ Accepted'
    BY <2>1 DEF NextSecret, CursorInv, PastIsOwn, Accepted, Now
  <2> QED
    BY <2>1, <2>2, <2>3 DEF CursorInv
<1>4. ASSUME NEW v \in past, Expire(v) PROVE CursorInv'
  BY <1>4 DEF Expire, walk, CursorInv, PastIsOwn, Accepted
<1>5. ASSUME NEW i \in Ids, NEW v \in Values, Move(i, v) PROVE CursorInv'
  BY <1>5 DEF Move, walk, CursorInv, PastIsOwn, Accepted, Now
<1>6. CASE UNCHANGED vars
  BY <1>6 DEF vars, server, walk, CursorInv, PastIsOwn, Accepted
<1> QED
  BY <1>1, <1>2, <1>3, <1>4, <1>5, <1>6 DEF Next

(* A cursor is accepted for as long as the process that handed it out      *)
(* lives, and by the next ones if the secret is configured; except where   *)
(* Valkey holds pages of a process with another secret.                    *)
THEOREM CursorsAccepted == Spec => []HandedOutCursorsAccepted
<1>1. CursorInv => HandedOutCursorsAccepted
  BY DEF CursorInv, HandedOutCursorsAccepted
<1> QED
  BY InitCursor, NextCursor, <1>1, PTL DEF Spec

-----------------------------------------------------------------------------
(* The order of a page.                                                    *)

Queries == [sort: {"popularity", "other"}, dir: {"asc", "desc"}, limit: Limits]
Tables == [Ids -> [key: Values, popularity: Values]]
Order(table) == {p \in Ids \X Ids : Precedes(table, p[1], p[2])}

LEMMA OrderIsStrict ==
  ASSUME NEW table \in Tables, query \in Queries, NEW S \in SUBSET Ids
  PROVE  StrictOrder(Order(table), S)
<1>0. \A i \in S : /\ i \in Ids /\ i \in Nat
                   /\ table[i].key \in Nat /\ table[i].popularity \in Nat
  BY PagingAssumption DEF Tables
<1>1. ASSUME NEW i \in S PROVE ~Precedes(table, i, i)
  BY <1>0 DEF Precedes
<1>2. ASSUME NEW i \in S, NEW j \in S, NEW k \in S,
             Precedes(table, i, j), Precedes(table, j, k)
      PROVE  Precedes(table, i, k)
  <2>1. CASE query.dir = "desc"
    BY <1>0, <1>2, <2>1 DEF Precedes
  <2>2. CASE query.dir # "desc"
    BY <1>0, <1>2, <2>2 DEF Precedes
  <2> QED
    BY <2>1, <2>2
<1>3. ASSUME NEW i \in S, NEW j \in S, i # j
      PROVE  Precedes(table, i, j) \/ Precedes(table, j, i)
  BY <1>0, <1>3 DEF Precedes
<1>4. \A i, j \in S : <<i, j>> \in Order(table) <=> Precedes(table, i, j)
  BY <1>0 DEF Order
<1> HIDE DEF Order
<1>5. \A x \in S : <<x, x>> \notin Order(table)
  BY <1>1, <1>4
<1>6. \A x, y, z \in S : <<x, y>> \in Order(table) /\ <<y, z>> \in Order(table)
                           => <<x, z>> \in Order(table)
  BY <1>2, <1>4
<1>7. \A x, y \in S : x # y => <<x, y>> \in Order(table) \/ <<y, x>> \in Order(table)
  BY <1>3, <1>4
<1> QED
  BY <1>5, <1>6, <1>7 DEF StrictOrder

(* A page numbers the selected rows along their order, up to its limit.    *)
LEMMA PageNumbers ==
  ASSUME NEW table \in Tables, query \in Queries
  PROVE  /\ IsFiniteSet(Selected(table)) /\ StrictOrder(Order(table), Selected(table))
         /\ Cardinality(Selected(table)) \in Nat /\ query.limit \in Nat \ {0}
         /\ Size(table) \in Nat /\ Size(table) <= Cardinality(Selected(table))
         /\ Size(table) # query.limit => Size(table) = Cardinality(Selected(table))
         /\ \A n \in 1..Size(table) :
              Page(table)[n] = Nth(Order(table), Selected(table), n)
<1>1. Selected(table) \subseteq Ids
  BY DEF Selected
<1>2. IsFiniteSet(Selected(table)) /\ StrictOrder(Order(table), Selected(table))
  BY <1>1, OrderIsStrict, PagingAssumption, FS_Subset
<1>3. Cardinality(Selected(table)) \in Nat /\ query.limit \in Nat \ {0}
  BY <1>2, FS_CardinalityType, PagingAssumption DEF Queries
<1>4. /\ Size(table) \in Nat /\ Size(table) <= Cardinality(Selected(table))
      /\ Size(table) # query.limit => Size(table) = Cardinality(Selected(table))
  BY <1>3 DEF Size
<1>5. ASSUME NEW i \in Selected(table)
      PROVE  Below(Order(table), Selected(table), i) = Ahead(table, i)
  BY <1>1 DEF Below, Order, Ahead
<1>6. ASSUME NEW n \in 1..Size(table)
      PROVE  Page(table)[n] = Nth(Order(table), Selected(table), n)
  <2>1. Page(table)[n] = CHOOSE i \in Selected(table) : Cardinality(Ahead(table, i)) = n - 1
    BY DEF Page
  <2>2. \A i \in Selected(table) : Rank(Order(table), Selected(table), i) = Cardinality(Ahead(table, i))
    BY <1>5 DEF Rank
  <2> QED
    BY <2>1, <2>2 DEF Nth
<1> QED
  BY <1>2, <1>3, <1>4, <1>6

(* What a page holds: selected rows, in order, all of them if it is not    *)
(* full, and none that a selected row it leaves out precedes.              *)
LEMMA PageHolds ==
  ASSUME NEW table \in Tables, query \in Queries
  PROVE  /\ Page(table) \in Seq(Selected(table)) /\ Len(Page(table)) \in Nat
         /\ \A m, n \in 1..Len(Page(table)) : m < n => Precedes(table, Page(table)[m], Page(table)[n])
         /\ \A i \in Selected(table) :
              \/ \E n \in 1..Len(Page(table)) : Page(table)[n] = i
              \/ /\ Len(Page(table)) = query.limit
                 /\ \A n \in 1..Len(Page(table)) : Precedes(table, Page(table)[n], i)
<1> DEFINE S == Selected(table)
           R == Order(table)
           size == Size(table)
           page == Page(table)
<1>0. /\ IsFiniteSet(S) /\ StrictOrder(R, S) /\ Cardinality(S) \in Nat
      /\ size \in Nat /\ size <= Cardinality(S)
      /\ size # query.limit => size = Cardinality(S)
      /\ \A n \in 1..size : page[n] = Nth(R, S, n)
  BY PageNumbers
<1>1. \A n \in 1..size : n \in 1..Cardinality(S)
  BY <1>0
<1>2. \A n \in 1..size : page[n] \in S
  BY <1>0, <1>1, NthRank
<1>3. \A i, j : <<i, j>> \in R => Precedes(table, i, j)
  BY DEF Order
<1>4. page \in Seq(S) /\ Len(page) = size
  <2>1. page = [n \in 1..size |-> page[n]]
    BY DEF Page
  <2> HIDE DEF page, size, S
  <2>2. \A n \in 1..size : page[n] \in S
    BY <1>2
  <2> QED
    BY <1>0, <2>1, <2>2
<1> HIDE DEF S, R, size, page
<1>5. ASSUME NEW m \in 1..size, NEW n \in 1..size, m < n
      PROVE  Precedes(table, page[m], page[n])
  BY <1>0, <1>1, <1>3, <1>5, NumbersInOrder
<1>6. ASSUME NEW i \in S, \A n \in 1..size : page[n] # i
      PROVE  size = query.limit /\ \A n \in 1..size : Precedes(table, page[n], i)
  <2>1. PICK k \in 1..Cardinality(S) : Nth(R, S, k) = i
    BY <1>0, EveryoneNumbered
  <2>2. k > size
    BY <1>0, <1>6, <2>1
  <2>3. \A n \in 1..size : n < k
    BY <1>0, <2>2
  <2>4. \A n \in 1..size : Precedes(table, page[n], i)
    BY <1>0, <1>1, <1>3, <2>1, <2>3, NumbersInOrder
  <2> QED
    BY <1>0, <2>1, <2>2, <2>4
<1> QED
  BY <1>0, <1>4, <1>5, <1>6 DEF S, page

-----------------------------------------------------------------------------
(* Cursor and order.  They agree on a row if they compare by the same key  *)
(* alone: by the popularity, or where no other row has the same key.       *)

Agree(table, i) ==
  \/ ByPopularity /\ \A j \in Ids : table[j].key = table[j].popularity
  \/ i \notin Tied(table)

(* The cursor of a page that ends with row l.                              *)
EndsAt(c, table, l) == c.key = table[l].key /\ c.id = l

LEMMA AfterIsPreceded ==
  ASSUME NEW table \in Tables, query \in Queries, NEW i \in Ids, NEW l \in Ids,
         Agree(table, i), NEW c, EndsAt(c, table, l)
  PROVE  /\ Precedes(table, l, i) => AfterCursor(table[i], i, c)
         /\ i = l \/ Precedes(table, i, l) => ~AfterCursor(table[i], i, c)
<1>1. /\ i \in Nat /\ l \in Nat /\ table[i].key \in Nat /\ table[l].key \in Nat
      /\ table[i].popularity \in Nat
      /\ i # l /\ table[i].key = table[l].key => ByPopularity
  BY PagingAssumption DEF Tables, Agree, Tied
<1>2. c.key = table[l].key /\ c.id = l
  BY DEF EndsAt
<1>3. CASE query.dir = "desc"
  BY <1>1, <1>2, <1>3 DEF Precedes, AfterCursor, AfterByKey
<1>4. CASE query.dir # "desc"
  BY <1>1, <1>2, <1>4 DEF Precedes, AfterCursor, AfterByKey
<1> QED
  BY <1>3, <1>4

(* A later cursor has no more rows after it.                               *)
LEMMA AfterLater ==
  ASSUME NEW table \in Tables, query \in Queries, NEW i \in Ids, NEW l \in Ids,
         NEW c, EndsAt(c, table, l), NEW d, d.key \in Int, d.id \in Int,
         AfterCursor(table[l], l, d), AfterCursor(table[i], i, c)
  PROVE  AfterCursor(table[i], i, d)
<1>1. i \in Nat /\ l \in Nat /\ table[i].key \in Nat /\ table[l].key \in Nat
  BY PagingAssumption DEF Tables
<1>2. c.key = table[l].key /\ c.id = l
  BY DEF EndsAt
<1> QED
  BY <1>1, <1>2 DEF AfterCursor, AfterByKey
-----------------------------------------------------------------------------
(* Deliveries.                                                             *)

Occurs(s, i) == {n \in DOMAIN s : s[n] = i}

LEMMA OccursFinite ==
  ASSUME NEW s \in Seq(Ids), NEW i
  PROVE  IsFiniteSet(Occurs(s, i)) /\ Cardinality(Occurs(s, i)) \in Nat
<1>1. Occurs(s, i) \subseteq 1..Len(s)
  BY DEF Occurs
<1>2. IsFiniteSet(1..Len(s))
  BY FS_Interval
<1> QED
  BY <1>1, <1>2, FS_Subset, FS_CardinalityType

LEMMA OccursNoMore ==
  ASSUME NEW s \in Seq(Ids), NEW p \in Seq(Ids), NEW i, \A n \in 1..Len(p) : p[n] # i
  PROVE  Occurs(s \o p, i) = Occurs(s, i)
<1>1. /\ DOMAIN s = 1..Len(s) /\ DOMAIN (s \o p) = 1..(Len(s) + Len(p))
      /\ Len(s) \in Nat /\ Len(p) \in Nat
  OBVIOUS
<1>2. ASSUME NEW n \in 1..(Len(s) + Len(p))
      PROVE  (s \o p)[n] = i <=> n \in 1..Len(s) /\ s[n] = i
  <2>1. CASE n <= Len(s)
    BY <1>1, <2>1
  <2>2. CASE n > Len(s)
    <3>1. (s \o p)[n] = p[n - Len(s)] /\ n - Len(s) \in 1..Len(p)
      BY <1>1, <2>2
    <3> QED
      BY <1>1, <2>2, <3>1
  <2> QED
    BY <1>1, <2>1, <2>2
<1> QED
  BY <1>1, <1>2 DEF Occurs

LEMMA OccursOnceMore ==
  ASSUME NEW s \in Seq(Ids), NEW p \in Seq(Ids), NEW i, NEW k \in 1..Len(p), p[k] = i,
         \A n \in 1..Len(p) : p[n] = i => n = k
  PROVE  Cardinality(Occurs(s \o p, i)) = Cardinality(Occurs(s, i)) + 1
<1>1. /\ DOMAIN s = 1..Len(s) /\ DOMAIN (s \o p) = 1..(Len(s) + Len(p))
      /\ Len(s) \in Nat /\ Len(p) \in Nat
  OBVIOUS
<1>2. ASSUME NEW n \in 1..(Len(s) + Len(p))
      PROVE  (s \o p)[n] = i <=> (n \in 1..Len(s) /\ s[n] = i) \/ n = Len(s) + k
  <2>1. CASE n <= Len(s)
    BY <1>1, <2>1
  <2>2. CASE n > Len(s)
    <3>1. (s \o p)[n] = p[n - Len(s)] /\ n - Len(s) \in 1..Len(p)
      BY <1>1, <2>2
    <3> QED
      BY <1>1, <2>2, <3>1
  <2> QED
    BY <1>1, <2>1, <2>2
<1>3. Len(s) + k \in 1..(Len(s) + Len(p)) /\ Len(s) + k \notin 1..Len(s)
  BY <1>1
<1>4. Occurs(s \o p, i) = Occurs(s, i) \cup {Len(s) + k} /\ Len(s) + k \notin Occurs(s, i)
  BY <1>1, <1>2, <1>3 DEF Occurs
<1> QED
  BY <1>4, OccursFinite, FS_AddElement

-----------------------------------------------------------------------------
(* The walk.  A row that has not moved is the same in every table a page   *)
(* may be of, and has been delivered once if it is behind the cursor, and  *)
(* not at all if it is not.                                                *)

Fits(table) ==
  /\ table \in Tables
  /\ ByPopularity => \A i \in Ids : table[i].key = table[i].popularity
  /\ \A i \in Ids \ moved : table[i] = rows[i]
  /\ Tied(table) \subseteq tied

WalkTyped ==
  /\ query \in Queries /\ rows \in Tables
  /\ seen \in Seq(Ids) /\ done \in BOOLEAN
  /\ cursor.key \in Int /\ cursor.id \in Int

Stable(i) == i \notin moved /\ (ByPopularity \/ i \notin tied)
Behind(i) == cursor # First /\ ~AfterCursor(rows[i], i, cursor)

DeliveredOnce ==
  \A i \in Ids : Stable(i) =>
    Cardinality(Occurs(seen, i)) = IF done \/ Behind(i) THEN 1 ELSE 0

InOrder ==
  ByPopularity /\ query.dir = "desc" /\ moved = {} =>
    \A m, n \in 1..Len(seen) : m < n => Precedes(rows, seen[m], seen[n])

WalkInv == /\ WalkTyped
           /\ \A v \in past \cup {Now} : Fits(v.rows)
           /\ DeliveredOnce /\ InOrder

LEMMA StableAgrees ==
  ASSUME NEW table, Fits(table), NEW i \in Ids, Stable(i)
  PROVE  Agree(table, i) /\ table[i] = rows[i]
BY DEF Fits, Stable, Agree

LEMMA SeenIsBehind ==
  ASSUME WalkTyped, DeliveredOnce, ~done, NEW n \in 1..Len(seen), Stable(seen[n])
  PROVE  Behind(seen[n])
<1> DEFINE i == seen[n]
<1>1. i \in Ids /\ n \in Occurs(seen, i)
  BY DEF WalkTyped, Occurs
<1>2. Cardinality(Occurs(seen, i)) # 0
  BY <1>1, OccursFinite, FS_EmptySet DEF WalkTyped
<1> QED
  BY <1>1, <1>2 DEF DeliveredOnce

(* A page delivers a row at most once.                                     *)
LEMMA PageOnce ==
  ASSUME NEW table \in Tables, query \in Queries,
         NEW m \in 1..Len(Page(table)), NEW n \in 1..Len(Page(table)),
         Page(table)[m] = Page(table)[n]
  PROVE  m = n
<1> DEFINE p == Page(table)
<1>1. p \in Seq(Selected(table)) /\ Len(p) \in Nat
  BY PageHolds
<1>2. p[m] \in Ids
  BY <1>1 DEF Selected
<1>3. ~Precedes(table, p[m], p[m])
  <2>1. StrictOrder(Order(table), Ids)
    BY OrderIsStrict
  <2> QED
    BY <1>2, <2>1 DEF StrictOrder, Order
<1>4. \A j, k \in 1..Len(p) : j < k => Precedes(table, p[j], p[k])
  BY PageHolds
<1> HIDE DEF p
<1>5. p[m] = p[n]
  BY DEF p
<1>6. m \in 1..Len(p) /\ n \in 1..Len(p)
  BY DEF p
<1>7. ~(m < n) /\ ~(n < m)
  BY <1>3, <1>4, <1>5, <1>6
<1> QED
  BY <1>1, <1>6, <1>7

(* What one request does to the deliveries of a stable row.                *)
LEMMA PageDelivers ==
  ASSUME WalkTyped, DeliveredOnce, ~done, NEW table, Fits(table), NEW i \in Ids, Stable(i),
         NEW c, c # First,
         Len(Page(table)) = query.limit => EndsAt(c, table, Page(table)[Len(Page(table))])
  PROVE  Cardinality(Occurs(seen \o Page(table), i)) =
           IF Len(Page(table)) # query.limit \/ ~AfterCursor(rows[i], i, c) THEN 1 ELSE 0
<1> DEFINE p == Page(table)
           last == p[Len(p)]
<1>0. /\ table \in Tables /\ query \in Queries /\ seen \in Seq(Ids)
      /\ Agree(table, i) /\ table[i] = rows[i]
      /\ query.limit \in Nat \ {0} /\ cursor.key \in Int /\ cursor.id \in Int
  BY StableAgrees, PagingAssumption DEF Fits, WalkTyped, Queries
<1>1. /\ p \in Seq(Selected(table)) /\ Len(p) \in Nat
      /\ \A m, n \in 1..Len(p) : m < n => Precedes(table, p[m], p[n])
      /\ \A j \in Selected(table) :
           \/ \E n \in 1..Len(p) : p[n] = j
           \/ Len(p) = query.limit /\ \A n \in 1..Len(p) : Precedes(table, p[n], j)
      /\ \A m, n \in 1..Len(p) : p[m] = p[n] => m = n
  BY <1>0, PageHolds, PageOnce
<1> HIDE DEF p
<1>2. p \in Seq(Ids)
  BY <1>1 DEF Selected
<1>3. i \in Selected(table) <=> ~Behind(i)
  BY <1>0 DEF Selected, Behind
<1>4. Len(p) = query.limit =>
        Len(p) \in 1..Len(p) /\ last \in Ids /\ last \in Selected(table) /\ EndsAt(c, table, last)
  <2>1. Len(p) = query.limit => Len(p) \in 1..Len(p)
    BY <1>0, <1>1
  <2>2. Len(p) = query.limit => EndsAt(c, table, last)
    BY DEF p
  <2> QED
    BY <1>1, <1>2, <2>1, <2>2
<1> HIDE DEF last
<1>5. ASSUME NEW k \in 1..Len(p), p[k] = i
      PROVE  /\ Cardinality(Occurs(seen \o p, i)) = 1
             /\ Len(p) = query.limit => ~AfterCursor(rows[i], i, c)
  <2>1. i \in Selected(table)
    BY <1>1, <1>5
  <2>2. Cardinality(Occurs(seen, i)) = 0
    BY <1>3, <2>1 DEF DeliveredOnce
  <2>3. Cardinality(Occurs(seen \o p, i)) = Cardinality(Occurs(seen, i)) + 1
    <3>1. \A n \in 1..Len(p) : p[n] = i => n = k
      BY <1>1, <1>5
    <3> QED
      BY <1>0, <1>2, <1>5, <3>1, OccursOnceMore
  <2>4. ASSUME Len(p) = query.limit PROVE i = last \/ Precedes(table, i, last)
    BY <1>1, <1>4, <1>5, <2>4 DEF last
  <2>5. Len(p) = query.limit => ~AfterCursor(table[i], i, c)
    BY <1>0, <1>4, <2>4, AfterIsPreceded
  <2> QED
    BY <1>0, <2>2, <2>3, <2>5
<1>6. ASSUME i \in Selected(table), \A n \in 1..Len(p) : p[n] # i
      PROVE  /\ Cardinality(Occurs(seen \o p, i)) = 0
             /\ Len(p) = query.limit /\ AfterCursor(rows[i], i, c)
  <2>1. Len(p) = query.limit /\ Precedes(table, last, i)
    BY <1>1, <1>4, <1>6 DEF last
  <2>2. AfterCursor(table[i], i, c)
    BY <1>0, <1>4, <2>1, AfterIsPreceded
  <2>3. Occurs(seen \o p, i) = Occurs(seen, i)
    BY <1>0, <1>2, <1>6, OccursNoMore
  <2>4. Cardinality(Occurs(seen, i)) = 0
    BY <1>3, <1>6 DEF DeliveredOnce
  <2> QED
    BY <1>0, <2>1, <2>2, <2>3, <2>4
<1>7. ASSUME i \notin Selected(table)
      PROVE  /\ Cardinality(Occurs(seen \o p, i)) = 1
             /\ Len(p) = query.limit => ~AfterCursor(rows[i], i, c)
  <2>1. Occurs(seen \o p, i) = Occurs(seen, i)
    <3>1. \A n \in 1..Len(p) : p[n] # i
      BY <1>1, <1>7
    <3> QED
      BY <1>0, <1>2, <3>1, OccursNoMore
  <2>2. Behind(i) /\ Cardinality(Occurs(seen, i)) = 1
    BY <1>3, <1>7 DEF DeliveredOnce
  <2>3. ASSUME Len(p) = query.limit, AfterCursor(table[i], i, c) PROVE FALSE
    <3>1. AfterCursor(table[last], last, cursor)
      BY <1>4, <2>2, <2>3 DEF Selected, Behind
    <3>2. AfterCursor(table[i], i, cursor)
      BY <1>0, <1>4, <2>3, <3>1, AfterLater
    <3> QED
      BY <1>0, <2>2, <3>2 DEF Behind
  <2> QED
    BY <1>0, <2>1, <2>2, <2>3
<1>8. CASE \E k \in 1..Len(p) : p[k] = i
  BY <1>5, <1>8 DEF p
<1>9. CASE i \in Selected(table) /\ \A k \in 1..Len(p) : p[k] # i
  BY <1>6, <1>9 DEF p
<1>10. CASE i \notin Selected(table)
  BY <1>7, <1>10 DEF p
<1> QED
  BY <1>8, <1>9, <1>10

(* Without moves, the rows not after a cursor precede those after it.      *)
LEMMA CursorDivides ==
  ASSUME rows \in Tables, query \in Queries, cursor.key \in Int, cursor.id \in Int,
         ByPopularity, NEW i \in Ids, NEW j \in Ids,
         ~AfterCursor(rows[i], i, cursor), AfterCursor(rows[j], j, cursor)
  PROVE  Precedes(rows, i, j)
<1>1. i \in Nat /\ j \in Nat /\ rows[i].key \in Nat /\ rows[j].key \in Nat
  BY PagingAssumption DEF Tables
<1> QED
  BY <1>1 DEF AfterCursor, AfterByKey, Precedes

(* A page of the table as it always was goes on in the same order.         *)
LEMMA PageInOrder ==
  ASSUME WalkTyped, DeliveredOnce, InOrder, ~done, Fits(rows),
         ByPopularity, query.dir = "desc", moved = {}
  PROVE  \A m, n \in 1..Len(seen \o Page(rows)) :
           m < n => Precedes(rows, (seen \o Page(rows))[m], (seen \o Page(rows))[n])
<1> DEFINE p == Page(rows)
           all == seen \o p
<1>1. /\ p \in Seq(Selected(rows)) /\ Len(p) \in Nat
      /\ \A m, n \in 1..Len(p) : m < n => Precedes(rows, p[m], p[n])
  BY PageHolds DEF WalkTyped
<1> HIDE DEF p
<1>2. /\ seen \in Seq(Ids) /\ p \in Seq(Ids) /\ Len(seen) \in Nat
      /\ \A m, n \in 1..Len(seen) : m < n => Precedes(rows, seen[m], seen[n])
      /\ \A n \in 1..Len(seen) : seen[n] \in Ids /\ Behind(seen[n])
  BY <1>1, SeenIsBehind DEF WalkTyped, InOrder, Selected, Stable
<1>3. ASSUME NEW m \in 1..Len(seen), NEW n \in 1..Len(p)
      PROVE  Precedes(rows, seen[m], p[n])
  <2>1. p[n] \in Ids /\ p[n] \in Selected(rows)
    BY <1>1 DEF Selected
  <2>2. /\ seen[m] \in Ids /\ ~AfterCursor(rows[seen[m]], seen[m], cursor)
        /\ AfterCursor(rows[p[n]], p[n], cursor)
    BY <1>2, <2>1 DEF Behind, Selected
  <2> QED
    BY <2>1, <2>2, CursorDivides DEF WalkTyped
<1>4. /\ Len(all) = Len(seen) + Len(p)
      /\ \A n \in 1..Len(seen) : all[n] = seen[n]
      /\ \A n \in 1..Len(p) : all[Len(seen) + n] = p[n]
  BY <1>1, <1>2
<1> HIDE DEF all
<1>5. ASSUME NEW m \in 1..Len(all), NEW n \in 1..Len(all), m < n
      PROVE  Precedes(rows, all[m], all[n])
  <2>1. CASE n <= Len(seen)
    BY <1>2, <1>4, <1>5, <2>1
  <2>2. CASE m <= Len(seen) /\ n > Len(seen)
    <3>1. n - Len(seen) \in 1..Len(p) /\ Len(seen) + (n - Len(seen)) = n /\ m \in 1..Len(seen)
      BY <1>1, <1>2, <1>4, <2>2
    <3>2. all[n] = p[n - Len(seen)] /\ all[m] = seen[m]
      BY <1>4, <3>1
    <3> QED
      BY <1>3, <3>1, <3>2
  <2>3. CASE m > Len(seen)
    <3>1. /\ n - Len(seen) \in 1..Len(p) /\ Len(seen) + (n - Len(seen)) = n
          /\ m - Len(seen) \in 1..Len(p) /\ Len(seen) + (m - Len(seen)) = m
          /\ m - Len(seen) < n - Len(seen)
      BY <1>1, <1>2, <1>4, <1>5, <2>3
    <3>2. all[n] = p[n - Len(seen)] /\ all[m] = p[m - Len(seen)]
      BY <1>4, <3>1
    <3> QED
      BY <1>1, <3>1, <3>2
  <2> QED
    BY <1>2, <1>4, <1>5, <2>1, <2>2, <2>3
<1> QED
  BY <1>5 DEF all, p
-----------------------------------------------------------------------------
(* One lemma per action.                                                   *)

LEMMA FitsKept ==
  ASSUME NEW table, Fits(table), UNCHANGED <<query, rows, moved, tied>>
  PROVE  Fits(table)'
BY DEF Fits, ByPopularity

LEMMA RowsFit ==
  ASSUME WalkInv
  PROVE  Fits(rows)
<1>1. Now.rows = rows
  BY DEF Now
<1> QED
  BY <1>1 DEF WalkInv

LEMMA InitWalk == Init => WalkInv
<1> SUFFICES ASSUME Init PROVE WalkInv
  OBVIOUS
<1>1. WalkTyped
  <2>1. query \in Queries /\ rows \in Tables /\ done \in BOOLEAN
    BY DEF Init, Queries, Tables
  <2>2. seen \in Seq(Ids)
    BY DEF Init
  <2>3. cursor.key \in Int /\ cursor.id \in Int
    BY DEF Init, First
  <2> QED
    BY <2>1, <2>2, <2>3 DEF WalkTyped
<1>2. \A v \in past \cup {Now} : Fits(v.rows)
  BY <1>1 DEF Init, Now, Fits, WalkTyped
<1>3. \A i : Occurs(seen, i) = {}
  BY DEF Init, Occurs
<1>4. DeliveredOnce
  BY <1>3, FS_EmptySet DEF Init, DeliveredOnce, Behind
<1>5. InOrder
  BY DEF Init, InOrder
<1> QED
  BY <1>1, <1>2, <1>4, <1>5 DEF WalkInv

LEMMA NextPageWalk ==
  ASSUME WalkInv, NextPage
  PROVE  WalkInv'
<1>0. /\ UNCHANGED <<query, rows, moved, tied, past, secret>> /\ ~done
      /\ WalkTyped /\ DeliveredOnce /\ InOrder
  BY DEF NextPage, server, WalkInv
<1>1. PICK v \in Cached \cup {Now} :
        /\ seen' = seen \o Page(v.rows)
        /\ IF Len(Page(v.rows)) = query.limit
           THEN cursor' = CursorOf(v, Page(v.rows)) /\ UNCHANGED done
           ELSE done' = TRUE /\ UNCHANGED cursor
  BY DEF NextPage
<1> DEFINE t == v.rows
           p == Page(t)
<1>2. Fits(t) /\ t \in Tables /\ query \in Queries
  BY <1>0 DEF WalkInv, Cached, Fits, WalkTyped
<1>3. p \in Seq(Ids) /\ Len(p) \in Nat
  <2>1. p \in Seq(Selected(t)) /\ Len(p) \in Nat
    BY <1>2, PageHolds
  <2> QED
    BY <2>1 DEF Selected
<1>4. query.limit \in Nat \ {0}
  BY <1>2, PagingAssumption DEF Queries
<1> HIDE DEF t, p
<1>5. /\ seen' = seen \o p
      /\ Len(p) = query.limit => cursor' = CursorOf(v, p) /\ done' = done
      /\ Len(p) # query.limit => done' = TRUE /\ cursor' = cursor
  BY <1>1 DEF t, p
<1>6. ASSUME Len(p) = query.limit
      PROVE  /\ EndsAt(cursor', t, p[Len(p)]) /\ cursor' # First
             /\ cursor'.key \in Int /\ cursor'.id \in Int
  <2>1. p[Len(p)] \in Ids
    BY <1>3, <1>4, <1>6
  <2>2. p[Len(p)] \in Nat /\ t[p[Len(p)]].key \in Nat
    BY <1>2, <2>1, PagingAssumption DEF Tables
  <2>3. /\ cursor'.key = t[p[Len(p)]].key /\ cursor'.id = p[Len(p)]
        /\ cursor' = First => cursor'.key = -1
    BY <1>5, <1>6 DEF CursorOf, t, First
  <2> QED
    BY <2>2, <2>3 DEF EndsAt
<1>7. WalkTyped'
  <2>1. seen' \in Seq(Ids)
    BY <1>0, <1>3, <1>5 DEF WalkTyped
  <2>2. done' \in BOOLEAN /\ cursor'.key \in Int /\ cursor'.id \in Int
    BY <1>0, <1>5, <1>6 DEF WalkTyped
  <2> QED
    BY <1>0, <2>1, <2>2 DEF WalkTyped, Queries, Tables
<1>8. \A u \in (past \cup {Now})' : Fits(u.rows)'
  <2>1. (past \cup {Now})' = past \cup {Now}
    BY <1>0 DEF Now
  <2> QED
    BY <1>0, <2>1, FitsKept DEF WalkInv
<1>9. ASSUME NEW i \in Ids, Stable(i)
      PROVE  Cardinality(Occurs(seen', i)) = IF done' \/ Behind(i)' THEN 1 ELSE 0
  <2>1. CASE Len(p) = query.limit
    <3>1. Behind(i)' <=> ~AfterCursor(rows[i], i, cursor')
      BY <1>0, <1>6, <2>1 DEF Behind, AfterCursor, AfterByKey
    <3>2. Cardinality(Occurs(seen \o p, i)) = IF ~AfterCursor(rows[i], i, cursor') THEN 1 ELSE 0
      <4>1. SUFFICES ASSUME NEW c, c = cursor'
                     PROVE  Cardinality(Occurs(seen \o p, i)) = IF ~AfterCursor(rows[i], i, c) THEN 1 ELSE 0
        OBVIOUS
      <4>2. c # First /\ EndsAt(c, t, p[Len(p)])
        BY <1>6, <2>1, <4>1
      <4> QED
        BY <1>0, <1>2, <1>9, <2>1, <4>2, PageDelivers DEF p
    <3> QED
      BY <1>0, <1>5, <2>1, <3>1, <3>2
  <2>2. CASE Len(p) # query.limit
    <3>1. PICK c : c # First
      <4>1. [First EXCEPT !.key = 0] # First
        BY DEF First
      <4> QED
        BY <4>1
    <3>2. Cardinality(Occurs(seen \o p, i)) = 1
      BY <1>0, <1>2, <1>9, <2>2, <3>1, PageDelivers DEF p
    <3> QED
      BY <1>5, <2>2, <3>2
  <2> QED
    BY <2>1, <2>2
<1>10. DeliveredOnce'
  <2>1. \A i \in Ids : Stable(i)' => Stable(i)
    BY <1>0 DEF Stable, ByPopularity
  <2>2. \A i \in Ids : Occurs(seen, i)' = Occurs(seen', i)
    BY DEF Occurs
  <2> QED
    BY <1>9, <2>1, <2>2 DEF DeliveredOnce
<1>11. InOrder'
  <2>1. SUFFICES ASSUME ByPopularity, query.dir = "desc", moved = {}
                 PROVE  \A m, n \in 1..Len(seen') : m < n => Precedes(rows, seen'[m], seen'[n])
    BY <1>0 DEF InOrder, ByPopularity, Precedes
  <2>2. t = rows
    <3>1. \A i \in Ids : t[i] = rows[i]
      BY <1>2, <2>1 DEF Fits
    <3> QED
      BY <1>0, <1>2, <3>1 DEF Tables, WalkTyped
  <2> QED
    BY <1>0, <1>2, <1>5, <2>1, <2>2, PageInOrder DEF p
<1> QED
  BY <1>7, <1>8, <1>10, <1>11 DEF WalkInv

LEMMA RefuseWalk ==
  ASSUME WalkInv, Refuse
  PROVE  WalkInv'
<1>0. /\ UNCHANGED <<query, rows, moved, tied, past, secret, done>> /\ ~done
      /\ cursor' = First /\ seen' = <<>>
  BY DEF Refuse, server
<1>1. WalkTyped'
  BY <1>0 DEF WalkInv, WalkTyped, First
<1>2. \A u \in (past \cup {Now})' : Fits(u.rows)'
  <2>1. (past \cup {Now})' = past \cup {Now}
    BY <1>0 DEF Now
  <2> QED
    BY <1>0, <2>1, FitsKept DEF WalkInv
<1>3. \A i : Occurs(seen, i)' = {}
  BY <1>0 DEF Occurs
<1>4. DeliveredOnce'
  BY <1>0, <1>3, FS_EmptySet DEF DeliveredOnce, Behind, First
<1>5. InOrder'
  BY <1>0 DEF InOrder
<1> QED
  BY <1>1, <1>2, <1>4, <1>5 DEF WalkInv

(* A step that leaves the walk and the rows alone.                         *)
LEMMA WalkStands ==
  ASSUME WalkInv, UNCHANGED <<query, rows, moved, tied, walk>>,
         \A u \in (past \cup {Now})' : \E v \in past \cup {Now} : u.rows = v.rows
  PROVE  WalkInv'
<1>1. WalkTyped'
  BY DEF WalkInv, WalkTyped, walk
<1>2. ASSUME NEW u \in (past \cup {Now})' PROVE Fits(u.rows)'
  <2>1. PICK v \in past \cup {Now} : u.rows = v.rows
    OBVIOUS
  <2>2. Fits(v.rows)'
    BY FitsKept DEF WalkInv
  <2> QED
    BY <2>1, <2>2
<1>3. \A i : (Stable(i)' <=> Stable(i)) /\ (Behind(i)' <=> Behind(i)) /\ Occurs(seen, i)' = Occurs(seen, i)
  BY DEF Stable, Behind, Occurs, ByPopularity, AfterCursor, AfterByKey, walk
<1>4. DeliveredOnce' /\ InOrder'
  BY <1>3 DEF WalkInv, DeliveredOnce, InOrder, ByPopularity, Precedes, walk
<1> QED
  BY <1>1, <1>2, <1>4 DEF WalkInv

LEMMA MoveWalk ==
  ASSUME WalkInv, NEW i \in Ids, NEW v \in Values, Move(i, v)
  PROVE  WalkInv'
<1>0. /\ UNCHANGED <<query, secret, walk>> /\ moved' = moved \cup {i}
      /\ past' = past \cup {Now} /\ tied' = tied \cup Tied(rows') /\ rows \in Tables
      /\ rows' = [rows EXCEPT ![i].key = v, ![i].popularity = IF ByPopularity THEN v ELSE @]
  BY DEF Move, WalkInv, WalkTyped
<1>1. /\ rows' \in Tables /\ \A j \in Ids \ {i} : rows'[j] = rows[j]
      /\ rows'[i].key = v
      /\ ByPopularity => rows'[i].popularity = v
  BY <1>0 DEF Tables
<1>2. WalkTyped'
  BY <1>0, <1>1 DEF WalkInv, WalkTyped, walk
<1>3. ASSUME NEW table, Fits(table) PROVE Fits(table)'
  BY <1>0, <1>1, <1>3 DEF Fits, ByPopularity
<1>4. Fits(rows)'
  <2>1. ByPopularity => \A j \in Ids : rows'[j].key = rows'[j].popularity
    <3>1. ByPopularity => \A j \in Ids : rows[j].key = rows[j].popularity
      BY RowsFit DEF Fits
    <3> QED
      BY <1>1, <3>1
  <2> QED
    BY <1>0, <1>1, <2>1 DEF Fits, ByPopularity, Tied
<1>5. ASSUME NEW u \in (past \cup {Now})' PROVE Fits(u.rows)'
  <2>1. CASE u \in past \cup {Now}
    BY <1>3, <2>1 DEF WalkInv
  <2>2. CASE u = Now'
    <3>1. u.rows = rows'
      BY <2>2 DEF Now
    <3> QED
      BY <1>4, <3>1 DEF Fits, ByPopularity, Tied
  <2> QED
    BY <1>0, <2>1, <2>2
<1>6. DeliveredOnce'
  <2>1. ASSUME NEW j \in Ids, Stable(j)'
        PROVE  Stable(j) /\ (Behind(j)' <=> Behind(j))
    <3>1. j # i /\ Stable(j)
      BY <1>0, <2>1 DEF Stable, ByPopularity
    <3>2. rows'[j] = rows[j] /\ cursor' = cursor /\ query' = query
      BY <1>0, <1>1, <3>1 DEF walk
    <3> QED
      BY <3>1, <3>2 DEF Behind, AfterCursor, AfterByKey
  <2>2. \A j : Occurs(seen, j)' = Occurs(seen, j)
    BY <1>0 DEF Occurs, walk
  <2> QED
    BY <1>0, <2>1, <2>2 DEF WalkInv, DeliveredOnce, walk
<1>7. InOrder'
  BY <1>0 DEF InOrder
<1> QED
  BY <1>2, <1>5, <1>6, <1>7 DEF WalkInv

LEMMA NextWalk == WalkInv /\ [Next]_vars => WalkInv'
<1> SUFFICES ASSUME WalkInv, [Next]_vars PROVE WalkInv'
  OBVIOUS
<1>1. CASE Restart
  <2>1. /\ UNCHANGED <<query, rows, moved, tied, walk>> /\ past' \subseteq past \cup {Now}
        /\ Now'.rows = Now.rows
    BY <1>1 DEF Restart, Now
  <2> QED
    BY <2>1, WalkStands
<1>2. ASSUME NEW v \in past, Expire(v) PROVE WalkInv'
  <2>1. /\ UNCHANGED <<query, rows, moved, tied, walk>> /\ past' \subseteq past /\ Now' = Now
    BY <1>2 DEF Expire, Now
  <2> QED
    BY <2>1, WalkStands
<1>3. CASE UNCHANGED vars
  <2>1. UNCHANGED <<query, rows, moved, tied, walk>> /\ past' = past /\ Now' = Now
    BY <1>3 DEF vars, server, Now
  <2> QED
    BY <2>1, WalkStands
<1> QED
  BY <1>1, <1>2, <1>3, NextPageWalk, RefuseWalk, MoveWalk DEF Next

LEMMA WalkInvariant == Spec => []WalkInv
BY InitWalk, NextWalk, PTL DEF Spec

(* However other rows move and whatever tables the pages are of, old ones  *)
(* from the cache included: a row that stays put is delivered at most once *)
(* and, by a finished walk, exactly once, by popularity always, by another *)
(* key if no row ever shared its key.                                      *)
THEOREM StableRowsDelivered == Spec => []StableRowsSeenOnce
<1>1. ASSUME WalkInv PROVE StableRowsSeenOnce
  <2>1. \A i \in Ids : Times(i) = Cardinality(Occurs(seen, i))
    BY DEF Times, Occurs
  <2> QED
    BY <1>1, <2>1 DEF WalkInv, StableRowsSeenOnce, DeliveredOnce, Stable
<1> QED
  BY <1>1, WalkInvariant, PTL

(* While nothing moves, the pages of the default query concatenate to the  *)
(* list by popularity, and by id among equals, both descending.            *)
THEOREM DefaultPagesInOrder == Spec => []DefaultOrder
<1>1. ASSUME WalkInv, ByPopularity, query.dir = "desc", moved = {},
             NEW m \in DOMAIN seen, NEW n \in DOMAIN seen, m < n
      PROVE  \/ rows[seen[m]].popularity > rows[seen[n]].popularity
             \/ rows[seen[m]].popularity = rows[seen[n]].popularity /\ seen[m] > seen[n]
  <2>1. Precedes(rows, seen[m], seen[n])
    BY <1>1 DEF WalkInv, WalkTyped, InOrder
  <2>2. seen[m] \in Ids /\ seen[n] \in Ids
    BY <1>1 DEF WalkInv, WalkTyped
  <2>3. \A i \in Ids : rows[i].key = rows[i].popularity
    BY <1>1, RowsFit DEF Fits
  <2> QED
    BY <1>1, <2>1, <2>2, <2>3 DEF Precedes
<1>2. WalkInv => DefaultOrder
  BY <1>1 DEF DefaultOrder
<1> QED
  BY <1>2, WalkInvariant, PTL
=============================================================================
