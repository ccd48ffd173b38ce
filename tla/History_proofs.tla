--------------------------- MODULE History_proofs ---------------------------
(***************************************************************************)
(* Proofs about History, for any number of threads, requests, days and rows. *)
(*                                                                          *)
(* The ids of the table are 1 to some k (Table), so a new row has a new id.  *)
(* What a client is owed and has not been shown lies at or behind its        *)
(* offset in the list it asks for, and behind a page it has got only if      *)
(* that page is full (Pages): a new row moves the others away from it, never *)
(* towards it.  While no row is added to its list, what it has been shown    *)
(* lies before its offset (Quiet).  Both rest on the order of the rows being *)
(* total, so that the ranks of n rows are 0 to n - 1 (RanksFill).            *)
(***************************************************************************)
EXTENDS History, FiniteSetTheorems, FunctionTheorems, TLAPS

(* Rows of a table with a key. *)
Keyed(rows) ==
    /\ rows \subseteq Row /\ IsFiniteSet(rows)
    /\ \A r, s \in rows : r.id = s.id => r = s

-----------------------------------------------------------------------------
(* ORDER BY date DESC, with ties by id, is a strict total order. *)
LEMMA DateEquality ==
    ASSUME NEW d \in Date, NEW e \in Date, d.day = e.day, d.time = e.time
    PROVE  d = e
BY DEF Date

LEMMA BeforeOrder ==
    ASSUME NEW rows, Keyed(rows), NEW r \in rows, NEW s \in rows, NEW u \in rows
    PROVE  /\ ~Before(r, r)
           /\ Before(r, s) /\ Before(s, u) => Before(r, u)
           /\ r # s => Before(r, s) \/ Before(s, r)
<1>1. /\ r.id \in Nat /\ s.id \in Nat /\ u.id \in Nat
      /\ r.date \in Date /\ s.date \in Date /\ u.date \in Date
  BY DEF Keyed, Row
<1>2. \A d \in Date : d.day \in Int /\ d.time \in Int
  <2>1. NoTime \in Int /\ 0..LastSecond \subseteq Int /\ Days \subseteq Int
    BY HistoryAssumption DEF NoTime
  <2> QED
    BY <2>1 DEF Date
<1>3. r # s => r.id # s.id
  BY DEF Keyed
<1>4. ~Before(r, r)
  BY <1>1 DEF Before
<1>5. ASSUME Before(r, s), Before(s, u) PROVE Before(r, u)
  <2>1. CASE r.date = u.date
    <3>1. r.date = s.date
      BY <1>1, <1>2, <1>5, <2>1, DateEquality DEF Before, AtMost
    <3> QED
      BY <1>1, <1>5, <2>1, <3>1 DEF Before
  <2>2. CASE r.date # u.date
    BY <1>1, <1>2, <1>5, <2>2 DEF Before, AtMost
  <2> QED
    BY <2>1, <2>2
<1>6. r # s => Before(r, s) \/ Before(s, r)
  <2>1. r.date = s.date \/ r.date.day # s.date.day \/ r.date.time # s.date.time
    BY <1>1, DateEquality
  <2> QED
    BY <1>1, <1>2, <1>3, <2>1 DEF Before, AtMost
<1> QED
  BY <1>4, <1>5, <1>6

(* The ranks of more rows are greater. *)
LEMMA RankGrows ==
    ASSUME NEW more, IsFiniteSet(more), NEW rows \in SUBSET more, NEW r
    PROVE  /\ Rank(r, rows) \in Nat /\ Rank(r, more) \in Nat
           /\ Rank(r, rows) <= Rank(r, more)
<1> DEFINE A == {s \in rows : Before(s, r)}
           B == {s \in more : Before(s, r)}
<1>1. IsFiniteSet(B)
  BY FS_Subset, B \in SUBSET more
<1>2. A \in SUBSET B
  OBVIOUS
<1>3. IsFiniteSet(A) /\ Cardinality(A) <= Cardinality(B)
  BY <1>1, <1>2, FS_Subset
<1> QED
  BY <1>1, <1>3, FS_CardinalityType DEF Rank

LEMMA RankStrict ==
    ASSUME NEW rows, Keyed(rows), NEW r \in rows, NEW s \in rows, Before(r, s)
    PROVE  Rank(r, rows) < Rank(s, rows)
<1> DEFINE A == {x \in rows : Before(x, r)}
           B == {x \in rows : Before(x, s)}
<1>1. IsFiniteSet(rows)
  BY DEF Keyed
<1>2. IsFiniteSet(B)
  BY <1>1, FS_Subset, B \in SUBSET rows
<1>3. A \in SUBSET B
  BY BeforeOrder
<1>4. A # B
  BY BeforeOrder
<1>5. IsFiniteSet(A) /\ Cardinality(A) <= Cardinality(B) /\ Cardinality(A) # Cardinality(B)
  BY <1>2, <1>3, <1>4, FS_Subset
<1>6. Cardinality(A) \in Nat /\ Cardinality(B) \in Nat
  BY <1>2, <1>5, FS_CardinalityType
<1> QED
  BY <1>5, <1>6 DEF Rank

(* The ranks of n rows are 0 to n - 1. *)
LEMMA RanksFill ==
    ASSUME NEW rows, Keyed(rows)
    PROVE  [x \in rows |-> Rank(x, rows)] \in Bijection(rows, 0..(Cardinality(rows) - 1))
<1> DEFINE n == Cardinality(rows)
           f == [x \in rows |-> Rank(x, rows)]
<1>1. IsFiniteSet(rows) /\ n \in Nat
  BY FS_CardinalityType DEF Keyed
<1>2. ASSUME NEW x \in rows PROVE Rank(x, rows) \in 0..(n - 1)
  <2> DEFINE A == {y \in rows : Before(y, x)}
  <2>1. A \in SUBSET (rows \ {x})
    BY BeforeOrder
  <2>2. IsFiniteSet(rows \ {x}) /\ Cardinality(rows \ {x}) = n - 1
    BY <1>1, FS_RemoveElement
  <2>3. IsFiniteSet(A) /\ Cardinality(A) <= n - 1
    BY <2>1, <2>2, FS_Subset
  <2>4. Cardinality(A) \in Nat
    BY <2>3, FS_CardinalityType
  <2> QED
    BY <1>1, <2>3, <2>4 DEF Rank
<1>3. ASSUME NEW x \in rows, NEW y \in rows, Rank(x, rows) = Rank(y, rows) PROVE x = y
  BY <1>2, <1>3, RankStrict, BeforeOrder
<1>4. f \in Injection(rows, 0..(n - 1))
  BY <1>2, <1>3, Fun_IsInj
<1>5. IsFiniteSet(0..(n - 1)) /\ Cardinality(0..(n - 1)) = n
  BY <1>1, FS_Interval
<1>6. f \in Surjection(rows, 0..(n - 1))
  BY <1>1, <1>4, <1>5, FS_Injection
<1> QED
  BY <1>4, <1>6 DEF Bijection

PageOf(rows, from, n) == {x \in rows : Rank(x, rows) \in from..(from + n - 1)}

(* A page that rows come behind is full. *)
LEMMA FullPage ==
    ASSUME NEW rows, Keyed(rows), NEW from \in Nat, NEW n \in Nat \ {0},
           NEW r \in rows, Rank(r, rows) >= from + n
    PROVE  n <= Cardinality(PageOf(rows, from, n))
<1> DEFINE P == PageOf(rows, from, n)
           f == [x \in rows |-> Rank(x, rows)]
           g == [x \in P |-> Rank(x, rows)]
           N == Cardinality(rows)
<1>1. IsFiniteSet(rows) /\ N \in Nat
  BY FS_CardinalityType DEF Keyed
<1>2. f \in Surjection(rows, 0..(N - 1)) /\ f \in [rows -> 0..(N - 1)]
  BY RanksFill DEF Bijection, Surjection
<1>3. Rank(r, rows) \in 0..(N - 1)
  BY <1>2
<1>4. ASSUME NEW k \in from..(from + n - 1) PROVE \E x \in P : g[x] = k
  <2>1. k \in 0..(N - 1)
    BY <1>1, <1>3
  <2>2. PICK x \in rows : f[x] = k
    BY <1>2, <2>1 DEF Surjection
  <2> QED
    BY <2>2 DEF PageOf
<1>5. g \in [P -> from..(from + n - 1)]
  BY DEF PageOf
<1>6. g \in Surjection(P, from..(from + n - 1))
  BY <1>4, <1>5, Fun_IsSurj
<1>7. IsFiniteSet(P)
  BY <1>1, FS_Subset, P \in SUBSET rows DEF PageOf
<1>8. Cardinality(from..(from + n - 1)) <= Cardinality(P)
  BY <1>6, <1>7, FS_Surjection
<1>9. Cardinality(from..(from + n - 1)) = n
  BY FS_Interval
<1> QED
  BY <1>8, <1>9

-----------------------------------------------------------------------------
(* What the words of a query come to. *)
Matches(q, r) ==
    /\ TypeGiven(q) => r.type = Type(q)
    /\ DatesGiven(q) => AtMost(StartOfDay(q.from), r.date) /\ AtMost(r.date, EndOfDay(q.to))

MatchOf(rows, q) == {r \in rows : Matches(q, r)}

LEMMA MatchingRows ==
    ASSUME NEW q \in Query
    PROVE  Matching(q) = MatchOf(history, q)
<1>1. q.kind \in QueryKinds
  BY DEF Query
<1> QED
  BY <1>1
  DEF QueryKinds, Matching, MatchOf, Matches, TypeGiven, DatesGiven, OfType, InRange, OfTypeInRange

LEMMA WordValues ==
    ASSUME NEW q \in Query
    PROVE  Type(q) \in Int /\ Limit(q) \in Int /\ Offset(q) \in Int
<1>1. \A w \in Word, d \in Int : Value(w, d) \in Int
  BY DEF Word, Value
<1>2. q.type \in Word /\ q.limit \in Word /\ q.offset \in Word
  BY DEF Query
<1> QED
  BY <1>1, <1>2 DEF Type, Limit, Offset

(* What a client means to list is listed. *)
LEMMA WantedMatches ==
    ASSUME NEW q \in Query, Keyed(history), DatesGiven(q) => ~NoRange(q)
    PROVE  Wanted(q) \subseteq MatchOf(history, q)
<1> SUFFICES ASSUME NEW r \in Wanted(q) PROVE Matches(q, r)
  BY DEF Wanted, MatchOf
<1>1. r \in history /\ r \in Row
  BY DEF Wanted, Keyed
<1>2. TypeGiven(q) => r.type = Type(q)
  <2>1. TypeGiven(q) => r.type = q.type /\ q.type \in Int
    BY <1>1 DEF Wanted, Row
  <2> QED
    BY <2>1, HistoryAssumption DEF Type, Value
<1>3. ASSUME DatesGiven(q)
      PROVE  AtMost(StartOfDay(q.from), r.date) /\ AtMost(r.date, EndOfDay(q.to))
  <2>1. q.from \in Days /\ q.to \in Days
    BY <1>3 DEF NoRange, Query
  <2>2. /\ q.from \in Int /\ q.to \in Int /\ r.date.day \in Int
        /\ r.date.time \in {NoTime} \cup 0..LastSecond /\ LastSecond \in Nat
    BY <1>1, <2>1, HistoryAssumption DEF Row, Date
  <2>3. /\ q.from <= r.date.day /\ r.date.day <= q.to
        /\ r.date.time = NoTime => q.from # r.date.day
    BY <1>3, <2>2 DEF Wanted
  <2> QED
    BY <2>2, <2>3 DEF AtMost, StartOfDay, EndOfDay, NoTime
<1> QED
  BY <1>2, <1>3 DEF Matches

-----------------------------------------------------------------------------
(* What an answer shows of a row. *)
ViewOf(e, r) ==
    /\ e = [InFull(r) EXCEPT !.plate = e.plate]
    /\ e.plate \in BOOLEAN /\ (e.plate \/ r.type = 2)

LEMMA ShownIsView ==
    ASSUME NEW q \in Query, NEW r \in Row
    PROVE  /\ Shown(q, r) \in Element /\ ViewOf(Shown(q, r), r)
           /\ Shown(q, r).id = r.id
<1>1. /\ r.id \in Nat /\ r.date \in Date /\ r.type \in 0..2 /\ r.snapshots \in BOOLEAN
      /\ r.speed \in Int \cup {NoSpeed}
  BY DEF Row
<1>2. InFull(ReadBack(q, r)) = InFull(r)
  BY <1>1 DEF InFull, ReadBack, Row
<1>3. InFull(r) \in Element
  BY <1>1 DEF InFull, Element
<1>4. Shown(q, r) = InFull(r) \/ Shown(q, r) = [InFull(r) EXCEPT !.plate = r.type # 2]
  <2>1. ReadBack(q, r).type = r.type
    BY DEF ReadBack, Row
  <2> QED
    BY <1>2, <2>1 DEF Shown, ByType
<1>5. InFull(r).plate = TRUE /\ InFull(r).id = r.id
  BY DEF InFull
<1> QED
  BY <1>3, <1>4, <1>5 DEF ViewOf, Element

(* As many elements as rows. *)
LEMMA ShownAll ==
    ASSUME NEW q \in Query, NEW rows, Keyed(rows)
    PROVE  Cardinality({Shown(q, r) : r \in rows}) = Cardinality(rows)
<1> DEFINE S == {Shown(q, r) : r \in rows}
           f == [r \in rows |-> Shown(q, r)]
<1>1. f \in [rows -> S]
  OBVIOUS
<1>2. \A r, s \in rows : f[r] = f[s] => r = s
  BY ShownIsView DEF Keyed
<1>3. \A e \in S : \E r \in rows : f[r] = e
  OBVIOUS
<1>4. f \in Bijection(rows, S)
  BY <1>1, <1>2, <1>3, Fun_IsBij
<1> QED
  BY <1>4, FS_Bijection DEF Keyed, ExistsBijection

-----------------------------------------------------------------------------
(* The invariant. *)

Table == Keyed(history) /\ \E k \in Nat : Ids(history) = 1..k

Shapes ==
    /\ pc \in [Threads -> {"idle", "lookup", "select", "insert", "reply"}]
    /\ request = [t \in Threads |-> request[t]]
    /\ answer \in [Threads -> {0, 200, 400, 404, 500}]
    /\ page \in [Threads -> SUBSET Element]
    /\ due \in [Threads -> SUBSET Nat] /\ seen \in [Threads -> SUBSET Nat]

(* t serves a client that waits for a page or reads one. *)
Active(t) == t \in Listing

Local(t) ==
    /\ pc[t] = "idle" => request[t] = NoRequest /\ seen[t] = {}
    /\ pc[t] = "insert" => request[t].event \in StoredEvent /\ request[t].kind = "add"
    /\ pc[t] \in {"lookup", "select"} => request[t] \in Query
    /\ pc[t] = "reply" => \/ request[t].kind = "add"
                          \/ request[t].kind \in QueryKinds /\ request[t] \in Query
    /\ answer[t] # 0 => pc[t] = "reply"
    /\ Active(t) => ~NoPage(request[t])
    /\ page[t] # {} => Active(t) /\ pc[t] = "reply"

(* The rows a client is owed, and those it is shown, are in the table. *)
InTable(t) ==
    /\ Active(t) => due[t] \subseteq Ids(history)
    /\ \A e \in page[t] : \E r \in history : ViewOf(e, r)

Ahead(t, r, n) ==
    LET rows == MatchOf(history, request[t])
    IN  r \in rows /\ Rank(r, rows) >= n

(* What a client is owed and has not got lies ahead of it, and behind the     *)
(* page it has got only if that one is full.                                  *)
Pages(t) ==
    Active(t) => \A r \in history : r.id \in due[t] \ seen[t] =>
        /\ Ahead(t, r, Offset(request[t]))
        /\ (pc[t] = "reply" /\ r.id \notin Ids(page[t])) =>
              /\ Ahead(t, r, Offset(request[t]) + Limit(request[t]))
              /\ ~(Cardinality(page[t]) < Limit(request[t]))

(* As long as nothing is added to its list, what a client has got lies behind it. *)
Quiet(t) ==
    (Active(t) /\ Ids(MatchOf(history, request[t])) \subseteq due[t]) =>
        \A r \in MatchOf(history, request[t]) :
            /\ r.id \in seen[t] => ~Ahead(t, r, Offset(request[t]))
            /\ r.id \in Ids(page[t]) => ~Ahead(t, r, Offset(request[t]) + Limit(request[t]))

ThreadInv(t) == Local(t) /\ InTable(t) /\ (~DbMayFail => Pages(t)) /\ Quiet(t)

IInv == Table /\ Shapes /\ \A t \in Threads : ThreadInv(t)

LEMMA ActiveMeans ==
    ASSUME NEW t \in Threads
    PROVE  Active(t) <=> /\ request[t].kind \in QueryKinds
                         /\ pc[t] \in {"lookup", "select"} \/ answer[t] = 200
BY DEF Active, Listing

LEMMA ActiveQuery ==
    ASSUME NEW t \in Threads, Local(t), Active(t)
    PROVE  request[t] \in Query
<1>1. "add" \notin QueryKinds
  BY DEF QueryKinds
<1> QED
  BY <1>1, ActiveMeans DEF Local

LEMMA IInvImpliesTypeOK == IInv => TypeOK
BY DEF IInv, TypeOK, Table, Keyed, Shapes, ThreadInv, Local

-----------------------------------------------------------------------------
(* The table grows by one row with a new id, if at all. *)
Grows ==
    \/ history' = history
    \/ \E n \in Row : history' = history \cup {n} /\ n.id \notin Ids(history)

Unmoved(t) ==
    /\ pc'[t] = pc[t] /\ request'[t] = request[t] /\ answer'[t] = answer[t]
    /\ page'[t] = page[t] /\ due'[t] = due[t] /\ seen'[t] = seen[t]

(* The ids given out are 1 to some k; the next one is k + 1. *)
LEMMA NextIdIsNew ==
    ASSUME Table, NEW k \in Nat, Ids(history) = 1..k
    PROVE  NextId = k + 1
<1> DEFINE S == {0} \cup {r.id : r \in history}
<1>1. S = 0..k
  BY DEF Ids
<1> HIDE DEF S
<1>2. k \in S /\ \A y \in S : k >= y
  BY <1>1
<1>3. \A x \in S : (\A y \in S : x >= y) => x = k
  BY <1>1
<1>4. Max(S) = k
  BY <1>2, <1>3 DEF Max
<1> QED
  BY <1>4 DEF NextId, S

LEMMA Created ==
    ASSUME Table, NEW e \in StoredEvent, CreateHistory(e)
    PROVE  Table' /\ Grows
<1>1. PICK k \in Nat : Ids(history) = 1..k
  BY DEF Table
<1> DEFINE n == [id |-> NextId, date |-> e.date, type |-> e.type,
                 snapshots |-> e.snapshots, speed |-> e.speed, utf8 |-> e.utf8]
<1>2. NextId = k + 1
  BY <1>1, NextIdIsNew
<1>3. n \in Row /\ n.id = k + 1
  BY <1>2 DEF StoredEvent, Row
<1>4. history' = history \cup {n}
  BY DEF CreateHistory
<1>5. \A r \in history : r.id \in 1..k
  BY <1>1 DEF Ids
<1>6. n.id \notin Ids(history)
  BY <1>1, <1>3
<1>7. Keyed(history)'
  <2> HIDE DEF n
  <2>1. IsFiniteSet(history') /\ history' \subseteq Row
    BY <1>3, <1>4, FS_AddElement DEF Table, Keyed
  <2>2. \A r \in history : r.id # n.id
    BY <1>3, <1>5
  <2> QED
    BY <1>4, <2>1, <2>2 DEF Table, Keyed
<1>8. Ids(history)' = 1..(k + 1)
  <2>1. Ids(history)' = Ids(history) \cup {k + 1}
    BY <1>3, <1>4 DEF Ids
  <2> QED
    BY <1>1, <2>1
<1>9. Table'
  BY <1>7, <1>8 DEF Table
<1> QED
  BY <1>3, <1>4, <1>6, <1>9 DEF Grows

(* What lies ahead of a client lies as far ahead of it in the larger table. *)
LEMMA AheadStays ==
    ASSUME Grows, Table', NEW t \in Threads, request'[t] = request[t],
           NEW r \in history, NEW n \in Int, Ahead(t, r, n)
    PROVE  Ahead(t, r, n)'
<1> DEFINE q == request[t]
           rows == MatchOf(history, q)
           more == MatchOf(history', q)
<1>1. rows \in SUBSET more /\ more \in SUBSET history'
  BY DEF Grows, MatchOf
<1>2. IsFiniteSet(more)
  BY <1>1, FS_Subset DEF Table, Keyed
<1>3. /\ Rank(r, rows) \in Nat /\ Rank(r, more) \in Nat
      /\ Rank(r, rows) <= Rank(r, more)
  BY <1>1, <1>2, RankGrows
<1>4. r \in rows /\ Rank(r, rows) >= n
  BY DEF Ahead
<1> QED
  BY <1>1, <1>3, <1>4 DEF Ahead

(* A thread that does not move does not mind a new row. *)
LEMMA UnmovedStays ==
    ASSUME Table, Table', Grows, NEW t \in Threads, Shapes, ThreadInv(t), Unmoved(t)
    PROVE  ThreadInv(t)'
<1> USE DEF Unmoved
<1>1. Active(t)' <=> Active(t)
  BY ActiveMeans DEF Active, Listing
<1>2. Local(t)'
  BY <1>1 DEF ThreadInv, Local, NoPage, Limit, Offset, Value, Stuck, TypeGiven
<1>3. history \subseteq history' /\ Ids(history) \subseteq Ids(history)'
  BY DEF Grows, Ids
<1>4. InTable(t)'
  BY <1>1, <1>3 DEF ThreadInv, InTable
<1>5. ASSUME Active(t)
      PROVE  Offset(request[t]) \in Int /\ Limit(request[t]) \in Int
  <2>1. request[t] \in Query
    BY <1>5, ActiveQuery DEF ThreadInv
  <2> QED
    BY <2>1, WordValues
<1>6. ASSUME Pages(t) PROVE Pages(t)'
  <2> SUFFICES ASSUME Active(t), NEW r \in history', r.id \in due[t] \ seen[t]
               PROVE  /\ Ahead(t, r, Offset(request[t]))'
                      /\ (pc[t] = "reply" /\ r.id \notin Ids(page[t])) =>
                            /\ Ahead(t, r, Offset(request[t]) + Limit(request[t]))'
                            /\ ~(Cardinality(page[t]) < Limit(request[t]))
    BY <1>1 DEF Pages, Ahead
  <2>1. r \in history
    BY DEF Grows, ThreadInv, InTable, Ids
  <2>2. Offset(request[t]) + Limit(request[t]) \in Int
    BY <1>5
  <2> QED
    BY <1>5, <1>6, <2>1, <2>2, AheadStays DEF Pages
<1>7. Quiet(t)'
  <2> SUFFICES ASSUME Active(t), Ids(MatchOf(history', request[t])) \subseteq due[t]
               PROVE  \A r \in MatchOf(history', request[t]) :
                        /\ r.id \in seen[t] => ~Ahead(t, r, Offset(request[t]))'
                        /\ r.id \in Ids(page[t]) =>
                              ~Ahead(t, r, Offset(request[t]) + Limit(request[t]))'
    BY <1>1 DEF Quiet, Ahead
  <2>1. MatchOf(history', request[t]) = MatchOf(history, request[t])
    <3>1. ASSUME NEW n \in Row, history' = history \cup {n}, n.id \notin Ids(history)
          PROVE  ~Matches(request[t], n)
      BY <3>1 DEF MatchOf, Ids, ThreadInv, InTable
    <3> QED
      BY <3>1 DEF MatchOf, Grows
  <2> QED
    BY <2>1 DEF ThreadInv, Quiet, Ahead
<1> QED
  BY <1>2, <1>4, <1>6, <1>7 DEF ThreadInv

-----------------------------------------------------------------------------
(* The steps. *)

(* A thread that lists nothing has no part in the lists. *)
LEMMA Idles ==
    ASSUME NEW t \in Threads, Local(t)', ~Active(t)', page'[t] = {}
    PROVE  ThreadInv(t)'
BY DEF ThreadInv, InTable, Pages, Quiet

LEMMA OneMoves ==
    ASSUME IInv, NEW t \in Threads, Table', Grows, Shapes', ThreadInv(t)',
           \A u \in Threads \ {t} : Unmoved(u)
    PROVE  IInv'
<1>1. ASSUME NEW u \in Threads \ {t} PROVE ThreadInv(u)'
  BY UnmovedStays DEF IInv
<1> QED
  BY <1>1 DEF IInv

LEMMA TableStays ==
    ASSUME IInv, UNCHANGED history
    PROVE  Table' /\ Grows
BY DEF IInv, Table, Keyed, Grows, Ids

(* An event that is accepted is one the table may hold. *)
LEMMA EventType ==
    ASSUME NEW a \in AddRequest, NEW type, Accepted(a, type)
    PROVE  Event(a, type) \in StoredEvent
<1>1. a.date \in Date /\ type \in 0..2
  BY DEF Accepted, AddRequest
<1>2. Value(a.speed, -1) \in Int
  BY DEF Value, AddRequest, Word
<1>3. a.snapshots \in BOOLEAN /\ a.utf8 \in BOOLEAN
  BY DEF AddRequest
<1> QED
  BY <1>1, <1>2, <1>3 DEF Event, StoredEvent

LEMMA InitIInv == Init => IInv
<1> SUFFICES ASSUME Init PROVE IInv
  OBVIOUS
<1>1. Ids(history) = 1..0
  BY DEF Init, Ids
<1>2. Table
  <2>1. IsFiniteSet({}) /\ 0 \in Nat
    BY FS_EmptySet
  <2> QED
    BY <1>1, <2>1 DEF Init, Table, Keyed
<1>3. Shapes
  BY DEF Init, Shapes
<1>4. ASSUME NEW t \in Threads PROVE ThreadInv(t)
  <2>1. ~Active(t)
    BY ActiveMeans DEF Init
  <2> QED
    BY <2>1 DEF Init, ThreadInv, Local, InTable, Pages, Quiet
<1> QED
  BY <1>2, <1>3, <1>4 DEF IInv

LEMMA AddReceiveStep ==
    ASSUME IInv, NEW t \in Threads, AddReceive(t)
    PROVE  IInv'
<1>0. PICK a \in AddRequests : \E type \in AddedType(a) :
         /\ request' = [request EXCEPT ![t] = [kind |-> "add", event |-> Event(a, type)]]
         /\ IF Accepted(a, type)
            THEN pc' = [pc EXCEPT ![t] = "insert"] /\ UNCHANGED answer
            ELSE Reply(t, 400)
  BY DEF AddReceive
<1>1. PICK type \in AddedType(a) :
         /\ request' = [request EXCEPT ![t] = [kind |-> "add", event |-> Event(a, type)]]
         /\ IF Accepted(a, type)
            THEN pc' = [pc EXCEPT ![t] = "insert"] /\ UNCHANGED answer
            ELSE Reply(t, 400)
  BY <1>0
<1>2. Table' /\ Grows
  BY TableStays DEF AddReceive
<1>3. Shapes'
  <2>1. /\ \/ pc' = [pc EXCEPT ![t] = "insert"] /\ answer' = answer
           \/ pc' = [pc EXCEPT ![t] = "reply"] /\ answer' = [answer EXCEPT ![t] = 400]
        /\ page' = page /\ due' = due /\ seen' = seen
    BY <1>1 DEF AddReceive, Reply
  <2>2. \E x : request' = [request EXCEPT ![t] = x]
    BY <1>1
  <2> QED
    BY <2>1, <2>2 DEF IInv, Shapes
<1>4. \A u \in Threads \ {t} : Unmoved(u)
  BY <1>1 DEF IInv, Shapes, AddReceive, Reply, Unmoved
<1>5. answer[t] = 0 /\ page[t] = {}
  BY DEF IInv, ThreadInv, Local, AddReceive
<1>6. Accepted(a, type) => Event(a, type) \in StoredEvent
  BY EventType, HistoryAssumption
<1>7. request'[t].kind = "add" /\ request'[t].event = Event(a, type)
  BY <1>1 DEF IInv, Shapes
<1>8. ~Active(t)' /\ page'[t] = {}
  <2>1. request'[t].kind \notin QueryKinds
    BY <1>7 DEF QueryKinds
  <2> QED
    BY <1>5, <2>1 DEF Active, Listing, AddReceive
<1>9. Local(t)'
  <2>1. CASE Accepted(a, type)
    BY <1>1, <1>5, <1>6, <1>7, <1>8, <2>1 DEF IInv, Shapes, Local
  <2>2. CASE ~Accepted(a, type)
    BY <1>1, <1>7, <1>8, <2>2 DEF IInv, Shapes, Local, Reply
  <2> QED
    BY <2>1, <2>2
<1> QED
  BY <1>2, <1>3, <1>4, <1>8, <1>9, Idles, OneMoves

LEMMA AddInsertStep ==
    ASSUME IInv, NEW t \in Threads, AddInsert(t)
    PROVE  IInv'
<1>1. /\ request[t].event \in StoredEvent /\ request[t].kind = "add"
      /\ page[t] = {} /\ Table
  BY DEF IInv, ThreadInv, Local, AddInsert
<1>2. Table' /\ Grows
  BY <1>1, Created, TableStays DEF AddInsert
<1>3. /\ pc' = [pc EXCEPT ![t] = "reply"]
      /\ \E code \in {200, 500} : answer' = [answer EXCEPT ![t] = code]
      /\ UNCHANGED <<request, page, due, seen>>
  BY DEF AddInsert, Reply
<1>4. Shapes'
  BY <1>3 DEF IInv, Shapes
<1>5. \A u \in Threads \ {t} : Unmoved(u)
  BY <1>3 DEF IInv, Shapes, Unmoved
<1>6. ~Active(t)'
  <2>1. "add" \notin QueryKinds
    BY DEF QueryKinds
  <2> QED
    BY <1>1, <1>3, <2>1 DEF Active, Listing
<1>7. Local(t)'
  BY <1>1, <1>3, <1>6 DEF IInv, Shapes, Local
<1> QED
  BY <1>1, <1>2, <1>3, <1>4, <1>5, <1>6, <1>7, Idles, OneMoves

(* A query that asks for no page, or for no range of dates, is refused. *)
LEMMA ReceiveStep ==
    ASSUME IInv, NEW t \in Threads, NEW q \in Queries, NEW invalid \in BOOLEAN, Receive(t, q, invalid),
           NoPage(q) => invalid, DatesGiven(q) /\ NoRange(q) => invalid
    PROVE  IInv'
<1>1. Table' /\ Grows /\ Keyed(history) /\ history' = history
  BY TableStays DEF Receive, IInv, Table
<1>2. q \in Query /\ q.kind \in QueryKinds /\ q.kind # "add"
  BY HistoryAssumption DEF Query, QueryKinds
<1>3. answer[t] = 0 /\ page[t] = {} /\ seen[t] = {}
  BY DEF Receive, IInv, ThreadInv, Local
<1>4. request' = [request EXCEPT ![t] = q] /\ request'[t] = q
  BY DEF Receive, IInv, Shapes
<1>5. Ids(Wanted(q)) \subseteq Ids(history) /\ Ids(history) \subseteq Nat
  BY <1>1 DEF Ids, Wanted, Keyed, Row
<1>6. /\ \/ pc' = [pc EXCEPT ![t] = "reply"] /\ answer' = [answer EXCEPT ![t] = 400] /\ due' = due
         \/ pc' = [pc EXCEPT ![t] = "lookup"] /\ answer' = answer
      /\ page' = page /\ seen' = seen
  BY DEF Receive, Reply
<1>7. \E d \in SUBSET Nat : due' = [due EXCEPT ![t] = d]
  <2>1. CASE invalid
    BY <2>1 DEF Receive, IInv, Shapes
  <2>2. CASE ~invalid
    BY <1>5, <2>2 DEF Receive, Ids
  <2> QED
    BY <2>1, <2>2
<1>8. Shapes'
  BY <1>4, <1>6, <1>7 DEF IInv, Shapes
<1>9. \A u \in Threads \ {t} : Unmoved(u)
  BY <1>4, <1>6, <1>7 DEF IInv, Shapes, Unmoved
<1>10. ThreadInv(t)'
  <2>1. CASE invalid
    <3>1. pc'[t] = "reply" /\ answer'[t] = 400
      BY <2>1 DEF Receive, Reply, IInv, Shapes
    <3>2. ~Active(t)'
      BY <3>1 DEF Active, Listing
    <3>3. Local(t)'
      BY <1>2, <1>3, <1>4, <1>6, <3>1, <3>2 DEF Local
    <3> QED
      BY <1>3, <1>6, <3>2, <3>3, Idles
  <2>2. CASE ~invalid
    <3>1. /\ pc'[t] = "lookup" /\ answer'[t] = 0 /\ page'[t] = {} /\ seen'[t] = {}
          /\ due'[t] = IF Offset(q) = 0 THEN Ids(Wanted(q)) ELSE {}
      BY <1>3, <2>2 DEF Receive, IInv, Shapes, Ids
    <3>2. ~NoPage(q) /\ (DatesGiven(q) => ~NoRange(q))
      BY <2>2
    <3>3. Local(t)'
      BY <1>2, <1>4, <3>1, <3>2 DEF Local
    <3>4. InTable(t)'
      BY <1>1, <1>5, <3>1 DEF InTable
    <3>5. Pages(t)'
      <4> SUFFICES ASSUME NEW r \in history, r.id \in due'[t]
                   PROVE  Ahead(t, r, Offset(request[t]))'
        BY <1>1, <3>1 DEF Pages
      <4>1. Offset(q) = 0 /\ r \in Wanted(q)
        BY <1>1, <3>1 DEF Ids, Wanted, Keyed
      <4>2. r \in MatchOf(history, q)
        BY <1>1, <1>2, <3>2, <4>1, WantedMatches
      <4>3. Rank(r, MatchOf(history, q)) \in Nat
        <5>1. IsFiniteSet(MatchOf(history, q))
          BY <1>1, FS_Subset DEF Keyed, MatchOf
        <5> QED
          BY <5>1, RankGrows
      <4> QED
        BY <1>1, <1>4, <4>1, <4>2, <4>3 DEF Ahead
    <3>6. Quiet(t)'
      BY <3>1 DEF Quiet, Ids
    <3> QED
      BY <3>3, <3>4, <3>5, <3>6 DEF ThreadInv
  <2> QED
    BY <2>1, <2>2
<1> QED
  BY <1>1, <1>8, <1>9, <1>10, OneMoves

LEMMA QueryStep ==
    ASSUME IInv, NEW t \in Threads,
           \/ GetHistory(t) \/ GetHistoryByEventType(t)
           \/ GetHistoryByDateRange(t) \/ GetHistoryByEventTypeAndDateRange(t)
    PROVE  IInv'
<1>1. CASE GetHistory(t)
  <2>1. PICK q \in Asked("all") : Receive(t, q, NoPage(q))
    BY <1>1 DEF GetHistory
  <2>2. q \in Queries /\ ~DatesGiven(q)
    BY DEF Asked, DatesGiven
  <2>3. (NoPage(q)) \in BOOLEAN
    BY DEF NoPage
  <2> QED
    BY <2>1, <2>2, <2>3, ReceiveStep
<1>2. CASE GetHistoryByEventType(t)
  <2>1. PICK q \in Asked("type") : Receive(t, q, NoPage(q) \/ Type(q) < 0)
    BY <1>2 DEF GetHistoryByEventType
  <2>2. q \in Queries /\ ~DatesGiven(q)
    BY DEF Asked, DatesGiven
  <2>3. (NoPage(q) \/ Type(q) < 0) \in BOOLEAN
    BY DEF NoPage
  <2> QED
    BY <2>1, <2>2, <2>3, ReceiveStep
<1>3. CASE GetHistoryByDateRange(t)
  <2>1. PICK q \in Asked("dates") : Receive(t, q, NoPage(q) \/ NoRange(q))
    BY <1>3 DEF GetHistoryByDateRange
  <2>2. q \in Queries
    BY DEF Asked
  <2>3. (NoPage(q) \/ NoRange(q)) \in BOOLEAN
    BY DEF NoPage
  <2> QED
    BY <2>1, <2>2, <2>3, ReceiveStep
<1>4. CASE GetHistoryByEventTypeAndDateRange(t)
  <2>1. PICK q \in Asked("both") : Receive(t, q, NoPage(q) \/ NoRange(q) \/ Type(q) < 0)
    BY <1>4 DEF GetHistoryByEventTypeAndDateRange
  <2>2. q \in Queries
    BY DEF Asked
  <2>3. (NoPage(q) \/ NoRange(q) \/ Type(q) < 0) \in BOOLEAN
    BY DEF NoPage
  <2> QED
    BY <2>1, <2>2, <2>3, ReceiveStep
<1> QED
  BY <1>1, <1>2, <1>3, <1>4

LEMMA GetLookupStep ==
    ASSUME IInv, NEW t \in Threads, GetLookup(t)
    PROVE  IInv'
<1> USE DEF GetLookup, Reply
<1>1. Table' /\ Grows
  BY TableStays
<1>2. /\ \/ pc' = [pc EXCEPT ![t] = "select"] /\ answer' = answer
         \/ pc' = [pc EXCEPT ![t] = "reply"] /\ answer' = [answer EXCEPT ![t] = 404]
      /\ UNCHANGED <<history, request, page, due, seen>>
  OBVIOUS
<1>3. Shapes'
  BY <1>2 DEF IInv, Shapes
<1>4. \A u \in Threads \ {t} : Unmoved(u)
  BY <1>2 DEF IInv, Shapes, Unmoved
<1>5. answer[t] = 0 /\ page[t] = {} /\ request[t] \in Query /\ request[t].kind \in QueryKinds
  BY DEF IInv, ThreadInv, Local, Query
<1>6. Active(t)
  BY <1>5, ActiveMeans
<1>7. CASE pc' = [pc EXCEPT ![t] = "select"] /\ answer' = answer
  <2>1. pc'[t] = "select" /\ answer'[t] = 0 /\ Active(t)'
    BY <1>2, <1>5, <1>7 DEF IInv, Shapes, Active, Listing
  <2>2. Local(t)'
    BY <1>2, <1>5, <1>6, <2>1 DEF IInv, ThreadInv, Local
  <2>3. InTable(t)' /\ Quiet(t)'
    BY <1>2, <1>5, <1>6, <2>1 DEF IInv, ThreadInv, InTable, Quiet, Ahead
  <2>4. Pages(t) => Pages(t)'
    BY <1>2, <1>6, <2>1 DEF Pages, Ahead
  <2> QED
    BY <1>1, <1>3, <1>4, <2>2, <2>3, <2>4, OneMoves DEF IInv, ThreadInv
<1>8. CASE pc' = [pc EXCEPT ![t] = "reply"] /\ answer' = [answer EXCEPT ![t] = 404]
  <2>1. pc'[t] = "reply" /\ answer'[t] = 404
    BY <1>8 DEF IInv, Shapes
  <2>2. ~Active(t)'
    BY <2>1 DEF Active, Listing
  <2>3. Local(t)'
    BY <1>2, <1>5, <2>1, <2>2 DEF Local
  <2> QED
    BY <1>1, <1>2, <1>3, <1>4, <1>5, <2>2, <2>3, Idles, OneMoves
<1> QED
  BY <1>2, <1>7, <1>8

(* What a page is, and the rows that are not in it though they match. *)
LEMMA PageRows ==
    ASSUME NEW q \in Query, ~NoPage(q)
    PROVE  /\ Offset(q) \in Nat /\ Limit(q) \in Nat \ {0}
           /\ Page(q) = PageOf(MatchOf(history, q), Offset(q), Limit(q))
<1>1. Limit(q) \in Int /\ Offset(q) \in Int
  BY WordValues
<1>2. Offset(q) \in Nat /\ Limit(q) \in Nat \ {0}
  BY <1>1 DEF NoPage
<1> QED
  BY <1>2, MatchingRows DEF Page, PageOf

LEMMA KeyedPart ==
    ASSUME NEW rows, Keyed(rows), NEW part \in SUBSET rows
    PROVE  Keyed(part)
BY FS_Subset DEF Keyed

LEMMA GetSelectStep ==
    ASSUME IInv, NEW t \in Threads, GetSelect(t)
    PROVE  IInv'
<1> DEFINE q == request[t]
           rows == MatchOf(history, q)
<1>1. Table' /\ Grows /\ Keyed(history)
  BY TableStays DEF GetSelect, IInv, Table
<1>2. /\ pc' = [pc EXCEPT ![t] = "reply"] /\ answer' = [answer EXCEPT ![t] = 200]
      /\ UNCHANGED <<history, request, due, seen>>
  BY DEF GetSelect, Reply
<1>3. PICK read \in ReadRows(q) : page' = [page EXCEPT ![t] = {Shown(q, r) : r \in read}]
  BY DEF GetSelect
<1>4. answer[t] = 0 /\ page[t] = {} /\ q \in Query /\ q.kind \in QueryKinds
  BY DEF IInv, ThreadInv, Local, Query, GetSelect
<1>5. Active(t) /\ ~NoPage(q) /\ pc[t] = "select"
  BY <1>4, ActiveMeans DEF IInv, ThreadInv, Local, GetSelect
<1>6. /\ Offset(q) \in Nat /\ Limit(q) \in Nat \ {0}
      /\ Page(q) = PageOf(rows, Offset(q), Limit(q))
  BY <1>4, <1>5, PageRows
<1>7. read \subseteq Page(q) /\ (~DbMayFail => read = Page(q))
  BY HistoryAssumption DEF ReadRows
<1>8. Keyed(rows) /\ read \subseteq history /\ Keyed(read)
  BY <1>1, <1>6, <1>7, KeyedPart DEF PageOf, MatchOf
<1>9. \A r \in read : Shown(q, r) \in Element /\ ViewOf(Shown(q, r), r) /\ Shown(q, r).id = r.id
  BY <1>4, <1>8, ShownIsView DEF Keyed
<1>10. Shapes'
  <2>1. {Shown(q, r) : r \in read} \in SUBSET Element
    BY <1>9
  <2> QED
    BY <1>2, <1>3, <2>1 DEF IInv, Shapes
<1>11. \A u \in Threads \ {t} : Unmoved(u)
  BY <1>2, <1>3 DEF IInv, Shapes, Unmoved
<1>12. /\ pc'[t] = "reply" /\ answer'[t] = 200 /\ Active(t)'
       /\ page'[t] = {Shown(q, r) : r \in read} /\ request' = request
  BY <1>2, <1>3, <1>4 DEF IInv, Shapes, Active, Listing
<1>13. Ids(page'[t]) = Ids(read)
  <2>1. \A e \in page'[t] : e.id \in Ids(read)
    BY <1>9, <1>12 DEF Ids
  <2>2. \A r \in read : r.id \in Ids(page'[t])
    BY <1>9, <1>12 DEF Ids
  <2> QED
    BY <2>1, <2>2 DEF Ids
<1>14. Local(t)'
  BY <1>4, <1>5, <1>12 DEF Local
<1>15. InTable(t)'
  <2>1. \A e \in page'[t] : \E r \in history : ViewOf(e, r)
    BY <1>8, <1>9, <1>12
  <2> QED
    BY <1>2, <1>5, <2>1 DEF IInv, ThreadInv, InTable
<1>16. \A r \in rows : Rank(r, rows) \in Nat
  BY <1>8, RankGrows DEF Keyed
<1>17. ASSUME ~DbMayFail PROVE Pages(t)'
  <2> SUFFICES ASSUME NEW r \in history, r.id \in due[t] \ seen[t]
               PROVE  /\ Ahead(t, r, Offset(q))'
                      /\ r.id \notin Ids(page'[t]) =>
                            /\ Ahead(t, r, Offset(q) + Limit(q))'
                            /\ ~(Cardinality(page'[t]) < Limit(q))
    BY <1>2, <1>12 DEF Pages
  <2>1. r \in rows /\ Rank(r, rows) >= Offset(q)
    BY <1>5, <1>17 DEF IInv, ThreadInv, Pages, Ahead
  <2>2. Ahead(t, r, Offset(q))'
    BY <1>2, <2>1 DEF Ahead
  <2>3. ASSUME r.id \notin Ids(page'[t])
        PROVE  /\ Ahead(t, r, Offset(q) + Limit(q))'
               /\ ~(Cardinality(page'[t]) < Limit(q))
    <3>1. r \notin read
      BY <1>13, <2>3 DEF Ids
    <3>2. Rank(r, rows) >= Offset(q) + Limit(q)
      BY <1>6, <1>7, <1>16, <1>17, <2>1, <3>1 DEF PageOf
    <3>3. Limit(q) <= Cardinality(Page(q))
      BY <1>6, <1>8, <2>1, <3>2, FullPage
    <3>4. Cardinality(page'[t]) = Cardinality(Page(q))
      BY <1>4, <1>7, <1>8, <1>12, <1>17, ShownAll
    <3>5. Cardinality(Page(q)) \in Nat
      BY <1>7, <1>8, <1>17, FS_CardinalityType DEF Keyed
    <3> QED
      BY <1>2, <1>6, <2>1, <3>2, <3>3, <3>4, <3>5 DEF Ahead
  <2> QED
    BY <2>2, <2>3
<1>18. Quiet(t)'
  <2> SUFFICES ASSUME Ids(rows) \subseteq due[t], NEW r \in rows
               PROVE  /\ r.id \in seen[t] => ~Ahead(t, r, Offset(q))'
                      /\ r.id \in Ids(page'[t]) => ~Ahead(t, r, Offset(q) + Limit(q))'
    BY <1>2, <1>12 DEF Quiet
  <2>1. r.id \in seen[t] => ~Ahead(t, r, Offset(q))
    BY <1>5 DEF IInv, ThreadInv, Quiet
  <2>2. ASSUME r.id \in Ids(page'[t]) PROVE ~(Rank(r, rows) >= Offset(q) + Limit(q))
    <3>1. PICK s \in read : s.id = r.id
      BY <1>13, <2>2 DEF Ids
    <3>2. s = r
      BY <1>1, <1>8, <3>1 DEF Keyed, MatchOf
    <3> QED
      BY <1>6, <1>7, <1>16, <3>2 DEF PageOf
  <2> QED
    BY <1>2, <2>1, <2>2 DEF Ahead
<1> QED
  BY <1>1, <1>10, <1>11, <1>14, <1>15, <1>17, <1>18, OneMoves DEF ThreadInv

(* The next page starts where this one ends, and lists the same rows. *)
LEMMA NextPage ==
    ASSUME NEW q \in Query, ~NoPage(q), ~Stuck(q), NEW p,
           p = [q EXCEPT !.offset = Offset(q) + Limit(q)]
    PROVE  /\ p \in Query /\ p.kind = q.kind /\ ~NoPage(p)
           /\ Offset(p) = Offset(q) + Limit(q) /\ Limit(p) = Limit(q)
           /\ \A rows : MatchOf(rows, p) = MatchOf(rows, q)
<1>1. /\ Offset(q) \in Nat /\ Limit(q) \in Nat \ {0}
      /\ Offset(q) + Limit(q) \in Nat /\ Offset(q) + Limit(q) \notin {Junk, None}
  BY PageRows, HistoryAssumption
<1>2. p \in Query
  BY <1>1 DEF Query, Word
<1>3. /\ p.kind = q.kind /\ p.type = q.type /\ p.from = q.from /\ p.to = q.to
      /\ p.limit = q.limit /\ p.offset = Offset(q) + Limit(q)
  BY DEF Query
<1>4. ~Stuck(p) /\ Limit(p) = Limit(q)
  BY <1>3 DEF Stuck, TypeGiven, Limit
<1>5. Offset(p) = Offset(q) + Limit(q)
  <2> DEFINE n == Offset(q) + Limit(q)
  <2>1. p.offset = n /\ n \notin {Junk, None}
    BY <1>1, <1>3
  <2>2. p.limit # Junk
    BY <1>1, <1>3, HistoryAssumption DEF Limit, Value
  <2> HIDE DEF n
  <2>3. Offset(p) = n
    BY <1>4, <2>1, <2>2 DEF Offset, Value
  <2> QED
    BY <2>3 DEF n
<1>6. \A rows : MatchOf(rows, p) = MatchOf(rows, q)
  BY <1>3 DEF MatchOf, Matches, TypeGiven, DatesGiven, Type
<1>7. ~NoPage(p)
  BY <1>1, <1>4, <1>5 DEF NoPage
<1> QED
  BY <1>2, <1>3, <1>4, <1>5, <1>6, <1>7

LEMMA GetNextPageStep ==
    ASSUME IInv, NEW t \in Threads, GetNextPage(t)
    PROVE  IInv'
<1> DEFINE q == request[t]
           p == [q EXCEPT !.offset = Offset(q) + Limit(q)]
           rows == MatchOf(history, q)
<1>1. Table' /\ Grows /\ Keyed(history)
  BY TableStays DEF GetNextPage, IInv, Table
<1>2. /\ pc[t] = "reply" /\ answer[t] = 200 /\ q.kind \in QueryKinds /\ ~Stuck(q)
      /\ request' = [request EXCEPT ![t] = p]
      /\ pc' = [pc EXCEPT ![t] = "lookup"] /\ answer' = [answer EXCEPT ![t] = 0]
      /\ seen' = [seen EXCEPT ![t] = seen[t] \cup Ids(page[t])]
      /\ page' = [page EXCEPT ![t] = {}] /\ UNCHANGED <<history, due>>
  BY DEF GetNextPage, Ids
<1>3. Active(t) /\ q \in Query /\ ~NoPage(q)
  BY <1>2, ActiveMeans, ActiveQuery DEF IInv, ThreadInv, Local
<1>4. /\ p \in Query /\ p.kind = q.kind /\ ~NoPage(p)
      /\ Offset(p) = Offset(q) + Limit(q) /\ MatchOf(history, p) = rows
  BY <1>2, <1>3, NextPage
<1>5. Offset(q) \in Nat /\ Limit(q) \in Nat \ {0}
  BY <1>3, PageRows
<1> HIDE DEF p
<1>6. Ids(page[t]) \subseteq Nat
  BY DEF IInv, Shapes, Ids, Element
<1>7. Shapes'
  <2>1. seen[t] \cup Ids(page[t]) \in SUBSET Nat
    BY <1>6 DEF IInv, Shapes
  <2> QED
    BY <1>2, <2>1 DEF IInv, Shapes
<1>8. \A u \in Threads \ {t} : Unmoved(u)
  BY <1>2 DEF IInv, Shapes, Unmoved
<1>9. /\ pc'[t] = "lookup" /\ answer'[t] = 0 /\ page'[t] = {} /\ request'[t] = p
      /\ seen'[t] = seen[t] \cup Ids(page[t]) /\ due'[t] = due[t]
  BY <1>2 DEF IInv, Shapes
<1>10. Local(t)'
  BY <1>2, <1>4, <1>9 DEF Local, NoRequest
<1>11. InTable(t)'
  BY <1>2, <1>3, <1>9 DEF IInv, ThreadInv, InTable
<1>12. ASSUME Pages(t) PROVE Pages(t)'
  <2> SUFFICES ASSUME NEW r \in history, r.id \in due[t] \ (seen[t] \cup Ids(page[t]))
               PROVE  Ahead(t, r, Offset(request[t]))'
    BY <1>2, <1>9 DEF Pages
  <2>1. Ahead(t, r, Offset(q) + Limit(q))
    BY <1>2, <1>3, <1>12 DEF Pages
  <2> QED
    BY <1>2, <1>4, <1>9, <2>1 DEF Ahead
<1>13. Quiet(t)'
  <2> SUFFICES ASSUME Ids(rows) \subseteq due[t], NEW r \in rows,
                      r.id \in seen[t] \cup Ids(page[t])
               PROVE  ~Ahead(t, r, Offset(request[t]))'
    BY <1>2, <1>4, <1>9 DEF Quiet, Ids
  <2>1. Rank(r, rows) \in Nat
    <3>1. Keyed(rows)
      BY <1>1, KeyedPart DEF MatchOf
    <3> QED
      BY <3>1, RankGrows DEF Keyed
  <2>2. ~(Rank(r, rows) >= Offset(q) + Limit(q))
    BY <1>3, <1>5, <2>1 DEF IInv, ThreadInv, Quiet, Ahead
  <2> QED
    BY <1>2, <1>4, <1>9, <2>2 DEF Ahead
<1> QED
  BY <1>1, <1>7, <1>8, <1>10, <1>11, <1>12, <1>13, OneMoves DEF IInv, ThreadInv

LEMMA RespondStep ==
    ASSUME IInv, NEW t \in Threads, Respond(t)
    PROVE  IInv'
<1>1. Table' /\ Grows
  BY TableStays DEF Respond
<1>2. Shapes'
  BY DEF Respond, IInv, Shapes
<1>3. \A u \in Threads \ {t} : Unmoved(u)
  BY DEF Respond, IInv, Shapes, Unmoved
<1>4. /\ pc'[t] = "idle" /\ answer'[t] = 0 /\ page'[t] = {} /\ seen'[t] = {}
      /\ request'[t] = NoRequest
  BY DEF Respond, IInv, Shapes
<1>5. ~Active(t)'
  BY <1>4 DEF Active, Listing
<1>6. Local(t)'
  BY <1>4, <1>5 DEF Local
<1> QED
  BY <1>1, <1>2, <1>3, <1>4, <1>5, <1>6, Idles, OneMoves

(* The end of the process puts a list that goes on back to its last page. *)
LEMMA ProcessEndsStep ==
    ASSUME IInv, NEW again \in SUBSET Listing, ProcessEnds(again)
    PROVE  IInv'
<1>1. Table' /\ Grows /\ history' = history
  BY TableStays DEF ProcessEnds
<1>2. Shapes'
  BY DEF ProcessEnds, IInv, Shapes
<1>3. ASSUME NEW t \in Threads PROVE ThreadInv(t)'
  <2>1. CASE t \in again
    <3>1. /\ pc'[t] = "lookup" /\ answer'[t] = 0 /\ page'[t] = {}
          /\ request'[t] = request[t] /\ due'[t] = due[t] /\ seen'[t] = seen[t]
      BY <2>1 DEF ProcessEnds
    <3>2. Active(t) /\ request[t] \in Query /\ ~NoPage(request[t])
      BY <2>1, ActiveQuery DEF IInv, ThreadInv, Local, Active
    <3>3. Local(t)'
      BY <3>1, <3>2 DEF Local
    <3>4. InTable(t)' /\ Quiet(t)'
      BY <1>1, <3>1, <3>2 DEF IInv, ThreadInv, InTable, Quiet, Ahead, Ids
    <3>5. Pages(t) => Pages(t)'
      BY <1>1, <3>1, <3>2 DEF Pages, Ahead
    <3> QED
      BY <3>3, <3>4, <3>5 DEF IInv, ThreadInv
  <2>2. CASE t \notin again
    <3>1. /\ pc'[t] = "idle" /\ answer'[t] = 0 /\ page'[t] = {} /\ seen'[t] = {}
          /\ request'[t] = NoRequest
      BY <2>2 DEF ProcessEnds
    <3>2. ~Active(t)'
      BY <3>1 DEF Active, Listing
    <3> QED
      BY <3>1, <3>2, Idles DEF Local
  <2> QED
    BY <2>1, <2>2
<1> QED
  BY <1>1, <1>2, <1>3 DEF IInv

LEMMA StutterStep == IInv /\ UNCHANGED vars => IInv'
<1> SUFFICES ASSUME IInv, UNCHANGED vars PROVE IInv'
  OBVIOUS
<1>1. Table' /\ Grows
  BY TableStays DEF vars
<1>2. Shapes'
  BY DEF vars, IInv, Shapes
<1>3. \A u \in Threads : Unmoved(u)
  BY DEF vars, Unmoved
<1> QED
  BY <1>1, <1>2, <1>3, UnmovedStays DEF IInv

LEMMA NextStep == IInv /\ [Next]_vars => IInv'
<1> SUFFICES ASSUME IInv, [Next]_vars PROVE IInv'
  OBVIOUS
<1>1. ASSUME NEW t \in Threads, AddReceive(t) PROVE IInv'
  BY <1>1, AddReceiveStep
<1>2. ASSUME NEW t \in Threads, AddInsert(t) PROVE IInv'
  BY <1>2, AddInsertStep
<1>3. ASSUME NEW t \in Threads,
             \/ GetHistory(t) \/ GetHistoryByEventType(t)
             \/ GetHistoryByDateRange(t) \/ GetHistoryByEventTypeAndDateRange(t)
      PROVE  IInv'
  BY <1>3, QueryStep
<1>4. ASSUME NEW t \in Threads, GetLookup(t) PROVE IInv'
  BY <1>4, GetLookupStep
<1>5. ASSUME NEW t \in Threads, GetSelect(t) PROVE IInv'
  BY <1>5, GetSelectStep
<1>6. ASSUME NEW t \in Threads, GetThrows(t) PROVE IInv'
  BY <1>6, ProcessEndsStep DEF GetThrows
<1>7. ASSUME NEW t \in Threads, GetNextPage(t) PROVE IInv'
  BY <1>7, GetNextPageStep
<1>8. ASSUME NEW t \in Threads, Respond(t) PROVE IInv'
  BY <1>8, RespondStep
<1>9. CASE Kill
  BY <1>9, ProcessEndsStep DEF Kill
<1>10. CASE UNCHANGED vars
  BY <1>10, StutterStep
<1> QED
  BY <1>1, <1>2, <1>3, <1>4, <1>5, <1>6, <1>7, <1>8, <1>9, <1>10 DEF Next

LEMMA SpecIInv == Spec => []IInv
BY InitIInv, NextStep, PTL DEF Spec

(* Only the query itself takes a thread from the query to its answer. *)
LEMMA OnlySelect ==
    ASSUME Shapes, Next, NEW t \in Threads, pc[t] = "select", pc'[t] = "reply"
    PROVE  GetSelect(t)
<1>1. ASSUME NEW u \in Threads, NEW s, pc[u] # "select", pc' = [pc EXCEPT ![u] = s] PROVE FALSE
  BY <1>1 DEF Shapes
<1>2. ASSUME NEW u \in Threads, AddReceive(u) \/ AddInsert(u) PROVE FALSE
  BY <1>1, <1>2 DEF AddReceive, AddInsert, Reply
<1>3. ASSUME NEW u \in Threads, NEW q, NEW invalid, Receive(u, q, invalid) PROVE FALSE
  BY <1>1, <1>3 DEF Receive, Reply
<1>4. ASSUME NEW u \in Threads,
             \/ GetHistory(u) \/ GetHistoryByEventType(u)
             \/ GetHistoryByDateRange(u) \/ GetHistoryByEventTypeAndDateRange(u)
      PROVE  FALSE
  BY <1>3, <1>4 DEF GetHistory, GetHistoryByEventType, GetHistoryByDateRange,
                    GetHistoryByEventTypeAndDateRange
<1>5. ASSUME NEW u \in Threads, GetLookup(u) \/ GetNextPage(u) \/ Respond(u) PROVE FALSE
  BY <1>1, <1>5 DEF GetLookup, GetNextPage, Respond, Reply
<1>6. ASSUME Kill \/ \E u \in Threads : GetThrows(u) PROVE FALSE
  BY <1>6 DEF Kill, GetThrows, ProcessEnds
<1>7. ASSUME NEW u \in Threads, GetSelect(u) PROVE u = t
  BY <1>7 DEF GetSelect, Reply, Shapes
<1> QED
  BY <1>2, <1>4, <1>5, <1>6, <1>7 DEF Next

-----------------------------------------------------------------------------
(* The theorems. *)

(* The rows of the table and the state of every thread keep their types:      *)
(* what ADD_HISTORY has accepted is a row the table may hold.                 *)
THEOREM TypeCorrect == Spec => []TypeOK
BY SpecIInv, IInvImpliesTypeOK, PTL

(* With a database that does not fail, a client that pages to the end of a    *)
(* list has seen every row that was there when it began, for any number of    *)
(* clients, events and pages, also over the ends of the process it survives.  *)
THEOREM PagingComplete ==
    ASSUME ~DbMayFail
    PROVE  Spec => []PagingMissesNothing
<1>1. IInv => PagingMissesNothing
  <2> SUFFICES ASSUME IInv, NEW t \in Threads, LastPage(t),
                      NEW i \in due[t], i \notin seen[t], i \notin Ids(page[t])
               PROVE  FALSE
    BY DEF PagingMissesNothing
  <2>1. Active(t) /\ pc[t] = "reply" /\ Cardinality(page[t]) < Limit(request[t])
    BY ActiveMeans DEF LastPage
  <2>2. PICK r \in history : r.id = i
    BY <2>1 DEF IInv, ThreadInv, InTable, Ids
  <2> QED
    BY <2>1, <2>2 DEF IInv, ThreadInv, Pages
<1> QED
  BY <1>1, SpecIInv, PTL

(* While no row is added to its list, a client that pages through it is shown *)
(* no row twice, whatever number of pages and of process ends it takes.       *)
THEOREM QuietLists == Spec => QuietListShowsOnce
<1>1. IInv /\ [Next]_vars =>
        [\A t \in Threads :
          (pc[t] = "select" /\ pc'[t] = "reply" /\ Ids(Matching(request[t])) \subseteq due[t])
              => Ids(page'[t]) \cap seen[t] = {}]_vars
  <2> SUFFICES ASSUME IInv, Next, NEW t \in Threads, pc[t] = "select", pc'[t] = "reply",
                      Ids(Matching(request[t])) \subseteq due[t],
                      NEW i \in Ids(page'[t]), i \in seen[t]
               PROVE  FALSE
    BY DEF vars
  <2> DEFINE q == request[t]
             rows == MatchOf(history, q)
  <2>1. GetSelect(t)
    BY OnlySelect DEF IInv
  <2>2. q \in Query /\ q.kind \in QueryKinds
    BY DEF IInv, ThreadInv, Local, Query
  <2>3. Active(t) /\ ~NoPage(q)
    BY <2>2, ActiveMeans DEF IInv, ThreadInv, Local
  <2>4. /\ Offset(q) \in Nat /\ Limit(q) \in Nat \ {0}
        /\ Page(q) = PageOf(rows, Offset(q), Limit(q))
        /\ Matching(q) = rows
    BY <2>2, <2>3, PageRows, MatchingRows
  <2>5. PICK read \in ReadRows(q) : page'[t] = {Shown(q, r) : r \in read}
    BY <2>1 DEF GetSelect, IInv, Shapes
  <2>6. read \subseteq Page(q)
    BY HistoryAssumption DEF ReadRows
  <2>7. PICK r \in read : Shown(q, r).id = i
    BY <2>5 DEF Ids
  <2>8. r \in rows /\ r \in Row
    BY <2>4, <2>6 DEF PageOf, MatchOf, IInv, Table, Keyed
  <2>9. r.id = i
    BY <2>2, <2>7, <2>8, ShownIsView
  <2>10. Rank(r, rows) >= Offset(q)
    <3>1. Rank(r, rows) \in Nat
      BY KeyedPart, RankGrows DEF IInv, Table, Keyed, MatchOf
    <3> QED
      BY <2>4, <2>6, <3>1 DEF PageOf
  <2> QED
    BY <2>3, <2>4, <2>8, <2>9, <2>10 DEF IInv, ThreadInv, Quiet, Ahead
<1> QED
  BY <1>1, SpecIInv, PTL DEF Spec, QuietListShowsOnce

(* No row is lost, changed or given the id of another, whatever ends the      *)
(* process.                                                                   *)
THEOREM RowsKept == Spec => RowsStay
<1>1. IInv /\ IInv' /\ [Next]_vars =>
        [history \subseteq history' /\ \A r, s \in history' : r.id = s.id => r = s]_vars
  <2> SUFFICES ASSUME IInv, IInv', Next
               PROVE  history \subseteq history' /\ \A r, s \in history' : r.id = s.id => r = s
    BY DEF vars
  <2>1. history \subseteq history'
    BY DEF Next, AddReceive, AddInsert, CreateHistory, GetHistory, GetHistoryByEventType,
           GetHistoryByDateRange, GetHistoryByEventTypeAndDateRange, Receive, GetLookup,
           GetSelect, GetThrows, GetNextPage, Respond, Kill, ProcessEnds
  <2> QED
    BY <2>1 DEF IInv, Table, Keyed
<1> QED
  BY <1>1, SpecIInv, PTL DEF Spec, RowsStay

(* Any two answers, of any two of the four queries, show the same of a row    *)
(* but for the plate of a child.                                              *)
THEOREM OneView == Spec => []OneViewOfARow
<1>1. IInv => OneViewOfARow
  <2> SUFFICES ASSUME IInv, NEW t \in Threads, NEW u \in Threads,
                      NEW d \in page[t], NEW e \in page[u], d.id = e.id
               PROVE  /\ d = [e EXCEPT !.plate = d.plate]
                      /\ d.plate = e.plate \/ d.type = 2
    BY DEF OneViewOfARow
  <2>1. PICK r \in history : ViewOf(d, r)
    BY DEF IInv, ThreadInv, InTable
  <2>2. PICK s \in history : ViewOf(e, s)
    BY DEF IInv, ThreadInv, InTable
  <2>3. d.id = r.id /\ e.id = s.id /\ d.type = r.type
    BY <2>1, <2>2 DEF ViewOf, InFull
  <2>4. r = s
    BY <2>3 DEF IInv, Table, Keyed
  <2> QED
    BY <2>1, <2>2, <2>3, <2>4 DEF ViewOf, InFull
<1> QED
  BY <1>1, SpecIInv, PTL
=============================================================================
