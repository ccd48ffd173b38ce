------------------------------- MODULE History ------------------------------
(***************************************************************************)
(* The history of events: CommandHandler::handleAddHistory, handleGetHistory *)
(* and its three filtered forms, over HistoryRepository and the history     *)
(* table.  The queries answer one page (LIMIT, OFFSET) each, so a client    *)
(* that wants the whole list asks several times, while other clients add    *)
(* events.                                                                  *)
(*                                                                          *)
(* One step of a thread is one SQL statement, as in Accounts.  A date is    *)
(* the text YYYY-MM-DD HH:MM:SS, which SQLite compares as text: first the   *)
(* day, then the time.  A page is the set of its rows: the order in it      *)
(* follows from their dates.                                                *)
(*                                                                          *)
(* An answer is written as JSON, and the JSON library throws on a text that *)
(* is not UTF-8.  Nothing in the thread catches it: the process ends, and   *)
(* with it what every other thread was doing.                               *)
(***************************************************************************)
EXTENDS Integers, FiniteSets, FiniteSetsExt

CONSTANTS
    Threads,      \* the client threads of the server
    AddRequests,  \* bound: the ADD_HISTORY payloads the clients send
    Queries,      \* bound: the GET_HISTORY... payloads the clients send
    Days,         \* days, in their order
    LastSecond,   \* bound: the seconds of a day are 0..LastSecond
    Garbage,      \* bound: what an uninitialised eventType may hold
    MaxRows,      \* bound: rows in the table
    Junk,         \* a word that is not a number
    None,         \* a word that is missing
    NoSpeed,      \* NULL in column speed
    DbMayFail     \* TRUE: a statement may fail (SQLITE_BUSY, full disk, I/O)

NoTime == -1    \* the date is a day alone, a text before all times of the day

Date == [day : Days, time : {NoTime} \cup 0..LastSecond]

Word == Int \cup {Junk, None}

(* date is None when one of the first three words, all texts, is missing;    *)
(* utf8: the texts, the image path among them, are UTF-8.                    *)
AddRequest == [kind : {"add"}, date : Date \cup {None}, type : Word,
               snapshots : BOOLEAN, speed : Word, utf8 : BOOLEAN]

QueryKinds == {"all", "type", "dates", "both"}

(* email: an address that has an account, one that has none, or no word. *)
Query == [kind : QueryKinds, email : {"known", "unknown", None}, type : Word,
          from : Days \cup {None}, to : Days \cup {None}, limit : Word, offset : Word]

ASSUME HistoryAssumption ==
    /\ AddRequests \subseteq AddRequest
    /\ Queries \subseteq Query
    /\ Days \subseteq Int /\ LastSecond \in Nat /\ Garbage \subseteq Int
    /\ Junk \notin Int /\ None \notin Int \cup Date /\ Junk # None /\ NoSpeed \notin Int
    /\ MaxRows \in Nat /\ DbMayFail \in BOOLEAN

Row == [id : Nat, date : Date, type : 0..2, snapshots : BOOLEAN,
        speed : Int \cup {NoSpeed}, utf8 : BOOLEAN]

(* One element of the "data" of an answer: plate, whether plate_number is in  *)
(* it; a text that is empty and one that is left out are not told apart.      *)
Element == [id : Nat, date : Date, type : 0..2, plate : BOOLEAN,
            snapshots : BOOLEAN, speed : Int \cup {NoSpeed}]

VARIABLES
    history,   \* the rows of the history table
    pc,        \* pc[t]: the next statement of thread t
    request,   \* request[t]: the command thread t is serving
    answer,    \* answer[t]: the "code" of the reply of thread t
    page,      \* page[t]: the "data" of the reply of thread t
    (* What the client of t, who pages through a list, keeps. *)
    due,       \* due[t]: ids of the rows that were there to be listed at the start
    seen       \* seen[t]: ids of the rows listed so far

vars == <<history, pc, request, answer, page, due, seen>>

-----------------------------------------------------------------------------
(* The words of a payload.  A number that cannot be read is 0 and the stream  *)
(* reads no further word; a word that is missing leaves the default.          *)

TypeGiven(q) == q.kind \in {"type", "both"}

DatesGiven(q) == q.kind \in {"dates", "both"}

Stuck(q) == TypeGiven(q) /\ q.type = Junk

Value(w, default) ==
    CASE w = None -> default [] w = Junk -> 0 [] OTHER -> w

Type(q) == Value(q.type, 0)

Limit(q) == IF Stuck(q) THEN 10 ELSE Value(q.limit, 10)

Offset(q) == IF Stuck(q) \/ q.limit = Junk THEN 0 ELSE Value(q.offset, 0)

NoPage(q) == q.email = None \/ Limit(q) <= 0 \/ Offset(q) < 0

NoRange(q) == Stuck(q) \/ None \in {q.from, q.to}

-----------------------------------------------------------------------------
(* HistoryRepository *)

(* Text comparison of two dates. *)
AtMost(d, e) == d.day < e.day \/ (d.day = e.day /\ d.time <= e.time)

(* Mutant of EndOfDay: the last day is left out. *)
NoDay(day) == [day |-> day, time |-> 0]

(* startDateRaw + " 00:00:00", endDateRaw + " 23:59:59" *)
StartOfDay(day) == [day |-> day, time |-> 0]

EndOfDay(day) == [day |-> day, time |-> LastSecond]

(* WHERE event_type = ? *)
OfType(q) == {r \in history : r.type = Type(q)}

(* WHERE date BETWEEN ? AND ? *)
InRange(q) ==
    {r \in history : AtMost(StartOfDay(q.from), r.date) /\ AtMost(r.date, EndOfDay(q.to))}

OfTypeInRange(q) == OfType(q) \cap InRange(q)

Matching(q) ==
    CASE q.kind = "all" -> history       [] q.kind = "type" -> OfType(q)
      [] q.kind = "dates" -> InRange(q)  [] q.kind = "both" -> OfTypeInRange(q)

(* ORDER BY date DESC; SQLite leaves rows of one date in the order of rowid. *)
Before(r, s) ==
    IF r.date = s.date THEN r.id < s.id ELSE AtMost(s.date, r.date)

Rank(r, rows) == Cardinality({s \in rows : Before(s, r)})

(* Mutant of ReadBack: types 0 and 1 as History.hpp:10 numbers them. *)
ReadBackSwapped(q, r) ==
    IF q.kind = "all" THEN r
    ELSE [r EXCEPT !.snapshots = r.snapshots /\ r.type = 1,
                   !.speed = IF r.type = 0 THEN r.speed ELSE NoSpeed]

(* The filtered queries clear what the type of a row does not have;           *)
(* getHistories does not.                                                     *)
ReadBack(q, r) ==
    IF q.kind = "all" THEN r
    ELSE [r EXCEPT !.snapshots = r.snapshots /\ r.type = 0,
                   !.speed = IF r.type = 1 THEN r.speed ELSE NoSpeed]

(* handleGetHistory and handleGetHistoryByDateRange build each element by the *)
(* type of its row; the row itself says what the repository left of it.       *)
InFull(r) ==
    [id |-> r.id, date |-> r.date, type |-> r.type, plate |-> TRUE,
     snapshots |-> r.snapshots /\ r.type = 0,
     speed |-> IF r.type = 1 THEN r.speed ELSE NoSpeed]

(* The two handlers with an event type show no plate of a child. *)
ByType(r) == [InFull(r) EXCEPT !.plate = r.type # 2]

Shown(q, r) ==
    IF TypeGiven(q) THEN ByType(ReadBack(q, r)) ELSE InFull(ReadBack(q, r))

(* Mutants of Page: OFFSET counts from one; the last row of a page is the      *)
(* first of the next.                                                         *)
PageFromOne(q) ==
    {r \in Matching(q) : Rank(r, Matching(q)) \in (Offset(q) + 1)..(Offset(q) + Limit(q))}

PageOverlaps(q) ==
    {r \in Matching(q) : Rank(r, Matching(q)) \in Offset(q)..(Offset(q) + Limit(q))}

(* LIMIT ? OFFSET ? *)
Page(q) ==
    {r \in Matching(q) : Rank(r, Matching(q)) \in Offset(q)..(Offset(q) + Limit(q) - 1)}

(* INSERT INTO history; INTEGER PRIMARY KEY without AUTOINCREMENT gives the    *)
(* new row one more than the largest id.                                      *)
NextId == 1 + Max({0} \cup {r.id : r \in history})

CreateHistory(e) ==
    history' = history \cup {[id |-> NextId, date |-> e.date, type |-> e.type,
                              snapshots |-> e.snapshots, speed |-> e.speed, utf8 |-> e.utf8]}

-----------------------------------------------------------------------------
(* CommandHandler *)

NoRequest == [kind |-> "none"]

Init ==
    /\ history = {}
    /\ pc = [t \in Threads |-> "idle"]
    /\ request = [t \in Threads |-> NoRequest]
    /\ answer = [t \in Threads |-> 0]
    /\ page = [t \in Threads |-> {}]
    /\ due = [t \in Threads |-> {}]
    /\ seen = [t \in Threads |-> {}]

Reply(t, code) ==
    /\ pc' = [pc EXCEPT ![t] = "reply"]
    /\ answer' = [answer EXCEPT ![t] = code]

(* eventType is not initialised: without its word it is what memory holds. *)
AddedType(a) == IF a.type = None THEN Garbage ELSE {Value(a.type, 0)}

(* Mutant of Accepted: the range test is off by one. *)
AcceptedUpTo3(a, type) == a.date # None /\ type \in 0..3

Accepted(a, type) == a.date # None /\ type \in 0..2

(* What is stored of a payload.  Behind an eventType that is not a number, or *)
(* is missing, nothing has been read: no snapshots, and speed is -1.          *)
Event(a, type) ==
    LET speed == IF a.type \in Int THEN Value(a.speed, -1) ELSE -1
    IN  [date |-> a.date, type |-> type,
         snapshots |-> a.type \in Int /\ a.snapshots,
         speed |-> IF type = 1 /\ speed >= 0 THEN speed ELSE NoSpeed,
         utf8 |-> a.utf8]

(* handleAddHistory, up to its tests. *)
AddReceive(t) ==
    /\ pc[t] = "idle"
    /\ Cardinality(history) + Cardinality({u \in Threads : pc[u] = "insert"}) < MaxRows
    /\ \E a \in AddRequests : \E type \in AddedType(a) :
          /\ request' = [request EXCEPT ![t] = [kind |-> "add", event |-> Event(a, type)]]
          /\ IF Accepted(a, type)
             THEN pc' = [pc EXCEPT ![t] = "insert"] /\ UNCHANGED answer
             ELSE Reply(t, 400)
    /\ UNCHANGED <<history, page, due, seen>>

AddInsert(t) ==
    /\ pc[t] = "insert"
    /\ \/ CreateHistory(request[t].event) /\ Reply(t, 200)
       \/ DbMayFail /\ Reply(t, 500) /\ UNCHANGED history
    /\ UNCHANGED <<request, page, due, seen>>

(* The rows a client asks for, by the meaning of its words.  An event without *)
(* a time of its day may lie before a range that begins on that day.          *)
Wanted(q) ==
    {r \in history :
        /\ TypeGiven(q) => r.type = q.type
        /\ DatesGiven(q) => r.date.day \in q.from..q.to
        /\ DatesGiven(q) /\ r.date.time = NoTime => r.date.day # q.from}

(* A query up to the tests of its words: it is refused or goes on. *)
Receive(t, q, invalid) ==
    /\ pc[t] = "idle"
    /\ request' = [request EXCEPT ![t] = q]
    /\ IF invalid
       THEN Reply(t, 400) /\ UNCHANGED due
       ELSE /\ pc' = [pc EXCEPT ![t] = "lookup"]
            /\ due' = [due EXCEPT ![t] = IF Offset(q) = 0 THEN {r.id : r \in Wanted(q)} ELSE {}]
            /\ UNCHANGED answer
    /\ UNCHANGED <<history, page, seen>>

Asked(kind) == {q \in Queries : q.kind = kind}

GetHistory(t) == \E q \in Asked("all") : Receive(t, q, NoPage(q))

GetHistoryByEventType(t) ==
    \E q \in Asked("type") : Receive(t, q, NoPage(q) \/ Type(q) < 0)

GetHistoryByDateRange(t) ==
    \E q \in Asked("dates") : Receive(t, q, NoPage(q) \/ NoRange(q))

GetHistoryByEventTypeAndDateRange(t) ==
    \E q \in Asked("both") : Receive(t, q, NoPage(q) \/ NoRange(q) \/ Type(q) < 0)

(* getUserByEmail; a statement that fails is a user that does not exist. *)
GetLookup(t) ==
    /\ pc[t] = "lookup"
    /\ \/ request[t].email = "known" /\ pc' = [pc EXCEPT ![t] = "select"] /\ UNCHANGED answer
       \/ (request[t].email = "unknown" \/ DbMayFail) /\ Reply(t, 404)
    /\ UNCHANGED <<history, request, page, due, seen>>

(* What the loop over sqlite3_step reads of a page: whatever ends the loop,   *)
(* or keeps it from starting, the rows read so far are the result.            *)
ReadRows(q) ==
    LET rows == Page(q)
    IN  {read \in IF DbMayFail THEN SUBSET rows ELSE {rows} :
            \A r \in read, s \in rows : Before(s, r) => s \in read}

(* The query, and the answer that is built from its rows. *)
GetSelect(t) ==
    /\ pc[t] = "select"
    /\ \E read \in ReadRows(request[t]) :
          /\ \A r \in read : r.utf8
          /\ page' = [page EXCEPT ![t] = {Shown(request[t], r) : r \in read}]
    /\ Reply(t, 200)
    /\ UNCHANGED <<history, request, due, seen>>

(* A client that got a full page asks for the next one. *)
GetNextPage(t) ==
    /\ pc[t] = "reply" /\ answer[t] = 200 /\ request[t].kind \in QueryKinds
    /\ ~Stuck(request[t]) /\ request[t].offset \in Nat \cup {None} /\ request[t].limit \in Nat
    /\ Cardinality(page[t]) >= Limit(request[t])
    /\ request' = [request EXCEPT ![t].offset = Offset(request[t]) + Limit(request[t])]
    /\ pc' = [pc EXCEPT ![t] = "lookup"]
    /\ answer' = [answer EXCEPT ![t] = 0]
    /\ seen' = [seen EXCEPT ![t] = seen[t] \cup {r.id : r \in page[t]}]
    /\ page' = [page EXCEPT ![t] = {}]
    /\ UNCHANGED <<history, due>>

(* handleClientSSL writes the reply; the client turns to something else. *)
Respond(t) ==
    /\ pc[t] = "reply"
    /\ pc' = [pc EXCEPT ![t] = "idle"]
    /\ request' = [request EXCEPT ![t] = NoRequest]
    /\ answer' = [answer EXCEPT ![t] = 0]
    /\ page' = [page EXCEPT ![t] = {}]
    /\ due' = [due EXCEPT ![t] = {}]
    /\ seen' = [seen EXCEPT ![t] = {}]
    /\ UNCHANGED history

(* Mutant of ProcessEnds: the table is made anew by main(). *)
ProcessEndsEmpty(again) ==
    /\ pc' = [t \in Threads |-> IF t \in again THEN "lookup" ELSE "idle"]
    /\ request' = [t \in Threads |-> IF t \in again THEN request[t] ELSE NoRequest]
    /\ answer' = [t \in Threads |-> 0]
    /\ page' = [t \in Threads |-> {}]
    /\ due' = [t \in Threads |-> IF t \in again THEN due[t] ELSE {}]
    /\ seen' = [t \in Threads |-> IF t \in again THEN seen[t] ELSE {}]
    /\ history' = {}

(* The process ends and main() starts it again: the threads are gone, the rows *)
(* are in server_data.db.  The clients in "again" connect once more and repeat *)
(* their requests.                                                             *)
ProcessEnds(again) ==
    /\ pc' = [t \in Threads |-> IF t \in again THEN "lookup" ELSE "idle"]
    /\ request' = [t \in Threads |-> IF t \in again THEN request[t] ELSE NoRequest]
    /\ answer' = [t \in Threads |-> 0]
    /\ page' = [t \in Threads |-> {}]
    /\ due' = [t \in Threads |-> IF t \in again THEN due[t] ELSE {}]
    /\ seen' = [t \in Threads |-> IF t \in again THEN seen[t] ELSE {}]
    /\ UNCHANGED history

(* Clients that wait for a page, or have not got it whole yet. *)
Listing == {t \in Threads : request[t].kind \in QueryKinds
                               /\ (pc[t] \in {"lookup", "select"} \/ answer[t] = 200)}

(* response.dump() meets a text that is not UTF-8. *)
GetThrows(t) ==
    /\ pc[t] = "select"
    /\ \E read \in ReadRows(request[t]) : \E r \in read : ~r.utf8
    /\ \E again \in SUBSET Listing : ProcessEnds(again)

(* The process is killed. *)
Kill ==
    /\ \E t \in Threads : pc[t] # "idle"
    /\ \E again \in SUBSET Listing : ProcessEnds(again)

Next ==
    \/ \E t \in Threads :
          \/ AddReceive(t) \/ AddInsert(t)
          \/ GetHistory(t) \/ GetHistoryByEventType(t)
          \/ GetHistoryByDateRange(t) \/ GetHistoryByEventTypeAndDateRange(t)
          \/ GetLookup(t) \/ GetSelect(t) \/ GetThrows(t) \/ GetNextPage(t)
          \/ Respond(t)
    \/ Kill

Spec == Init /\ [][Next]_vars

-----------------------------------------------------------------------------
(* Properties *)

StoredEvent == [date : Date, type : 0..2, snapshots : BOOLEAN,
                speed : Int \cup {NoSpeed}, utf8 : BOOLEAN]

(* Type correctness of the table and of the state of every thread: a thread   *)
(* that is about to insert has an event the table may hold.                   *)
TypeOK ==
    /\ history \subseteq Row
    /\ pc \in [Threads -> {"idle", "lookup", "select", "insert", "reply"}]
    /\ \A t \in Threads :
          CASE pc[t] = "idle" -> request[t] = NoRequest
            [] pc[t] \in {"lookup", "select"} -> request[t] \in Query
            [] pc[t] = "insert" -> request[t].event \in StoredEvent
            [] OTHER -> request[t].kind \in {"add"} \cup QueryKinds
    /\ answer \in [Threads -> {0, 200, 400, 404, 500}]
    /\ page \in [Threads -> SUBSET Element]
    /\ due \in [Threads -> SUBSET Nat] /\ seen \in [Threads -> SUBSET Nat]

LastPage(t) ==
    /\ pc[t] = "reply" /\ answer[t] = 200 /\ request[t].kind \in QueryKinds
    /\ Cardinality(page[t]) < Limit(request[t])

Ids(rows) == {r.id : r \in rows}

(* A client that asks page after page until one is not full, and repeats what *)
(* an end of the process has left without an answer, has been shown every row *)
(* that was there, and that it asked for, when it started: the rows other     *)
(* clients add meanwhile move rows to later pages, never past it.             *)
PagingMissesNothing ==
    \A t \in Threads : LastPage(t) => due[t] \subseteq seen[t] \cup Ids(page[t])

(* As long as no row that it would list is added, a client that asks page     *)
(* after page is shown no row twice, also when it has to repeat a page.       *)
QuietListShowsOnce ==
    [][\A t \in Threads :
        (pc[t] = "select" /\ pc'[t] = "reply" /\ Ids(Matching(request[t])) \subseteq due[t])
            => Ids(page'[t]) \cap seen[t] = {}]_vars

(* A row that was stored stays as it is and under its id, whatever ends the   *)
(* process and whatever is stored after it.                                   *)
RowsStay == [][history \subseteq history' /\ \A r, s \in history' : r.id = s.id => r = s]_vars

(* The four queries show the same of a row, though some leave it to the       *)
(* handler and some to the repository to hide what its type does not have;    *)
(* only the plate of a detected child (type 2) is shown by some of them.      *)
OneViewOfARow ==
    \A t, u \in Threads : \A r \in page[t], s \in page[u] : r.id = s.id =>
        /\ r = [s EXCEPT !.plate = r.plate]
        /\ r.plate = s.plate \/ r.type = 2

(* "History retrieved successfully": the answer holds the page asked for. *)
RetrievedMeansAll ==
    [][\A t \in Threads : (pc[t] = "select" /\ answer'[t] = 200) =>
            Ids(page'[t]) = Ids(Page(request[t]))]_vars
=============================================================================
