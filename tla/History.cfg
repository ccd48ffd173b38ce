\* All kinds of payloads and queries, two threads.
CONSTANTS
    Threads = {t1, t2}
    AddRequests <- MCAddRequests
    Queries <- MCQueries
    Days <- MCDays
    LastSecond = 1
    Garbage <- MCGarbage
    MaxRows = 3
    Junk = Junk
    None = None
    NoSpeed = NoSpeed
    DbMayFail = FALSE
SPECIFICATION Spec
SYMMETRY Symmetry
INVARIANTS
    TypeOK
    PagingMissesNothing
    OneViewOfARow
PROPERTIES
    QuietListShowsOnce
    RowsStay
