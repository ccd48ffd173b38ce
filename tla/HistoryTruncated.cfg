\* A query that fails half-way.
CONSTANTS
    Threads = {t1}
    AddRequests <- FewAddRequests
    Queries <- FewQueries
    Days <- MCDays
    LastSecond = 1
    Garbage <- MCGarbage
    MaxRows = 2
    Junk = Junk
    None = None
    NoSpeed = NoSpeed
    DbMayFail = TRUE
SPECIFICATION Spec
PROPERTY RetrievedMeansAll
