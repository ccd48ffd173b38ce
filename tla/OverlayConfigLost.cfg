\* Two overlapping changes of different keys.
CONSTANTS
    Threads = {t1, t2}
    Requests <- TwoKeys
    Junk = Junk
    Absent = Absent
    NoConfig = NoConfig
    Status = Status
    FaultsMayHappen = FALSE
SPECIFICATION Spec
INVARIANT UpdatedMeansKept
