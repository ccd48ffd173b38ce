\* Overlapping changes with write faults and restarts.
CONSTANTS
    Threads = {t1, t2}
    Requests <- MCRequests
    Junk = Junk
    Absent = Absent
    NoConfig = NoConfig
    Status = Status
    FaultsMayHappen = TRUE
SPECIFICATION Spec
SYMMETRY Symmetry
INVARIANTS
    TypeOK
    SharpnessGoesWithMode
    SerialChangesCount
    ReadableAtRest
PROPERTIES
    UnreadableStays
    ImplementsFrameSettings
