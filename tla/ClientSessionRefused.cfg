\* A refused upload; the connection ends in pc = "closed".
CONSTANTS
    Kinds = {"upload", "command"}
    MaxRequests = 1
    MaxBody = 2
    MaxGarbage = 2
SPECIFICATION Spec
CHECK_DEADLOCK FALSE
INVARIANT ImageIsNoCommand
