\* Every kind of line; the connection ends in pc = "closed".
CONSTANTS
    Kinds = {"blank", "upload", "upload_invalid", "upload_unsized", "get_image", "get_image_nopath", "command"}
    MaxRequests = 3
    MaxBody = 2
    MaxGarbage = 2
SPECIFICATION FairSpec
CHECK_DEADLOCK FALSE
INVARIANTS
    TypeOK
    BodiesAreBodies
    RepliesInOrder
    NoStandstill
PROPERTIES
    ServerComesToRest
    EveryRequestAnswered
