\* Two threads and one file name, with disk faults and restarts.
CONSTANTS
    Threads = {t1, t2}
    Names = {n1}
    BadName = BadName
    Inodes = {i1, i2}
    MaxChunks = 2
    NoInode = NoInode
    Hole = Hole
    NoImage = NoImage
    Base = 2
    LittleEndian = TRUE
    DiskMayFail = TRUE
SPECIFICATION FairSpec
INVARIANTS
    TypeOK
    StoredImageStays
    NoLeftovers
    GetSendsStoredImage
    AnnouncedSizeArrives
PROPERTIES
    FilesAtRestStay
    ImplementsImageFiles
    GetImageEndsUnlessStuck
