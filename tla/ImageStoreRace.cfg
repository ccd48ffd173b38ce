\* Two uploads of one name at the same time.
CONSTANTS
    Threads = {t1, t2}
    Names = {n1}
    BadName = BadName
    Inodes = {i1, i2}
    MaxChunks = 2
    NoInode = NoInode
    Hole = Hole
    NoImage = NoImage
    Base = 2
    LittleEndian = TRUE
    DiskMayFail = FALSE
SPECIFICATION Spec
PROPERTY UploadedSuccessfully
