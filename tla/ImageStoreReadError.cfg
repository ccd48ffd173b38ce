\* GET_IMAGE of a file the disk cannot read.
CONSTANTS
    Threads = {t1}
    Names = {n1}
    BadName = BadName
    Inodes = {i1}
    MaxChunks = 1
    NoInode = NoInode
    Hole = Hole
    NoImage = NoImage
    Base = 2
    LittleEndian = TRUE
    DiskMayFail = TRUE
SPECIFICATION FairSpec
PROPERTY GetImageEnds
