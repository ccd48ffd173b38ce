\* Concurrent account commands with failing statements and restarts.
CONSTANTS
    Threads = {t1, t2, t3}
    Emails = {e1, e2}
    Passwords = {p1, p2}
    Sha256 <- MCSha256
    NoHash = NoHash
    NoUser = NoUser
    DbMayFail = TRUE
SPECIFICATION Spec
SYMMETRY Symmetry
INVARIANTS
    TypeOK
    UniqueEmail
    ResetHitsOwner
PROPERTY ImplementsAccountStore
