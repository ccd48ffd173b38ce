\* A process that starts, ends and starts again, with more clients than descriptors.
CONSTANTS
    Clients = {c1, c2, c3, c4}
    Fds = {f1, f2}
    NoClient = NoClient
    NoFd = NoFd
    Backlog = 3
SPECIFICATION FairServerSpec
INVARIANTS
    ServerTypeOK
    DescriptorsOwned
    SslFreedOnce
    ThreadsHaveObjects
    OwnCreateFailed
PROPERTIES
    ImplementsClientService
    OnlyClientsHoldUp
