\* A client that says nothing, and descriptors for everybody.
CONSTANTS
    Clients = {c1, c2, c3}
    Fds = {f1, f2, f3}
    NoClient = NoClient
    NoFd = NoFd
    Backlog = 2
SPECIFICATION FairServerSpec
PROPERTY WaitingEnds
