------------------------------ MODULE TcpServer -----------------------------
(***************************************************************************)
(* Connections: the accept loop TcpServer::start, which shakes hands with   *)
(* one client at a time and hands the connection to a detached thread, and  *)
(* client_thread_func, which closes it.  What a thread does in between is   *)
(* ClientSession; the process around it, with the specification, is Server. *)
(*                                                                          *)
(* A descriptor number is free again as soon as it is closed, and the next  *)
(* accept() may return it: whoever closes it twice, or uses it after the    *)
(* close, hits the connection of another client.                            *)
(***************************************************************************)
EXTENDS Integers, Sequences, FiniteSets

CONSTANTS
    Clients,    \* clients, each with one connection at a time
    Fds,        \* descriptors the process may have open for connections
    NoClient,   \* a descriptor that is not open
    NoFd,       \* the loop holds no connection
    Backlog     \* bound: connections the kernel keeps for accept()

ASSUME TcpServerAssumption ==
    /\ NoClient \notin Clients /\ NoFd \notin Fds
    /\ IsFiniteSet(Fds)
    /\ Backlog \in Nat \ {0}

VARIABLES
    backlog,    \* clients whose connection waits for accept()
    peer,       \* peer[f]: the client at the other end of descriptor f
    ssl,        \* clients for whose connection there is an SSL object
    loop,       \* what start() is doing
    client_fd,  \* the local variable of start()
    threads     \* the client threads: their client_fd and what they do

vars == <<backlog, peer, ssl, loop, client_fd, threads>>

Thread == [fd : Fds, client : Clients, at : {"serve", "shutdown", "close"}]

FreeFds == {f \in Fds : peer[f] = NoClient}

Waiting(c) == \E i \in DOMAIN backlog : backlog[i] = c

Connected(c) == \E f \in Fds : peer[f] = c

Init ==
    /\ backlog = <<>>
    /\ peer = [f \in Fds |-> NoClient] /\ ssl = {}
    /\ loop = "accept" /\ client_fd = NoFd /\ threads = {}

-----------------------------------------------------------------------------
(* A client and the kernel: a connection is complete before accept() sees it. *)
Connect(c) ==
    /\ ~Waiting(c) /\ ~Connected(c) /\ Len(backlog) < Backlog
    /\ backlog' = Append(backlog, c)
    /\ UNCHANGED <<peer, ssl, loop, client_fd, threads>>

-----------------------------------------------------------------------------
(* TcpServer::start *)

(* Mutant of Continue: the variable outlives the turn of the loop. *)
ContinueStale == loop' = "accept" /\ UNCHANGED client_fd

(* Back to the top of the loop. *)
Continue == loop' = "accept" /\ client_fd' = NoFd

(* accept().  Without a free descriptor it fails, and the loop tries again. *)
Accept ==
    /\ loop = "accept" /\ backlog # <<>>
    /\ \E f \in FreeFds :
          /\ peer' = [peer EXCEPT ![f] = Head(backlog)]
          /\ client_fd' = f
    /\ backlog' = Tail(backlog)
    /\ loop' = "handshake"
    /\ ssl' = ssl \cup {Head(backlog)}
    /\ UNCHANGED <<threads>>

(* accept() fails because the client has gone in the meantime. *)
AcceptAborted ==
    /\ loop = "accept" /\ backlog # <<>>
    /\ backlog' = Tail(backlog)
    /\ UNCHANGED <<peer, ssl, loop, client_fd, threads>>

(* SSL_accept(ssl), as far as the client lets it. *)
HandshakeOk ==
    /\ loop = "handshake"
    /\ loop' = "spawn"
    /\ UNCHANGED <<backlog, peer, ssl, client_fd, threads>>

(* Mutants: after a failed handshake close(client_fd), or SSL_free, is missing. *)
HandshakeFailsOpen ==
    /\ loop = "handshake"
    /\ ssl' = ssl \ {peer[client_fd]}
    /\ Continue
    /\ UNCHANGED <<backlog, peer, threads>>

HandshakeFailsLive ==
    /\ loop = "handshake"
    /\ peer' = [peer EXCEPT ![client_fd] = NoClient]
    /\ Continue
    /\ UNCHANGED <<backlog, ssl, threads>>

(* SSL_free and close. *)
Drop ==
    /\ ssl' = ssl \ {peer[client_fd]}
    /\ peer' = [peer EXCEPT ![client_fd] = NoClient]
    /\ Continue

HandshakeFails ==
    /\ loop = "handshake"
    /\ Drop
    /\ UNCHANGED <<backlog, threads>>

(* pthread_create and pthread_detach. *)
Spawn ==
    /\ loop = "spawn"
    /\ threads' = threads \cup {[fd |-> client_fd, client |-> peer[client_fd], at |-> "serve"]}
    /\ Continue
    /\ UNCHANGED <<backlog, peer, ssl>>

(* Mutant of SpawnFails: the loop goes on and gives nothing back. *)
SpawnFailsHeld ==
    /\ loop = "spawn"
    /\ Continue
    /\ UNCHANGED <<backlog, peer, ssl, threads>>

SpawnFails ==
    /\ loop = "spawn"
    /\ Drop
    /\ UNCHANGED <<backlog, threads>>

-----------------------------------------------------------------------------
(* client_thread_func *)

Moves(t, at) == threads' = (threads \ {t}) \cup {[t EXCEPT !.at = at]}

(* Mutant: the descriptor is closed by handleClientSSL already. *)
ServeReturnsClosed(t) ==
    /\ t.at = "serve"
    /\ peer' = [peer EXCEPT ![t.fd] = NoClient]
    /\ Moves(t, "shutdown")
    /\ UNCHANGED <<backlog, ssl, loop, client_fd>>

(* handleClientSSL returns: SSL_read or SSL_write has failed, or a GET_IMAGE  *)
(* has been served.                                                           *)
ServeReturns(t) ==
    /\ t.at = "serve"
    /\ Moves(t, "shutdown")
    /\ UNCHANGED <<backlog, peer, ssl, loop, client_fd>>

(* SSL_shutdown and SSL_free. *)
FreeSsl(t) ==
    /\ t.at = "shutdown"
    /\ ssl' = ssl \ {t.client}
    /\ Moves(t, "close")
    /\ UNCHANGED <<backlog, peer, loop, client_fd>>

(* close(client_fd), and the thread ends. *)
Close(t) ==
    /\ t.at = "close"
    /\ peer' = [peer EXCEPT ![t.fd] = NoClient]
    /\ threads' = threads \ {t}
    /\ UNCHANGED <<backlog, ssl, loop, client_fd>>

(* The steps of the loop that wait for nobody once they can be taken, and the  *)
(* one, SSL_accept, that waits for the client.                                *)
LoopTurns == Accept \/ Spawn \/ SpawnFails

LoopStep == LoopTurns \/ HandshakeOk \/ HandshakeFails

ThreadStep(t) == ServeReturns(t) \/ FreeSsl(t) \/ Close(t)

Next ==
    \/ \E c \in Clients : Connect(c)
    \/ LoopStep \/ AcceptAborted
    \/ \E t \in threads : ThreadStep(t)

-----------------------------------------------------------------------------
(* Properties *)

(* Type correctness of the descriptors, the loop and the threads. *)
TypeOK ==
    /\ backlog \in Seq(Clients) /\ Len(backlog) <= Backlog
    /\ peer \in [Fds -> Clients \cup {NoClient}]
    /\ ssl \subseteq Clients
    /\ loop \in {"accept", "handshake", "spawn"}
    /\ client_fd \in Fds \cup {NoFd}
    /\ client_fd = NoFd <=> loop = "accept"
    /\ threads \subseteq Thread

(* An open descriptor has one owner, the loop or one thread, and a descriptor *)
(* that is owned is open: nothing leaks on the error paths of start(), and no *)
(* thread reads, writes or closes the connection of another client, though    *)
(* the numbers are reused at once.                                            *)
DescriptorsOwned ==
    /\ \A f \in Fds : peer[f] # NoClient <=> (client_fd = f \/ \E t \in threads : t.fd = f)
    /\ \A t \in threads : peer[t.fd] = t.client /\ t.fd # client_fd
    /\ \A t, u \in threads : t.fd = u.fd => t = u

(* SSL objects are freed exactly with their connection: by the time the       *)
(* descriptor is closed there is none, and while a thread serves there is one. *)
SslFreedOnce ==
    ssl = {peer[f] : f \in Fds \ FreeFds} \ {t.client : t \in {u \in threads : u.at = "close"}}

(* Other clients keep the loop from its next accept(): it is in a handshake,  *)
(* or every descriptor is held by a thread whose client reads or writes.      *)
HeldUp ==
    \/ loop = "handshake"
    \/ \A f \in Fds : \E t \in threads : t.fd = f /\ t.at \in {"serve", "shutdown"}

(* A client waits for ever only behind other clients: there is a time from    *)
(* which on the loop is in one and the same handshake, or the same sessions   *)
(* have all the descriptors.  Nothing the server does, with a handshake or a  *)
(* thread creation that fails, with a session that ends or with numbers that  *)
(* are all taken, keeps the queue from moving once it is free to.             *)
OnlyClientsHoldUp == \A c \in Clients : []<>~HeldUp => []<>~Waiting(c)

(* "무한 루프에서 accept() → 쓰레드 생성" (TcpServer.hpp:30, an endless loop of  *)
(* accept() and thread creation): a client that waits is accepted at last,    *)
(* unless it gives up, where there are descriptors for all.                   *)
WaitingEnds == \A c \in Clients : Waiting(c) ~> ~Waiting(c)
=============================================================================
