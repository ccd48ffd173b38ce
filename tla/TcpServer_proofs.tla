-------------------------- MODULE TcpServer_proofs --------------------------
(***************************************************************************)
(* Lemmas about TcpServer, for any number of clients and descriptors: its   *)
(* invariant IInv, which Server_proofs carries over to the whole process.   *)
(*                                                                          *)
(* DescriptorsOwned is inductive with the types.  SslFreedOnce needs        *)
(* besides that a client has one connection: freeing the SSL object of a    *)
(* connection must not free that of another.                                *)
(***************************************************************************)
EXTENDS TcpServer, TLAPS

(* A client waits at one place of the backlog, or has one descriptor. *)
OneConnection ==
    /\ \A i, j \in DOMAIN backlog : backlog[i] = backlog[j] => i = j
    /\ \A f, g \in Fds : peer[f] = peer[g] /\ peer[f] # NoClient => f = g
    /\ \A i \in DOMAIN backlog, f \in Fds : peer[f] # backlog[i]

IInv == TypeOK /\ DescriptorsOwned /\ OneConnection /\ SslFreedOnce

-----------------------------------------------------------------------------
(* The backlog of accept() after its head has been taken. *)
LEMMA BacklogTail ==
    ASSUME backlog \in Seq(Clients), backlog # <<>>
    PROVE  /\ Head(backlog) \in Clients /\ Head(backlog) = backlog[1]
           /\ Tail(backlog) \in Seq(Clients) /\ Len(Tail(backlog)) = Len(backlog) - 1
           /\ 1 \in DOMAIN backlog
           /\ \A i \in DOMAIN Tail(backlog) :
                 i + 1 \in DOMAIN backlog /\ Tail(backlog)[i] = backlog[i + 1]
OBVIOUS

(* The loop holds its connection alone: no thread has its descriptor. *)
LEMMA LoopOwns ==
    ASSUME TypeOK, DescriptorsOwned, loop # "accept"
    PROVE  /\ client_fd \in Fds /\ peer[client_fd] \in Clients
           /\ \A t \in threads : t.fd # client_fd
BY TcpServerAssumption DEF TypeOK, DescriptorsOwned

(* A thread holds its connection alone. *)
LEMMA ThreadOwns ==
    ASSUME TypeOK, DescriptorsOwned, NEW t \in threads
    PROVE  /\ t.fd \in Fds /\ t.client \in Clients /\ peer[t.fd] = t.client
           /\ t.fd # client_fd
           /\ \A u \in threads : u.fd = t.fd => u = t
           /\ t.at \in {"serve", "shutdown", "close"}
BY DEF TypeOK, DescriptorsOwned, Thread

-----------------------------------------------------------------------------
LEMMA TypeStep == TypeOK /\ DescriptorsOwned /\ [Next]_vars => TypeOK'
<1> SUFFICES ASSUME TypeOK, DescriptorsOwned, [Next]_vars PROVE TypeOK'
  OBVIOUS
<1>1. ASSUME NEW c \in Clients, Connect(c) PROVE TypeOK'
  BY <1>1, TcpServerAssumption DEF Connect, TypeOK
<1>2. CASE Accept
  BY <1>2, BacklogTail, TcpServerAssumption DEF Accept, TypeOK, FreeFds
<1>3. CASE AcceptAborted
  BY <1>3, BacklogTail, TcpServerAssumption DEF AcceptAborted, TypeOK
<1>4. CASE HandshakeOk
  BY <1>4 DEF HandshakeOk, TypeOK
<1>5. CASE HandshakeFails
  BY <1>5 DEF HandshakeFails, Drop, Continue, TypeOK
<1>6. CASE Spawn
  <2>1. [fd |-> client_fd, client |-> peer[client_fd], at |-> "serve"] \in Thread
    BY <1>6, LoopOwns DEF Spawn, Thread
  <2> QED
    BY <1>6, <2>1 DEF Spawn, Continue, TypeOK
<1>7. CASE SpawnFails
  BY <1>7 DEF SpawnFails, Drop, Continue, TypeOK
<1>8. ASSUME NEW t \in threads, ServeReturns(t) PROVE TypeOK'
  BY <1>8 DEF ServeReturns, Moves, TypeOK, Thread
<1>9. ASSUME NEW t \in threads, FreeSsl(t) PROVE TypeOK'
  BY <1>9 DEF FreeSsl, Moves, TypeOK, Thread
<1>10. ASSUME NEW t \in threads, Close(t) PROVE TypeOK'
  BY <1>10 DEF Close, TypeOK
<1>11. CASE UNCHANGED vars
  BY <1>11 DEF vars, TypeOK
<1> QED
  BY <1>1, <1>2, <1>3, <1>4, <1>5, <1>6, <1>7, <1>8, <1>9, <1>10, <1>11
  DEF Next, LoopStep, LoopTurns, ThreadStep

LEMMA OwnedStep == TypeOK /\ DescriptorsOwned /\ [Next]_vars => DescriptorsOwned'
<1> SUFFICES ASSUME TypeOK, DescriptorsOwned, [Next]_vars PROVE DescriptorsOwned'
  OBVIOUS
<1>1. ASSUME NEW c \in Clients, Connect(c) PROVE DescriptorsOwned'
  BY <1>1 DEF Connect, DescriptorsOwned
<1>2. CASE Accept
  <2>1. PICK f \in FreeFds : /\ peer' = [peer EXCEPT ![f] = Head(backlog)]
                             /\ client_fd' = f
    BY <1>2 DEF Accept
  <2>2. f \in Fds /\ peer[f] = NoClient /\ threads' = threads /\ client_fd = NoFd
    BY <1>2 DEF Accept, FreeFds, TypeOK
  <2>3. Head(backlog) # NoClient
    BY <1>2, BacklogTail, TcpServerAssumption DEF Accept, TypeOK
  <2>4. \A t \in threads : t.fd \in Fds /\ t.fd # f
    BY <2>2 DEF DescriptorsOwned, TypeOK, Thread
  <2> QED
    BY <2>1, <2>2, <2>3, <2>4, TcpServerAssumption DEF DescriptorsOwned, TypeOK
<1>3. CASE AcceptAborted
  BY <1>3 DEF AcceptAborted, DescriptorsOwned
<1>4. CASE HandshakeOk
  BY <1>4 DEF HandshakeOk, DescriptorsOwned
<1>5. ASSUME loop # "accept", Drop, UNCHANGED threads PROVE DescriptorsOwned'
  <2>1. \A t \in threads : t.fd \in Fds /\ t.fd # client_fd
    BY <1>5, LoopOwns DEF TypeOK, Thread
  <2> QED
    BY <1>5, <2>1, TcpServerAssumption DEF Drop, Continue, DescriptorsOwned, TypeOK
<1>6. CASE Spawn
  <2> DEFINE new == [fd |-> client_fd, client |-> peer[client_fd], at |-> "serve"]
  <2>1. new.fd = client_fd /\ new.client = peer[client_fd]
    OBVIOUS
  <2>2. /\ threads' = threads \cup {new} /\ client_fd' = NoFd /\ peer' = peer
        /\ client_fd \in Fds /\ peer[client_fd] # NoClient
        /\ \A t \in threads : t.fd \in Fds /\ t.fd # client_fd
    BY <1>6, LoopOwns, TcpServerAssumption DEF Spawn, Continue, TypeOK, Thread
  <2> HIDE DEF new
  <2> QED
    BY <2>1, <2>2, TcpServerAssumption DEF DescriptorsOwned
<1>7. ASSUME NEW t \in threads, NEW at, Moves(t, at), UNCHANGED <<peer, client_fd>>
      PROVE  DescriptorsOwned'
  <2> DEFINE moved == [t EXCEPT !.at = at]
  <2>1. moved.fd = t.fd /\ moved.client = t.client
    BY DEF TypeOK, Thread
  <2>2. threads' = (threads \ {t}) \cup {moved}
    BY <1>7 DEF Moves
  <2> HIDE DEF moved
  <2> QED
    BY <1>7, <2>1, <2>2 DEF DescriptorsOwned
<1>8. ASSUME NEW t \in threads, Close(t) PROVE DescriptorsOwned'
  BY <1>8, ThreadOwns, TcpServerAssumption DEF Close, DescriptorsOwned, TypeOK, Thread
<1>9. CASE UNCHANGED vars
  BY <1>9 DEF vars, DescriptorsOwned
<1> QED
  BY <1>1, <1>2, <1>3, <1>4, <1>5, <1>6, <1>7, <1>8, <1>9
  DEF Next, LoopStep, LoopTurns, ThreadStep, HandshakeFails, SpawnFails, ServeReturns, FreeSsl

LEMMA OneConnectionStep ==
    TypeOK /\ DescriptorsOwned /\ OneConnection /\ [Next]_vars => OneConnection'
<1> SUFFICES ASSUME TypeOK, DescriptorsOwned, OneConnection, [Next]_vars PROVE OneConnection'
  OBVIOUS
<1>1. ASSUME NEW c \in Clients, Connect(c) PROVE OneConnection'
  <2>1. /\ backlog' = Append(backlog, c) /\ peer' = peer
        /\ \A i \in DOMAIN backlog : backlog[i] # c
        /\ \A f \in Fds : peer[f] # c
    BY <1>1 DEF Connect, Waiting, Connected
  <2> QED
    BY <2>1 DEF OneConnection, TypeOK
<1>2. CASE Accept
  <2>1. PICK f \in FreeFds : peer' = [peer EXCEPT ![f] = Head(backlog)]
    BY <1>2 DEF Accept
  <2>2. backlog' = Tail(backlog) /\ backlog \in Seq(Clients) /\ backlog # <<>>
    BY <1>2 DEF Accept, TypeOK
  <2>3. \A i \in DOMAIN backlog' : i + 1 \in DOMAIN backlog /\ backlog'[i] = backlog[i + 1]
    BY <2>2, BacklogTail
  <2>4. 1 \in DOMAIN backlog /\ Head(backlog) = backlog[1]
    BY <2>2, BacklogTail
  <2>5. \A i \in DOMAIN backlog' : i \in Nat \ {0}
    BY <2>2
  <2>6. \A i, j \in DOMAIN backlog' : backlog'[i] = backlog'[j] => i = j
    BY <2>3, <2>5 DEF OneConnection
  <2>7. \A g, h \in Fds : peer'[g] = peer'[h] /\ peer'[g] # NoClient => g = h
    BY <2>1, <2>4 DEF OneConnection, TypeOK
  <2>8. ASSUME NEW i \in DOMAIN backlog', NEW g \in Fds PROVE peer'[g] # backlog'[i]
    <3>1. i + 1 \in DOMAIN backlog /\ backlog'[i] = backlog[i + 1] /\ i + 1 # 1
      BY <2>3, <2>5
    <3>2. backlog[i + 1] # backlog[1] /\ peer[g] # backlog[i + 1]
      BY <2>4, <3>1 DEF OneConnection
    <3> QED
      BY <2>1, <2>4, <3>1, <3>2 DEF TypeOK
  <2> QED
    BY <2>6, <2>7, <2>8 DEF OneConnection
<1>3. CASE AcceptAborted
  <2>1. backlog' = Tail(backlog) /\ backlog \in Seq(Clients) /\ backlog # <<>> /\ peer' = peer
    BY <1>3 DEF AcceptAborted, TypeOK
  <2>2. \A i \in DOMAIN backlog' : i + 1 \in DOMAIN backlog /\ backlog'[i] = backlog[i + 1]
    BY <2>1, BacklogTail
  <2>3. \A i \in DOMAIN backlog' : i \in Nat
    BY <2>1
  <2> QED
    BY <2>1, <2>2, <2>3 DEF OneConnection
<1>4. ASSUME NEW f \in Fds, peer' = [peer EXCEPT ![f] = NoClient], UNCHANGED backlog
      PROVE  OneConnection'
  <2>1. \A i \in DOMAIN backlog : backlog[i] # NoClient
    BY TcpServerAssumption DEF TypeOK
  <2> QED
    BY <1>4, <2>1 DEF OneConnection, TypeOK
<1>5. ASSUME UNCHANGED <<peer, backlog>> PROVE OneConnection'
  BY <1>5 DEF OneConnection
<1>6. ASSUME HandshakeFails \/ SpawnFails PROVE OneConnection'
  BY <1>4, <1>6, LoopOwns DEF HandshakeFails, SpawnFails, Drop
<1>7. ASSUME NEW t \in threads, Close(t) PROVE OneConnection'
  BY <1>4, <1>7, ThreadOwns DEF Close
<1> QED
  BY <1>1, <1>2, <1>3, <1>5, <1>6, <1>7
  DEF Next, LoopStep, LoopTurns, ThreadStep, HandshakeOk, Spawn, ServeReturns, FreeSsl, vars

-----------------------------------------------------------------------------
(* SslFreedOnce, connection by connection: a client has an SSL object while   *)
(* it is at the other end of an open descriptor whose thread has not freed it. *)
SslOf ==
    \A c : c \in ssl <=> /\ \E f \in Fds : peer[f] = c /\ c # NoClient
                        /\ ~ \E t \in threads : t.at = "close" /\ t.client = c

LEMMA SslOfIsSslFreedOnce == SslOf <=> SslFreedOnce
<1> DEFINE served == {peer[f] : f \in Fds \ FreeFds}
           freed  == {t.client : t \in {u \in threads : u.at = "close"}}
<1>1. \A c : c \in served <=> \E f \in Fds : peer[f] = c /\ c # NoClient
  BY DEF FreeFds
<1>2. \A c : c \in freed <=> \E t \in threads : t.at = "close" /\ t.client = c
  OBVIOUS
<1>3. SslFreedOnce <=> ssl = served \ freed
  BY DEF SslFreedOnce
<1> HIDE DEF served, freed
<1> QED
  BY <1>1, <1>2, <1>3 DEF SslOf

(* Closing a connection whose SSL object is already gone, or goes with it. *)
LEMMA SslStep ==
    ASSUME TypeOK, DescriptorsOwned, OneConnection, SslOf, [Next]_vars
    PROVE  SslOf'
<1>1. ASSUME NEW c \in Clients, Connect(c) PROVE SslOf'
  BY <1>1 DEF Connect, SslOf
<1>2. CASE Accept
  <2>1. PICK f \in FreeFds : peer' = [peer EXCEPT ![f] = Head(backlog)]
    BY <1>2 DEF Accept
  <2>2. /\ f \in Fds /\ peer[f] = NoClient /\ threads' = threads
        /\ ssl' = ssl \cup {Head(backlog)}
    BY <1>2, <2>1 DEF Accept, FreeFds
  <2>3. Head(backlog) \in Clients /\ Head(backlog) # NoClient
    BY <1>2, BacklogTail, TcpServerAssumption DEF Accept, TypeOK
  <2>4. \A g \in Fds : peer[g] # Head(backlog)
    BY <1>2, BacklogTail DEF Accept, TypeOK, OneConnection
  <2>5. \A t \in threads : t.client # Head(backlog)
    BY <2>4, ThreadOwns
  <2>6. \A c : (\E g \in Fds : peer'[g] = c /\ c # NoClient)
                 <=> c = Head(backlog) \/ (\E g \in Fds : peer[g] = c /\ c # NoClient)
    BY <2>1, <2>2, <2>3, <2>4 DEF TypeOK
  <2> QED
    BY <2>2, <2>5, <2>6 DEF SslOf
<1>3. ASSUME HandshakeFails \/ SpawnFails PROVE SslOf'
  <2>1. /\ client_fd \in Fds /\ peer[client_fd] \in Clients
        /\ \A t \in threads : t.fd # client_fd
    BY <1>3, LoopOwns DEF HandshakeFails, SpawnFails
  <2>2. /\ ssl' = ssl \ {peer[client_fd]} /\ threads' = threads
        /\ peer' = [peer EXCEPT ![client_fd] = NoClient]
    BY <1>3 DEF HandshakeFails, SpawnFails, Drop
  <2>3. \A c : (\E g \in Fds : peer'[g] = c /\ c # NoClient)
                 <=> c # peer[client_fd] /\ (\E g \in Fds : peer[g] = c /\ c # NoClient)
    BY <2>1, <2>2, TcpServerAssumption DEF TypeOK, OneConnection
  <2> QED
    BY <2>2, <2>3 DEF SslOf
<1>4. CASE Spawn
  <2> DEFINE new == [fd |-> client_fd, client |-> peer[client_fd], at |-> "serve"]
  <2>1. new.at # "close"
    OBVIOUS
  <2>2. threads' = threads \cup {new} /\ ssl' = ssl /\ peer' = peer
    BY <1>4 DEF Spawn
  <2> HIDE DEF new
  <2> QED
    BY <2>1, <2>2 DEF SslOf
<1>5. ASSUME NEW t \in threads, ServeReturns(t) PROVE SslOf'
  <2> DEFINE moved == [t EXCEPT !.at = "shutdown"]
  <2>1. moved.at # "close" /\ t.at # "close"
    BY <1>5 DEF ServeReturns, TypeOK, Thread
  <2>2. threads' = (threads \ {t}) \cup {moved} /\ ssl' = ssl /\ peer' = peer
    BY <1>5 DEF ServeReturns, Moves
  <2> HIDE DEF moved
  <2> QED
    BY <2>1, <2>2 DEF SslOf
<1>6. ASSUME NEW t \in threads, FreeSsl(t) PROVE SslOf'
  <2> DEFINE moved == [t EXCEPT !.at = "close"]
  <2>1. moved.at = "close" /\ moved.client = t.client /\ t.at # "close"
    BY <1>6 DEF FreeSsl, TypeOK, Thread
  <2>2. threads' = (threads \ {t}) \cup {moved} /\ ssl' = ssl \ {t.client} /\ peer' = peer
    BY <1>6 DEF FreeSsl, Moves
  <2> HIDE DEF moved
  <2> QED
    BY <2>1, <2>2 DEF SslOf
<1>7. ASSUME NEW t \in threads, Close(t) PROVE SslOf'
  <2>1. /\ t.fd \in Fds /\ peer[t.fd] = t.client /\ t.client # NoClient
        /\ \A u \in threads : u.fd = t.fd => u = t
    BY ThreadOwns, TcpServerAssumption
  <2>2. /\ t.at = "close" /\ ssl' = ssl /\ threads' = threads \ {t}
        /\ peer' = [peer EXCEPT ![t.fd] = NoClient]
    BY <1>7 DEF Close
  <2>3. \A c : (\E g \in Fds : peer'[g] = c /\ c # NoClient)
                 <=> c # t.client /\ (\E g \in Fds : peer[g] = c /\ c # NoClient)
    BY <2>1, <2>2 DEF TypeOK, OneConnection
  <2>4. \A c : c # t.client => ((\E u \in threads' : u.at = "close" /\ u.client = c)
                                  <=> \E u \in threads : u.at = "close" /\ u.client = c)
    BY <2>2
  <2>5. t.client \notin ssl
    BY <2>2 DEF SslOf
  <2> QED
    BY <2>2, <2>3, <2>4, <2>5 DEF SslOf
<1>8. ASSUME UNCHANGED <<peer, ssl, threads>> PROVE SslOf'
  BY <1>8 DEF SslOf
<1> QED
  BY <1>1, <1>2, <1>3, <1>4, <1>5, <1>6, <1>7, <1>8
  DEF Next, LoopStep, LoopTurns, ThreadStep, AcceptAborted, HandshakeOk, vars

-----------------------------------------------------------------------------
LEMMA IInvInit == Init => IInv
BY TcpServerAssumption
DEF Init, IInv, TypeOK, DescriptorsOwned, OneConnection, SslFreedOnce, FreeFds

LEMMA IInvStep == IInv /\ [Next]_vars => IInv'
<1> SUFFICES ASSUME IInv, [Next]_vars PROVE IInv'
  OBVIOUS
<1>1. TypeOK' /\ DescriptorsOwned' /\ OneConnection'
  BY TypeStep, OwnedStep, OneConnectionStep DEF IInv
<1>2. SslOf'
  BY SslOfIsSslFreedOnce, SslStep DEF IInv
<1>3. SslFreedOnce'
  BY <1>2, SslOfIsSslFreedOnce, PTL
<1> QED
  BY <1>1, <1>3 DEF IInv
=============================================================================
