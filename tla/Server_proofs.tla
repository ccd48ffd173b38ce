---------------------------- MODULE Server_proofs ---------------------------
(***************************************************************************)
(* Theorems about the process, for any number of clients and descriptors    *)
(* and any sequence of launches.                                            *)
(*                                                                          *)
(* While main() is inside start() the connections move by TcpServer!Next,   *)
(* whose invariant is IInv; outside of it they are as Init has them.  The   *)
(* order of start-up is in Made and Tried: what main() holds, and which     *)
(* tables it has tried to create, by the time it reaches a stage.           *)
(***************************************************************************)
EXTENDS Server, TcpServer_proofs, FiniteSetTheorems

Stages == {"down", "tls", "open", "users", "history", "handlers", "socket", "serve"}

(* main() holds at every stage what the stages before it have made. *)
Made ==
    /\ stage \in {"open", "users", "history", "handlers"} => "sslCtx" \in objects
    /\ stage \in {"users", "history", "handlers"} => "db" \in objects
    /\ stage \in {"socket", "serve"} => objects = Used

(* A table is there, or its CREATE has failed, once it has been tried. *)
Tried ==
    /\ stage \in {"history", "handlers", "socket", "serve"} => "users" \in tables \cup unmade
    /\ stage \in {"handlers", "socket", "serve"} => "history" \in tables \cup unmade

ServerIInv == IInv /\ ServerTypeOK /\ Made /\ Tried

-----------------------------------------------------------------------------
LEMMA ServerIInvInit == ServerInit => ServerIInv
<1> SUFFICES ASSUME ServerInit PROVE ServerIInv
  OBVIOUS
<1>1. IInv /\ TypeOK
  BY IInvInit DEF ServerInit, IInv
<1> QED
  BY <1>1 DEF ServerInit, ServerIInv, ServerTypeOK, Made, Tried

(* Start-up touches no connection. *)
LEMMA MainStep ==
    ASSUME ServerIInv, Launch \/ StartUp
    PROVE  ServerIInv'
<1>1. UNCHANGED vars /\ stage \in Stages \ {"serve"} /\ stage' \in Stages
  BY DEF Launch, StartUp, LoadTls, OpenDb, CreateUsers, CreateHistory, MakeHandlers,
         SetupSocket, Make, Stages
<1>2. Init /\ IInv /\ TypeOK
  BY <1>1 DEF ServerIInv, ServerTypeOK, Stages
<1>3. Init'
  BY <1>1, <1>2 DEF Init, vars
<1>4. IInv'
  BY <1>1, <1>2, IInvStep
<1>5. TypeOK'
  BY <1>4 DEF IInv
<1>6. objects \subseteq Used /\ tables \subseteq {"users", "history"}
        /\ unmade \subseteq {"users", "history"} /\ Made /\ Tried
  BY DEF ServerIInv, ServerTypeOK
<1>7. CASE Launch
  BY <1>3, <1>4, <1>5, <1>6, <1>7 DEF Launch, ServerIInv, ServerTypeOK, Made, Tried
<1>8. CASE LoadTls
  BY <1>3, <1>4, <1>5, <1>6, <1>8
  DEF LoadTls, Make, Used, ServerIInv, ServerTypeOK, Made, Tried
<1>9. CASE OpenDb
  BY <1>3, <1>4, <1>5, <1>6, <1>9
  DEF OpenDb, Make, Used, ServerIInv, ServerTypeOK, Made, Tried
<1>10. CASE CreateUsers
  BY <1>3, <1>4, <1>5, <1>6, <1>10
  DEF CreateUsers, Execute, ServerIInv, ServerTypeOK, Made, Tried
<1>11. CASE CreateHistory
  BY <1>3, <1>4, <1>5, <1>6, <1>11
  DEF CreateHistory, Execute, ServerIInv, ServerTypeOK, Made, Tried
<1>12. CASE MakeHandlers
  BY <1>3, <1>4, <1>5, <1>6, <1>12
  DEF MakeHandlers, Make, Used, ServerIInv, ServerTypeOK, Made, Tried
<1>13. CASE SetupSocket
  BY <1>3, <1>4, <1>5, <1>6, <1>13
  DEF SetupSocket, ServerIInv, ServerTypeOK, Made, Tried
<1> QED
  BY <1>7, <1>8, <1>9, <1>10, <1>11, <1>12, <1>13 DEF StartUp

(* Inside start() main() does nothing else. *)
LEMMA ServeStep ==
    ASSUME ServerIInv, InStart(Next)
    PROVE  ServerIInv'
<1>1. stage = "serve" /\ UNCHANGED mainVars /\ IInv' /\ TypeOK'
  BY IInvStep DEF InStart, ServerIInv, IInv
<1> QED
  BY <1>1 DEF ServerIInv, ServerTypeOK, Made, Tried, mainVars

(* The end of the process leaves the connections as Init has them. *)
LEMMA EndStep ==
    ASSUME ServerIInv, ProcessEnds
    PROVE  ServerIInv'
<1>1. Init'
  BY DEF ProcessEnds, Init
<1>2. IInv'
  BY <1>1, IInvInit, PTL
<1>3. TypeOK'
  BY <1>2 DEF IInv
<1> QED
  BY <1>1, <1>2, <1>3 DEF ProcessEnds, ServerIInv, ServerTypeOK, Made, Tried

LEMMA ServerSpecIInv == ServerSpec => []ServerIInv
<1>1. ServerIInv /\ UNCHANGED serverVars => ServerIInv'
  <2> SUFFICES ASSUME ServerIInv, UNCHANGED serverVars PROVE ServerIInv'
    OBVIOUS
  <2>1. UNCHANGED vars /\ UNCHANGED mainVars
    BY DEF serverVars
  <2>2. IInv'
    BY <2>1, IInvStep DEF ServerIInv
  <2>3. TypeOK' /\ (Init => Init')
    BY <2>1, <2>2 DEF IInv, Init, vars
  <2> QED
    BY <2>1, <2>2, <2>3 DEF ServerIInv, ServerTypeOK, Made, Tried, mainVars
<1>2. ServerIInv /\ [ServerNext]_serverVars => ServerIInv'
  BY <1>1, MainStep, ServeStep, EndStep DEF ServerNext
<1> QED
  BY <1>2, ServerIInvInit, PTL DEF ServerSpec

(* main(), the descriptors, the loop and the threads are always of their      *)
(* types, and there are connections only inside start().                      *)
THEOREM ServerTypeCorrect == ServerSpec => []ServerTypeOK
<1>1. ServerIInv => ServerTypeOK
  BY DEF ServerIInv
<1> QED
  BY <1>1, ServerSpecIInv, PTL

(* Every open descriptor has one owner, and every owned descriptor is open,   *)
(* for any number of clients, descriptors and threads.                        *)
THEOREM DescriptorsHaveOneOwner == ServerSpec => []DescriptorsOwned
<1>1. ServerIInv => DescriptorsOwned
  BY DEF ServerIInv, IInv
<1> QED
  BY <1>1, ServerSpecIInv, PTL

(* No SSL object is leaked, freed twice or used after it was freed. *)
THEOREM SslObjectsFreedOnce == ServerSpec => []SslFreedOnce
<1>1. ServerIInv => SslFreedOnce
  BY DEF ServerIInv, IInv
<1> QED
  BY <1>1, ServerSpecIInv, PTL

(* No client thread runs without the handlers and the database it uses. *)
THEOREM ObjectsOutliveThreads == ServerSpec => []ThreadsHaveObjects
<1>1. ServerIInv => ThreadsHaveObjects
  BY DEF ServerIInv, ServerTypeOK, Made, ThreadsHaveObjects, Init
<1> QED
  BY <1>1, ServerSpecIInv, PTL

(* A server lacks a table only if its own CREATE has failed since launch. *)
THEOREM MissingTablesFailed == ServerSpec => []OwnCreateFailed
<1>1. ServerIInv => OwnCreateFailed
  BY DEF ServerIInv, Tried, OwnCreateFailed
<1> QED
  BY <1>1, ServerSpecIInv, PTL
-----------------------------------------------------------------------------
(***************************************************************************)
(* Server implements ClientService.  Where a client is follows from the     *)
(* thread that serves it alone (Places): the descriptor of the thread still *)
(* leads to this client, and its SSL object is there until the thread frees *)
(* it.  A free descriptor means a free seat (SeatLeft).                     *)
(***************************************************************************)
Served(c) == \E t \in threads : t.client = c

Freed(c) == \E t \in threads : t.client = c /\ t.at = "close"

Whereabouts(c) ==
    IF AtDoor(c) THEN "door"
    ELSE IF Freed(c) THEN "leaving" ELSE IF Served(c) THEN "guest" ELSE "away"

Located == \A c \in Clients : Place(c) = Whereabouts(c)

LEMMA Places == IInv => Located
<1> SUFFICES ASSUME IInv, NEW c \in Clients PROVE Place(c) = Whereabouts(c)
  BY DEF Located
<1>1. TypeOK /\ DescriptorsOwned /\ OneConnection /\ SslOf
  BY SslOfIsSslFreedOnce DEF IInv
<1>2. \A t \in threads : t.fd \in Fds /\ peer[t.fd] = t.client /\ t.fd # client_fd
  BY <1>1, ThreadOwns
<1>3. c # NoClient
  BY TcpServerAssumption
<1>4. Attended(c) <=> Served(c)
  BY <1>2 DEF Attended, Served
<1>5. AtDoor(c) => client_fd \in Fds
  BY <1>1 DEF AtDoor, TypeOK
<1>6. AtDoor(c) => ~Served(c) /\ ~Freed(c)
  BY <1>1, <1>2, <1>3, <1>5 DEF AtDoor, Served, Freed, OneConnection
<1>7. Connected(c) <=> AtDoor(c) \/ Served(c)
  BY <1>1, <1>2, <1>3, <1>5, TcpServerAssumption
  DEF Connected, AtDoor, Served, DescriptorsOwned
<1>8. c \in ssl <=> Connected(c) /\ ~Freed(c)
  BY <1>1, <1>3 DEF SslOf, Connected, Freed
<1>9. Freed(c) => Served(c)
  BY DEF Freed, Served
<1> QED
  BY <1>4, <1>6, <1>7, <1>8, <1>9 DEF Place, Whereabouts

(* accept() finds a descriptor only if a seat is left. *)
LEMMA SeatLeft ==
    ASSUME TypeOK, NEW f \in FreeFds, NEW S, \A c \in S : Connected(c), NoClient \notin S
    PROVE  Cardinality(S) < Cardinality(Fds)
<1> DEFINE used == {g \in Fds : peer[g] \in S}
           leads == [g \in used |-> peer[g]]
<1>1. f \in Fds /\ f \notin used
  BY DEF FreeFds
<1>2. used \in SUBSET Fds /\ used # Fds
  BY <1>1
<1>3. leads \in Surjection(used, S)
  BY DEF Surjection, Connected
<1>4. IsFiniteSet(Fds)
  BY TcpServerAssumption
<1> HIDE DEF used, leads
<1>5. IsFiniteSet(used) /\ Cardinality(used) <= Cardinality(Fds)
        /\ Cardinality(used) # Cardinality(Fds)
  BY <1>2, <1>4, FS_Subset
<1>6. IsFiniteSet(S) /\ Cardinality(S) <= Cardinality(used)
  BY <1>3, <1>5, FS_Surjection
<1>7. Cardinality(S) \in Nat /\ Cardinality(used) \in Nat /\ Cardinality(Fds) \in Nat
  BY <1>4, <1>5, <1>6, FS_CardinalityType
<1> QED
  BY <1>5, <1>6, <1>7

(* One client moves, or none. *)
LEMMA OneMoves ==
    ASSUME IInv, IInv', NEW c \in Clients,
           \A d \in Clients \ {c} : Whereabouts(d)' = Whereabouts(d)
    PROVE  [d \in Clients |-> Place(d)]'
             = [[d \in Clients |-> Place(d)] EXCEPT ![c] = Whereabouts(c)']
<1>1. Located
  BY Places
<1>2. Located'
  BY Places, PTL
<1> QED
  BY <1>1, <1>2 DEF Located

LEMMA NobodyMoves ==
    ASSUME IInv, IInv', \A d \in Clients : Whereabouts(d)' = Whereabouts(d)
    PROVE  [d \in Clients |-> Place(d)]' = [d \in Clients |-> Place(d)]
<1>1. Located
  BY Places
<1>2. Located'
  BY Places, PTL
<1> QED
  BY <1>1, <1>2 DEF Located
(* The same steps with the names of ClientService. *)
LEMMA RefInit == ServerInit => Service!Init
<1> SUFFICES ASSUME ServerInit PROVE Service!Init
  OBVIOUS
<1>1. \A c \in Clients : Place(c) = "away"
  BY TcpServerAssumption
  DEF ServerInit, Init, Place, Attended, AtDoor, Connected
<1> QED
  BY <1>1 DEF ServerInit, Init, Service!Init

LEMMA RefMain ==
    ASSUME ServerIInv, Launch \/ StartUp
    PROVE  Service!Open \/ UNCHANGED Service!vars
<1>1. UNCHANGED vars
  BY DEF Launch, StartUp, LoadTls, OpenDb, CreateUsers, CreateHistory, MakeHandlers,
         SetupSocket
<1>2. UNCHANGED <<backlog, [c \in Clients |-> Place(c)]>>
  BY <1>1 DEF vars, Place, Attended, AtDoor, Connected
<1>3. stage # "serve" /\ (SetupSocket => stage' = "serve") /\ (~SetupSocket => stage' # "serve")
  BY DEF Launch, StartUp, LoadTls, OpenDb, CreateUsers, CreateHistory, MakeHandlers,
         SetupSocket, Make
<1>4. CASE SetupSocket
  BY <1>2, <1>3, <1>4 DEF Service!Open
<1>5. CASE ~SetupSocket
  BY <1>2, <1>3, <1>5 DEF Service!vars
<1> QED
  BY <1>4, <1>5

LEMMA RefEnd ==
    ASSUME ServerIInv, ProcessEnds
    PROVE  Service!Shut \/ UNCHANGED Service!vars
<1>1. \A c \in Clients : Place(c)' = "away"
  BY TcpServerAssumption DEF ProcessEnds, Place, Attended, AtDoor, Connected
<1>2. backlog' = <<>> /\ stage' # "serve"
  BY DEF ProcessEnds
<1>3. CASE stage = "serve"
  BY <1>1, <1>2, <1>3 DEF Service!Shut
<1>4. CASE stage # "serve"
  <2>1. Init
    BY <1>4 DEF ServerIInv, ServerTypeOK
  <2>2. \A c \in Clients : Place(c) = "away"
    BY <2>1, TcpServerAssumption DEF Init, Place, Attended, AtDoor, Connected
  <2> QED
    BY <1>1, <1>2, <1>4, <2>1, <2>2 DEF Init, Service!vars
<1> QED
  BY <1>3, <1>4

(* A client goes from one place to another; nothing else changes. *)
LEMMA Goes ==
    ASSUME IInv, IInv', UNCHANGED backlog, stage = "serve", UNCHANGED stage,
           NEW c \in Clients, NEW from, NEW to,
           Whereabouts(c) = from, Whereabouts(c)' = to,
           \A d \in Clients \ {c} : Whereabouts(d)' = Whereabouts(d)
    PROVE  Service!Goes(c, from, to)
<1>1. [d \in Clients |-> Place(d)][c] = from
  BY Places DEF Located
<1> QED
  BY <1>1, OneMoves DEF Service!Goes

LEMMA RefConnect ==
    ASSUME IInv, IInv', UNCHANGED stage, stage = "serve", NEW c \in Clients, Connect(c)
    PROVE  Service!Arrive(c)
<1>1. UNCHANGED <<peer, client_fd, threads>> /\ ~Connected(c)
  BY DEF Connect
<1>2. \A d \in Clients : Whereabouts(d)' = Whereabouts(d)
  BY <1>1 DEF Whereabouts, AtDoor, Served, Freed
<1>3. UNCHANGED [d \in Clients |-> Place(d)]
  BY <1>2, NobodyMoves
<1>4. client_fd = NoFd \/ client_fd \in Fds
  BY DEF IInv, TypeOK
<1>5. \A t \in threads : t.fd \in Fds /\ peer[t.fd] = t.client
  BY ThreadOwns DEF IInv
<1>6. Place(c) = "away"
  BY <1>1, <1>4, <1>5 DEF Connected, Place, AtDoor, Attended
<1> QED
  BY <1>3, <1>6 DEF Connect, Waiting, Service!Arrive

(* The operator of FiniteSets that ClientService has taken in is the same. *)
LEMMA SameCardinality == \A S : Service!Cardinality(S) = Cardinality(S)
BY DEF Service!Cardinality, Cardinality

LEMMA RefAccept ==
    ASSUME IInv, IInv', UNCHANGED stage, stage = "serve", Accept
    PROVE  Service!LetIn
<1>0. PICK c \in Clients : c = Head(backlog)
  BY BacklogTail DEF Accept, IInv, TypeOK
<1> DEFINE p == [d \in Clients |-> Place(d)]
<1>1. PICK f \in FreeFds : peer' = [peer EXCEPT ![f] = c] /\ client_fd' = f
  BY <1>0 DEF Accept
<1>2. f \in Fds /\ peer[f] = NoClient /\ threads' = threads /\ client_fd = NoFd
      /\ peer \in [Fds -> Clients \cup {NoClient}]
  BY <1>1 DEF Accept, FreeFds, IInv, TypeOK
<1>3. c \in Clients /\ backlog # <<>> /\ backlog' = Tail(backlog)
  BY BacklogTail DEF Accept, IInv, TypeOK
<1>4. \A d \in Clients : ~AtDoor(d) /\ (AtDoor(d)' <=> d = c)
  BY <1>1, <1>2, TcpServerAssumption DEF AtDoor
<1>5. \A d \in Clients \ {c} : Whereabouts(d)' = Whereabouts(d)
  BY <1>2, <1>4 DEF Whereabouts, Served, Freed
<1>6. Whereabouts(c)' = "door"
  BY <1>3, <1>4 DEF Whereabouts
<1>7. p' = [p EXCEPT ![c] = "door"]
  BY <1>3, <1>5, <1>6, OneMoves
<1>8. \A d \in Clients : p[d] # "door"
  BY <1>4, Places DEF Located, Whereabouts
<1>9. Cardinality({d \in Clients : p[d] # "away"}) < Cardinality(Fds)
  <2> DEFINE S == {d \in Clients : p[d] # "away"}
  <2>1. \A t \in threads : t.fd \in Fds /\ peer[t.fd] = t.client
    BY ThreadOwns DEF IInv
  <2>2. \A d \in S : Connected(d)
    BY <1>2, <2>1 DEF Place, Attended, AtDoor, Connected
  <2>3. NoClient \notin S
    BY TcpServerAssumption
  <2> HIDE DEF S
  <2>4. Cardinality(S) < Cardinality(Fds)
    BY <1>1, <2>2, <2>3, SeatLeft DEF IInv
  <2> QED
    BY <2>4 DEF S
<1>10. Cardinality(Service!Seated) < Cardinality(Fds)
  BY <1>9 DEF Service!Seated
<1>11. Service!Cardinality(Service!Seated) < Service!Cardinality(Fds)
  BY <1>10, SameCardinality
<1>12. p' = [p EXCEPT ![Head(backlog)] = "door"]
  BY <1>0, <1>7
<1>13. \A d \in Clients : p[d] # "door"
  BY <1>8
<1> QED
  BY <1>3, <1>11, <1>12, <1>13 DEF Service!LetIn

LEMMA RefDrop ==
    ASSUME IInv, IInv', UNCHANGED stage, stage = "serve", HandshakeFails \/ SpawnFails
    PROVE  \E c \in Clients : Service!TurnAway(c)
<1>0. PICK c \in Clients : c = peer[client_fd]
  BY LoopOwns DEF HandshakeFails, SpawnFails, IInv
<1>1. /\ client_fd \in Fds /\ client_fd # NoFd
      /\ \A t \in threads : t.fd \in Fds /\ t.fd # client_fd /\ peer[t.fd] = t.client
  BY LoopOwns, ThreadOwns, TcpServerAssumption DEF HandshakeFails, SpawnFails, IInv
<1>2. /\ client_fd' = NoFd /\ threads' = threads /\ backlog' = backlog
  BY DEF HandshakeFails, SpawnFails, Drop, Continue
<1>3. \A d \in Clients : (AtDoor(d) <=> d = c) /\ ~AtDoor(d)'
  BY <1>0, <1>1, <1>2 DEF AtDoor
<1>4. ~Served(c) /\ ~Freed(c)
  BY <1>0, <1>1, TcpServerAssumption DEF Served, Freed, IInv, OneConnection
<1>5. \A d \in Clients : (Served(d)' <=> Served(d)) /\ (Freed(d)' <=> Freed(d))
  BY <1>2 DEF Served, Freed
<1>6. Whereabouts(c) = "door" /\ Whereabouts(c)' = "away"
  BY <1>1, <1>3, <1>4, <1>5 DEF Whereabouts
<1>7. \A d \in Clients \ {c} : Whereabouts(d)' = Whereabouts(d)
  BY <1>3, <1>5 DEF Whereabouts
<1>8. Service!Goes(c, "door", "away")
  BY <1>1, <1>2, <1>6, <1>7, Goes
<1> QED
  BY <1>1, <1>8 DEF Service!TurnAway

LEMMA RefSpawn ==
    ASSUME IInv, IInv', UNCHANGED stage, stage = "serve", Spawn
    PROVE  \E c \in Clients : Service!Welcome(c)
<1>0. PICK c \in Clients : c = peer[client_fd]
  BY LoopOwns DEF Spawn, IInv
<1> DEFINE new == [fd |-> client_fd, client |-> c, at |-> "serve"]
<1>1. /\ client_fd \in Fds /\ client_fd # NoFd
      /\ \A t \in threads : t.fd \in Fds /\ t.fd # client_fd /\ peer[t.fd] = t.client
  BY LoopOwns, ThreadOwns, TcpServerAssumption DEF Spawn, IInv
<1>2. client_fd' = NoFd /\ threads' = threads \cup {new} /\ backlog' = backlog
  BY <1>0 DEF Spawn, Continue
<1>3. \A d \in Clients : (AtDoor(d) <=> d = c) /\ ~AtDoor(d)'
  BY <1>0, <1>1, <1>2 DEF AtDoor
<1>4. ~Freed(c)
  BY <1>0, <1>1, TcpServerAssumption DEF Freed, IInv, OneConnection
<1>5. new.client = c /\ new.at # "close"
  OBVIOUS
<1> HIDE DEF new
<1>6. \A d \in Clients : (Served(d)' <=> d = c \/ Served(d)) /\ (Freed(d)' <=> Freed(d))
  BY <1>2, <1>5 DEF Served, Freed
<1>7. Whereabouts(c) = "door" /\ Whereabouts(c)' = "guest"
  BY <1>1, <1>3, <1>4, <1>6 DEF Whereabouts
<1>8. \A d \in Clients \ {c} : Whereabouts(d)' = Whereabouts(d)
  BY <1>3, <1>6 DEF Whereabouts
<1>9. Service!Goes(c, "door", "guest")
  BY <1>1, <1>2, <1>7, <1>8, Goes
<1> QED
  BY <1>1, <1>9 DEF Service!Welcome

(* One thread serves a client. *)
LEMMA OneThread ==
    ASSUME IInv, NEW t \in threads, NEW u \in threads, t.client = u.client
    PROVE  t = u
<1>1. /\ t.fd \in Fds /\ peer[t.fd] = t.client /\ t.client # NoClient
      /\ u.fd \in Fds /\ peer[u.fd] = u.client
  BY ThreadOwns, TcpServerAssumption DEF IInv
<1>2. t.fd = u.fd
  BY <1>1 DEF IInv, OneConnection
<1> QED
  BY <1>2 DEF IInv, DescriptorsOwned

LEMMA RefMoves ==
    ASSUME IInv, NEW t \in threads, NEW at \in {"shutdown", "close"}, Moves(t, at),
           UNCHANGED <<peer, client_fd>>
    PROVE  /\ \A d \in Clients : AtDoor(d)' = AtDoor(d) /\ Served(d)' = Served(d)
           /\ \A d \in Clients \ {t.client} : Freed(d)' = Freed(d)
           /\ Freed(t.client)' <=> at = "close"
           /\ t.client \in Clients /\ Served(t.client)
<1> DEFINE moved == [t EXCEPT !.at = at]
<1>1. moved.client = t.client /\ moved.at = at
  BY DEF IInv, TypeOK, Thread
<1>2. threads' = (threads \ {t}) \cup {moved}
  BY DEF Moves
<1>3. \A u \in threads : u.client = t.client => u = t
  BY OneThread
<1>4. t.client \in Clients
  BY ThreadOwns DEF IInv
<1> HIDE DEF moved
<1> QED
  BY <1>1, <1>2, <1>3, <1>4 DEF AtDoor, Served, Freed

LEMMA RefServeReturns ==
    ASSUME IInv, IInv', UNCHANGED stage, NEW t \in threads, ServeReturns(t)
    PROVE  UNCHANGED Service!vars
<1>1. ~Freed(t.client)
  BY OneThread DEF Freed, ServeReturns
<1>2. \A d \in Clients : Whereabouts(d)' = Whereabouts(d)
  BY <1>1, RefMoves DEF ServeReturns, Whereabouts
<1> QED
  BY <1>2, NobodyMoves DEF ServeReturns, Service!vars

LEMMA RefFreeSsl ==
    ASSUME IInv, IInv', UNCHANGED stage, stage = "serve", NEW t \in threads, FreeSsl(t)
    PROVE  \E c \in Clients : Service!SeeOff(c)
<1>1. ~Freed(t.client)
  BY OneThread DEF Freed, FreeSsl
<1>2. ~AtDoor(t.client)
  <2>1. t.fd \in Fds /\ peer[t.fd] = t.client /\ t.fd # client_fd /\ t.client # NoClient
    BY ThreadOwns, TcpServerAssumption DEF IInv
  <2> QED
    BY <2>1 DEF AtDoor, IInv, TypeOK, OneConnection
<1>3. t.client \in Clients /\ Whereabouts(t.client) = "guest" /\ Whereabouts(t.client)' = "leaving"
  BY <1>1, <1>2, RefMoves DEF FreeSsl, Whereabouts
<1>4. \A d \in Clients \ {t.client} : Whereabouts(d)' = Whereabouts(d)
  BY RefMoves DEF FreeSsl, Whereabouts
<1>5. Service!Goes(t.client, "guest", "leaving")
  BY <1>3, <1>4, Goes DEF FreeSsl
<1> QED
  BY <1>3, <1>5 DEF Service!SeeOff

LEMMA RefClose ==
    ASSUME IInv, IInv', UNCHANGED stage, stage = "serve", NEW t \in threads, Close(t)
    PROVE  \E c \in Clients : Service!Leave(c)
<1> DEFINE c == t.client
<1>1. /\ t.fd \in Fds /\ peer[t.fd] = c /\ t.fd # client_fd /\ c # NoClient /\ c \in Clients
      /\ client_fd = NoFd \/ client_fd \in Fds
  BY ThreadOwns, TcpServerAssumption DEF IInv, TypeOK
<1>2. /\ t.at = "close" /\ threads' = threads \ {t}
      /\ peer' = [peer EXCEPT ![t.fd] = NoClient] /\ UNCHANGED <<backlog, client_fd>>
  BY DEF Close
<1>3. \A d \in Clients : AtDoor(d)' <=> AtDoor(d)
  BY <1>1, <1>2, TcpServerAssumption DEF AtDoor, IInv, TypeOK
<1>4. ~AtDoor(c)
  BY <1>1 DEF AtDoor, IInv, OneConnection
<1>5. Freed(c) /\ ~Served(c)' /\ ~Freed(c)'
  BY <1>2, OneThread DEF Freed, Served
<1>6. \A d \in Clients \ {c} : (Served(d)' <=> Served(d)) /\ (Freed(d)' <=> Freed(d))
  BY <1>2 DEF Freed, Served
<1> HIDE DEF c
<1>7. Whereabouts(c) = "leaving" /\ Whereabouts(c)' = "away"
  BY <1>1, <1>3, <1>4, <1>5 DEF Whereabouts
<1>8. \A d \in Clients \ {c} : Whereabouts(d)' = Whereabouts(d)
  BY <1>3, <1>6 DEF Whereabouts
<1>9. Service!Goes(c, "leaving", "away")
  BY <1>1, <1>2, <1>7, <1>8, Goes
<1> QED
  BY <1>1, <1>9 DEF Service!Leave

(* Every step of the connections is one of the service, or none. *)
LEMMA RefServe ==
    ASSUME ServerIInv, InStart(Next)
    PROVE  Service!Next \/ UNCHANGED Service!vars
<1>1. IInv /\ IInv' /\ stage = "serve" /\ UNCHANGED stage
  BY IInvStep DEF InStart, ServerIInv, mainVars
<1>2. ASSUME NEW c \in Clients, Connect(c) PROVE Service!Next
  BY <1>1, <1>2, RefConnect DEF Service!Next
<1>3. CASE Accept
  BY <1>1, <1>3, RefAccept DEF Service!Next
<1>4. CASE AcceptAborted
  <2>1. backlog # <<>> /\ backlog' = Tail(backlog) /\ UNCHANGED <<peer, ssl, client_fd, threads>>
    BY <1>4 DEF AcceptAborted
  <2>2. UNCHANGED [c \in Clients |-> Place(c)]
    BY <2>1 DEF Place, Attended, AtDoor, Connected
  <2> QED
    BY <1>1, <2>1, <2>2 DEF Service!Next, Service!GiveUp
<1>5. CASE HandshakeOk
  <2>1. UNCHANGED <<backlog, peer, ssl, client_fd, threads>>
    BY <1>5 DEF HandshakeOk
  <2> QED
    BY <1>1, <2>1 DEF Service!vars, Place, Attended, AtDoor, Connected
<1>6. CASE HandshakeFails \/ SpawnFails
  BY <1>1, <1>6, RefDrop DEF Service!Next
<1>7. CASE Spawn
  BY <1>1, <1>7, RefSpawn DEF Service!Next
<1>8. ASSUME NEW t \in threads, ThreadStep(t) PROVE Service!Next \/ UNCHANGED Service!vars
  BY <1>1, <1>8, RefServeReturns, RefFreeSsl, RefClose DEF ThreadStep, Service!Next
<1> QED
  BY <1>2, <1>3, <1>4, <1>5, <1>6, <1>7, <1>8 DEF InStart, Next, LoopStep, LoopTurns

(* Server implements ClientService: in the order they came, each client is    *)
(* served over its own connection, and all open connections have a seat, for  *)
(* any number of clients and descriptors and across any ends and launches.    *)
THEOREM Refinement == ServerSpec => ImplementsClientService
<1>1. ServerIInv /\ [ServerNext]_serverVars => [Service!Next]_(Service!vars)
  <2> SUFFICES ASSUME ServerIInv, [ServerNext]_serverVars
               PROVE  Service!Next \/ UNCHANGED Service!vars
    OBVIOUS
  <2>1. CASE Launch \/ StartUp
    BY <2>1, RefMain DEF Service!Next
  <2>2. CASE InStart(Next)
    BY <2>2, RefServe
  <2>3. CASE ProcessEnds
    BY <2>3, RefEnd DEF Service!Next
  <2>4. CASE UNCHANGED serverVars
    BY <2>4 DEF serverVars, vars, mainVars, Service!vars, Place, Attended, AtDoor, Connected
  <2> QED
    BY <2>1, <2>2, <2>3, <2>4 DEF ServerNext
<1> QED
  BY <1>1, RefInit, ServerSpecIInv, PTL DEF ServerSpec, ImplementsClientService, Service!Spec
=============================================================================
