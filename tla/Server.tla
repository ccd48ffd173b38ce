------------------------------- MODULE Server --------------------------------
(***************************************************************************)
(* The whole process: main(), which loads the certificates, opens the       *)
(* database, creates the tables, makes the handlers and the socket, and then *)
(* stays in TcpServer::start for ever; its end, and the next launch.         *)
(*                                                                          *)
(* The handlers and the database connection are local variables of main(),  *)
(* used by threads that nobody joins.                                        *)
(***************************************************************************)
EXTENDS TcpServer

VARIABLES
    stage,    \* what main() does next, "serve" inside start(), "down": no process
    objects,  \* what main() has made and still holds
    tables,   \* the tables in server_data.db
    unmade    \* the tables whose CREATE has failed in this process

mainVars == <<stage, objects, tables, unmade>>

serverVars == <<vars, mainVars>>

(* What a client thread reaches through commandHandler and through its server. *)
Used == {"sslCtx", "db", "imageHandler", "handler", "server"}

ServerInit ==
    /\ Init
    /\ stage = "down" /\ objects = {} /\ tables = {} /\ unmade = {}

Make(made, next) == objects' = objects \cup made /\ stage' = next

-----------------------------------------------------------------------------
(* main() *)

Launch ==
    /\ stage = "down" /\ stage' = "tls"
    /\ UNCHANGED <<vars, objects, tables, unmade>>

(* The context, the certificate, the key and the CA. *)
LoadTls ==
    /\ stage = "tls"
    /\ Make({"sslCtx"}, "open")
    /\ UNCHANGED <<vars, tables, unmade>>

(* DBManager::open *)
OpenDb ==
    /\ stage = "open"
    /\ Make({"db"}, "users")
    /\ UNCHANGED <<vars, tables, unmade>>

(* DBManager::execute on CREATE TABLE IF NOT EXISTS *)
Execute(table) ==
    \/ "db" \in objects /\ tables' = tables \cup {table} /\ UNCHANGED unmade
    \/ unmade' = unmade \cup {table} /\ UNCHANGED tables

(* Mutant of CreateUsers: a table that cannot be created ends init(). *)
CreateUsersOrNone ==
    /\ stage = "users"
    /\ Execute("users")
    /\ stage' = IF "users" \in unmade' THEN "handlers" ELSE "history"
    /\ UNCHANGED <<vars, objects>>

(* DBInitializer::init: a failure is logged. *)
CreateUsers ==
    /\ stage = "users" /\ stage' = "history"
    /\ Execute("users")
    /\ UNCHANGED <<vars, objects>>

CreateHistory ==
    /\ stage = "history" /\ stage' = "handlers"
    /\ Execute("history")
    /\ UNCHANGED <<vars, objects>>

(* Mutant of MakeHandlers: they are locals of a function that returns. *)
MakeHandlersLocal ==
    /\ stage = "handlers"
    /\ Make({"server"}, "socket")
    /\ UNCHANGED <<vars, tables, unmade>>

MakeHandlers ==
    /\ stage = "handlers"
    /\ Make({"imageHandler", "handler", "server"}, "socket")
    /\ UNCHANGED <<vars, tables, unmade>>

(* TcpServer::setupSocket *)
SetupSocket ==
    /\ stage = "socket" /\ stage' = "serve"
    /\ UNCHANGED <<vars, objects, tables, unmade>>

(* A step of start-up fails and main() returns, or exits; the process is      *)
(* killed; or a thread throws what nothing catches.  The kernel closes what   *)
(* was open and resets the connections that waited.                           *)
ProcessEnds ==
    /\ stage # "down" /\ stage' = "down"
    /\ backlog' = <<>> /\ peer' = [f \in Fds |-> NoClient] /\ ssl' = {}
    /\ loop' = "accept" /\ client_fd' = NoFd /\ threads' = {}
    /\ objects' = {} /\ unmade' = {}
    /\ UNCHANGED tables

(* TcpServer::start and the client threads. *)
InStart(step) == stage = "serve" /\ step /\ UNCHANGED mainVars

StartUp ==
    \/ LoadTls \/ OpenDb \/ CreateUsers \/ CreateHistory
    \/ MakeHandlers \/ SetupSocket

ServerNext == Launch \/ StartUp \/ InStart(Next) \/ ProcessEnds

ServerSpec == ServerInit /\ [][ServerNext]_serverVars

(* The scheduler runs the loop and the threads.  What waits for a client may  *)
(* wait for ever, as no call has a timeout: SSL_accept, which the client       *)
(* drives, the reads and writes of a session, and the SSL_shutdown behind it,  *)
(* which writes.  (The one in SpawnFails writes into the empty buffer of a     *)
(* connection that is new.)  Nor is it taken for granted that a waiting client *)
(* goes away, that the process ends, or that it is launched again.            *)
FairServerSpec ==
    /\ ServerSpec
    /\ WF_serverVars(InStart(LoopTurns))
    /\ \A f \in Fds, c \in Clients :
          LET t == [fd |-> f, client |-> c, at |-> "close"]
          IN  WF_serverVars(InStart(t \in threads /\ Close(t)))

-----------------------------------------------------------------------------
(***************************************************************************)
(* Refinement: a client is where its connection is, and the connection is   *)
(* what the descriptors of the loop and of the threads lead to now.         *)
(***************************************************************************)
AtDoor(c) == client_fd # NoFd /\ peer[client_fd] = c

Attended(c) == \E t \in threads : peer[t.fd] = c

Place(c) ==
    CASE Attended(c) /\ c \in ssl    -> "guest"
      [] Attended(c) /\ c \notin ssl -> "leaving"
      [] AtDoor(c) /\ c \in ssl      -> "door"
      [] OTHER                       -> IF Connected(c) THEN "lost" ELSE "away"

Service == INSTANCE ClientService WITH
              Seats <- Fds,
              open  <- stage = "serve",
              queue <- backlog,
              place <- [c \in Clients |-> Place(c)]

-----------------------------------------------------------------------------
(* Properties *)

(* Type correctness of main() and of the connections it serves; there are     *)
(* connections only while main() is inside start().                           *)
ServerTypeOK ==
    /\ TypeOK
    /\ stage \in {"down", "tls", "open", "users", "history", "handlers", "socket", "serve"}
    /\ objects \subseteq Used
    /\ tables \subseteq {"users", "history"} /\ unmade \subseteq {"users", "history"}
    /\ stage # "serve" => Init

(* A thread finds everything it reaches through the global commandHandler and *)
(* through its server alive: the locals of main() are made before the first   *)
(* client is accepted, and no thread outlives them.                           *)
ThreadsHaveObjects == threads # {} => objects = Used

(* A table is missing while clients are served only if its own CREATE has     *)
(* failed in this process: neither a failure of the other one nor an earlier  *)
(* process, however it ended, costs the table.                                *)
OwnCreateFailed == stage = "serve" => {"users", "history"} \ tables \subseteq unmade

(* Clients are served as ClientService says, through numbers that are reused  *)
(* at once, handshakes and thread creations that fail and ends of the process: *)
(* in the order they came, each over its own connection and with its own SSL  *)
(* object until both are given up, in this order, and never more of them than *)
(* there are descriptors.                                                     *)
ImplementsClientService == Service!Spec
=============================================================================
