---------------------------- MODULE AccountStore ----------------------------
(***************************************************************************)
(* What the REGISTER, LOGIN and RESET_PASSWORD commands promise to their    *)
(* clients: the accounts form one map from e-mail address to password hash, *)
(* and every command takes effect on it at a single instant between the     *)
(* moment it is received and the moment it is answered, however many client *)
(* threads are at work.  A command whose answer reports an error has no     *)
(* effect.                                                                  *)
(*                                                                          *)
(* Accounts.tla is the specification translated from the code; it is shown  *)
(* to implement this one.                                                   *)
(***************************************************************************)
CONSTANTS
    Threads,    \* the client threads of the server
    Emails,     \* e-mail addresses
    Passwords,  \* plain-text passwords
    Sha256,     \* Sha256[p]: the hash under which the password p is stored
    NoHash,     \* the value of an address without an account
    DbMayFail   \* TRUE: a statement may fail for a reason outside the program

VARIABLES
    accounts,   \* accounts[e]: the stored hash of e, or NoHash
    request,    \* request[t]: the command thread t is serving
    phase,      \* phase[t]: where thread t stands with that command
    answer      \* answer[t]: the status code of the answer of thread t

vars == <<accounts, request, phase, answer>>

Commands == {"REGISTER", "LOGIN", "RESET_PASSWORD"}

Phases == {"idle", "pending", "answered"}

Request == [command : Commands, email : Emails, password : Passwords]

NoRequest == [command |-> "none"]

Init ==
    /\ accounts = [e \in Emails |-> NoHash]
    /\ request = [t \in Threads |-> NoRequest]
    /\ phase = [t \in Threads |-> "idle"]
    /\ answer = [t \in Threads |-> 0]

(* Thread t receives a well-formed command. *)
Receive(t) ==
    /\ phase[t] = "idle"
    /\ \E r \in Request : request' = [request EXCEPT ![t] = r]
    /\ phase' = [phase EXCEPT ![t] = "pending"]
    /\ UNCHANGED <<accounts, answer>>

(* Thread t receives a command without an e-mail address or a password. *)
ReceiveMalformed(t) ==
    /\ phase[t] = "idle"
    /\ phase' = [phase EXCEPT ![t] = "answered"]
    /\ answer' = [answer EXCEPT ![t] = 400]
    /\ UNCHANGED <<accounts, request>>

Answer(t, code) ==
    /\ phase[t] = "pending"
    /\ phase' = [phase EXCEPT ![t] = "answered"]
    /\ answer' = [answer EXCEPT ![t] = code]
    /\ UNCHANGED request

Exists(t) == accounts[request[t].email] # NoHash

Store(t) ==
    accounts' = [accounts EXCEPT ![request[t].email] = Sha256[request[t].password]]

(* A new address gets an account; an address that has one keeps it. *)
Register(t) ==
    /\ request[t].command = "REGISTER"
    /\ \/ ~Exists(t) /\ Answer(t, 200) /\ Store(t)
       \/ Exists(t) /\ Answer(t, 409) /\ UNCHANGED accounts
       \/ (Exists(t) \/ DbMayFail) /\ Answer(t, 500) /\ UNCHANGED accounts

(* The answer tells whether the password is the stored one at that instant. *)
Login(t) ==
    /\ request[t].command = "LOGIN"
    /\ UNCHANGED accounts
    /\ LET stored == accounts[request[t].email]
           given  == Sha256[request[t].password]
       IN  \/ Exists(t) /\ stored = given /\ Answer(t, 200)
           \/ Exists(t) /\ stored # given /\ Answer(t, 401)
           \/ (~Exists(t) \/ DbMayFail) /\ Answer(t, 404)

(* The password of an existing account, and of no other, is replaced. *)
ResetPassword(t) ==
    /\ request[t].command = "RESET_PASSWORD"
    /\ \/ Exists(t) /\ Answer(t, 200) /\ Store(t)
       \/ (~Exists(t) \/ DbMayFail) /\ Answer(t, 404) /\ UNCHANGED accounts
       \/ DbMayFail /\ Answer(t, 500) /\ UNCHANGED accounts

(* The answer goes out and the thread waits for the next command. *)
Respond(t) ==
    /\ phase[t] = "answered"
    /\ phase' = [phase EXCEPT ![t] = "idle"]
    /\ request' = [request EXCEPT ![t] = NoRequest]
    /\ answer' = [answer EXCEPT ![t] = 0]
    /\ UNCHANGED accounts

(* The process dies and is started again: the accounts are all that is left. *)
Restart ==
    /\ request' = [t \in Threads |-> NoRequest]
    /\ phase' = [t \in Threads |-> "idle"]
    /\ answer' = [t \in Threads |-> 0]
    /\ UNCHANGED accounts

Next ==
    \/ \E t \in Threads :
          \/ Receive(t) \/ ReceiveMalformed(t)
          \/ Register(t) \/ Login(t) \/ ResetPassword(t)
          \/ Respond(t)
    \/ Restart

Spec == Init /\ [][Next]_vars
=============================================================================
