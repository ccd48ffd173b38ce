------------------------------ MODULE Accounts ------------------------------
(***************************************************************************)
(* User accounts: CommandHandler::handleRegister, handleLogin and           *)
(* handleResetPassword, called by the client threads over one shared        *)
(* UserRepository, and the users table of DBInitializer.                    *)
(*                                                                          *)
(* One step of a thread is one SQL statement.  SQLite serialises the        *)
(* statements of the connection the threads share, so a statement is        *)
(* atomic; nothing protects the gap between the SELECT of a handler and the *)
(* INSERT or UPDATE that follows it.                                        *)
(***************************************************************************)
EXTENDS Integers, Sequences

CONSTANTS
    Threads,    \* the client threads of the server
    Emails,     \* e-mail addresses
    Passwords,  \* plain-text passwords
    Sha256,     \* Sha256[p]: the hexadecimal SHA-256 digest of p
    NoHash,     \* not a digest
    NoUser,     \* std::nullopt, the result of a lookup that found no user
    DbMayFail   \* TRUE: a statement may fail (SQLITE_BUSY, full disk, I/O)

Hashes == {Sha256[p] : p \in Passwords}

UserRow == [id : Nat, email : Emails, passwordHash : Hashes]

ASSUME AccountsAssumption ==
    /\ DOMAIN Sha256 = Passwords
    /\ NoHash \notin Hashes
    /\ NoUser \notin UserRow
    /\ DbMayFail \in BOOLEAN

VARIABLES
    users,      \* the rows of the users table
    sequence,   \* the last id AUTOINCREMENT has given out
    pc,         \* pc[t]: the next statement of thread t
    request,    \* request[t]: the command thread t is serving
    found,      \* found[t]: user.id of the row the lookup of t returned
    answer      \* answer[t]: the "code" of the reply of thread t

vars == <<users, sequence, pc, request, found, answer>>

Commands == {"REGISTER", "LOGIN", "RESET_PASSWORD"}

(***************************************************************************)
(* The payload of a command, by the words iss >> email >> password finds in *)
(* it.                                                                      *)
(***************************************************************************)
Payload == [form : {"empty", "email", "both"},
            email : Emails, password : Passwords]

(* The blank-separated words of a payload. *)
Words(p) ==
    CASE p.form = "empty" -> <<>>
      [] p.form = "email" -> <<p.email>>
      [] p.form = "both"  -> <<p.email, p.password>>

(* email.empty() || password.empty(): the stream ran out of words. *)
MissingField(p) == Len(Words(p)) < 2

NoRequest == [command |-> "none"]

Request == [command : Commands, payload : Payload]

Email(t) == request[t].payload.email

(* Mutant of PasswordHash: the digest is left out. *)
PlainPassword(t) == request[t].payload.password

PasswordHash(t) == Sha256[request[t].payload.password]

-----------------------------------------------------------------------------
(* UserRepository *)

(* SELECT ... WHERE email = ?: the values getUserByEmail may return.  A      *)
(* statement that fails is reported as a user that does not exist.           *)
GetUserByEmail(e) ==
    LET rows == {u \in users : u.email = e}
    IN  (IF rows = {} \/ DbMayFail THEN {NoUser} ELSE {}) \cup rows

(* Mutants: no UNIQUE on email, no AUTOINCREMENT on id, no WHERE in the UPDATE. *)
CreateUserTwice(e, h) ==
    /\ users' = users \cup {[id |-> sequence + 1, email |-> e, passwordHash |-> h]}
    /\ sequence' = sequence + 1

CreateUserSameId(e, h) ==
    /\ \A u \in users : u.email # e
    /\ users' = users \cup {[id |-> sequence, email |-> e, passwordHash |-> h]}
    /\ UNCHANGED sequence

UpdateEveryPassword(i, h) ==
    /\ users' = {[u EXCEPT !.passwordHash = h] : u \in users}
    /\ UNCHANGED sequence

(* INSERT INTO users: the UNIQUE constraint on email makes the second INSERT *)
(* of an address fail, whatever the handler found before.                    *)
CreateUser(e, h) ==
    /\ \A u \in users : u.email # e
    /\ users' = users \cup {[id |-> sequence + 1, email |-> e, passwordHash |-> h]}
    /\ sequence' = sequence + 1

CreateUserFails(e) ==
    /\ DbMayFail \/ \E u \in users : u.email = e
    /\ UNCHANGED <<users, sequence>>

(* UPDATE users SET password_hash = ? WHERE id = ? *)
UpdateUserPassword(i, h) ==
    /\ users' = {IF u.id = i THEN [u EXCEPT !.passwordHash = h] ELSE u : u \in users}
    /\ UNCHANGED sequence

-----------------------------------------------------------------------------
(* CommandHandler *)

Init ==
    /\ users = {}
    /\ sequence = 0
    /\ pc = [t \in Threads |-> "idle"]
    /\ request = [t \in Threads |-> NoRequest]
    /\ found = [t \in Threads |-> 0]
    /\ answer = [t \in Threads |-> 0]

Reply(t, code) ==
    /\ pc' = [pc EXCEPT ![t] = "reply"]
    /\ answer' = [answer EXCEPT ![t] = code]

(* handle() dispatches the command and the handler splits its payload. *)
Receive(t) ==
    /\ pc[t] = "idle"
    /\ \E c \in Commands, p \in Payload :
          /\ request' = [request EXCEPT ![t] = [command |-> c, payload |-> p]]
          /\ IF MissingField(p)
             THEN Reply(t, 400)
             ELSE pc' = [pc EXCEPT ![t] = "lookup"] /\ UNCHANGED answer
    /\ UNCHANGED <<users, sequence, found>>

(* handleRegister, up to its check that the address is new. *)
RegisterLookup(t) ==
    /\ pc[t] = "lookup" /\ request[t].command = "REGISTER"
    /\ \E r \in GetUserByEmail(Email(t)) :
          IF r # NoUser
          THEN Reply(t, 409)
          ELSE pc' = [pc EXCEPT ![t] = "insert"] /\ UNCHANGED answer
    /\ UNCHANGED <<users, sequence, request, found>>

(* handleRegister, from the hashing of the password on. *)
RegisterInsert(t) ==
    /\ pc[t] = "insert"
    /\ \/ CreateUser(Email(t), PasswordHash(t)) /\ Reply(t, 200)
       \/ CreateUserFails(Email(t)) /\ Reply(t, 500)
    /\ UNCHANGED <<request, found>>

(* handleLogin compares the hash of the row it read. *)
LoginLookup(t) ==
    /\ pc[t] = "lookup" /\ request[t].command = "LOGIN"
    /\ \E r \in GetUserByEmail(Email(t)) :
          \/ r = NoUser /\ Reply(t, 404)
          \/ r # NoUser /\ r.passwordHash # PasswordHash(t) /\ Reply(t, 401)
          \/ r # NoUser /\ r.passwordHash = PasswordHash(t) /\ Reply(t, 200)
    /\ UNCHANGED <<users, sequence, request, found>>

(* handleResetPassword keeps the id of the row it read... *)
ResetLookup(t) ==
    /\ pc[t] = "lookup" /\ request[t].command = "RESET_PASSWORD"
    /\ \E r \in GetUserByEmail(Email(t)) :
          \/ r = NoUser /\ Reply(t, 404) /\ UNCHANGED found
          \/ /\ r # NoUser
             /\ found' = [found EXCEPT ![t] = r.id]
             /\ pc' = [pc EXCEPT ![t] = "update"]
             /\ UNCHANGED answer
    /\ UNCHANGED <<users, sequence, request>>

(* ...and updates the row of that id. *)
ResetUpdate(t) ==
    /\ pc[t] = "update"
    /\ \/ UpdateUserPassword(found[t], PasswordHash(t)) /\ Reply(t, 200)
       \/ DbMayFail /\ Reply(t, 500) /\ UNCHANGED <<users, sequence>>
    /\ UNCHANGED <<request, found>>

(* handleClientSSL writes the reply and reads the next command. *)
Respond(t) ==
    /\ pc[t] = "reply"
    /\ pc' = [pc EXCEPT ![t] = "idle"]
    /\ request' = [request EXCEPT ![t] = NoRequest]
    /\ found' = [found EXCEPT ![t] = 0]
    /\ answer' = [answer EXCEPT ![t] = 0]
    /\ UNCHANGED <<users, sequence>>

(* The process dies and main() starts it again: the threads are gone, the    *)
(* committed rows and the AUTOINCREMENT sequence are in server_data.db, and  *)
(* CREATE TABLE IF NOT EXISTS leaves them as they are.                       *)
Restart ==
    /\ pc' = [t \in Threads |-> "idle"]
    /\ request' = [t \in Threads |-> NoRequest]
    /\ found' = [t \in Threads |-> 0]
    /\ answer' = [t \in Threads |-> 0]
    /\ UNCHANGED <<users, sequence>>

Next ==
    \/ \E t \in Threads :
          \/ Receive(t)
          \/ RegisterLookup(t) \/ RegisterInsert(t)
          \/ LoginLookup(t)
          \/ ResetLookup(t) \/ ResetUpdate(t)
          \/ Respond(t)
    \/ Restart

Spec == Init /\ [][Next]_vars

-----------------------------------------------------------------------------
(* Properties *)

(* Type correctness of the users table and of the state of every thread. *)
TypeOK ==
    /\ users \subseteq UserRow
    /\ sequence \in Nat
    /\ pc \in [Threads -> {"idle", "lookup", "insert", "update", "reply"}]
    /\ request \in [Threads -> Request \cup {NoRequest}]
    /\ found \in [Threads -> Nat]
    /\ answer \in [Threads -> {0, 200, 400, 401, 404, 409, 500}]
    /\ \A t \in Threads : pc[t] \in {"lookup", "insert", "update"} => request[t] \in Request

(* handleRegister tests and inserts in two statements, and two threads may    *)
(* both pass the test: still no address ever has two rows.                    *)
UniqueEmail == \A u, v \in users : u.email = v.email => u = v

(* The id handleResetPassword carries from its SELECT to its UPDATE is, when  *)
(* the UPDATE runs, the id of one row and that row belongs to the address of  *)
(* the request: a password is never written to another user's row, nor lost.  *)
ResetHitsOwner ==
    \A t \in Threads : pc[t] = "update" =>
        /\ \E u \in users : u.id = found[t]
        /\ \A u \in users : u.id = found[t] => u.email = Email(t)

(***************************************************************************)
(* Refinement: the account of an address is the hash in its row, a command  *)
(* is pending until its thread has a reply.                                 *)
(***************************************************************************)
AccountOf(rows, e) ==
    IF \E u \in rows : u.email = e
    THEN (CHOOSE u \in rows : u.email = e).passwordHash
    ELSE NoHash

AbstractPhase(t) ==
    CASE pc[t] = "idle"  -> "idle"
      [] pc[t] = "reply" -> "answered"
      [] OTHER           -> "pending"

(* A malformed request is one the abstract store never sees. *)
AbstractRequest(t) ==
    IF request[t] = NoRequest \/ MissingField(request[t].payload)
    THEN NoRequest
    ELSE [command  |-> request[t].command,
          email    |-> request[t].payload.email,
          password |-> request[t].payload.password]

Store == INSTANCE AccountStore WITH
            accounts <- [e \in Emails |-> AccountOf(users, e)],
            request  <- [t \in Threads |-> AbstractRequest(t)],
            phase    <- [t \in Threads |-> AbstractPhase(t)],
            answer   <- answer

(* Every interleaving of the handlers' statements, with restarts and failing  *)
(* statements, is a behaviour of one atomic account map.                      *)
ImplementsAccountStore == Store!Spec
=============================================================================
