--------------------------- MODULE Accounts_proofs --------------------------
(***************************************************************************)
(* Proofs about Accounts, for any number of threads, addresses and          *)
(* passwords, with and without failing statements.                          *)
(*                                                                          *)
(* UniqueEmail and ResetHitsOwner need one another and more: a reset hits   *)
(* one row only because ids are unique, ids are unique because AUTOINCREMENT *)
(* has given out none above sequence, and a row keeps id and address.       *)
(***************************************************************************)
EXTENDS Accounts, TLAPS

(* Ids are given out in ascending order, each once. *)
IdsGivenOut ==
    /\ \A u \in users : u.id <= sequence
    /\ \A u, v \in users : u.id = v.id => u = v

IInv == TypeOK /\ IdsGivenOut /\ UniqueEmail /\ ResetHitsOwner

-----------------------------------------------------------------------------
(* A digest is a digest. *)
LEMMA HashType ==
    ASSUME NEW t \in Threads, request[t] \in Request
    PROVE  /\ PasswordHash(t) \in Hashes
           /\ Email(t) \in Emails
BY DEF Request, Payload, PasswordHash, Email, Hashes

(* What getUserByEmail returns is a row of that address, or no user. *)
LEMMA LookupResult ==
    ASSUME NEW e \in Emails, NEW r \in GetUserByEmail(e), r # NoUser
    PROVE  r \in users /\ r.email = e
BY DEF GetUserByEmail

(* An INSERT that succeeds keeps the table in order, and every row in it. *)
LEMMA CreateUserKeeps ==
    ASSUME users \subseteq UserRow, sequence \in Nat, IdsGivenOut, UniqueEmail,
           NEW e \in Emails, NEW h \in Hashes, CreateUser(e, h)
    PROVE  /\ users' \subseteq UserRow /\ sequence' \in Nat
           /\ IdsGivenOut' /\ UniqueEmail'
           /\ users \subseteq users'
           /\ \A u \in users' : u \in users \/ u.id = sequence + 1
<1> DEFINE new == [id |-> sequence + 1, email |-> e, passwordHash |-> h]
<1>1. new \in UserRow
  BY DEF UserRow
<1>2. \A u \in users : u.id \in Nat /\ u.id <= sequence /\ u.email # e
  BY DEF UserRow, IdsGivenOut, CreateUser
<1>3. users' = users \cup {new} /\ sequence' = sequence + 1
  BY DEF CreateUser
<1>4. IdsGivenOut'
  BY <1>2, <1>3 DEF IdsGivenOut
<1>5. UniqueEmail'
  BY <1>2, <1>3 DEF UniqueEmail
<1> QED
  BY <1>1, <1>3, <1>4, <1>5

(* An UPDATE of the password changes no id and no address, and removes no row. *)
LEMMA UpdateKeeps ==
    ASSUME users \subseteq UserRow, sequence \in Nat, IdsGivenOut, UniqueEmail,
           NEW i \in Nat, NEW h \in Hashes, UpdateUserPassword(i, h)
    PROVE  /\ users' \subseteq UserRow /\ sequence' \in Nat
           /\ IdsGivenOut' /\ UniqueEmail'
           /\ \A u \in users : \E v \in users' : v.id = u.id /\ v.email = u.email
           /\ \A v \in users' : \E u \in users : v.id = u.id /\ v.email = u.email
<1> DEFINE new(u) == IF u.id = i THEN [u EXCEPT !.passwordHash = h] ELSE u
<1>1. users' = {new(u) : u \in users} /\ sequence' = sequence
  BY DEF UpdateUserPassword
<1>2. \A u \in users : /\ new(u) \in UserRow
                       /\ new(u).id = u.id /\ new(u).email = u.email
  BY DEF UserRow
<1> HIDE DEF new
<1>3. IdsGivenOut'
  BY <1>1, <1>2 DEF IdsGivenOut
<1>4. UniqueEmail'
  BY <1>1, <1>2 DEF UniqueEmail
<1> QED
  BY <1>1, <1>2, <1>3, <1>4

-----------------------------------------------------------------------------
LEMMA InitIInv == Init => IInv
BY DEF Init, IInv, TypeOK, IdsGivenOut, UniqueEmail, ResetHitsOwner

(* Every thread but t is where it was: what ResetHitsOwner says of it depends *)
(* on the table alone.                                                        *)
LEMMA NextIInv == IInv /\ [Next]_vars => IInv'
<1> SUFFICES ASSUME IInv, [Next]_vars PROVE IInv'
  OBVIOUS
<1> USE DEF IInv
<1>1. ASSUME NEW t \in Threads, Receive(t) PROVE IInv'
  <2>1. PICK c \in Commands, p \in Payload :
            /\ request' = [request EXCEPT ![t] = [command |-> c, payload |-> p]]
            /\ IF MissingField(p)
               THEN Reply(t, 400)
               ELSE pc' = [pc EXCEPT ![t] = "lookup"] /\ UNCHANGED answer
    BY <1>1 DEF Receive
  <2>2. [command |-> c, payload |-> p] \in Request
    BY DEF Request
  <2>3. TypeOK'
    BY <1>1, <2>1, <2>2 DEF Receive, TypeOK, Reply
  <2>4. ResetHitsOwner'
    BY <1>1, <2>1 DEF Receive, ResetHitsOwner, TypeOK, Reply, Email
  <2> QED
    BY <1>1, <2>3, <2>4 DEF Receive, IdsGivenOut, UniqueEmail
<1>2. ASSUME NEW t \in Threads, RegisterLookup(t) PROVE IInv'
  <2>1. TypeOK'
    BY <1>2 DEF RegisterLookup, TypeOK, Reply
  <2>2. ResetHitsOwner'
    BY <1>2 DEF RegisterLookup, ResetHitsOwner, TypeOK, Reply, Email
  <2> QED
    BY <1>2, <2>1, <2>2 DEF RegisterLookup, IdsGivenOut, UniqueEmail
<1>3. ASSUME NEW t \in Threads, RegisterInsert(t) PROVE IInv'
  <2>1. request[t] \in Request /\ Email(t) \in Emails /\ PasswordHash(t) \in Hashes
    BY <1>3, HashType DEF RegisterInsert, TypeOK
  <2>2. CASE CreateUser(Email(t), PasswordHash(t)) /\ Reply(t, 200)
    <3>1. /\ users' \subseteq UserRow /\ sequence' \in Nat
          /\ IdsGivenOut' /\ UniqueEmail'
          /\ users \subseteq users'
          /\ \A u \in users' : u \in users \/ u.id = sequence + 1
      BY <2>1, <2>2, CreateUserKeeps DEF TypeOK
    <3>2. TypeOK'
      BY <1>3, <2>2, <3>1 DEF RegisterInsert, TypeOK, Reply
    <3>3. ResetHitsOwner'
      <4> SUFFICES ASSUME NEW s \in Threads, pc'[s] = "update"
                   PROVE  /\ \E u \in users' : u.id = found'[s]
                          /\ \A u \in users' : u.id = found'[s] => u.email = Email(s)'
        BY DEF ResetHitsOwner
      <4>1. pc[s] = "update" /\ found'[s] = found[s] /\ Email(s)' = Email(s)
        BY <1>3, <2>2 DEF RegisterInsert, Reply, TypeOK, Email
      <4>2. \E u \in users : u.id = found[s]
        BY <4>1 DEF ResetHitsOwner
      <4>3. found[s] # sequence + 1
        BY <4>2 DEF IdsGivenOut, TypeOK, UserRow
      <4> QED
        BY <3>1, <4>1, <4>2, <4>3 DEF ResetHitsOwner
    <3> QED
      BY <3>1, <3>2, <3>3
  <2>3. CASE CreateUserFails(Email(t)) /\ Reply(t, 500)
    <3>1. TypeOK'
      BY <1>3, <2>3 DEF RegisterInsert, CreateUserFails, TypeOK, Reply
    <3>2. ResetHitsOwner'
      BY <1>3, <2>3 DEF RegisterInsert, CreateUserFails, ResetHitsOwner, TypeOK, Reply, Email
    <3> QED
      BY <2>3, <3>1, <3>2 DEF CreateUserFails, IdsGivenOut, UniqueEmail
  <2> QED
    BY <1>3, <2>2, <2>3 DEF RegisterInsert
<1>4. ASSUME NEW t \in Threads, LoginLookup(t) PROVE IInv'
  <2>1. TypeOK'
    BY <1>4 DEF LoginLookup, TypeOK, Reply
  <2>2. ResetHitsOwner'
    BY <1>4 DEF LoginLookup, ResetHitsOwner, TypeOK, Reply, Email
  <2> QED
    BY <1>4, <2>1, <2>2 DEF LoginLookup, IdsGivenOut, UniqueEmail
<1>5. ASSUME NEW t \in Threads, ResetLookup(t) PROVE IInv'
  <2>1. request[t] \in Request /\ Email(t) \in Emails
    BY <1>5, HashType DEF ResetLookup, TypeOK
  <2>2. PICK r \in GetUserByEmail(Email(t)) :
            \/ r = NoUser /\ Reply(t, 404) /\ UNCHANGED found
            \/ /\ r # NoUser
               /\ found' = [found EXCEPT ![t] = r.id]
               /\ pc' = [pc EXCEPT ![t] = "update"]
               /\ UNCHANGED answer
    BY <1>5 DEF ResetLookup
  <2>3. CASE r = NoUser /\ Reply(t, 404) /\ UNCHANGED found
    <3>1. TypeOK'
      BY <1>5, <2>3 DEF ResetLookup, TypeOK, Reply
    <3>2. ResetHitsOwner'
      BY <1>5, <2>3 DEF ResetLookup, ResetHitsOwner, TypeOK, Reply, Email
    <3> QED
      BY <1>5, <3>1, <3>2 DEF ResetLookup, IdsGivenOut, UniqueEmail
  <2>4. CASE /\ r # NoUser
             /\ found' = [found EXCEPT ![t] = r.id]
             /\ pc' = [pc EXCEPT ![t] = "update"]
             /\ UNCHANGED answer
    <3>1. r \in users /\ r.email = Email(t) /\ r.id \in Nat
      BY <2>1, <2>4, LookupResult DEF TypeOK, UserRow
    <3>2. TypeOK'
      BY <1>5, <2>1, <2>4, <3>1 DEF ResetLookup, TypeOK
    <3>3. ResetHitsOwner'
      BY <1>5, <2>4, <3>1 DEF ResetLookup, ResetHitsOwner, TypeOK, Email, IdsGivenOut
    <3> QED
      BY <1>5, <3>2, <3>3 DEF ResetLookup, IdsGivenOut, UniqueEmail
  <2> QED
    BY <2>2, <2>3, <2>4
<1>6. ASSUME NEW t \in Threads, ResetUpdate(t) PROVE IInv'
  <2>1. request[t] \in Request /\ PasswordHash(t) \in Hashes /\ found[t] \in Nat
    BY <1>6, HashType DEF ResetUpdate, TypeOK
  <2>2. CASE UpdateUserPassword(found[t], PasswordHash(t)) /\ Reply(t, 200)
    <3>1. /\ users' \subseteq UserRow /\ sequence' \in Nat
          /\ IdsGivenOut' /\ UniqueEmail'
          /\ \A u \in users : \E v \in users' : v.id = u.id /\ v.email = u.email
          /\ \A v \in users' : \E u \in users : v.id = u.id /\ v.email = u.email
      BY <2>1, <2>2, UpdateKeeps DEF TypeOK
    <3>2. TypeOK'
      BY <1>6, <2>2, <3>1 DEF ResetUpdate, TypeOK, Reply
    <3>3. ASSUME NEW s \in Threads, pc'[s] = "update"
          PROVE  pc[s] = "update" /\ found'[s] = found[s] /\ Email(s)' = Email(s)
      BY <1>6, <2>2, <3>3 DEF ResetUpdate, Reply, TypeOK, Email
    <3>4. ResetHitsOwner'
      BY <3>1, <3>3 DEF ResetHitsOwner
    <3> QED
      BY <3>1, <3>2, <3>4
  <2>3. CASE DbMayFail /\ Reply(t, 500) /\ UNCHANGED <<users, sequence>>
    <3>1. TypeOK'
      BY <1>6, <2>3 DEF ResetUpdate, TypeOK, Reply
    <3>2. ResetHitsOwner'
      BY <1>6, <2>3 DEF ResetUpdate, ResetHitsOwner, TypeOK, Reply, Email
    <3> QED
      BY <2>3, <3>1, <3>2 DEF IdsGivenOut, UniqueEmail
  <2> QED
    BY <1>6, <2>2, <2>3 DEF ResetUpdate
<1>7. ASSUME NEW t \in Threads, Respond(t) PROVE IInv'
  <2>1. TypeOK'
    BY <1>7 DEF Respond, TypeOK
  <2>2. ResetHitsOwner'
    BY <1>7 DEF Respond, ResetHitsOwner, TypeOK, Email
  <2> QED
    BY <1>7, <2>1, <2>2 DEF Respond, IdsGivenOut, UniqueEmail
<1>8. CASE Restart
  BY <1>8 DEF Restart, TypeOK, IdsGivenOut, UniqueEmail, ResetHitsOwner
<1>9. CASE UNCHANGED vars
  BY <1>9 DEF vars, TypeOK, IdsGivenOut, UniqueEmail, ResetHitsOwner, Email
<1> QED
  BY <1>1, <1>2, <1>3, <1>4, <1>5, <1>6, <1>7, <1>8, <1>9 DEF Next

LEMMA SpecIInv == Spec => []IInv
<1>1. Init => IInv
  BY InitIInv
<1>2. IInv /\ [Next]_vars => IInv'
  BY NextIInv
<1> QED
  BY <1>1, <1>2, PTL DEF Spec

-----------------------------------------------------------------------------
(* The users table and the threads keep their types. *)
THEOREM TypeCorrect == Spec => []TypeOK
<1>1. IInv => TypeOK
  BY DEF IInv
<1> QED
  BY <1>1, SpecIInv, PTL

(* However many threads race through the test and the INSERT of               *)
(* handleRegister, no address ever has two rows.                              *)
THEOREM EmailsUnique == Spec => []UniqueEmail
<1>1. IInv => UniqueEmail
  BY DEF IInv
<1> QED
  BY <1>1, SpecIInv, PTL

(* The UPDATE of handleResetPassword writes one row, the one of the address   *)
(* in the request.                                                            *)
THEOREM ResetsHitOwner == Spec => []ResetHitsOwner
<1>1. IInv => ResetHitsOwner
  BY DEF IInv
<1> QED
  BY <1>1, SpecIInv, PTL

-----------------------------------------------------------------------------
(* Refinement *)

(* An idle thread has no request; a thread between two statements serves a    *)
(* complete request of the command its place belongs to.                      *)
Dispatched ==
    \A t \in Threads :
        /\ pc[t] = "idle" => request[t] = NoRequest
        /\ pc[t] \in {"lookup", "insert", "update"} => request[t].payload.form = "both"
        /\ pc[t] = "insert" => request[t].command = "REGISTER"
        /\ pc[t] = "update" => request[t].command = "RESET_PASSWORD"

(* Only the form with both words is complete. *)
LEMMA Complete ==
    ASSUME NEW p \in Payload
    PROVE  MissingField(p) <=> p.form # "both"
<1>1. CASE p.form = "empty"
  BY <1>1 DEF MissingField, Words
<1>2. CASE p.form = "email"
  <2>1. Words(p) = <<p.email>>
    BY <1>2 DEF Words
  <2> QED
    BY <1>2, <2>1 DEF MissingField
<1>3. CASE p.form = "both"
  <2>1. Words(p) = <<p.email, p.password>>
    BY <1>3 DEF Words
  <2> QED
    BY <1>3, <2>1 DEF MissingField
<1> QED
  BY <1>1, <1>2, <1>3 DEF Payload

LEMMA DispatchedInv == Spec => []Dispatched
<1>1. Init => Dispatched
  BY DEF Init, Dispatched
<1>2. TypeOK /\ Dispatched /\ [Next]_vars => Dispatched'
  <2> SUFFICES ASSUME TypeOK, Dispatched, [Next]_vars PROVE Dispatched'
    OBVIOUS
  <2>1. ASSUME NEW t \in Threads, Receive(t) PROVE Dispatched'
    <3>1. PICK c \in Commands, p \in Payload :
              /\ request' = [request EXCEPT ![t] = [command |-> c, payload |-> p]]
              /\ IF MissingField(p)
                 THEN Reply(t, 400)
                 ELSE pc' = [pc EXCEPT ![t] = "lookup"] /\ UNCHANGED answer
      BY <2>1 DEF Receive
    <3>2. ~MissingField(p) => p.form = "both"
      BY Complete
    <3> QED
      BY <3>1, <3>2 DEF TypeOK, Dispatched, Reply
  <2>2. ASSUME NEW t \in Threads, RegisterLookup(t) PROVE Dispatched'
    BY <2>2 DEF RegisterLookup, TypeOK, Dispatched, Reply
  <2>3. ASSUME NEW t \in Threads, RegisterInsert(t) PROVE Dispatched'
    BY <2>3 DEF RegisterInsert, TypeOK, Dispatched, Reply
  <2>4. ASSUME NEW t \in Threads, LoginLookup(t) PROVE Dispatched'
    BY <2>4 DEF LoginLookup, TypeOK, Dispatched, Reply
  <2>5. ASSUME NEW t \in Threads, ResetLookup(t) PROVE Dispatched'
    BY <2>5 DEF ResetLookup, TypeOK, Dispatched, Reply
  <2>6. ASSUME NEW t \in Threads, ResetUpdate(t) PROVE Dispatched'
    BY <2>6 DEF ResetUpdate, TypeOK, Dispatched, Reply
  <2>7. ASSUME NEW t \in Threads, Respond(t) PROVE Dispatched'
    BY <2>7 DEF Respond, TypeOK, Dispatched
  <2>8. CASE Restart
    BY <2>8 DEF Restart, Dispatched
  <2>9. CASE UNCHANGED vars
    BY <2>9 DEF vars, Dispatched
  <2> QED
    BY <2>1, <2>2, <2>3, <2>4, <2>5, <2>6, <2>7, <2>8, <2>9 DEF Next
<1> QED
  BY <1>1, <1>2, TypeCorrect, PTL DEF Spec

-----------------------------------------------------------------------------
(* The account of an address with a row is the hash in it... *)
LEMMA AccountOfRow ==
    ASSUME NEW rows, \A u, v \in rows : u.email = v.email => u = v,
           NEW row \in rows
    PROVE  AccountOf(rows, row.email) = row.passwordHash
BY DEF AccountOf

(* ...and an address without a row has none. *)
LEMMA AccountOfNone ==
    ASSUME NEW rows, NEW e, \A u \in rows : u.email # e
    PROVE  AccountOf(rows, e) = NoHash
BY DEF AccountOf

(* Rows tell accounts and addresses without one apart. *)
LEMMA AccountExists ==
    ASSUME IInv, NEW e \in Emails
    PROVE  AccountOf(users, e) # NoHash <=> \E u \in users : u.email = e
<1>1. ASSUME NEW u \in users, u.email = e PROVE AccountOf(users, e) # NoHash
  <2>1. AccountOf(users, e) = u.passwordHash
    BY <1>1, AccountOfRow DEF IInv, UniqueEmail
  <2> QED
    BY <2>1, AccountsAssumption DEF IInv, TypeOK, UserRow
<1> QED
  BY <1>1, AccountOfNone

(* A lookup that finds a row finds the account of the address. *)
LEMMA LookupAccount ==
    ASSUME IInv, NEW e \in Emails, NEW r \in GetUserByEmail(e)
    PROVE  /\ r = NoUser => DbMayFail \/ AccountOf(users, e) = NoHash
           /\ r # NoUser => /\ AccountOf(users, e) # NoHash
                            /\ AccountOf(users, e) = r.passwordHash
<1>1. CASE r = NoUser
  <2>1. NoUser \notin users
    BY AccountsAssumption DEF IInv, TypeOK
  <2>2. DbMayFail \/ ~ \E u \in users : u.email = e
    BY <1>1, <2>1 DEF GetUserByEmail
  <2> QED
    BY <1>1, <2>2, AccountExists
<1>2. CASE r # NoUser
  <2>1. r \in users /\ r.email = e
    BY <1>2, LookupResult
  <2>2. AccountOf(users, e) = r.passwordHash
    BY <2>1, AccountOfRow DEF IInv, UniqueEmail
  <2> QED
    BY <1>2, <2>1, <2>2, AccountExists
<1> QED
  BY <1>1, <1>2

(* An INSERT gives its address an account, and changes no other. *)
LEMMA AccountCreated ==
    ASSUME IInv, UniqueEmail', NEW e \in Emails, NEW h \in Hashes, CreateUser(e, h)
    PROVE  /\ ~ \E u \in users : u.email = e
           /\ [x \in Emails |-> AccountOf(users', x)] =
                 [[x \in Emails |-> AccountOf(users, x)] EXCEPT ![e] = h]
<1> DEFINE new == [id |-> sequence + 1, email |-> e, passwordHash |-> h]
<1>1. /\ ~ \E u \in users : u.email = e
      /\ users' = users \cup {new} /\ new.email = e /\ new.passwordHash = h
  BY DEF CreateUser
<1> HIDE DEF new
<1>2. AccountOf(users', e) = h
  BY <1>1, AccountOfRow DEF UniqueEmail
<1>3. ASSUME NEW x \in Emails, x # e PROVE AccountOf(users', x) = AccountOf(users, x)
  <2>1. ASSUME NEW u \in users, u.email = x PROVE AccountOf(users', x) = AccountOf(users, x)
    <3>1. AccountOf(users, x) = u.passwordHash
      BY <2>1, AccountOfRow DEF IInv, UniqueEmail
    <3>2. AccountOf(users', x) = u.passwordHash
      BY <1>1, <2>1, AccountOfRow DEF UniqueEmail
    <3> QED
      BY <3>1, <3>2
  <2>2. ASSUME \A u \in users : u.email # x PROVE AccountOf(users', x) = AccountOf(users, x)
    <3>1. \A u \in users' : u.email # x
      BY <1>1, <1>3, <2>2
    <3> QED
      BY <2>2, <3>1, AccountOfNone
  <2> QED
    BY <2>1, <2>2
<1> QED
  BY <1>1, <1>2, <1>3

(* An UPDATE of the row of an address replaces its account, and no other. *)
LEMMA AccountReset ==
    ASSUME IInv, UniqueEmail', NEW e \in Emails, NEW i \in Nat, NEW h \in Hashes,
           UpdateUserPassword(i, h),
           \E u \in users : u.id = i, \A u \in users : u.id = i => u.email = e
    PROVE  /\ \E u \in users : u.email = e
           /\ [x \in Emails |-> AccountOf(users', x)] =
                 [[x \in Emails |-> AccountOf(users, x)] EXCEPT ![e] = h]
<1> DEFINE new(u) == IF u.id = i THEN [u EXCEPT !.passwordHash = h] ELSE u
<1>1. users' = {new(u) : u \in users}
  BY DEF UpdateUserPassword
<1>2. \A u \in users : new(u).email = u.email
  BY DEF IInv, TypeOK, UserRow
<1>3. \A u \in users : new(u).passwordHash = IF u.id = i THEN h ELSE u.passwordHash
  BY DEF IInv, TypeOK, UserRow
<1> HIDE DEF new
<1>4. AccountOf(users', e) = h
  <2>1. PICK u \in users : u.id = i /\ u.email = e
    OBVIOUS
  <2>2. new(u) \in users' /\ new(u).email = e /\ new(u).passwordHash = h
    BY <1>1, <1>2, <1>3, <2>1
  <2> QED
    BY <2>2, AccountOfRow DEF UniqueEmail
<1>5. ASSUME NEW x \in Emails, x # e PROVE AccountOf(users', x) = AccountOf(users, x)
  <2>1. ASSUME NEW u \in users, u.email = x PROVE AccountOf(users', x) = AccountOf(users, x)
    <3>1. /\ new(u) \in users' /\ new(u).email = x
          /\ new(u).passwordHash = u.passwordHash
      BY <1>1, <1>2, <1>3, <1>5, <2>1
    <3>2. AccountOf(users', x) = u.passwordHash
      BY <3>1, AccountOfRow DEF UniqueEmail
    <3>3. AccountOf(users, x) = u.passwordHash
      BY <2>1, AccountOfRow DEF IInv, UniqueEmail
    <3> QED
      BY <3>2, <3>3
  <2>2. ASSUME \A u \in users : u.email # x PROVE AccountOf(users', x) = AccountOf(users, x)
    <3>1. \A u \in users' : u.email # x
      BY <1>1, <1>2, <2>2
    <3> QED
      BY <2>2, <3>1, AccountOfNone
  <2> QED
    BY <2>1, <2>2
<1> QED
  BY <1>4, <1>5

-----------------------------------------------------------------------------
(* The request of a thread between two statements, as the abstract store     *)
(* sees it.                                                                  *)
LEMMA PendingRequest ==
    ASSUME IInv, Dispatched, NEW t \in Threads, pc[t] \in {"lookup", "insert", "update"}
    PROVE  /\ AbstractPhase(t) = "pending"
           /\ AbstractRequest(t) = [command  |-> request[t].command,
                                    email    |-> Email(t),
                                    password |-> request[t].payload.password]
           /\ request[t].command \in Commands /\ Email(t) \in Emails
           /\ PasswordHash(t) \in Hashes
<1>1. request[t] \in Request
  BY DEF IInv, TypeOK
<1>2. ~MissingField(request[t].payload)
  BY <1>1, Complete DEF Dispatched, Request
<1>3. request[t] # NoRequest
  BY <1>1 DEF Request, NoRequest, Commands
<1> QED
  BY <1>1, <1>2, <1>3, HashType DEF AbstractPhase, AbstractRequest, Email, Request

(* Writing the hash of its password is what the abstract store does for t. *)
LEMMA StoreAccount ==
    ASSUME IInv, Dispatched, NEW t \in Threads, pc[t] \in {"lookup", "insert", "update"},
           [x \in Emails |-> AccountOf(users', x)] =
              [[x \in Emails |-> AccountOf(users, x)] EXCEPT ![Email(t)] = PasswordHash(t)]
    PROVE  Store!Store(t)
<1>1. AbstractRequest(t) = [command  |-> request[t].command,
                            email    |-> Email(t),
                            password |-> request[t].payload.password]
  BY PendingRequest
<1>2. /\ AbstractRequest(t).email = Email(t)
      /\ AbstractRequest(t).password = request[t].payload.password
  BY <1>1
<1>3. [s \in Threads |-> AbstractRequest(s)][t] = AbstractRequest(t)
  OBVIOUS
<1> QED
  BY <1>2, <1>3 DEF Store!Store, PasswordHash

(* A step of t that ends in Reply(t, code) is the abstract answer. *)
LEMMA AnswerStep ==
    ASSUME IInv, Dispatched, NEW t \in Threads, NEW code,
           pc[t] \in {"lookup", "insert", "update"}, Reply(t, code), UNCHANGED request
    PROVE  Store!Answer(t, code)
<1>1. AbstractPhase(t) = "pending"
  BY PendingRequest
<1>2. [s \in Threads |-> AbstractPhase(s)]' =
         [[s \in Threads |-> AbstractPhase(s)] EXCEPT ![t] = "answered"]
  BY DEF AbstractPhase, Reply, IInv, TypeOK
<1>3. UNCHANGED [s \in Threads |-> AbstractRequest(s)]
  BY DEF AbstractRequest
<1> QED
  BY <1>1, <1>2, <1>3 DEF Store!Answer, Reply

LEMMA StoreInit == Init => Store!Init
<1> SUFFICES ASSUME Init PROVE Store!Init
  OBVIOUS
<1>1. \A e \in Emails : AccountOf(users, e) = NoHash
  BY AccountOfNone DEF Init
<1>2. \A t \in Threads : AbstractRequest(t) = NoRequest
  BY DEF Init, AbstractRequest
<1>3. \A t \in Threads : AbstractPhase(t) = "idle"
  BY DEF Init, AbstractPhase
<1> QED
  BY <1>1, <1>2, <1>3 DEF Init, Store!Init, Store!NoRequest, NoRequest

(* A step that leaves the table alone leaves the accounts alone. *)
LEMMA SameAccounts ==
    ASSUME UNCHANGED users
    PROVE  UNCHANGED [e \in Emails |-> AccountOf(users, e)]
OBVIOUS

(* Nor does the abstract store see a step between two statements. *)
LEMMA SeeNothing ==
    ASSUME IInv, NEW t \in Threads, pc[t] = "lookup",
           NEW q \in {"insert", "update"}, pc' = [pc EXCEPT ![t] = q],
           UNCHANGED <<users, request, answer>>
    PROVE  UNCHANGED Store!vars
<1>1. UNCHANGED [s \in Threads |-> AbstractPhase(s)]
  BY DEF AbstractPhase, IInv, TypeOK
<1>2. UNCHANGED [s \in Threads |-> AbstractRequest(s)]
  BY DEF AbstractRequest
<1>3. UNCHANGED [e \in Emails |-> AccountOf(users, e)]
  BY SameAccounts
<1> QED
  BY <1>1, <1>2, <1>3 DEF Store!vars

(* Every step of the handlers is a step of the atomic account map, or one it  *)
(* does not see.                                                              *)
LEMMA StoreStep ==
    ASSUME IInv, IInv', Dispatched, [Next]_vars
    PROVE  [Store!Next]_Store!vars
<1>1. ASSUME NEW t \in Threads, Receive(t) PROVE Store!Next
  <2>1. PICK c \in Commands, p \in Payload :
            /\ request' = [request EXCEPT ![t] = [command |-> c, payload |-> p]]
            /\ IF MissingField(p)
               THEN Reply(t, 400)
               ELSE pc' = [pc EXCEPT ![t] = "lookup"] /\ UNCHANGED answer
    BY <1>1 DEF Receive
  <2>2. request'[t] = [command |-> c, payload |-> p] /\ request'[t] # NoRequest
    BY <2>1 DEF IInv, TypeOK, NoRequest, Commands
  <2>3. AbstractPhase(t) = "idle"
    BY <1>1 DEF Receive, AbstractPhase
  <2>4. UNCHANGED [e \in Emails |-> AccountOf(users, e)]
    BY <1>1, SameAccounts DEF Receive
  <2>5. CASE MissingField(p)
    <3>1. Reply(t, 400)
      BY <2>1, <2>5
    <3>2. [s \in Threads |-> AbstractPhase(s)]' =
             [[s \in Threads |-> AbstractPhase(s)] EXCEPT ![t] = "answered"]
      BY <3>1 DEF AbstractPhase, Reply, IInv, TypeOK
    <3>3. UNCHANGED [s \in Threads |-> AbstractRequest(s)]
      <4>1. AbstractRequest(t)' = NoRequest
        BY <2>2, <2>5 DEF AbstractRequest
      <4>2. AbstractRequest(t) = NoRequest
        BY <1>1 DEF Receive, AbstractRequest, Dispatched
      <4>3. \A s \in Threads \ {t} : AbstractRequest(s)' = AbstractRequest(s)
        BY <2>1 DEF AbstractRequest, IInv, TypeOK
      <4> QED
        BY <4>1, <4>2, <4>3
    <3>4. Store!ReceiveMalformed(t)
      BY <2>3, <2>4, <3>1, <3>2, <3>3 DEF Store!ReceiveMalformed, Reply
    <3> QED
      BY <3>4 DEF Store!Next
  <2>6. CASE ~MissingField(p)
    <3> DEFINE r == [command |-> c, email |-> p.email, password |-> p.password]
    <3>1. r \in Store!Request
      BY DEF Store!Request, Store!Commands, Commands, Payload
    <3>2. pc' = [pc EXCEPT ![t] = "lookup"] /\ UNCHANGED answer
      BY <2>1, <2>6
    <3>3. [s \in Threads |-> AbstractPhase(s)]' =
             [[s \in Threads |-> AbstractPhase(s)] EXCEPT ![t] = "pending"]
      BY <3>2 DEF AbstractPhase, IInv, TypeOK
    <3>4. [s \in Threads |-> AbstractRequest(s)]' =
             [[s \in Threads |-> AbstractRequest(s)] EXCEPT ![t] = r]
      <4>1. AbstractRequest(t)' = r
        BY <2>2, <2>6 DEF AbstractRequest
      <4>2. \A s \in Threads \ {t} : AbstractRequest(s)' = AbstractRequest(s)
        BY <2>1 DEF AbstractRequest, IInv, TypeOK
      <4> QED
        BY <4>1, <4>2
    <3>5. Store!Receive(t)
      <4> HIDE DEF r
      <4> QED
        BY <2>3, <2>4, <3>1, <3>2, <3>3, <3>4 DEF Store!Receive
    <3> QED
      BY <3>5 DEF Store!Next
  <2> QED
    BY <2>5, <2>6
<1>2. ASSUME NEW t \in Threads, RegisterLookup(t) PROVE Store!Next \/ UNCHANGED Store!vars
  <2>1. /\ pc[t] = "lookup" /\ request[t].command = "REGISTER"
        /\ UNCHANGED <<users, request>>
    BY <1>2 DEF RegisterLookup
  <2>2. UNCHANGED [e \in Emails |-> AccountOf(users, e)]
    BY <2>1, SameAccounts
  <2>3. PICK row \in GetUserByEmail(Email(t)) :
            IF row # NoUser
            THEN Reply(t, 409)
            ELSE pc' = [pc EXCEPT ![t] = "insert"] /\ UNCHANGED answer
    BY <1>2 DEF RegisterLookup
  <2>4. CASE row # NoUser
    <3>1. Store!Answer(t, 409)
      BY <2>1, <2>3, <2>4, AnswerStep
    <3>2. AccountOf(users, Email(t)) # NoHash
      BY <2>1, <2>4, PendingRequest, AccountExists, LookupResult
    <3>3. Store!Exists(t)
      BY <2>1, <3>2, PendingRequest DEF Store!Exists
    <3>4. Store!Register(t)
      BY <2>1, <2>2, <3>1, <3>3, PendingRequest DEF Store!Register
    <3> QED
      BY <3>4 DEF Store!Next
  <2>5. CASE row = NoUser
    BY <2>1, <2>2, <2>3, <2>5, SeeNothing
  <2> QED
    BY <2>4, <2>5
<1>3. ASSUME NEW t \in Threads, RegisterInsert(t) PROVE Store!Next
  <2>1. /\ pc[t] = "insert" /\ request[t].command = "REGISTER"
        /\ UNCHANGED request
    BY <1>3 DEF RegisterInsert, Dispatched
  <2>2. CASE CreateUser(Email(t), PasswordHash(t)) /\ Reply(t, 200)
    <3>1. Store!Answer(t, 200)
      BY <2>1, <2>2, AnswerStep
    <3>2. /\ ~ \E u \in users : u.email = Email(t)
          /\ [x \in Emails |-> AccountOf(users', x)] =
                [[x \in Emails |-> AccountOf(users, x)] EXCEPT ![Email(t)] = PasswordHash(t)]
      BY <2>1, <2>2, PendingRequest, AccountCreated DEF IInv
    <3>3. ~ Store!Exists(t)
      BY <2>1, <3>2, PendingRequest, AccountExists DEF Store!Exists
    <3>4. Store!Store(t)
      BY <2>1, <3>2, StoreAccount
    <3>5. Store!Register(t)
      BY <2>1, <3>1, <3>3, <3>4, PendingRequest DEF Store!Register
    <3> QED
      BY <3>5 DEF Store!Next
  <2>3. CASE CreateUserFails(Email(t)) /\ Reply(t, 500)
    <3>1. Store!Answer(t, 500)
      BY <2>1, <2>3, AnswerStep
    <3>2. UNCHANGED [e \in Emails |-> AccountOf(users, e)]
      BY <2>3, SameAccounts DEF CreateUserFails
    <3>3. DbMayFail \/ Store!Exists(t)
      BY <2>1, <2>3, PendingRequest, AccountExists DEF CreateUserFails, Store!Exists
    <3>4. Store!Register(t)
      BY <2>1, <3>1, <3>2, <3>3, PendingRequest DEF Store!Register
    <3> QED
      BY <3>4 DEF Store!Next
  <2> QED
    BY <1>3, <2>2, <2>3 DEF RegisterInsert
<1>4. ASSUME NEW t \in Threads, LoginLookup(t) PROVE Store!Next
  <2>1. /\ pc[t] = "lookup" /\ request[t].command = "LOGIN"
        /\ UNCHANGED <<users, request>>
    BY <1>4 DEF LoginLookup
  <2>2. UNCHANGED [e \in Emails |-> AccountOf(users, e)]
    BY <2>1, SameAccounts
  <2>3. PICK row \in GetUserByEmail(Email(t)) :
            \/ row = NoUser /\ Reply(t, 404)
            \/ row # NoUser /\ row.passwordHash # PasswordHash(t) /\ Reply(t, 401)
            \/ row # NoUser /\ row.passwordHash = PasswordHash(t) /\ Reply(t, 200)
    BY <1>4 DEF LoginLookup
  <2>4. /\ row = NoUser => DbMayFail \/ ~Store!Exists(t)
        /\ row # NoUser => /\ Store!Exists(t)
                           /\ AccountOf(users, Email(t)) = row.passwordHash
    BY <2>1, PendingRequest, LookupAccount DEF Store!Exists
  <2>5. \A code : Reply(t, code) => Store!Answer(t, code)
    BY <2>1, AnswerStep
  <2>6. Store!Login(t)
    BY <2>1, <2>2, <2>3, <2>4, <2>5, PendingRequest DEF Store!Login, PasswordHash
  <2> QED
    BY <2>6 DEF Store!Next
<1>5. ASSUME NEW t \in Threads, ResetLookup(t) PROVE Store!Next \/ UNCHANGED Store!vars
  <2>1. /\ pc[t] = "lookup" /\ request[t].command = "RESET_PASSWORD"
        /\ UNCHANGED <<users, request>>
    BY <1>5 DEF ResetLookup
  <2>2. PICK row \in GetUserByEmail(Email(t)) :
            \/ row = NoUser /\ Reply(t, 404) /\ UNCHANGED found
            \/ /\ row # NoUser
               /\ found' = [found EXCEPT ![t] = row.id]
               /\ pc' = [pc EXCEPT ![t] = "update"]
               /\ UNCHANGED answer
    BY <1>5 DEF ResetLookup
  <2>3. CASE row = NoUser
    <3>1. Store!Answer(t, 404)
      BY <2>1, <2>2, <2>3, AnswerStep
    <3>2. DbMayFail \/ ~Store!Exists(t)
      BY <2>1, <2>3, PendingRequest, LookupAccount DEF Store!Exists
    <3>3. UNCHANGED [e \in Emails |-> AccountOf(users, e)]
      BY <2>1, SameAccounts
    <3>4. Store!ResetPassword(t)
      BY <2>1, <3>1, <3>2, <3>3, PendingRequest DEF Store!ResetPassword
    <3> QED
      BY <3>4 DEF Store!Next
  <2>4. CASE row # NoUser
    BY <2>1, <2>2, <2>4, SeeNothing
  <2> QED
    BY <2>3, <2>4
<1>6. ASSUME NEW t \in Threads, ResetUpdate(t) PROVE Store!Next
  <2>1. /\ pc[t] = "update" /\ request[t].command = "RESET_PASSWORD"
        /\ UNCHANGED request
    BY <1>6 DEF ResetUpdate, Dispatched
  <2>2. CASE UpdateUserPassword(found[t], PasswordHash(t)) /\ Reply(t, 200)
    <3>1. Store!Answer(t, 200)
      BY <2>1, <2>2, AnswerStep
    <3>2. /\ \E u \in users : u.email = Email(t)
          /\ [x \in Emails |-> AccountOf(users', x)] =
                [[x \in Emails |-> AccountOf(users, x)] EXCEPT ![Email(t)] = PasswordHash(t)]
      <4>1. /\ found[t] \in Nat /\ \E u \in users : u.id = found[t]
            /\ \A u \in users : u.id = found[t] => u.email = Email(t)
        BY <2>1 DEF IInv, TypeOK, ResetHitsOwner
      <4>2. Email(t) \in Emails /\ PasswordHash(t) \in Hashes
        BY <2>1, PendingRequest
      <4>3. UniqueEmail'
        BY DEF IInv
      <4> QED
        BY <2>2, <4>1, <4>2, <4>3, AccountReset
    <3>3. Store!Exists(t)
      BY <2>1, <3>2, PendingRequest, AccountExists DEF Store!Exists
    <3>4. Store!Store(t)
      BY <2>1, <3>2, StoreAccount
    <3>5. Store!ResetPassword(t)
      BY <2>1, <3>1, <3>3, <3>4, PendingRequest DEF Store!ResetPassword
    <3> QED
      BY <3>5 DEF Store!Next
  <2>3. CASE DbMayFail /\ Reply(t, 500) /\ UNCHANGED <<users, sequence>>
    <3>1. Store!Answer(t, 500)
      BY <2>1, <2>3, AnswerStep
    <3>2. UNCHANGED [e \in Emails |-> AccountOf(users, e)]
      BY <2>3, SameAccounts
    <3>3. Store!ResetPassword(t)
      BY <2>1, <2>3, <3>1, <3>2, PendingRequest DEF Store!ResetPassword
    <3> QED
      BY <3>3 DEF Store!Next
  <2> QED
    BY <1>6, <2>2, <2>3 DEF ResetUpdate
<1>7. ASSUME NEW t \in Threads, Respond(t) PROVE Store!Next
  <2>1. AbstractPhase(t) = "answered"
    BY <1>7 DEF Respond, AbstractPhase
  <2>2. [s \in Threads |-> AbstractPhase(s)]' =
           [[s \in Threads |-> AbstractPhase(s)] EXCEPT ![t] = "idle"]
    BY <1>7 DEF Respond, AbstractPhase, IInv, TypeOK
  <2>3. [s \in Threads |-> AbstractRequest(s)]' =
           [[s \in Threads |-> AbstractRequest(s)] EXCEPT ![t] = NoRequest]
    <3>1. AbstractRequest(t)' = NoRequest
      BY <1>7 DEF Respond, AbstractRequest, IInv, TypeOK
    <3>2. \A s \in Threads \ {t} : AbstractRequest(s)' = AbstractRequest(s)
      BY <1>7 DEF Respond, AbstractRequest, IInv, TypeOK
    <3> QED
      BY <3>1, <3>2
  <2>4. UNCHANGED [e \in Emails |-> AccountOf(users, e)]
    BY <1>7, SameAccounts DEF Respond
  <2>5. Store!Respond(t)
    BY <1>7, <2>1, <2>2, <2>3, <2>4
    DEF Respond, Store!Respond, Store!NoRequest, NoRequest
  <2> QED
    BY <2>5 DEF Store!Next
<1>8. ASSUME Restart PROVE Store!Next
  <2>1. \A t \in Threads : AbstractPhase(t)' = "idle"
    BY <1>8 DEF Restart, AbstractPhase
  <2>2. \A t \in Threads : AbstractRequest(t)' = NoRequest
    BY <1>8 DEF Restart, AbstractRequest
  <2>3. UNCHANGED [e \in Emails |-> AccountOf(users, e)]
    BY <1>8, SameAccounts DEF Restart
  <2>4. Store!Restart
    BY <1>8, <2>1, <2>2, <2>3 DEF Restart, Store!Restart, Store!NoRequest, NoRequest
  <2> QED
    BY <2>4 DEF Store!Next
<1>9. ASSUME UNCHANGED vars PROVE UNCHANGED Store!vars
  BY <1>9 DEF vars, Store!vars, AbstractPhase, AbstractRequest, AccountOf
<1> QED
  BY <1>1, <1>2, <1>3, <1>4, <1>5, <1>6, <1>7, <1>8, <1>9 DEF Next

(* The handlers implement the atomic account map: every interleaving of their *)
(* statements, with restarts and failing statements, answers as if each       *)
(* command had taken effect at one instant.                                   *)
THEOREM Refinement == Spec => ImplementsAccountStore
<1>1. IInv /\ IInv' /\ Dispatched /\ [Next]_vars => [Store!Next]_Store!vars
  BY StoreStep
<1> QED
  BY <1>1, StoreInit, SpecIInv, DispatchedInv, PTL
  DEF Spec, ImplementsAccountStore, Store!Spec
=============================================================================
