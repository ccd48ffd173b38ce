# raspi-cctv-tcp-server: a TLA+ model

This directory holds a formal model of the server in `src/`: a TCP/TLS server
on a Raspberry Pi that keeps user accounts and a history of traffic events in
SQLite, stores and serves event images as files, and steers an overlay program
through a JSON file in shared memory. The modules are translated from the C++
sources, the TLC configurations check them on small instances, and the
`*_proofs` modules hold proofs that TLAPS checks for every value of the
constants.

    tlc -workers 2 -config Accounts.cfg MCAccounts     # one run
    tlapm Accounts_proofs.tla                          # one proof module

## 1. Inventory of the system

The server accepts connections in one loop and runs one detached thread per
client. Every thread loops over `SSL_read`: it reads a line, and either serves
it itself (`UPLOAD`, `GET_IMAGE`) or hands it to `CommandHandler::handle`. All
threads share one `DBManager` (one SQLite connection), the directory `images/`
and two files in `/dev/shm`. There is no lock, no condition variable and no
timeout in the program; what is atomic is atomic because SQLite or the kernel
makes it so. Nothing is caught either: an exception in any thread ends the
process, and all connections with it.

| Component | Source | State it keeps | Operations | Interacts with |
|---|---|---|---|---|
| Accept loop, client threads | `src/server/TcpServer.cpp` 30-44, 60-123 | listening socket, `client_fd` and `ssl` of the turn, one thread argument per client | accept, handshake, spawn, serve, shut down, close | kernel (descriptors are reused), OpenSSL, client connection |
| Client connection | `src/server/TcpServer.cpp` 125-179 | `cmd`, the line being read; position in the byte stream | read a line, dispatch, read an image body, write a reply, end | client, command dispatch, image handler |
| Command dispatch | `src/server/CommandHandler.cpp` 13-38 | none | first word to handler | all handlers |
| Accounts | `src/server/CommandHandler.cpp` 40-150 | locals of a handler between two statements | REGISTER, LOGIN, RESET_PASSWORD | `UserRepository` |
| UserRepository | `src/db/UserRepository.cpp` | table `users` | INSERT, SELECT by e-mail, UPDATE of the hash | SQLite |
| History | `src/server/CommandHandler.cpp` 152-464 | locals of a handler | ADD_HISTORY, GET_HISTORY and three filtered forms | `UserRepository`, `HistoryRepository` |
| HistoryRepository | `src/db/HistoryRepository.cpp` | table `history` | INSERT, four paged SELECTs | SQLite |
| Images | `src/server/ImageHandler.cpp` | open streams, files under `images/` | UPLOAD, GET_IMAGE | file system, the client's stream |
| Overlay configuration | `src/server/CommandHandler.cpp` 466-560 | a copy of the JSON object in a handler | CHANGE_FRAME, GET_FRAME | `/dev/shm/overlay_config`, overlay program (outside) |
| GET_LOG | `src/server/CommandHandler.cpp` 562-584 | none | read a status file | `/dev/shm/shm_status`, written outside |
| Start-up | `src/main.cpp`, `src/db/DBManager.cpp`, `src/db/DBInitializer.cpp`, `TcpServer.cpp` 60-84 | the locals of `main()`; database file `server_data.db` | certificates, open, CREATE TABLE IF NOT EXISTS, handlers, socket, start | SQLite, the client threads, which use the locals |
| EndianUtils | `src/util/EndianUtils.cpp` | none | 64-bit host to network order and back | GET_IMAGE |

What is hard here, and what each part owes its clients:

* **Accounts.** Two handlers test in one SQL statement and write in another.
  Two threads may both find an address free; a reset carries a row id across
  the gap; every failed statement looks like "no such user". Owed: one row per
  address, a reset that writes the row of its own address, and commands that
  look as if each had happened at one instant.
* **Images.** `exists()`, the truncating open, the write loop and `remove()`
  are separate calls on a name that other threads use as well; the disk may
  fail anywhere, the client may go in the middle, the process may die. Owed:
  what was stored stays, what failed leaves nothing, what is announced is sent,
  a transfer ends.
* **Overlay configuration.** Read, change and rewrite without a lock, with an
  empty file between truncation and write. Owed: changes that do not overlap
  all count, mode and sharpness level agree, the file stays readable.
* **Client connection.** Lines and binary bodies in one stream, without a
  go-ahead from the server. Owed: the stream is cut where the client meant it,
  one reply per request and in order.
* **History.** Lists are read page by page with OFFSET while others insert;
  days become ranges of texts; what a type of event shows is decided in five
  places; an answer that is not UTF-8 throws and ends the process, and clients
  connect again and repeat what they asked. Owed: paging misses nothing and
  repeats nothing without cause, what is stored stays, all queries agree on a
  row.
* **Accept loop.** Descriptor numbers are reused at once, five exits of the
  loop have to release what it holds, the loop blocks in a handshake. Owed:
  one owner per descriptor, one SSL object per connection, waiting clients get
  their turn as soon as no other client keeps the loop or all descriptors.
* **Start-up.** Detached threads use local variables of `main()`; tables that
  cannot be created are logged and nothing else; the process may end and be
  launched again at any point. Owed: no thread without the objects it uses, a
  failure costs what it concerns and no more.

The full list of hazards, each at its line and with the properties that cover
it, is in `PROJECT.json` under `hazards`.

## 2. Modules

| Module | Models | State against the code |
|---|---|---|
| `AccountStore` | what REGISTER, LOGIN and RESET_PASSWORD promise | one map from address to hash; every command takes effect at one instant |
| `Accounts` | the three handlers and `UserRepository` | `users`, `sequence`: table and AUTOINCREMENT counter; `pc`, `request`, `found`, `answer`: the locals of each thread |
| `ImageFiles` | what UPLOAD and GET_IMAGE promise | one image per name, there from the instant its upload is acknowledged; what a GET_IMAGE delivers |
| `ImageStore` | `ImageHandler` over POSIX files | `dir`, `data`: names, inodes and their chunks; `inode`, `pos`, `bad`: the stream of each thread; `stored`, `spoiled`, `wanted`: history variables |
| `EndianUtils` | `htonll`, `ntohll` | none: an operator on the bytes of a number, for both byte orders of the machine; used by `ImageStore` |
| `FrameSettings` | what CHANGE_FRAME and GET_FRAME promise | one object of settings, changed at the instant a change is acknowledged |
| `OverlayConfig` | CHANGE_FRAME, GET_FRAME, GET_LOG | `file`: existence, the object the file starts with, its length; `config`: the copy in a handler; `expected`, `overlapped`, `faulted`: history variables |
| `ClientSession` | `handleClientSSL` and one client | `stream`: bytes sent and not read; `cmd`, `left`, `pc`: the thread; `script`, `owed`: the client; `outOfStep`: a history variable |
| `History` | five handlers, `HistoryRepository`, paging clients, ends of the process | `history`: the table; `page`: the reply; `due`, `seen`: what a paging client keeps, also when it has to connect again |
| `ClientService` | what those who connect are promised | a queue, seats, and where each client is |
| `TcpServer` | `start`, `client_thread_func` | `peer`: who is at the other end of a descriptor; `ssl`; `client_fd`, `loop`: the locals of the loop; `threads` |
| `Server` | `main()` from launch to end, around `TcpServer` | `stage`: where `main()` is; `objects`: its locals that exist; `tables`: what is in the database file; `unmade`: the CREATEs that failed |
| `MCAccounts`, `MCImageStore`, `MCOverlayConfig`, `MCHistory` | instances for TLC | constants and symmetry sets |
| `Accounts_proofs`, `ImageStore_proofs`, `EndianUtils_proofs`, `OverlayConfig_proofs`, `ClientSession_proofs`, `History_proofs`, `TcpServer_proofs`, `Server_proofs` | theorems | inductive invariants and lemmas |

One action is one system call, one SQL statement or one turn of a transfer
loop: the points at which another thread can come in between. A handler is the
sequence of its actions, kept in order by `pc`; its error exits are disjuncts
or actions of their own. History variables are written by the actions and read
by no guard. Definitions whose comment starts with "Mutant" are altered copies
of the definition they stand before; no specification uses them.

The components meet at narrow places. `Server` composes `main()` with
`TcpServer`: the steps of the connections are those of `TcpServer`, taken while
`main()` is inside `start()`, and the end of the process takes them all away.
`ImageStore` announces sizes through `EndianUtils`. Else each module models the
other side of its own: `ClientSession` sees a command as something that is
answered once, `TcpServer` sees a session as something that ends, the handlers
see the session as "idle, then a request". They share no state besides.

The end of the process, by a signal or an exception, is a step of every module
that has state to lose or to keep: `Restart` in `Accounts`, `ImageStore` and
`OverlayConfig`, `ProcessEnds` in `Server`, `Kill` and `GetThrows` in
`History`. What is in the database, in files and in `/dev/shm` stays.

Four abstract specifications say what clients are promised, without files,
statements or descriptors, and each is shown to be implemented: `AccountStore`
by `Accounts`, `ImageFiles` by `ImageStore`, `FrameSettings` by `OverlayConfig`,
`ClientService` by `Server`. Where the code keeps a promise only as long as
nobody interferes, the abstract specification says so in its own terms: a name
is *spoiled* once two uploads of it meet or a process ends in one, the settings
are *disturbed* once two changes meet or a write fails. It says as well what is
promised even then: no image is put under a name that is stored already, a
GET_FRAME returns settings that make sense or an error. An open that fails is
answered like a file that is missing or unreadable (404 to GET_IMAGE, 500 to
the overlay commands): the abstract specifications allow these answers at any
time where the disk may fail (`DiskMayFail`, `FaultsMayHappen`), and else only
for want of an image, or of settings. TLC checks the refinements with faults, so
that the second half is what the theorems add, which hold for both values of
the constants. The refinement mappings
stand in the detailed modules, under "Refinement". They need no variables
besides the history variables; a thread keeps the `name` it served, and the
object it read (`config`), until its reply has been written, as the locals of
the handlers do.

Conversions are modelled by what they do: `iss >> a >> b` by which words are
left unread, integer extraction by 0 on text and by the old value on a missing
word (which is how uninitialised `filesize` and `eventType` get in as a
nondeterministic choice), `config.dump()` by its length, JSON parsing by "the
first value counts, what follows is not looked at", dates by SQLite's text
order, SHA-256 by an arbitrary function from passwords to digests.

## 3. Runs

Every run is a `.cfg` file. "Found" means that TLC is expected to find the
property violated, and `PROJECT.json` records the finding.

| Run | Configuration | Bounds | Shows |
|---|---|---|---|
| accounts | `Accounts.cfg` | 3 threads, 2 addresses, 2 passwords, failing statements, restarts | one row per address, a reset hits its owner, the handlers implement `AccountStore` |
| images | `ImageStore.cfg` | 2 threads, 1 name, 2 inodes, 2 chunks, bytes of 2 values, little-endian, disk faults, restarts | stored images stay, failures leave nothing, files nobody uploads stay as they are, readers can tell from the announced bytes what they will get, get it, and come to their end unless the disk fails them; the calls implement `ImageFiles` |
| images_race | `ImageStoreRace.cfg` | 2 threads, no faults | Found: an upload acknowledged for a file that is gone or another's |
| images_read_error | `ImageStoreReadError.cfg` | 1 reader, disk faults | Found: a read error makes GET_IMAGE spin for ever |
| overlay | `OverlayConfig.cfg` | 2 threads, one payload of each kind and at both ends of the level's range, faults, restarts | mode and level agree, serial changes count, the file is readable at rest unless a fault has hit it, and is then left alone; the steps implement `FrameSettings` |
| overlay_lost | `OverlayConfigLost.cfg` | 2 threads, 2 keys, no faults | Found: one of two acknowledged changes is lost |
| session | `ClientSession.cfg` | 3 lines of every kind, images of up to 2 bytes | bodies and lines are told apart, replies are in order, server and client never wait for each other, the server comes to rest between two bytes, every request is answered |
| session_refused | `ClientSessionRefused.cfg` | 1 upload | Found: a refused image is read as a command line |
| history | `History.cfg` | 2 threads, 3 rows, every form of payload and query, one event that is not UTF-8, ends of the process | paging misses nothing and, while nothing is added, repeats nothing; rows stay; all queries agree on a row |
| history_truncated | `HistoryTruncated.cfg` | 1 thread, failing statements | Found: part of a page is answered as "retrieved successfully" |
| server | `Server.cfg` | 4 clients, 2 descriptors, a backlog of 3, any launches and ends | one owner per descriptor, SSL objects freed once, no thread without its objects, missing tables due to their own CREATE, the descriptors implement `ClientService`, a client waits for ever only behind other clients |
| server_silent | `ServerSilent.cfg` | 3 clients, 3 descriptors | Found: a client that says nothing keeps all others waiting for ever |

Why the bounds are enough for what is asked. *accounts*: every race is between
two commands on one address; a third thread lets a third command see the
result, the second address shows that it is not touched. *images*: the harm is
done by two threads on one name, one inode can be orphaned while another is
linked, and two chunks make a first, a last and a partial image. With two
names the interleavings multiply and the names do not interact; that they do
not is part of the proof (`OwnInode`). `Base = 2` makes every 64-bit number of eight
two-valued bytes, 256 of them, which tells every order of bytes from every
other; the proof is for any base and both byte orders. *overlay*: two texts of different
length, and levels of one and three digits at both ends of 0..100 and beyond.
One flag is set and reset, the other reset only: what the handler does with the
two differs in the key alone, and the proof is for any payloads.
*session*: a request before and one behind the one that goes wrong. *history*:
rows at the first and last second of two days, one dated by its day alone, and
pages of one row, so that a list of three has a boundary for every insertion
to move; two clients are enough for one to add, or to end the process, while
the other pages. *server*: more clients than descriptors, so that both the
table and the backlog fill up.

Bounds in the guards: `MaxChunks`, `MaxRows`, `MaxRequests`, `MaxBody`,
`MaxGarbage`, `Backlog`, `LastSecond` and the sets `Requests`, `AddRequests`,
`Queries`, `Kinds`, `Garbage`. Rows, inodes and threads are otherwise
unbounded only in the proofs. Symmetry is used in runs of safety properties
and steps alone (the `Implements...` properties are among them, as no abstract
specification states fairness), over sets whose elements no definition
tells apart. Deadlock is checked except in `ClientSession`, where a closed
connection stays closed.

### Fairness

* `ImageStore!FairSpec`: each GET_IMAGE goes on with its loop. Threads are
  scheduled by the kernel, and `SSL_write` returns once the client reads or
  hangs up. Nothing is assumed of uploads, whose client may stall.
* `ClientSession!FairSpec`: the thread of the connection runs, and a client in
  the middle of an image goes on or hangs up. The code has no timeout that
  would enforce the second; a client that stalls holds its thread for ever.
* `Server!FairServerSpec`: the loop and the threads are scheduled, that is
  `accept()` with a connection to accept and a descriptor for it, thread
  creation and `close()` return. Nothing is assumed of what a client drives:
  `SSL_accept`, the reads and writes of a session, the `SSL_shutdown` behind it,
  which writes. Therefore a client may wait for ever, which is the finding of
  `server_silent`; `OnlyClientsHoldUp` says that it does so behind other clients
  only (`HeldUp`). Nothing is assumed of a waiting client's patience either
  (`AcceptAborted`), nor that the process ends or is launched again; when it
  ends, nobody waits any more.

### What the properties of paging and of replies mean

`History!due` is what a client may expect of a list: the rows that matched its
words when it asked for the first page. A client that gets a full page asks for
the next one; one whose connection breaks because the process ends asks again
for the page it did not get, with what it has seen so far. `PagingMissesNothing`
says that at a page that is not full it has seen all it was due.
`QuietListShowsOnce` says that only a row added meanwhile can make it see one
twice. `RowsStay` is what both rest on.

`RepliesInOrder` says of every reply that the replies before it are those to
the earlier requests: all of them, and, with the sets, no other. It holds until
`outOfStep`, that is until the server refuses an upload whose image is in the
stream (a finding) or takes a line without a size for an upload.

### Findings

1. Two uploads of one name (`ImageHandler.cpp` 27-31): the test and the opening
   are not one step, and a failure removes whatever file has the name.
2. A read error in GET_IMAGE (`ImageHandler.cpp` 81): `while (!file.eof())`
   never ends, since the error sets badbit only.
3. Overlapping CHANGE_FRAME commands (`CommandHandler.cpp` 484-530): both are
   answered "Overlay config updated", one is lost.
4. A refused UPLOAD (`TcpServer.cpp` 144-160) leaves its image in the stream.
   The client of `test/test_ImageUpload.cpp` sends it at once.
5. A query that fails part-way (`HistoryRepository.cpp` 51) is a success.
6. A client that connects and sends nothing (`TcpServer.cpp` 101) stops the
   accept loop: `SSL_accept` runs in it, without a timeout.

Met while reading, without a run: `History.hpp` (line 10) numbers speeding 0 and
illegal parking 1, while the handlers keep a speed for 1 and snapshots for 0
(`CommandHandler.cpp` 239); GET_IMAGE answers "Image not found" for every open
that fails, also of an image that is stored when the process has no descriptor
left, or on an I/O error (`ImageHandler.cpp` 63); an event that is dated by its
day alone is missing from a list that begins on that day
(`CommandHandler.cpp` 332, `History!Wanted` excepts it); `README.md` of the repository (line 73) shows
`LOGIN email=...&password=...`, which `handleLogin` answers with 400, as it
reads one word; logout and sessions (line 25) are not implemented;
`test_CommandHandler.cpp` (75-77) sends GET_IMAGE through
`CommandHandler::handle`, which does not know it; a failed write of the overlay
file is answered 200 (`ChangeWrite`, second disjunct); the reply to an UPLOAD
without a size ends with the two characters `\n` of a raw string instead of a
newline (`TcpServer.cpp` 151), so that a client that reads lines sees it and the
next reply as one; two comments (`CommandHandler.cpp` 306 and 450) leave the
plate of a detected child out while the other two queries show it, which
`OneViewOfARow` therefore excepts.

## 4. Proofs

`tlapm` checks every theorem for all values of the constants that satisfy the
module's named `ASSUME`. Each theorem follows from one inductive invariant
`IInv` of its module: `Init => IInv`, `IInv /\ [Next]_vars => IInv'`, and
`IInv` implies the property.

**Accounts_proofs** (`AccountsAssumption`: the digest function is defined on the
passwords, `NoHash` is no digest, `NoUser` is no row). `UniqueEmail` and
`ResetHitsOwner` are not inductive by themselves. That the UPDATE hits one row
needs ids to be unique, and that needs AUTOINCREMENT to be ahead of all of them
(`IdsGivenOut`). Theorems: `TypeCorrect`, `EmailsUnique`, `ResetsHitOwner`, and
`Refinement`: `Spec => ImplementsAccountStore`. The refinement maps an address
to the hash in its row, and a thread with a reply to an answered request. The
commit points are the INSERT, the UPDATE, and otherwise the SELECT that decides
the answer; a step to the second statement is a stutter. It uses besides
`Dispatched` (a thread at its second statement serves the command that has
one), and lemmas on what INSERT and UPDATE do to the map (`AccountCreated`,
`AccountReset`).

**ImageStore_proofs** (`ImageStoreAssumption`). `StoredImageStays`,
`NoLeftovers`, `GetSendsStoredImage` for any number of threads, names and
inodes and images of any length. `SInv` says why: a name that is not spoiled
has one uploader at most (`Alone`), the name of a stored image has none
(`StoredClosed`), the inode of an open stream is linked to no other name and
written by no stream of another name (`OwnInode`), and the stream of the only
uploader holds what has arrived (`Receiving`). `Sending` says the same of
readers. `StepKinds` sorts all actions into the few kinds of step that these
invariants can tell apart.

`Refinement`: `Spec => ImplementsImageFiles`. The commit points are the test of
`exists()`, at which an upload begins or is refused, the close of the complete
file, at which the name gets its image, and the opening of a reader. The image
of a name is what its file holds, unless the name is spoiled or being uploaded;
that this is the image that was stored is `ImagesAre`. What a reader of a name
under way delivers needs three more invariants: what has been written of an
image is its beginning, also behind a failed write (`Begun`); the inode a
reader holds belongs to its name or to none, and nobody writes it for another
name (`ReaderInode`); and a reader has sent a beginning of one image, at least
as long as it has announced once it ends, also when the file was removed, and
its inode used again, behind its back (`Parts`).

**OverlayConfig_proofs** (`OverlayConfigAssumption`). `SharpnessGoesWithMode`,
`SerialChangesCount`, `ReadableAtRest` for any payloads. `Copies`: what a thread
is about to write is a coherent object. `Serial`: as long as changes have not
overlapped, one thread at most is between reading and writing, and its copy is
the expected object with its change. `ChangeKeeps` is the fact about `Change`
that both rest on.

`Refinement`: `Spec => ImplementsFrameSettings`. The settings are `expected` until
changes meet or a fault hits one, and unknown afterwards; the commit point of a
change is its write, and the second of two changes to read the file is where
they meet. That GET_FRAME, and the first half of CHANGE_FRAME, then find what
has been acknowledged, or fail for a reason (`Found`), needs `Serial` in full:
also that the file cannot be parsed while the one change under way is about to
write it. `Quiet` says that a thread between two commands has neither a request
nor an object, and that one in a change has a request that could be read.

`UnreadableStays` needs the types alone: a thread that has not read the file
before cannot get past its parse. In **ImageStore_proofs**, `FilesAtRestStay`
follows from `OwnInode` in the same way.

**EndianUtils_proofs** (`EndianUtilsAssumption`). `htonll` turns the eight bytes
of a number round on a little-endian machine and leaves them elsewhere
(`HtonllBytes`), so that what lies in memory starts with the most significant
byte on both (`NetworkOrder`), and a client that reads it so gets the number
(`ClientReads`). `ImageStore_proofs!SizesArrive` takes it to the sizes
GET_IMAGE announces.

**ClientSession_proofs** (`ClientSessionAssumption`). What the properties say of
the next byte has to be known of all bytes behind it. `InStep(n)` describes
the unread stream, n being the first line whose newline has not been read: the
newlines are those of the lines from n on (`Lines`), a text lies in front of
its newline (`Texts`), image bytes lie exactly where a line or the upload under
way says (`Images`), and what is announced and not there is still owed by the
client, or lost because it has hung up (`Missing`). `Answered` says which
replies have been given. For each there is a lemma on the loss of the first
byte and one on a line, or an image byte, that is sent. Either the connection
is out of step, or it is closed, or `InStep(n)` holds for some n.

`NobodyWaitsForTheOther` follows: when nothing is left to read and nothing owed,
`Missing` says that the client has sent all it announced, so that the line or
the image the server waits for is one the client has not begun, and `Answered`
that all earlier requests have their replies. `WorkIsFinite` is a measure: three
for every byte that has not been read, and what is left of the step under way.
Every step of the server makes it smaller, so that between two steps of the
client there are finitely many, whatever the bytes are; it needs the types
alone. Together they are the safety half of `EveryRequestAnswered`: the server
cannot turn for ever, and where it stops nothing is due. What remains to TLC is
the step from there to the temporal formula.

**History_proofs** (`HistoryAssumption`; `PagingComplete` also that no statement
fails, without which the property is false: finding 5). The order of the rows
is total (`BeforeOrder`), the ranks of n rows are 0 to n - 1 (`RanksFill`), and a
row more moves the others to a later place or leaves them (`RankGrows`).
Therefore what a client is owed and has not got is at or behind its offset, and
behind a page it has got only if that page is full (`Pages`); and while nothing
is added to its list, what it has got is before its offset (`Quiet`). `Table`
(the ids are 1 to some k) keeps ids apart, `InTable` keeps pages and table
together. The end of the process leaves all of this to the clients that ask
again. Theorems: `TypeCorrect`, `PagingComplete`, `QuietLists`, `RowsKept`,
`OneView`.

**TcpServer_proofs** (`TcpServerAssumption`). `DescriptorsOwned` is inductive
with the types. `SslFreedOnce` needs that a client has one connection
(`OneConnection`), and is proved in the form of `SslOf`, client by client.

**Server_proofs** builds on its lemmas: while `main()` is inside `start()` the
connections move by `TcpServer!Next`, outside of it they are as `TcpServer!Init`
has them. `Made` and `Tried` follow `main()` from stage to stage: what it holds
and which CREATEs it has tried. Theorems: `ServerTypeCorrect`,
`DescriptorsHaveOneOwner`, `SslObjectsFreedOnce`, `ObjectsOutliveThreads`,
`MissingTablesFailed`, and `Refinement`: `ServerSpec => ImplementsClientService`.
In the refinement a client is where the descriptors lead: the guest of a thread
is whoever is at the other end of its descriptor now. `Places` shows from
`DescriptorsOwned`, `OneConnection` and `SslFreedOnce` that this is the client
the thread was made for, with its own SSL object; `SeatLeft` counts the clients
by the descriptors they occupy, which is where the assumption that there are
finitely many descriptors (`IsFiniteSet(Fds)`) is used.

Every invariant, every action property and every refinement of a passing run is
proved. Only
model-checked are the liveness properties (`GetImageEndsUnlessStuck`,
`EveryRequestAnswered`, `OnlyClientsHoldUp`), which with fairness and ENABLED are out
of the prover's reach. No module declares a RECURSIVE operator, and no proof
needs induction over data. The findings are counterexamples of TLC; nothing is
proved of them.

## 5. What is not modelled

* `src/include/lib/json.hpp`, 25 500 of the 27 200 lines of the repository, is a
  vendored third-party library. What the handlers need of it is modelled
  (parsing one value from a stream, the length of a dump, the exception on text
  that is not UTF-8); the rest is not this project's code.
* Text: the trimming of the command word, which accepts some misspellings; the
  wording and layout of replies and of log output; how a reply is delimited.
* The exception on a configuration that is JSON but not an object. The file is
  the overlay program's, which is taken to write objects; what an exception does
  to the rest is in the models as the end of the process.
* What a configuration read from outside holds besides the keys CHANGE_FRAME
  knows, and whatever another program does to the files while the server runs.
* Timeouts: there are none in the code.
* GET_IMAGE opens any path, not only those under `images/`: `ImageStore` has the
  names of uploads only.
* The buffers of a connection. The channels of `ClientSession` are unbounded:
  a client that sends on and on without reading its replies, until server and
  client both wait in a write, is not in the model, and `NoStandstill` says
  nothing of it.
* The buffers of file streams. A write is one step at the place where the code
  calls it; a small one reaches the file when the stream is flushed or closed,
  which is before the reply. Until then the file is as if the chunk had not
  arrived yet, or the overlay text not been written, which are states of the
  model too.
* `gmtime` shared by threads (`created_at` is never read back).
* `deleteHistory`, `deleteUser`, `getUserById`, `DBManager::isOpen` and
  `CommandHandler::handleGetImage`: nothing calls them. The destructors behind
  the endless loop of `start()`: nothing reaches them.
* SQLite and OpenSSL: a statement is atomic and may fail, `SSL_read` and
  `SSL_write` succeed or fail.
* The test programs, which are run by hand, are sources of what clients do.

## 6. Plan

Done: the modules of section 2, their runs, and the proofs of section 4. What
could follow:

1. A composition of `TcpServer` and `ClientSession`: several connections over
   reused descriptors, with the session's steps in place of `ServeReturns`.
2. An abstract list for `History`, paged at an instant or while it grows, in
   place of the history variables `due` and `seen`; and one of requests and
   replies for `ClientSession`.
3. Should the code get a lock for the overlay file, an exclusive creation
   (`O_EXCL`) for images, or timeouts: the models changed with it, and the runs
   that now find a violation turned into runs that pass.
