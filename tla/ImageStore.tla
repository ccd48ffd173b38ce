----------------------------- MODULE ImageStore -----------------------------
(***************************************************************************)
(* The images/ directory: ImageHandler::handleImageUpload and               *)
(* handleGetImage, run by the client threads without any lock.              *)
(*                                                                          *)
(* Files are modelled as POSIX does: a name is a link to an inode, an open  *)
(* stream keeps its inode and its own offset, opening an existing file for  *)
(* writing truncates the inode it is linked to, and remove() unlinks        *)
(* whatever the name is linked to at that moment.  A chunk is what one      *)
(* SSL_read returns (at most 4096 bytes); its content is abstracted to the  *)
(* thread that received it.                                                 *)
(***************************************************************************)
EXTENDS Integers, Sequences, FiniteSets, EndianUtils

CONSTANTS
    Threads,      \* client threads
    Names,        \* file names handleImageUpload accepts
    BadName,      \* a file name with "..", '/' or '\'
    Inodes,       \* the inodes of the file system
    MaxChunks,    \* bound: the longest upload
    NoInode,      \* no file, or no stream
    Hole,         \* a chunk nobody wrote, in front of a write past the end
    NoImage,      \* no image is known to be stored
    DiskMayFail   \* TRUE: open, read, write and close of a file may fail

ASSUME ImageStoreAssumption ==
    /\ BadName \notin Names
    /\ NoInode \notin Inodes
    /\ Hole \notin Threads
    /\ MaxChunks \in Nat \ {0}
    /\ DiskMayFail \in BOOLEAN
    /\ NoImage \notin [inode : Inodes, uploader : Threads, size : 1..MaxChunks]

VARIABLES
    dir,      \* dir[n]: the inode images/n is linked to, or NoInode
    data,     \* data[i]: the chunks of inode i
    pc,       \* pc[t]: where thread t stands
    name,     \* name[t]: the file name of the command t is serving
    size,     \* size[t]: the filesize argument of UPLOAD, or the size a GET_IMAGE announced
    inode,    \* inode[t]: the inode the stream of t is open on
    pos,      \* pos[t]: totalBytesRead of an upload, the read position of a GET_IMAGE
    bad,      \* bad[t]: the badbit of the output stream
    sent,     \* sent[t]: the chunks a GET_IMAGE has written to its client
    reply,    \* reply[t]: the outcome the client is told
    (* What the environment remembers; the code keeps none of these. *)
    stored,   \* stored[n]: the image that was uploaded under n, alone and successfully
    spoiled,  \* names that were uploaded by two threads at once or across a restart
    wanted    \* wanted[t]: stored[n] at the time t opened n for GET_IMAGE

files == <<dir, data>>
history == <<stored, spoiled, wanted>>
vars == <<dir, data, pc, name, size, inode, pos, bad, sent, reply, stored, spoiled, wanted>>

StoredImage == [inode : Inodes, uploader : Threads, size : 1..MaxChunks]

(* The chunks of an image of k chunks received by thread t. *)
Image(t, k) == [i \in 1..k |-> t]

(* Thread t has passed the exists() test of handleImageUpload and not yet returned. *)
Uploading(t) == pc[t] \in {"open", "receive"}

Reading(t) == pc[t] \in {"announce", "send", "stuck"}

(* Inodes a new file may get. *)
FreeInodes ==
    Inodes \ ({dir[n] : n \in Names} \cup {inode[t] : t \in Threads})

(* A write of chunk c at offset p, past the end or over older chunks. *)
WriteAt(s, p, c) ==
    [i \in 1..(IF Len(s) > p THEN Len(s) ELSE p + 1) |->
        IF i = p + 1 THEN c ELSE IF i <= Len(s) THEN s[i] ELSE Hole]

Init ==
    /\ dir = [n \in Names |-> NoInode]
    /\ data = [i \in Inodes |-> <<>>]
    /\ pc = [t \in Threads |-> "idle"]
    /\ name = [t \in Threads |-> BadName]
    /\ size = [t \in Threads |-> 0]
    /\ inode = [t \in Threads |-> NoInode]
    /\ pos = [t \in Threads |-> 0]
    /\ bad = [t \in Threads |-> FALSE]
    /\ sent = [t \in Threads |-> <<>>]
    /\ reply = [t \in Threads |-> "none"]
    /\ stored = [n \in Names |-> NoImage]
    /\ spoiled = {}
    /\ wanted = [t \in Threads |-> NoImage]

(* The handler returns r: its locals are gone, its stream is closed. *)
Return(t, r) ==
    /\ pc' = [pc EXCEPT ![t] = "reply"]
    /\ reply' = [reply EXCEPT ![t] = r]
    /\ inode' = [inode EXCEPT ![t] = NoInode]
    /\ pos' = [pos EXCEPT ![t] = 0]
    /\ bad' = [bad EXCEPT ![t] = FALSE]

(* Mutants: no exists() test, one behind the opening of the stream, no        *)
(* remove() after a failed SSL_read, no is_open() test, a send loop that       *)
(* misses the last chunk or the end.                                          *)
UploadCheckNothing(t, n, k) ==
    /\ pc[t] = "idle" /\ n \in Names
    /\ pc' = [pc EXCEPT ![t] = "open"]
    /\ name' = [name EXCEPT ![t] = n]
    /\ size' = [size EXCEPT ![t] = k]
    /\ UNCHANGED <<files, inode, pos, bad, sent, reply, history>>

UploadCheckLate(t, n, k) ==
    /\ pc[t] = "idle" /\ n \in Names
    /\ name' = [name EXCEPT ![t] = n]
    /\ \/ /\ dir[n] # NoInode
          /\ data' = [data EXCEPT ![dir[n]] = <<>>]
          /\ Return(t, "409") /\ UNCHANGED size
       \/ /\ dir[n] = NoInode
          /\ pc' = [pc EXCEPT ![t] = "open"]
          /\ size' = [size EXCEPT ![t] = k]
          /\ UNCHANGED <<data, inode, pos, bad, reply>>
    /\ UNCHANGED <<dir, sent, history>>

UploadReadErrorKeeps(t) ==
    /\ pc[t] = "receive" /\ pos[t] < size[t]
    /\ Return(t, "500")
    /\ UNCHANGED <<files, name, size, sent, history>>

GetOpenUnchecked(t, n) ==
    /\ pc[t] = "idle"
    /\ pc' = [pc EXCEPT ![t] = "announce"]
    /\ name' = [name EXCEPT ![t] = n]
    /\ inode' = [inode EXCEPT ![t] = dir[n]]
    /\ wanted' = [wanted EXCEPT ![t] = stored[n]]
    /\ UNCHANGED <<files, size, pos, bad, sent, reply, stored, spoiled>>

GetEofEarly(t) ==
    /\ pc[t] = "send" /\ pos[t] + 1 >= Len(data[inode[t]])
    /\ Return(t, "sent")
    /\ UNCHANGED <<files, name, size, sent, history>>

GetEofNever(t) ==
    /\ pc[t] = "send" /\ pos[t] > Len(data[inode[t]])
    /\ Return(t, "sent")
    /\ UNCHANGED <<files, name, size, sent, history>>

(* Mutant of UploadComplete: the stream is not tested. *)
UploadCompleteUntested(t) ==
    /\ pc[t] = "receive" /\ pos[t] = size[t]
    /\ Return(t, "200")
    /\ UNCHANGED <<files, name, size, sent, history>>

-----------------------------------------------------------------------------
(* handleImageUpload *)

(* The tests of the arguments and exists(fullPath). *)
UploadCheck(t, n, k) ==
    /\ pc[t] = "idle"
    /\ name' = [name EXCEPT ![t] = n]
    /\ \/ /\ n = BadName
          /\ Return(t, "400") /\ UNCHANGED <<size, spoiled>>
       \/ /\ n \in Names /\ dir[n] # NoInode
          /\ Return(t, "409") /\ UNCHANGED <<size, spoiled>>
       \/ /\ n \in Names /\ dir[n] = NoInode
          /\ pc' = [pc EXCEPT ![t] = "open"]
          /\ size' = [size EXCEPT ![t] = k]
          /\ spoiled' = IF \E u \in Threads : Uploading(u) /\ name[u] = n
                        THEN spoiled \cup {n} ELSE spoiled
          /\ UNCHANGED <<inode, pos, bad, reply>>
    /\ UNCHANGED <<files, sent, stored, wanted>>

(* std::ofstream ofs(fullPath): create the file, or truncate the one another *)
(* thread has created since the test.                                        *)
UploadOpen(t) ==
    /\ pc[t] = "open"
    /\ \E i \in Inodes :
          /\ IF dir[name[t]] = NoInode THEN i \in FreeInodes ELSE i = dir[name[t]]
          /\ dir' = [dir EXCEPT ![name[t]] = i]
          /\ data' = [data EXCEPT ![i] = <<>>]
          /\ inode' = [inode EXCEPT ![t] = i]
    /\ pc' = [pc EXCEPT ![t] = "receive"]
    /\ UNCHANGED <<name, size, pos, bad, sent, reply, history>>

UploadOpenFails(t) ==
    /\ DiskMayFail
    /\ pc[t] = "open"
    /\ Return(t, "500")
    /\ UNCHANGED <<files, name, size, sent, history>>

(* One turn of the receive loop: a chunk arrives and is written, unless the  *)
(* stream is or goes bad; the loop goes on either way.                       *)
UploadReceive(t) ==
    /\ pc[t] = "receive" /\ pos[t] < size[t]
    /\ pos' = [pos EXCEPT ![t] = pos[t] + 1]
    /\ \/ /\ ~bad[t]
          /\ data' = [data EXCEPT ![inode[t]] = WriteAt(data[inode[t]], pos[t], t)]
          /\ UNCHANGED bad
       \/ /\ bad[t] \/ DiskMayFail
          /\ bad' = [bad EXCEPT ![t] = TRUE]
          /\ UNCHANGED data
    /\ UNCHANGED <<dir, pc, name, size, inode, sent, reply, history>>

(* SSL_read fails: close and remove(fullPath). *)
UploadReadError(t) ==
    /\ pc[t] = "receive" /\ pos[t] < size[t]
    /\ dir' = [dir EXCEPT ![name[t]] = NoInode]
    /\ Return(t, "500")
    /\ UNCHANGED <<data, name, size, sent, history>>

(* All of the file has arrived; ofs.close() succeeds on a good stream. *)
UploadComplete(t) ==
    /\ pc[t] = "receive" /\ pos[t] = size[t] /\ ~bad[t]
    /\ Return(t, "200")
    /\ stored' = IF name[t] \in spoiled THEN stored
                 ELSE [stored EXCEPT ![name[t]] =
                        [inode |-> inode[t], uploader |-> t, size |-> size[t]]]
    /\ UNCHANGED <<files, name, size, sent, spoiled, wanted>>

(* The stream is bad, or goes bad in ofs.close(): remove(fullPath). *)
UploadWriteError(t) ==
    /\ pc[t] = "receive" /\ pos[t] = size[t] /\ (bad[t] \/ DiskMayFail)
    /\ dir' = [dir EXCEPT ![name[t]] = NoInode]
    /\ Return(t, "500")
    /\ UNCHANGED <<data, name, size, sent, history>>

-----------------------------------------------------------------------------
(* handleGetImage *)

(* std::ifstream file(imagePath): "Image not found" is the answer to every    *)
(* open that fails, also of a file that is there.                             *)
GetOpen(t, n) ==
    /\ pc[t] = "idle"
    /\ name' = [name EXCEPT ![t] = n]
    /\ \/ /\ dir[n] = NoInode \/ DiskMayFail
          /\ Return(t, "404") /\ UNCHANGED wanted
       \/ /\ dir[n] # NoInode
          /\ pc' = [pc EXCEPT ![t] = "announce"]
          /\ inode' = [inode EXCEPT ![t] = dir[n]]
          /\ wanted' = [wanted EXCEPT ![t] = stored[n]]
          /\ UNCHANGED <<pos, bad, reply>>
    /\ UNCHANGED <<files, size, sent, stored, spoiled>>

(* seekg to the end, tellg, and the size goes out as eight bytes. *)
GetAnnounce(t) ==
    /\ pc[t] = "announce"
    /\ size' = [size EXCEPT ![t] = Len(data[inode[t]])]
    /\ pc' = [pc EXCEPT ![t] = "send"]
    /\ UNCHANGED <<files, name, inode, pos, bad, sent, reply, history>>

(* One turn of the send loop: the file is read up to whatever its end is now. *)
GetSend(t) ==
    /\ pc[t] = "send" /\ pos[t] < Len(data[inode[t]])
    /\ sent' = [sent EXCEPT ![t] = Append(sent[t], data[inode[t]][pos[t] + 1])]
    /\ pos' = [pos EXCEPT ![t] = pos[t] + 1]
    /\ UNCHANGED <<files, pc, name, size, inode, bad, reply, history>>

(* file.read reaches the end of the file and sets eofbit. *)
GetEof(t) ==
    /\ pc[t] = "send" /\ pos[t] >= Len(data[inode[t]])
    /\ Return(t, "sent")
    /\ UNCHANGED <<files, name, size, sent, history>>

(* SSL_write fails: the handler gives up. *)
GetWriteError(t) ==
    /\ pc[t] \in {"announce", "send"}
    /\ Return(t, "gone")
    /\ UNCHANGED <<files, name, size, sent, history>>

(* file.read fails on an I/O error: badbit, not eofbit, so that every further *)
(* turn of while (!file.eof()) reads nothing and the loop never ends.         *)
GetReadError(t) ==
    /\ DiskMayFail
    /\ pc[t] = "send"
    /\ pc' = [pc EXCEPT ![t] = "stuck"]
    /\ UNCHANGED <<files, name, size, inode, pos, bad, sent, reply, history>>

-----------------------------------------------------------------------------
(* handleClientSSL writes the reply (UPLOAD) or ends the connection          *)
(* (GET_IMAGE); the thread, or the next one, takes another command.          *)
Respond(t) ==
    /\ pc[t] = "reply"
    /\ pc' = [pc EXCEPT ![t] = "idle"]
    /\ name' = [name EXCEPT ![t] = BadName]
    /\ size' = [size EXCEPT ![t] = 0]
    /\ sent' = [sent EXCEPT ![t] = <<>>]
    /\ reply' = [reply EXCEPT ![t] = "none"]
    /\ wanted' = [wanted EXCEPT ![t] = NoImage]
    /\ UNCHANGED <<files, inode, pos, bad, stored, spoiled>>

(* The process dies and is started again: files stay as far as they are      *)
(* written, nothing on start-up looks at them.                               *)
Restart ==
    /\ \E t \in Threads : pc[t] # "idle"
    /\ spoiled' = spoiled \cup {name[t] : t \in {u \in Threads : Uploading(u)}}
    /\ pc' = [t \in Threads |-> "idle"]
    /\ name' = [t \in Threads |-> BadName]
    /\ size' = [t \in Threads |-> 0]
    /\ inode' = [t \in Threads |-> NoInode]
    /\ pos' = [t \in Threads |-> 0]
    /\ bad' = [t \in Threads |-> FALSE]
    /\ sent' = [t \in Threads |-> <<>>]
    /\ reply' = [t \in Threads |-> "none"]
    /\ wanted' = [t \in Threads |-> NoImage]
    /\ UNCHANGED <<files, stored>>

(* The steps a thread takes on its own once it has a command. *)
GetStep(t) == GetAnnounce(t) \/ GetSend(t) \/ GetEof(t)

GetFault(t) == GetWriteError(t) \/ GetReadError(t)

UploadStep(t) ==
    \/ UploadOpen(t) \/ UploadOpenFails(t)
    \/ UploadReceive(t) \/ UploadReadError(t)
    \/ UploadComplete(t) \/ UploadWriteError(t)

Next ==
    \/ \E t \in Threads :
          \/ \E n \in Names \cup {BadName}, k \in 1..MaxChunks : UploadCheck(t, n, k)
          \/ \E n \in Names : GetOpen(t, n)
          \/ UploadStep(t) \/ GetStep(t) \/ GetFault(t) \/ Respond(t)
    \/ Restart

Spec == Init /\ [][Next]_vars

(* The scheduler runs every thread, and a GET_IMAGE client reads what it is  *)
(* sent or hangs up, so that SSL_write returns.                              *)
FairSpec == Spec /\ \A t \in Threads : WF_vars(GetStep(t))

-----------------------------------------------------------------------------
(***************************************************************************)
(* Refinement: the image of a name is what its file holds, unless an upload *)
(* is under way; the name is then, and once it is spoiled, without one.     *)
(***************************************************************************)
ImageOf(n) ==
    IF n \in spoiled \/ dir[n] = NoInode \/ \E t \in Threads : Uploading(t) /\ name[t] = n
    THEN <<>> ELSE data[dir[n]]

AbstractPhase(t) ==
    CASE pc[t] = "idle"  -> "idle"
      [] pc[t] = "reply" -> "answered"
      [] Uploading(t)    -> "upload"
      [] Reading(t)      -> "get"

AbstractImage(t) ==
    CASE Uploading(t) -> Image(t, size[t])
      [] Reading(t) /\ wanted[t] # NoImage -> Image(wanted[t].uploader, wanted[t].size)
      [] OTHER -> <<>>

Delivered(t) ==
    IF reply[t] = "sent" THEN [announced |-> size[t], chunks |-> sent[t]]
    ELSE [announced |-> 0, chunks |-> <<>>]

Promise == INSTANCE ImageFiles WITH
              NoName    <- BadName,
              Images    <- {Image(t, k) : t \in Threads, k \in 1..MaxChunks},
              images    <- [n \in Names |-> ImageOf(n)],
              phase     <- [t \in Threads |-> AbstractPhase(t)],
              image     <- [t \in Threads |-> AbstractImage(t)],
              answer    <- reply,
              delivered <- [t \in Threads |-> Delivered(t)]

-----------------------------------------------------------------------------
(* Properties *)

(* Type correctness of the files and of the state of every thread. *)
TypeOK ==
    /\ dir \in [Names -> Inodes \cup {NoInode}]
    /\ data \in [Inodes -> Seq(Threads \cup {Hole})]
    /\ pc \in [Threads -> {"idle", "open", "receive", "announce", "send", "stuck", "reply"}]
    /\ name \in [Threads -> Names \cup {BadName}]
    /\ size \in [Threads -> Nat]
    /\ inode \in [Threads -> Inodes \cup {NoInode}]
    /\ pos \in [Threads -> Nat]
    /\ bad \in [Threads -> BOOLEAN]
    /\ sent \in [Threads -> Seq(Threads \cup {Hole})]
    /\ reply \in [Threads -> {"none", "200", "400", "404", "409", "500", "sent", "gone"}]
    /\ stored \in [Names -> StoredImage \cup {NoImage}]
    /\ spoiled \subseteq Names
    /\ wanted \in [Threads -> StoredImage \cup {NoImage}]
    /\ \A t \in Threads : Uploading(t) => name[t] \in Names
    /\ \A t \in Threads : pc[t] = "receive" \/ Reading(t) => inode[t] \in Inodes

(* An image whose upload was answered with 200, and that no second upload of  *)
(* the name ran into, stays: whatever other uploads, failures and restarts    *)
(* follow, its name is linked to exactly the chunks the client sent.          *)
StoredImageStays ==
    \A n \in Names : stored[n] # NoImage =>
        /\ dir[n] = stored[n].inode
        /\ data[stored[n].inode] = Image(stored[n].uploader, stored[n].size)

(* No half-received file is left behind by an upload that failed: outside of  *)
(* uploads under way, racing uploads and restarts, what exists() finds is an  *)
(* image that was stored, so a failed upload can be repeated.                 *)
NoLeftovers ==
    \A n \in Names \ spoiled :
        (dir[n] # NoInode /\ \A t \in Threads : ~(Uploading(t) /\ name[t] = n))
            => stored[n] # NoImage

(* A file no upload is under way for stays as it is, stored image or not: an   *)
(* upload that meets it is refused, and no remove() or write of another name   *)
(* hits it.  So does the part of an image that the end of a process, or two   *)
(* uploads of one name, have left: it is served as it is, and that upload can  *)
(* never be repeated.                                                         *)
FilesAtRestStay ==
    [][\A n \in Names :
        (dir[n] # NoInode /\ \A t \in Threads : ~(Uploading(t) /\ name[t] = n))
            => dir'[n] = dir[n] /\ data'[dir[n]] = data[dir[n]]]_vars

(* A GET_IMAGE of a stored image that runs to its end has announced the size  *)
(* of that image and sent its chunks, all of them and no others.              *)
GetSendsStoredImage ==
    \A t \in Threads : (reply[t] = "sent" /\ wanted[t] # NoImage) =>
        /\ size[t] = wanted[t].size
        /\ sent[t] = Image(wanted[t].uploader, wanted[t].size)

(* The numbers a client would read as others. *)
Misread ==
    {Number(v) : v \in {w \in UInt64 :
        ReadInNetworkOrder(Memory(htonll(w), 8)) # Number(w)}}

(* The eight bytes that announce the size leave in network order, whatever    *)
(* the machine: the client knows how many chunks to wait for.                 *)
AnnouncedSizeArrives ==
    \A t \in Threads : pc[t] \in {"send", "stuck"} => size[t] \notin Misread

(* Uploads and transfers keep the promises of ImageFiles: an image is there   *)
(* from the instant its upload is acknowledged, an upload is refused for a     *)
(* reason, 404 means that there was no image or that the disk has failed, and *)
(* no transfer mixes images, or ends before as much was sent as was announced. *)
ImplementsImageFiles == Promise!Spec

(* The answer "Image uploaded successfully" (ImageHandler.cpp:57) with the    *)
(* path of the image: the image is there when the answer is given.            *)
UploadedSuccessfully ==
    [][\A t \in Threads : (pc[t] = "receive" /\ reply'[t] = "200") =>
            /\ dir'[name[t]] # NoInode
            /\ data'[dir'[name[t]]] = Image(t, size[t])]_vars

(* A GET_IMAGE that meets no read error ends, also while the file it reads is *)
(* being written.                                                             *)
GetImageEndsUnlessStuck ==
    \A t \in Threads : Reading(t) ~> ~Reading(t) \/ pc[t] = "stuck"

(* A GET_IMAGE comes to its end, and client_thread_func to the closing of the *)
(* connection (TcpServer.cpp:39).                                             *)
GetImageEnds == \A t \in Threads : Reading(t) ~> ~Reading(t)
=============================================================================
