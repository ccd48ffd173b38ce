------------------------- MODULE ImageStore_proofs --------------------------
(***************************************************************************)
(* Proofs about ImageStore, for any number of threads, names and inodes.    *)
(*                                                                          *)
(* No image that was stored alone is harmed, because the name of such an    *)
(* image has no uploader left (Alone, StoredClosed), the inode of a stream  *)
(* is linked to no other name and written by no stream of another name      *)
(* (OwnInode), and the stream of the only uploader of a name holds what has *)
(* arrived (Receiving).                                                     *)
(*                                                                          *)
(* A thread that reads a name nobody has spoiled reads one image, also      *)
(* while it is being written, after it was removed, and when its disk       *)
(* failed half-way (Begun, ReaderInode, Parts): with that, every step is    *)
(* one of ImageFiles (Refinement).                                          *)
(***************************************************************************)
EXTENDS ImageStore, EndianUtils_proofs

(* The GetOpen that succeeds. *)
Opens(t, n) ==
    /\ dir[n] # NoInode
    /\ pc' = [pc EXCEPT ![t] = "announce"]
    /\ inode' = [inode EXCEPT ![t] = dir[n]]
    /\ wanted' = [wanted EXCEPT ![t] = stored[n]]
    /\ UNCHANGED <<pos, bad, reply>>

(* A name that is not spoiled has one uploader at most. *)
Alone ==
    \A t, u \in Threads :
        Uploading(t) /\ Uploading(u) /\ name[t] = name[u] /\ name[t] \notin spoiled => t = u

(* A stored image has no uploader, and its name is not spoiled. *)
StoredClosed ==
    \A n \in Names : stored[n] # NoImage =>
        n \notin spoiled /\ \A t \in Threads : Uploading(t) => name[t] # n

(* The inode a thread writes belongs to its name and to no other. *)
OwnInode ==
    /\ \A m, n \in Names : dir[m] = dir[n] /\ dir[m] # NoInode => m = n
    /\ \A t \in Threads : pc[t] = "receive" =>
          /\ \A n \in Names : dir[n] = inode[t] => n = name[t]
          /\ \A u \in Threads : pc[u] = "receive" /\ inode[u] = inode[t] => name[u] = name[t]

(* An upload under way has a size. *)
SizeKnown == \A t \in Threads : Uploading(t) => size[t] \in 1..MaxChunks

(* What the only uploader of a name has made of it so far. *)
Receiving ==
    \A t \in Threads :
        /\ pc[t] = "open" => pos[t] = 0 /\ ~bad[t]
        /\ pc[t] = "open" /\ name[t] \notin spoiled => dir[name[t]] = NoInode
        /\ pc[t] = "receive" /\ name[t] \notin spoiled =>
              /\ dir[name[t]] = inode[t]
              /\ ~bad[t] => data[inode[t]] = Image(t, pos[t])

(* A thread between two commands has no stream, and one that has not returned *)
(* has no outcome.                                                            *)
Quiet ==
    \A t \in Threads :
        /\ pc[t] \in {"idle", "announce", "reply"} => pos[t] = 0 /\ ~bad[t]
        /\ pc[t] \in {"idle", "announce"} => sent[t] = <<>>
        /\ pc[t] # "reply" => reply[t] = "none"

(* A thread that reads a stored image has its inode, and sends it in order. *)
SendingOf(t) ==
    wanted[t] # NoImage =>
        /\ pc[t] \notin {"idle", "open", "receive"}
        /\ Reading(t) => /\ name[t] \in Names
                         /\ stored[name[t]] = wanted[t]
                         /\ inode[t] = wanted[t].inode
        /\ pc[t] \in {"send", "stuck"} =>
              /\ size[t] = wanted[t].size /\ pos[t] <= size[t]
              /\ sent[t] = Image(wanted[t].uploader, pos[t])

Sending == \A t \in Threads : SendingOf(t)

(* What has been written of an image is its beginning, also behind a failure. *)
BegunBy(t) ==
    (pc[t] = "receive" /\ name[t] \notin spoiled) =>
        pos[t] <= size[t] /\ \E k \in 0..pos[t] : data[inode[t]] = Image(t, k)

Begun == \A t \in Threads : BegunBy(t)

(* The inode a thread reads belongs to its name, if to any. *)
ReaderInode ==
    \A t \in Threads : Reading(t) =>
        /\ name[t] \in Names
        /\ \A n \in Names : dir[n] = inode[t] => n = name[t]
        /\ \A u \in Threads : pc[u] = "receive" /\ inode[u] = inode[t] => name[u] = name[t]

(* t reads k chunks of u, has sent some, and has announced no more of them. *)
Reads(t, u, k) ==
    /\ data[inode[t]] = Image(u, k)
    /\ pos[t] <= k /\ sent[t] = Image(u, pos[t])
    /\ pc[t] \in {"send", "stuck"} => size[t] <= k

(* A thread that reads a name that is not spoiled reads the chunks of one     *)
(* upload, finished or not.                                                   *)
PartOf(t) ==
    (Reading(t) /\ name[t] \notin spoiled) =>
        \E u \in Threads, k \in 0..MaxChunks : Reads(t, u, k)

Parts == \A t \in Threads : PartOf(t)

SInv == SizeKnown /\ Alone /\ StoredClosed /\ OwnInode /\ Receiving /\ Quiet /\ StoredImageStays

-----------------------------------------------------------------------------
(* Writing at the end of the chunks of t makes one chunk more of them. *)
LEMMA WriteAtEnd ==
    ASSUME NEW t \in Threads, NEW p \in Nat
    PROVE  WriteAt(Image(t, p), p, t) = Image(t, p + 1)
<1>1. Len(Image(t, p)) = p
  BY DEF Image
<1>2. WriteAt(Image(t, p), p, t) =
         [i \in 1..(p + 1) |-> IF i = p + 1 THEN t ELSE IF i <= p THEN Image(t, p)[i] ELSE Hole]
  BY <1>1 DEF WriteAt
<1> QED
  BY <1>2 DEF Image

(* A write leaves a sequence of chunks. *)
LEMMA WriteAtType ==
    ASSUME NEW t \in Threads, NEW s \in Seq(Threads \cup {Hole}), NEW p \in Nat
    PROVE  WriteAt(s, p, t) \in Seq(Threads \cup {Hole})
<1> DEFINE m == IF Len(s) > p THEN Len(s) ELSE p + 1
<1>1. m \in Nat
  OBVIOUS
<1>2. \A i \in 1..m : (IF i = p + 1 THEN t ELSE IF i <= Len(s) THEN s[i] ELSE Hole)
                         \in Threads \cup {Hole}
  OBVIOUS
<1> QED
  BY <1>1, <1>2 DEF WriteAt

-----------------------------------------------------------------------------
LEMMA TypeStep == TypeOK /\ SizeKnown /\ [Next]_vars => TypeOK'
<1> SUFFICES ASSUME TypeOK, SizeKnown, [Next]_vars PROVE TypeOK'
  OBVIOUS
<1> USE ImageStoreAssumption DEF TypeOK, Uploading, Reading, files, history, Return
<1>1. ASSUME NEW t \in Threads, NEW n \in Names \cup {BadName}, NEW k \in 1..MaxChunks,
             UploadCheck(t, n, k)
      PROVE  TypeOK'
  <2>1. CASE n = BadName /\ Return(t, "400") /\ UNCHANGED <<files, size, sent, history>>
    BY <1>1, <2>1 DEF UploadCheck
  <2>2. CASE Return(t, "409") /\ UNCHANGED <<files, size, sent, history>>
    BY <1>1, <2>2 DEF UploadCheck
  <2>3. CASE n \in Names /\ dir[n] = NoInode /\ pc' = [pc EXCEPT ![t] = "open"]
    <3>1. /\ name' = [name EXCEPT ![t] = n] /\ size' = [size EXCEPT ![t] = k]
          /\ spoiled' \subseteq Names
          /\ UNCHANGED <<files, sent, stored, wanted, inode, pos, bad, reply>>
      BY <1>1, <2>3 DEF UploadCheck
    <3>2. k \in Nat
      OBVIOUS
    <3> QED
      BY <2>3, <3>1, <3>2
  <2> QED
    BY <1>1, <2>1, <2>2, <2>3 DEF UploadCheck
<1>2. ASSUME NEW t \in Threads, NEW n \in Names, GetOpen(t, n) PROVE TypeOK'
  <2>1. CASE Return(t, "404") /\ UNCHANGED <<files, size, sent, history>>
    BY <1>2, <2>1 DEF GetOpen
  <2>2. CASE Opens(t, n)
    <3>1. /\ pc' = [pc EXCEPT ![t] = "announce"]
          /\ name' = [name EXCEPT ![t] = n]
          /\ inode' = [inode EXCEPT ![t] = dir[n]]
          /\ wanted' = [wanted EXCEPT ![t] = stored[n]]
          /\ UNCHANGED <<files, size, sent, stored, spoiled, pos, bad, reply>>
      BY <1>2, <2>2 DEF GetOpen, Opens
    <3>2. dir[n] \in Inodes /\ stored[n] \in StoredImage \cup {NoImage}
      BY <2>2 DEF Opens
    <3> QED
      BY <3>1, <3>2
  <2> QED
    BY <1>2, <2>1, <2>2 DEF GetOpen, Opens
<1>3. ASSUME NEW t \in Threads, UploadOpen(t) PROVE TypeOK'
  BY <1>3 DEF UploadOpen
<1>4. ASSUME NEW t \in Threads, UploadOpenFails(t) PROVE TypeOK'
  BY <1>4 DEF UploadOpenFails
<1>5. ASSUME NEW t \in Threads, UploadReceive(t) PROVE TypeOK'
  <2>1. data' \in [Inodes -> Seq(Threads \cup {Hole})]
    <3>1. inode[t] \in Inodes /\ data[inode[t]] \in Seq(Threads \cup {Hole}) /\ pos[t] \in Nat
      BY <1>5 DEF UploadReceive
    <3>2. WriteAt(data[inode[t]], pos[t], t) \in Seq(Threads \cup {Hole})
      BY <3>1, WriteAtType
    <3> QED
      BY <1>5, <3>2 DEF UploadReceive
  <2>2. bad' \in [Threads -> BOOLEAN] /\ pos' \in [Threads -> Nat]
    <3>1. pos' = [pos EXCEPT ![t] = pos[t] + 1] /\ pos[t] \in Nat
      BY <1>5 DEF UploadReceive
    <3>2. bad' = bad \/ bad' = [bad EXCEPT ![t] = TRUE]
      BY <1>5 DEF UploadReceive
    <3>3. pos' \in [Threads -> Nat]
      BY <3>1
    <3>4. bad' \in [Threads -> BOOLEAN]
      <4>1. bad' = bad => bad' \in [Threads -> BOOLEAN]
        OBVIOUS
      <4>2. bad' = [bad EXCEPT ![t] = TRUE] => bad' \in [Threads -> BOOLEAN]
        OBVIOUS
      <4> QED
        BY <3>2, <4>1, <4>2
    <3> QED
      BY <3>3, <3>4
  <2> QED
    BY <1>5, <2>1, <2>2 DEF UploadReceive
<1>6. ASSUME NEW t \in Threads, UploadReadError(t) PROVE TypeOK'
  BY <1>6 DEF UploadReadError
<1>7. ASSUME NEW t \in Threads, UploadComplete(t) PROVE TypeOK'
  <2>1. [inode |-> inode[t], uploader |-> t, size |-> size[t]] \in StoredImage
    BY <1>7 DEF UploadComplete, StoredImage, SizeKnown
  <2>2. name[t] \in Names /\ stored' \in [Names -> StoredImage \cup {NoImage}]
    BY <1>7, <2>1 DEF UploadComplete
  <2> QED
    BY <1>7, <2>2 DEF UploadComplete
<1>8. ASSUME NEW t \in Threads, UploadWriteError(t) PROVE TypeOK'
  BY <1>8 DEF UploadWriteError
<1>9. ASSUME NEW t \in Threads, GetAnnounce(t) PROVE TypeOK'
  BY <1>9 DEF GetAnnounce
<1>10. ASSUME NEW t \in Threads, GetSend(t) PROVE TypeOK'
  BY <1>10 DEF GetSend
<1>11. ASSUME NEW t \in Threads, GetEof(t) PROVE TypeOK'
  BY <1>11 DEF GetEof
<1>12. ASSUME NEW t \in Threads, GetFault(t) PROVE TypeOK'
  <2>1. CASE GetWriteError(t)
    BY <2>1 DEF GetWriteError
  <2>2. CASE GetReadError(t)
    BY <2>2 DEF GetReadError
  <2> QED
    BY <1>12, <2>1, <2>2 DEF GetFault
<1>13. ASSUME NEW t \in Threads, Respond(t) PROVE TypeOK'
  BY <1>13 DEF Respond
<1>14. CASE Restart
  BY <1>14 DEF Restart
<1>15. CASE UNCHANGED vars
  BY <1>15 DEF vars
<1> QED
  BY <1>1, <1>2, <1>3, <1>4, <1>5, <1>6, <1>7, <1>8, <1>9, <1>10, <1>11, <1>12, <1>13, <1>14, <1>15
  DEF Next, UploadStep, GetStep

-----------------------------------------------------------------------------
(* Steps, by what they do to uploads and files. *)

(* No thread but t moves. *)
Others(t) ==
    \A s \in Threads \ {t} :
        /\ pc'[s] = pc[s] /\ name'[s] = name[s] /\ size'[s] = size[s]
        /\ inode'[s] = inode[s] /\ pos'[s] = pos[s] /\ bad'[s] = bad[s]
        /\ sent'[s] = sent[s] /\ reply'[s] = reply[s] /\ wanted'[s] = wanted[s]

(* t begins an upload of n. *)
Starts(t, n) ==
    /\ Others(t) /\ pc[t] = "idle" /\ dir[n] = NoInode
    /\ pc'[t] = "open" /\ name'[t] = n /\ size'[t] \in 1..MaxChunks
    /\ pos'[t] = pos[t] /\ bad'[t] = bad[t]
    /\ spoiled' = IF \E u \in Threads : Uploading(u) /\ name[u] = n
                  THEN spoiled \cup {n} ELSE spoiled
    /\ UNCHANGED <<files, stored>>

(* t ends its upload by a remove(). *)
Removes(t) ==
    /\ Others(t) /\ pc[t] = "receive" /\ pc'[t] = "reply"
    /\ dir' = [dir EXCEPT ![name[t]] = NoInode]
    /\ UNCHANGED <<data, stored, spoiled>>

(* t, if it was uploading, has not opened its file; afterwards it is not uploading. *)
Passes(t) ==
    /\ Others(t) /\ pc[t] # "receive" /\ pc'[t] \notin {"open", "receive"}
    /\ UNCHANGED <<files, stored, spoiled>>

LEMMA OthersStay ==
    ASSUME TypeOK, NEW t \in Threads,
           \/ \E n \in Names \cup {BadName}, k \in 1..MaxChunks : UploadCheck(t, n, k)
           \/ \E n \in Names : GetOpen(t, n)
           \/ UploadStep(t) \/ GetStep(t) \/ GetFault(t) \/ Respond(t)
    PROVE  Others(t)
<1> USE DEF Others, TypeOK, Return
<1>1. ASSUME NEW n \in Names \cup {BadName}, NEW k \in 1..MaxChunks, UploadCheck(t, n, k)
      PROVE  Others(t)
  BY <1>1 DEF UploadCheck
<1>2. ASSUME NEW n \in Names, GetOpen(t, n) PROVE Others(t)
  <2>1. CASE Return(t, "404") /\ UNCHANGED <<wanted, size, sent>>
    BY <1>2, <2>1 DEF GetOpen
  <2>2. CASE Opens(t, n)
    <3>1. /\ pc' = [pc EXCEPT ![t] = "announce"]
          /\ name' = [name EXCEPT ![t] = n]
          /\ inode' = [inode EXCEPT ![t] = dir[n]]
          /\ wanted' = [wanted EXCEPT ![t] = stored[n]]
          /\ UNCHANGED <<size, pos, bad, sent, reply>>
      BY <1>2, <2>2 DEF GetOpen, Opens
    <3> QED
      BY <3>1
  <2> QED
    BY <1>2, <2>1, <2>2 DEF GetOpen, Opens
<1>3. ASSUME UploadStep(t) PROVE Others(t)
  <2>1. CASE UploadOpen(t)
    BY <2>1 DEF UploadOpen, history
  <2>2. CASE UploadReceive(t)
    <3>1. /\ pos' = [pos EXCEPT ![t] = pos[t] + 1]
          /\ bad' = bad \/ bad' = [bad EXCEPT ![t] = TRUE]
          /\ UNCHANGED <<pc, name, size, inode, sent, reply, wanted>>
      BY <2>2 DEF UploadReceive, history
    <3> QED
      BY <3>1
  <2>3. CASE \/ UploadOpenFails(t) \/ UploadReadError(t)
             \/ UploadComplete(t) \/ UploadWriteError(t)
    <3>1. \E r \in {"200", "500"} : Return(t, r) /\ UNCHANGED <<name, size, sent, wanted>>
      BY <2>3 DEF UploadOpenFails, UploadReadError, UploadComplete, UploadWriteError, history
    <3> QED
      BY <3>1
  <2> QED
    BY <1>3, <2>1, <2>2, <2>3 DEF UploadStep
<1>4. ASSUME GetStep(t) PROVE Others(t)
  BY <1>4 DEF GetStep, GetAnnounce, GetSend, GetEof, history
<1>5. ASSUME GetFault(t) PROVE Others(t)
  BY <1>5 DEF GetFault, GetWriteError, GetReadError, history
<1>6. ASSUME Respond(t) PROVE Others(t)
  BY <1>6 DEF Respond
<1> QED
  BY <1>1, <1>2, <1>3, <1>4, <1>5, <1>6

LEMMA StepKinds ==
    ASSUME TypeOK, Next
    PROVE  \/ \E t \in Threads, n \in Names : Starts(t, n)
           \/ \E t \in Threads : /\ Others(t)
                                 /\ \/ UploadOpen(t) \/ UploadReceive(t) \/ UploadComplete(t)
           \/ \E t \in Threads : Removes(t) \/ Passes(t)
           \/ Restart
<1>1. ASSUME NEW t \in Threads, NEW n \in Names \cup {BadName}, NEW k \in 1..MaxChunks,
             UploadCheck(t, n, k)
      PROVE  Passes(t) \/ (n \in Names /\ Starts(t, n))
  <2>1. Others(t)
    BY <1>1, OthersStay
  <2>2. CASE \E r \in {"400", "409"} : Return(t, r) /\ UNCHANGED spoiled
    BY <1>1, <2>1, <2>2 DEF UploadCheck, Passes, Return, TypeOK, files
  <2>3. CASE n \in Names /\ dir[n] = NoInode /\ pc' = [pc EXCEPT ![t] = "open"]
    <3>1. /\ pc[t] = "idle"
          /\ name' = [name EXCEPT ![t] = n] /\ size' = [size EXCEPT ![t] = k]
          /\ spoiled' = IF \E u \in Threads : Uploading(u) /\ name[u] = n
                        THEN spoiled \cup {n} ELSE spoiled
          /\ UNCHANGED <<files, stored, pos, bad>>
      BY <1>1, <2>3, ImageStoreAssumption DEF UploadCheck
    <3> QED
      BY <2>1, <2>3, <3>1 DEF Starts, TypeOK
  <2> QED
    BY <1>1, <2>2, <2>3 DEF UploadCheck
<1>2. ASSUME NEW t \in Threads, NEW n \in Names, GetOpen(t, n) PROVE Passes(t)
  <2>1. Others(t)
    BY <1>2, OthersStay
  <2> QED
    BY <1>2, <2>1 DEF GetOpen, Passes, Return, TypeOK, files
<1>3. ASSUME NEW t \in Threads, UploadReadError(t) \/ UploadWriteError(t) PROVE Removes(t)
  <2>1. Others(t)
    BY <1>3, OthersStay DEF UploadStep
  <2> QED
    BY <1>3, <2>1
    DEF UploadReadError, UploadWriteError, Removes, Return, TypeOK, history
<1>4. ASSUME NEW t \in Threads,
             UploadOpenFails(t) \/ GetStep(t) \/ GetFault(t) \/ Respond(t)
      PROVE  Passes(t)
  <2>1. Others(t)
    BY <1>4, OthersStay DEF UploadStep
  <2> QED
    BY <1>4, <2>1
    DEF UploadOpenFails, GetStep, GetFault, GetAnnounce, GetSend, GetEof, GetWriteError,
        GetReadError, Respond, Passes, Return, TypeOK, files, history
<1>5. ASSUME NEW t \in Threads, UploadOpen(t) \/ UploadReceive(t) \/ UploadComplete(t)
      PROVE  Others(t)
  BY <1>5, OthersStay DEF UploadStep
<1> QED
  BY <1>1, <1>2, <1>3, <1>4, <1>5 DEF Next, UploadStep

-----------------------------------------------------------------------------
LEMMA AloneStep ==
    ASSUME TypeOK, SInv, Next
    PROVE  SizeKnown' /\ Alone' /\ StoredClosed'
<1> USE DEF Uploading
<1>1. \A n \in Names : stored[n] # NoImage => dir[n] # NoInode
  BY ImageStoreAssumption DEF SInv, StoredImageStays, StoredImage, TypeOK
<1>2. ASSUME NEW t \in Threads, NEW n \in Names, Starts(t, n)
      PROVE  SizeKnown' /\ Alone' /\ StoredClosed'
  BY <1>1, <1>2 DEF Starts, Others, SInv, SizeKnown, Alone, StoredClosed
<1>3. ASSUME NEW t \in Threads, Others(t), UNCHANGED <<stored, spoiled>>,
             Uploading(t)' => /\ Uploading(t)
                              /\ name'[t] = name[t] /\ size'[t] = size[t]
      PROVE  SizeKnown' /\ Alone' /\ StoredClosed'
  BY <1>3 DEF Others, SInv, SizeKnown, Alone, StoredClosed
<1>4. ASSUME NEW t \in Threads, Others(t), UploadComplete(t)
      PROVE  SizeKnown' /\ Alone' /\ StoredClosed'
  <2>1. /\ pc[t] = "receive" /\ pc'[t] = "reply" /\ spoiled' = spoiled
        /\ name[t] \in Names
        /\ \A n \in Names : stored'[n] # stored[n] => n = name[t] /\ n \notin spoiled
    BY <1>4 DEF UploadComplete, Return, TypeOK
  <2>2. SizeKnown' /\ Alone'
    BY <1>4, <2>1 DEF Others, SInv, SizeKnown, Alone
  <2>3. StoredClosed'
    BY <1>4, <2>1 DEF Others, SInv, Alone, StoredClosed
  <2> QED
    BY <2>2, <2>3
<1>5. CASE Restart
  BY <1>5 DEF Restart, SInv, SizeKnown, Alone, StoredClosed
<1>6. ASSUME NEW t \in Threads, UploadOpen(t) \/ UploadReceive(t), Others(t)
      PROVE  SizeKnown' /\ Alone' /\ StoredClosed'
  <2>1. /\ Uploading(t) /\ name'[t] = name[t] /\ size'[t] = size[t]
        /\ UNCHANGED <<stored, spoiled>>
    BY <1>6 DEF UploadOpen, UploadReceive, history
  <2> QED
    BY <1>3, <1>6, <2>1
<1>7. ASSUME NEW t \in Threads, Removes(t) \/ Passes(t)
      PROVE  SizeKnown' /\ Alone' /\ StoredClosed'
  BY <1>3, <1>7 DEF Removes, Passes
<1> QED
  BY <1>2, <1>4, <1>5, <1>6, <1>7, StepKinds

-----------------------------------------------------------------------------
LEMMA OwnInodeStep ==
    ASSUME TypeOK, SInv, Next
    PROVE  OwnInode'
<1> USE ImageStoreAssumption
<1>1. ASSUME NEW t \in Threads, Others(t), UNCHANGED dir,
             pc'[t] = "receive" => /\ pc[t] = "receive"
                                   /\ name'[t] = name[t] /\ inode'[t] = inode[t]
      PROVE  OwnInode'
  BY <1>1 DEF Others, SInv, OwnInode
<1>2. ASSUME NEW t \in Threads, NEW n \in Names, Starts(t, n) PROVE OwnInode'
  <2>1. Others(t) /\ UNCHANGED dir /\ pc'[t] = "open"
    BY <1>2 DEF Starts, files
  <2> QED
    BY <1>1, <2>1
<1>3. ASSUME NEW t \in Threads, Passes(t) PROVE OwnInode'
  <2>1. Others(t) /\ UNCHANGED dir /\ pc'[t] # "receive"
    BY <1>3 DEF Passes, files
  <2> QED
    BY <1>1, <2>1
<1>4. ASSUME NEW t \in Threads, Others(t), UploadReceive(t) PROVE OwnInode'
  BY <1>1, <1>4 DEF UploadReceive
<1>5. ASSUME NEW t \in Threads, Others(t), UploadComplete(t) PROVE OwnInode'
  <2>1. pc'[t] # "receive" /\ dir' = dir
    BY <1>5 DEF UploadComplete, Return, files, TypeOK
  <2> QED
    BY <1>1, <1>5, <2>1
<1>6. ASSUME NEW t \in Threads, Removes(t) PROVE OwnInode'
  <2>1. name[t] \in Names /\ \A s \in Threads : pc[s] = "receive" => inode[s] # NoInode
    BY <1>6 DEF Removes, TypeOK, Uploading
  <2>2. \A n \in Names : dir'[n] = dir[n] \/ dir'[n] = NoInode
    BY <1>6, <2>1 DEF Removes, TypeOK
  <2> QED
    BY <1>6, <2>1, <2>2 DEF Removes, Others, SInv, OwnInode
<1>7. ASSUME NEW t \in Threads, Others(t), UploadOpen(t) PROVE OwnInode'
  <2>1. PICK i \in Inodes :
            /\ IF dir[name[t]] = NoInode THEN i \in FreeInodes ELSE i = dir[name[t]]
            /\ dir' = [dir EXCEPT ![name[t]] = i]
            /\ inode' = [inode EXCEPT ![t] = i]
    BY <1>7 DEF UploadOpen
  <2>2. /\ pc[t] = "open" /\ pc'[t] = "receive" /\ name'[t] = name[t] /\ inode'[t] = i
        /\ name[t] \in Names
    BY <1>7, <2>1 DEF UploadOpen, TypeOK, Uploading
  <2>3. /\ \A n \in Names : n # name[t] => dir[n] # i
        /\ \A u \in Threads : pc[u] = "receive" /\ inode[u] = i => name[u] = name[t]
    BY <2>1, <2>2 DEF FreeInodes, SInv, OwnInode
  <2>4. \A n \in Names : dir'[n] = IF n = name[t] THEN i ELSE dir[n]
    BY <2>1, <2>2 DEF TypeOK
  <2> QED
    BY <1>7, <2>2, <2>3, <2>4 DEF Others, SInv, OwnInode
<1>8. CASE Restart
  BY <1>8 DEF Restart, files, SInv, OwnInode
<1> QED
  BY <1>2, <1>3, <1>4, <1>5, <1>6, <1>7, <1>8, StepKinds

-----------------------------------------------------------------------------
LEMMA ReceivingStep ==
    ASSUME TypeOK, SInv, Next
    PROVE  Receiving'
<1> USE DEF Uploading
<1>1. ASSUME NEW t \in Threads, NEW n \in Names, Starts(t, n) PROVE Receiving'
  BY <1>1 DEF Starts, Others, files, SInv, Receiving, Quiet
<1>2. ASSUME NEW t \in Threads, Passes(t) PROVE Receiving'
  BY <1>2 DEF Passes, Others, files, SInv, Receiving
<1>3. ASSUME NEW t \in Threads, Removes(t) PROVE Receiving'
  <2>1. name[t] \in Names
    BY <1>3 DEF Removes, TypeOK
  <2>2. \A u \in Threads \ {t} :
            Uploading(u) /\ name[u] \notin spoiled => dir'[name[u]] = dir[name[u]]
    <3>1. \A u \in Threads \ {t} :
              Uploading(u) /\ name[u] \notin spoiled => name[u] # name[t] /\ name[u] \in Names
      BY <1>3 DEF Removes, SInv, Alone, TypeOK
    <3> QED
      BY <1>3, <2>1, <3>1 DEF Removes, TypeOK
  <2> QED
    BY <1>3, <2>2 DEF Removes, Others, SInv, Receiving
<1>4. ASSUME NEW t \in Threads, Others(t), UploadComplete(t) PROVE Receiving'
  <2>1. pc'[t] = "reply" /\ UNCHANGED <<dir, data, spoiled>>
    BY <1>4 DEF UploadComplete, Return, files, TypeOK
  <2> QED
    BY <1>4, <2>1 DEF Others, SInv, Receiving
<1>5. ASSUME NEW t \in Threads, Others(t), UploadReceive(t) PROVE Receiving'
  <2>1. /\ pc[t] = "receive" /\ inode[t] \in Inodes /\ pos[t] \in Nat
        /\ pos'[t] = pos[t] + 1
        /\ UNCHANGED <<dir, pc, name, inode, spoiled>>
    BY <1>5 DEF UploadReceive, history, TypeOK
  <2>2. ~bad'[t] => ~bad[t] /\ data'[inode[t]] = WriteAt(data[inode[t]], pos[t], t)
    BY <1>5, <2>1 DEF UploadReceive, TypeOK
  <2>3. \A i \in Inodes : i # inode[t] => data'[i] = data[i]
    BY <1>5 DEF UploadReceive, TypeOK
  <2>4. ASSUME name[t] \notin spoiled, ~bad'[t]
        PROVE  data'[inode[t]] = Image(t, pos'[t])
    BY <2>1, <2>2, <2>4, WriteAtEnd DEF SInv, Receiving
  <2>5. \A u \in Threads \ {t} : pc[u] = "receive" /\ name[u] \notin spoiled
                                   => inode[u] # inode[t] /\ inode[u] \in Inodes
    BY <2>1 DEF SInv, OwnInode, Alone, TypeOK
  <2> QED
    BY <1>5, <2>1, <2>3, <2>4, <2>5 DEF Others, SInv, Receiving
<1>6. ASSUME NEW t \in Threads, Others(t), UploadOpen(t) PROVE Receiving'
  <2>1. PICK i \in Inodes :
            /\ IF dir[name[t]] = NoInode THEN i \in FreeInodes ELSE i = dir[name[t]]
            /\ dir' = [dir EXCEPT ![name[t]] = i]
            /\ data' = [data EXCEPT ![i] = <<>>]
            /\ inode' = [inode EXCEPT ![t] = i]
    BY <1>6 DEF UploadOpen
  <2>2. /\ pc[t] = "open" /\ pc'[t] = "receive" /\ name[t] \in Names
        /\ UNCHANGED <<name, pos, bad, spoiled>> /\ inode'[t] = i
        /\ pos[t] = 0 /\ dir'[name[t]] = i /\ data'[i] = <<>>
    BY <1>6, <2>1 DEF UploadOpen, history, TypeOK, SInv, Receiving
  <2>3. Image(t, 0) = <<>>
    BY DEF Image
  <2>4. ASSUME NEW u \in Threads \ {t}, pc[u] = "receive", name[u] \notin spoiled
        PROVE  dir'[name[u]] = dir[name[u]] /\ inode[u] # i /\ data'[inode[u]] = data[inode[u]]
    <3>1. name[u] # name[t] /\ name[u] \in Names /\ inode[u] \in Inodes
      BY <2>2, <2>4 DEF SInv, Alone, TypeOK
    <3>2. inode[u] # i
      BY <2>1, <2>2, <2>4, <3>1 DEF FreeInodes, SInv, OwnInode
    <3> QED
      BY <2>1, <3>1, <3>2 DEF TypeOK
  <2>5. ASSUME NEW u \in Threads \ {t}, pc[u] = "open", name[u] \notin spoiled
        PROVE  dir'[name[u]] = dir[name[u]]
    BY <2>1, <2>2, <2>5 DEF SInv, Alone, TypeOK
  <2>6. \A u \in Threads \ {t} :
            /\ pc'[u] = pc[u] /\ inode'[u] = inode[u] /\ name'[u] = name[u]
            /\ pos'[u] = pos[u] /\ bad'[u] = bad[u]
    BY <1>6 DEF Others
  <2>7. name'[t] = name[t] /\ pos'[t] = 0
    BY <2>2
  <2> QED
    BY <2>2, <2>3, <2>4, <2>5, <2>6, <2>7 DEF SInv, Receiving
<1>7. CASE Restart
  BY <1>7 DEF Restart, Receiving
<1> QED
  BY <1>1, <1>2, <1>3, <1>4, <1>5, <1>6, <1>7, StepKinds

-----------------------------------------------------------------------------
LEMMA StoredImageStep ==
    ASSUME TypeOK, SInv, Next
    PROVE  StoredImageStays'
<1>1. ASSUME UNCHANGED <<files, stored>> PROVE StoredImageStays'
  BY <1>1 DEF files, SInv, StoredImageStays
<1>2. ASSUME \A n \in Names : stored[n] # NoImage =>
                 /\ stored'[n] = stored[n] /\ dir'[n] = dir[n]
                 /\ data'[dir[n]] = data[dir[n]],
             \A n \in Names : stored[n] = NoImage => stored'[n] = NoImage
      PROVE  StoredImageStays'
  BY <1>2 DEF SInv, StoredImageStays
<1>3. ASSUME NEW t \in Threads, Removes(t) PROVE StoredImageStays'
  <2>1. name[t] \in Names /\ stored[name[t]] = NoImage
    BY <1>3 DEF Removes, TypeOK, Uploading, SInv, StoredClosed
  <2> QED
    BY <1>2, <1>3, <2>1 DEF Removes, TypeOK
<1>4. ASSUME NEW t \in Threads, UploadReceive(t) PROVE StoredImageStays'
  <2>1. /\ pc[t] = "receive" /\ name[t] \in Names /\ UNCHANGED <<dir, stored>>
        /\ \A i \in Inodes : i # inode[t] => data'[i] = data[i]
    BY <1>4 DEF UploadReceive, TypeOK, Uploading, history
  <2>2. \A n \in Names : stored[n] # NoImage => dir[n] # inode[t] /\ dir[n] \in Inodes
    BY <2>1 DEF SInv, StoredClosed, OwnInode, StoredImageStays, Uploading, TypeOK, StoredImage
  <2> QED
    BY <1>2, <2>1, <2>2
<1>5. ASSUME NEW t \in Threads, UploadOpen(t) PROVE StoredImageStays'
  <2>1. PICK i \in Inodes :
            /\ IF dir[name[t]] = NoInode THEN i \in FreeInodes ELSE i = dir[name[t]]
            /\ dir' = [dir EXCEPT ![name[t]] = i]
            /\ data' = [data EXCEPT ![i] = <<>>]
    BY <1>5 DEF UploadOpen
  <2>2. pc[t] = "open" /\ name[t] \in Names /\ stored' = stored
    BY <1>5 DEF UploadOpen, TypeOK, Uploading, history
  <2>3. \A n \in Names : stored[n] # NoImage =>
            n # name[t] /\ dir[n] # i /\ dir[n] \in Inodes
    <3>1. \A n \in Names : stored[n] # NoImage => n # name[t] /\ dir[n] \in Inodes
      BY <2>2 DEF SInv, StoredClosed, StoredImageStays, Uploading, TypeOK, StoredImage
    <3> QED
      BY <2>1, <2>2, <3>1 DEF FreeInodes, SInv, OwnInode
  <2> QED
    BY <1>2, <2>1, <2>2, <2>3 DEF TypeOK
<1>6. ASSUME NEW t \in Threads, UploadComplete(t) PROVE StoredImageStays'
  <2>1. /\ pc[t] = "receive" /\ name[t] \in Names /\ pos[t] = size[t] /\ ~bad[t]
        /\ UNCHANGED <<dir, data>>
        /\ stored' = IF name[t] \in spoiled THEN stored
                     ELSE [stored EXCEPT ![name[t]] =
                            [inode |-> inode[t], uploader |-> t, size |-> size[t]]]
    BY <1>6 DEF UploadComplete, TypeOK, Uploading, files
  <2>2. CASE name[t] \in spoiled
    BY <1>1, <2>1, <2>2 DEF files
  <2>3. CASE name[t] \notin spoiled
    <3>1. dir[name[t]] = inode[t] /\ data[inode[t]] = Image(t, size[t])
      BY <2>1, <2>3 DEF SInv, Receiving
    <3>2. /\ stored'[name[t]].inode = inode[t] /\ stored'[name[t]].uploader = t
          /\ stored'[name[t]].size = size[t]
      BY <2>1, <2>3 DEF TypeOK
    <3>3. \A n \in Names \ {name[t]} : stored'[n] = stored[n]
      BY <2>1, <2>3 DEF TypeOK
    <3> QED
      BY <2>1, <3>1, <3>2, <3>3 DEF SInv, StoredImageStays
  <2> QED
    BY <2>2, <2>3
<1> QED
  BY <1>1, <1>3, <1>4, <1>5, <1>6, StepKinds DEF Starts, Passes, Restart

-----------------------------------------------------------------------------
LEMMA QuietStep ==
    ASSUME TypeOK, Quiet, Next
    PROVE  Quiet'
<1> USE DEF Quiet, TypeOK, Return, Others, files, history
<1>1. ASSUME NEW t \in Threads, NEW n \in Names \cup {BadName}, NEW k \in 1..MaxChunks,
             UploadCheck(t, n, k)
      PROVE  Quiet'
  <2>1. CASE \E r \in {"400", "409"} : Return(t, r) /\ UNCHANGED sent
    BY <2>1
  <2>2. CASE pc' = [pc EXCEPT ![t] = "open"] /\ UNCHANGED <<pos, bad, sent, reply>>
    BY <1>1, <2>2 DEF UploadCheck
  <2> QED
    BY <1>1, <2>1, <2>2 DEF UploadCheck
<1>2. ASSUME NEW t \in Threads, NEW n \in Names, GetOpen(t, n) PROVE Quiet'
  <2>1. CASE Return(t, "404") /\ UNCHANGED sent
    BY <2>1
  <2>2. CASE pc' = [pc EXCEPT ![t] = "announce"] /\ UNCHANGED <<pos, bad, sent, reply>>
    BY <1>2, <2>2 DEF GetOpen
  <2> QED
    BY <1>2, <2>1, <2>2 DEF GetOpen
<1>3. ASSUME NEW t \in Threads, UploadOpen(t) PROVE Quiet'
  BY <1>3 DEF UploadOpen
<1>4. ASSUME NEW t \in Threads, UploadReceive(t) PROVE Quiet'
  <2>1. /\ pc[t] = "receive" /\ UNCHANGED <<pc, sent, reply>>
        /\ \A s \in Threads \ {t} : pos'[s] = pos[s] /\ bad'[s] = bad[s]
    BY <1>4 DEF UploadReceive
  <2> QED
    BY <2>1
<1>5. ASSUME NEW t \in Threads,
             \/ UploadOpenFails(t) \/ UploadReadError(t)
             \/ UploadComplete(t) \/ UploadWriteError(t) \/ GetEof(t) \/ GetWriteError(t)
      PROVE  Quiet'
  <2>1. /\ pc' = [pc EXCEPT ![t] = "reply"] /\ pos' = [pos EXCEPT ![t] = 0]
        /\ bad' = [bad EXCEPT ![t] = FALSE] /\ sent' = sent
        /\ \A s \in Threads \ {t} : reply'[s] = reply[s]
    BY <1>5 DEF UploadOpenFails, UploadReadError, UploadComplete, UploadWriteError, GetEof,
                GetWriteError
  <2> QED
    BY <2>1
<1>6. ASSUME NEW t \in Threads, GetAnnounce(t) \/ GetReadError(t) PROVE Quiet'
  BY <1>6 DEF GetAnnounce, GetReadError
<1>7. ASSUME NEW t \in Threads, GetSend(t) PROVE Quiet'
  BY <1>7 DEF GetSend
<1>8. ASSUME NEW t \in Threads, Respond(t) PROVE Quiet'
  BY <1>8 DEF Respond
<1>9. CASE Restart
  BY <1>9 DEF Restart
<1> QED
  BY <1>1, <1>2, <1>3, <1>4, <1>5, <1>6, <1>7, <1>8, <1>9
  DEF Next, UploadStep, GetStep, GetFault

-----------------------------------------------------------------------------
(* Reading a stored image.  The image stays, and so does what is known of it. *)
SentOf(t) ==
    (reply[t] = "sent" /\ wanted[t] # NoImage) =>
        /\ size[t] = wanted[t].size
        /\ sent[t] = Image(wanted[t].uploader, wanted[t].size)

LEMMA StoredForever ==
    ASSUME TypeOK, SInv, Next, NEW n \in Names, stored[n] # NoImage
    PROVE  stored'[n] = stored[n]
<1>1. ASSUME NEW t \in Threads, UploadComplete(t) PROVE stored'[n] = stored[n]
  BY <1>1 DEF UploadComplete, TypeOK, Uploading, SInv, StoredClosed
<1> QED
  BY <1>1, StepKinds
  DEF Starts, Passes, Removes, UploadOpen, UploadReceive, Restart, history

(* The chunks a reader of a stored image finds. *)
LEMMA ReadsImage ==
    ASSUME TypeOK, SInv, NEW t \in Threads, SendingOf(t), Reading(t), wanted[t] # NoImage
    PROVE  /\ wanted[t] \in StoredImage /\ wanted[t].size \in Nat
           /\ data[inode[t]] = Image(wanted[t].uploader, wanted[t].size)
           /\ Len(data[inode[t]]) = wanted[t].size
<1>1. wanted[t] \in StoredImage /\ wanted[t].size \in Nat
  BY DEF TypeOK, StoredImage
<1>2. data[inode[t]] = Image(wanted[t].uploader, wanted[t].size)
  BY DEF SendingOf, SInv, StoredImageStays
<1> QED
  BY <1>1, <1>2 DEF Image

LEMMA SendingStep ==
    ASSUME TypeOK, SInv, Sending, GetSendsStoredImage, Next
    PROVE  Sending' /\ GetSendsStoredImage'
<1>1. \A s \in Threads : SendingOf(s) /\ SentOf(s)
  BY DEF Sending, GetSendsStoredImage, SentOf
<1>2. ASSUME NEW t \in Threads, Others(t), SendingOf(t)', SentOf(t)'
      PROVE  Sending' /\ GetSendsStoredImage'
  <2>1. ASSUME NEW s \in Threads \ {t} PROVE SendingOf(s)' /\ SentOf(s)'
    <3>1. /\ pc'[s] = pc[s] /\ name'[s] = name[s] /\ size'[s] = size[s]
          /\ inode'[s] = inode[s] /\ pos'[s] = pos[s] /\ sent'[s] = sent[s]
          /\ reply'[s] = reply[s] /\ wanted'[s] = wanted[s]
      BY <1>2, <2>1 DEF Others
    <3>2. wanted[s] # NoImage /\ Reading(s) => stored'[name[s]] = wanted[s]
      BY <1>1, StoredForever DEF SendingOf
    <3> QED
      BY <1>1, <3>1, <3>2 DEF SendingOf, SentOf, Reading
  <2> QED
    BY <1>2, <2>1 DEF Sending, GetSendsStoredImage, SentOf
<1>3. ASSUME NEW t \in Threads, wanted'[t] = NoImage PROVE SendingOf(t)' /\ SentOf(t)'
  BY <1>3 DEF SendingOf, SentOf
<1>4. ASSUME NEW t \in Threads, NEW r \in {"200", "400", "404", "409", "500", "gone"},
             Return(t, r)
      PROVE  SendingOf(t)' /\ SentOf(t)'
  <2>1. pc'[t] = "reply" /\ reply'[t] = r
    BY <1>4 DEF Return, TypeOK
  <2> QED
    BY <2>1 DEF SendingOf, SentOf, Reading
<1>5. ASSUME NEW t \in Threads, NEW n \in Names \cup {BadName}, NEW k \in 1..MaxChunks,
             UploadCheck(t, n, k)
      PROVE  SendingOf(t)' /\ SentOf(t)'
  <2>1. pc[t] = "idle" /\ wanted' = wanted
    BY <1>5 DEF UploadCheck
  <2>2. wanted'[t] = NoImage
    BY <1>1, <2>1 DEF SendingOf
  <2> QED
    BY <1>3, <2>2
<1>6. ASSUME NEW t \in Threads, NEW n \in Names, GetOpen(t, n)
      PROVE  SendingOf(t)' /\ SentOf(t)'
  <2>1. CASE Return(t, "404")
    BY <1>4, <2>1
  <2>2. CASE Opens(t, n)
    <3>1. /\ pc'[t] = "announce" /\ name'[t] = n /\ inode'[t] = dir[n]
          /\ wanted'[t] = stored[n] /\ stored' = stored /\ reply' = reply /\ pc[t] = "idle"
      BY <1>6, <2>2 DEF GetOpen, Opens, TypeOK
    <3>2. reply[t] = "none"
      BY <3>1 DEF SInv, Quiet
    <3>3. stored[n] # NoImage => dir[n] = stored[n].inode
      BY DEF SInv, StoredImageStays
    <3> QED
      BY <3>1, <3>2, <3>3 DEF SendingOf, SentOf, Reading
  <2> QED
    BY <1>6, <2>1, <2>2 DEF GetOpen, Opens
<1>7. ASSUME NEW t \in Threads, UploadStep(t) PROVE SendingOf(t)' /\ SentOf(t)'
  <2>1. Uploading(t) /\ wanted' = wanted
    BY <1>7 DEF UploadStep, UploadOpen, UploadOpenFails, UploadReceive, UploadReadError,
                UploadComplete, UploadWriteError, Uploading, history
  <2>2. wanted'[t] = NoImage
    BY <1>1, <2>1 DEF SendingOf, Uploading
  <2> QED
    BY <1>3, <2>2
<1>8. ASSUME NEW t \in Threads, GetAnnounce(t) PROVE SendingOf(t)' /\ SentOf(t)'
  <2>1. /\ pc[t] = "announce" /\ pc'[t] = "send" /\ size'[t] = Len(data[inode[t]])
        /\ UNCHANGED <<name, inode, pos, sent, reply, stored, wanted>>
    BY <1>8 DEF GetAnnounce, TypeOK, history
  <2>2. pos[t] = 0 /\ sent[t] = <<>> /\ reply[t] = "none"
    BY <2>1 DEF SInv, Quiet
  <2>3. ASSUME wanted[t] # NoImage PROVE SendingOf(t)'
    <3>1. size'[t] = wanted[t].size /\ wanted[t].size \in Nat
      BY <1>1, <2>1, <2>3, ReadsImage DEF Reading
    <3>2. Image(wanted[t].uploader, 0) = <<>>
      BY DEF Image
    <3> QED
      BY <1>1, <2>1, <2>2, <2>3, <3>1, <3>2 DEF SendingOf, Reading
  <2>4. wanted[t] = NoImage => SendingOf(t)'
    BY <2>1 DEF SendingOf
  <2> QED
    BY <2>1, <2>2, <2>3, <2>4 DEF SentOf
<1>9. ASSUME NEW t \in Threads, GetSend(t) PROVE SendingOf(t)' /\ SentOf(t)'
  <2>1. /\ pc[t] = "send" /\ pos[t] < Len(data[inode[t]]) /\ pos[t] \in Nat
        /\ sent'[t] = Append(sent[t], data[inode[t]][pos[t] + 1]) /\ pos'[t] = pos[t] + 1
        /\ UNCHANGED <<pc, name, size, inode, reply, stored, wanted>>
    BY <1>9 DEF GetSend, TypeOK, history
  <2>2. reply[t] = "none"
    BY <2>1 DEF SInv, Quiet
  <2>3. ASSUME wanted[t] # NoImage PROVE SendingOf(t)'
    <3>1. /\ wanted[t].size \in Nat /\ Len(data[inode[t]]) = wanted[t].size
          /\ data[inode[t]] = Image(wanted[t].uploader, wanted[t].size)
      BY <1>1, <2>1, <2>3, ReadsImage DEF Reading
    <3>2. size[t] = wanted[t].size /\ sent[t] = Image(wanted[t].uploader, pos[t])
      BY <1>1, <2>1, <2>3 DEF SendingOf
    <3>3. data[inode[t]][pos[t] + 1] = wanted[t].uploader
      BY <2>1, <3>1 DEF Image
    <3>4. Append(Image(wanted[t].uploader, pos[t]), wanted[t].uploader)
             = Image(wanted[t].uploader, pos[t] + 1)
      BY <2>1 DEF Image
    <3> QED
      BY <1>1, <2>1, <2>3, <3>1, <3>2, <3>3, <3>4 DEF SendingOf, Reading
  <2>4. wanted[t] = NoImage => SendingOf(t)'
    BY <2>1 DEF SendingOf
  <2> QED
    BY <2>1, <2>2, <2>3, <2>4 DEF SentOf
<1>10. ASSUME NEW t \in Threads, GetEof(t) PROVE SendingOf(t)' /\ SentOf(t)'
  <2>1. /\ pc[t] = "send" /\ pos[t] >= Len(data[inode[t]]) /\ pos[t] \in Nat
        /\ pc'[t] = "reply" /\ UNCHANGED <<size, sent, wanted>>
    BY <1>10 DEF GetEof, Return, TypeOK, history
  <2>2. ASSUME wanted[t] # NoImage PROVE SentOf(t)'
    <3>1. wanted[t].size \in Nat /\ Len(data[inode[t]]) = wanted[t].size
      BY <1>1, <2>1, <2>2, ReadsImage DEF Reading
    <3>2. /\ size[t] = wanted[t].size /\ pos[t] <= size[t]
          /\ sent[t] = Image(wanted[t].uploader, pos[t])
      BY <1>1, <2>1, <2>2 DEF SendingOf
    <3>3. pos[t] = wanted[t].size
      BY <2>1, <3>1, <3>2
    <3> QED
      BY <2>1, <3>2, <3>3 DEF SentOf
  <2>3. wanted[t] = NoImage => SentOf(t)'
    BY <2>1 DEF SentOf
  <2>4. SendingOf(t)'
    BY <2>1 DEF SendingOf, Reading
  <2> QED
    BY <2>2, <2>3, <2>4
<1>11. ASSUME NEW t \in Threads, GetReadError(t) PROVE SendingOf(t)' /\ SentOf(t)'
  <2>1. /\ pc[t] = "send" /\ pc'[t] = "stuck"
        /\ UNCHANGED <<name, size, inode, pos, sent, reply, stored, wanted>>
    BY <1>11 DEF GetReadError, TypeOK, history
  <2>2. reply[t] = "none"
    BY <2>1 DEF SInv, Quiet
  <2> QED
    BY <1>1, <2>1, <2>2 DEF SendingOf, SentOf, Reading
<1>12. ASSUME NEW t \in Threads, GetWriteError(t) PROVE SendingOf(t)' /\ SentOf(t)'
  BY <1>4, <1>12 DEF GetWriteError
<1>13. ASSUME NEW t \in Threads, Respond(t) PROVE SendingOf(t)' /\ SentOf(t)'
  BY <1>3, <1>13 DEF Respond, TypeOK
<1>14. CASE Restart
  <2>1. \A t \in Threads : wanted'[t] = NoImage
    BY <1>14 DEF Restart
  <2> QED
    BY <1>3, <2>1 DEF Sending, GetSendsStoredImage, SentOf
<1> QED
  BY <1>2, <1>5, <1>6, <1>7, <1>8, <1>9, <1>10, <1>11, <1>12, <1>13, <1>14, OthersStay
  DEF Next, GetStep, GetFault

-----------------------------------------------------------------------------
LEMMA NoLeftoversStep ==
    ASSUME TypeOK, SInv, NoLeftovers, Next
    PROVE  NoLeftovers'
<1> USE DEF Uploading
<1>1. ASSUME NEW t \in Threads, NEW n \in Names, Starts(t, n) PROVE NoLeftovers'
  <2>1. \A u \in Threads : Uploading(u) => Uploading(u)' /\ name'[u] = name[u]
    BY <1>1 DEF Starts, Others
  <2>2. spoiled \subseteq spoiled' /\ UNCHANGED <<dir, stored>>
    BY <1>1 DEF Starts, files
  <2> QED
    BY <2>1, <2>2 DEF NoLeftovers
<1>2. ASSUME NEW t \in Threads, Passes(t) PROVE NoLeftovers'
  <2>1. ASSUME NEW n \in Names \ spoiled, dir[n] # NoInode,
               \A u \in Threads : ~(Uploading(u)' /\ name'[u] = n)
        PROVE  stored[n] # NoImage
    <3>1. \A u \in Threads \ {t} : ~(Uploading(u) /\ name[u] = n)
      BY <1>2, <2>1 DEF Passes, Others
    <3>2. ~(Uploading(t) /\ name[t] = n)
      BY <1>2, <2>1 DEF Passes, SInv, Receiving
    <3> QED
      BY <2>1, <3>1, <3>2 DEF NoLeftovers
  <2> QED
    BY <1>2, <2>1 DEF Passes, files, NoLeftovers
<1>3. ASSUME NEW t \in Threads, Removes(t) PROVE NoLeftovers'
  <2>1. name[t] \in Names /\ dir'[name[t]] = NoInode
    BY <1>3 DEF Removes, TypeOK
  <2>2. \A n \in Names : n # name[t] => dir'[n] = dir[n]
    BY <1>3, <2>1 DEF Removes, TypeOK
  <2> QED
    BY <1>3, <2>1, <2>2 DEF Removes, Others, NoLeftovers
<1>4. ASSUME NEW t \in Threads, UploadOpen(t) PROVE NoLeftovers'
  <2>1. /\ Uploading(t)' /\ UNCHANGED <<name, stored, spoiled>>
        /\ \A n \in Names : n # name[t] => dir'[n] = dir[n]
        /\ \A u \in Threads \ {t} : pc'[u] = pc[u]
    BY <1>4 DEF UploadOpen, TypeOK, history
  <2> QED
    BY <2>1 DEF NoLeftovers
<1>5. ASSUME NEW t \in Threads, UploadReceive(t) PROVE NoLeftovers'
  BY <1>5 DEF UploadReceive, history, NoLeftovers
<1>6. ASSUME NEW t \in Threads, Others(t), UploadComplete(t) PROVE NoLeftovers'
  <2>1. /\ pc[t] = "receive" /\ name[t] \in Names /\ UNCHANGED <<dir, spoiled>>
        /\ name[t] \notin spoiled => stored'[name[t]] # NoImage
        /\ \A n \in Names : n # name[t] => stored'[n] = stored[n]
    <3>1. [inode |-> inode[t], uploader |-> t, size |-> size[t]] # NoImage
      BY <1>6, ImageStoreAssumption DEF UploadComplete, TypeOK, SInv, SizeKnown
    <3> QED
      BY <1>6, <3>1 DEF UploadComplete, TypeOK, files
  <2> QED
    BY <1>6, <2>1 DEF Others, NoLeftovers
<1>7. CASE Restart
  BY <1>7 DEF Restart, files, NoLeftovers
<1> QED
  BY <1>1, <1>2, <1>3, <1>4, <1>5, <1>6, <1>7, StepKinds

-----------------------------------------------------------------------------
(* No step of a thread touches a file that is not of its own name. *)
LEMMA FilesAtRestStep ==
    ASSUME TypeOK, OwnInode, Next,
           NEW n \in Names, dir[n] # NoInode,
           \A t \in Threads : ~(Uploading(t) /\ name[t] = n)
    PROVE  dir'[n] = dir[n] /\ data'[dir[n]] = data[dir[n]]
<1> USE DEF Uploading, TypeOK
<1>1. ASSUME NEW t \in Threads, UploadOpen(t)
      PROVE  dir'[n] = dir[n] /\ data'[dir[n]] = data[dir[n]]
  <2>1. name[t] # n /\ name[t] \in Names
    BY <1>1 DEF UploadOpen
  <2>2. PICK i \in Inodes :
           /\ IF dir[name[t]] = NoInode THEN i \in FreeInodes ELSE i = dir[name[t]]
           /\ dir' = [dir EXCEPT ![name[t]] = i] /\ data' = [data EXCEPT ![i] = <<>>]
    BY <1>1 DEF UploadOpen
  <2>3. i # dir[n]
    BY <2>1, <2>2, ImageStoreAssumption DEF FreeInodes, OwnInode
  <2> QED
    BY <2>1, <2>2, <2>3
<1>2. ASSUME NEW t \in Threads, UploadReceive(t)
      PROVE  dir'[n] = dir[n] /\ data'[dir[n]] = data[dir[n]]
  <2>1. dir[n] # inode[t]
    BY <1>2 DEF UploadReceive, OwnInode
  <2>2. dir' = dir /\ (data' = data \/ \E s : data' = [data EXCEPT ![inode[t]] = s])
    BY <1>2 DEF UploadReceive
  <2> QED
    BY <2>1, <2>2
<1>3. ASSUME NEW t \in Threads, Removes(t)
      PROVE  dir'[n] = dir[n] /\ data'[dir[n]] = data[dir[n]]
  BY <1>3 DEF Removes
<1> QED
  BY <1>1, <1>2, <1>3, StepKinds
  DEF Starts, Passes, Restart, UploadComplete, files

-----------------------------------------------------------------------------
(* Reading a file that may still be written. *)

LEMMA BegunStep ==
    ASSUME TypeOK, SInv, Begun, Next
    PROVE  Begun'
<1> USE DEF Uploading
<1>1. ASSUME NEW t \in Threads, Others(t), UNCHANGED data, spoiled \subseteq spoiled',
             pc'[t] # "receive"
      PROVE  Begun'
  <2>1. ASSUME NEW u \in Threads, u # t PROVE BegunBy(u)'
    <3>1. /\ pc'[u] = pc[u] /\ name'[u] = name[u] /\ size'[u] = size[u]
          /\ inode'[u] = inode[u] /\ pos'[u] = pos[u]
      BY <1>1, <2>1 DEF Others
    <3> QED
      BY <1>1, <3>1 DEF Begun, BegunBy
  <2>2. BegunBy(t)'
    BY <1>1 DEF BegunBy
  <2> QED
    BY <2>1, <2>2 DEF Begun
<1>2. ASSUME NEW t \in Threads, NEW n \in Names, Starts(t, n) PROVE Begun'
  <2>1. Others(t) /\ UNCHANGED data /\ spoiled \subseteq spoiled' /\ pc'[t] # "receive"
    BY <1>2 DEF Starts, files
  <2> QED
    BY <1>1, <2>1
<1>3. ASSUME NEW t \in Threads, Passes(t) \/ Removes(t) PROVE Begun'
  <2>1. Others(t) /\ UNCHANGED data /\ spoiled \subseteq spoiled' /\ pc'[t] # "receive"
    BY <1>3 DEF Passes, Removes, files
  <2> QED
    BY <1>1, <2>1
<1>4. ASSUME NEW t \in Threads, Others(t), UploadComplete(t) PROVE Begun'
  <2>1. UNCHANGED data /\ spoiled \subseteq spoiled' /\ pc'[t] # "receive"
    BY <1>4 DEF UploadComplete, Return, files, TypeOK
  <2> QED
    BY <1>1, <1>4, <2>1
<1>5. ASSUME NEW t \in Threads, Others(t), UploadReceive(t) PROVE Begun'
  <2>1. /\ pc[t] = "receive" /\ inode[t] \in Inodes /\ pos[t] \in Nat /\ size[t] \in Nat
        /\ pos[t] < size[t] /\ pos'[t] = pos[t] + 1
        /\ UNCHANGED <<pc, name, size, inode, spoiled>>
    BY <1>5 DEF UploadReceive, history, TypeOK
  <2>2. \A i \in Inodes : i # inode[t] => data'[i] = data[i]
    BY <1>5 DEF UploadReceive, TypeOK
  <2>3. ASSUME name[t] \notin spoiled
        PROVE  \E k \in 0..pos'[t] : data'[inode[t]] = Image(t, k)
    <3>1. CASE ~bad[t] /\ data' = [data EXCEPT ![inode[t]] = WriteAt(data[inode[t]], pos[t], t)]
      <4>1. data[inode[t]] = Image(t, pos[t])
        BY <2>1, <2>3, <3>1 DEF SInv, Receiving
      <4>2. data'[inode[t]] = Image(t, pos[t] + 1)
        BY <2>1, <3>1, <4>1, WriteAtEnd DEF TypeOK
      <4> QED
        BY <2>1, <4>2
    <3>2. CASE data' = data
      <4>1. PICK k \in 0..pos[t] : data[inode[t]] = Image(t, k)
        BY <2>1, <2>3 DEF Begun, BegunBy
      <4> QED
        BY <2>1, <3>2, <4>1
    <3> QED
      BY <1>5, <3>1, <3>2 DEF UploadReceive
  <2>4. BegunBy(t)'
    BY <2>1, <2>3 DEF BegunBy
  <2>5. ASSUME NEW u \in Threads, u # t PROVE BegunBy(u)'
    <3>1. pos'[u] = pos[u]
      BY <1>5, <2>5 DEF Others
    <3>2. pc[u] = "receive" /\ name[u] \notin spoiled => data'[inode[u]] = data[inode[u]]
      <4>1. pc[u] = "receive" /\ name[u] \notin spoiled => inode[u] # inode[t] /\ inode[u] \in Inodes
        BY <2>1, <2>5 DEF SInv, OwnInode, Alone, TypeOK
      <4> QED
        BY <2>2, <4>1
    <3> QED
      BY <2>1, <3>1, <3>2 DEF Begun, BegunBy
  <2> QED
    BY <2>4, <2>5 DEF Begun
<1>6. ASSUME NEW t \in Threads, Others(t), UploadOpen(t) PROVE Begun'
  <2>1. PICK i \in Inodes :
            /\ IF dir[name[t]] = NoInode THEN i \in FreeInodes ELSE i = dir[name[t]]
            /\ data' = [data EXCEPT ![i] = <<>>]
            /\ inode' = [inode EXCEPT ![t] = i]
    BY <1>6 DEF UploadOpen
  <2>2. /\ pc[t] = "open" /\ name[t] \in Names /\ inode'[t] = i /\ data'[i] = <<>>
        /\ size[t] \in 1..MaxChunks /\ pos[t] = 0
        /\ UNCHANGED <<name, size, pos, spoiled>>
    BY <1>6, <2>1 DEF UploadOpen, history, TypeOK, SInv, Receiving, SizeKnown
  <2>3. BegunBy(t)'
    <3>1. Image(t, 0) = <<>> /\ 0 <= size[t]
      BY <2>2 DEF Image
    <3> QED
      BY <2>2, <3>1 DEF BegunBy
  <2>4. ASSUME NEW u \in Threads, u # t PROVE BegunBy(u)'
    <3>1. pc'[u] = pc[u] /\ inode'[u] = inode[u]
      BY <1>6, <2>4 DEF Others
    <3>2. ASSUME pc[u] = "receive", name[u] \notin spoiled PROVE data'[inode[u]] = data[inode[u]]
      <4>1. name[u] # name[t] /\ inode[u] \in Inodes
        BY <2>2, <2>4, <3>2 DEF SInv, Alone, TypeOK
      <4>2. inode[u] # i
        BY <2>1, <2>2, <3>2, <4>1 DEF FreeInodes, SInv, OwnInode
      <4> QED
        BY <2>1, <4>1, <4>2 DEF TypeOK
    <3> QED
      BY <2>2, <3>1, <3>2 DEF Begun, BegunBy
  <2> QED
    BY <2>3, <2>4 DEF Begun
<1>7. CASE Restart
  BY <1>7 DEF Restart, Begun, BegunBy
<1> QED
  BY <1>2, <1>3, <1>4, <1>5, <1>6, <1>7, StepKinds

(* A step of t that neither opens nor removes a file, nor starts to read one. *)
LEMMA ReaderInodeStep ==
    ASSUME TypeOK, SInv, ReaderInode, Next
    PROVE  ReaderInode'
<1> USE ImageStoreAssumption
<1>1. ASSUME NEW t \in Threads, Others(t), UNCHANGED dir,
             pc'[t] = "receive" => /\ pc[t] = "receive"
                                   /\ name'[t] = name[t] /\ inode'[t] = inode[t],
             Reading(t)' => /\ Reading(t)
                            /\ name'[t] = name[t] /\ inode'[t] = inode[t]
      PROVE  ReaderInode'
  BY <1>1 DEF Others, ReaderInode, Reading
<1>2. ASSUME NEW t \in Threads, Others(t), UNCHANGED dir,
             pc'[t] \notin {"receive", "announce", "send", "stuck"}
      PROVE  ReaderInode'
  BY <1>1, <1>2 DEF Reading
<1>3. ASSUME NEW t \in Threads, NEW n \in Names, Starts(t, n) PROVE ReaderInode'
  BY <1>2, <1>3 DEF Starts, files
<1>4. ASSUME NEW t \in Threads, NEW r, Others(t), Return(t, r), UNCHANGED dir PROVE ReaderInode'
  <2>1. pc'[t] = "reply"
    BY <1>4 DEF Return, TypeOK
  <2> QED
    BY <1>2, <1>4, <2>1
<1>5. ASSUME NEW t \in Threads, NEW n \in Names \cup {BadName}, NEW k \in 1..MaxChunks,
             UploadCheck(t, n, k)
      PROVE  ReaderInode'
  <2>1. Others(t) /\ UNCHANGED dir
    BY <1>5, OthersStay DEF UploadCheck, files
  <2>2. (\E r : Return(t, r)) \/ pc' = [pc EXCEPT ![t] = "open"]
    BY <1>5 DEF UploadCheck
  <2>3. CASE pc' = [pc EXCEPT ![t] = "open"]
    <3>1. pc'[t] = "open"
      BY <2>3 DEF TypeOK
    <3> QED
      BY <1>2, <2>1, <3>1
  <2> QED
    BY <1>4, <2>1, <2>2, <2>3
<1>6. ASSUME NEW t \in Threads, NEW n \in Names, GetOpen(t, n) PROVE ReaderInode'
  <2>1. Others(t) /\ UNCHANGED dir
    BY <1>6, OthersStay DEF GetOpen, files
  <2>2. CASE Return(t, "404")
    BY <1>4, <2>1, <2>2
  <2>3. CASE Opens(t, n)
    <3>1. pc'[t] = "announce" /\ name'[t] = n /\ inode'[t] = dir[n]
      BY <1>6, <2>3 DEF GetOpen, Opens, TypeOK
    <3>2. /\ \A m \in Names : dir[m] = dir[n] => m = n
          /\ \A u \in Threads : pc[u] = "receive" /\ inode[u] = dir[n] => name[u] = n
      BY <2>3 DEF Opens, SInv, OwnInode
    <3> QED
      BY <2>1, <3>1, <3>2 DEF Others, ReaderInode, Reading
  <2> QED
    BY <1>6, <2>2, <2>3 DEF GetOpen, Opens
<1>7. ASSUME NEW t \in Threads, GetAnnounce(t) \/ GetSend(t) \/ GetReadError(t)
      PROVE  ReaderInode'
  <2>1. Others(t)
    BY <1>7, OthersStay DEF GetStep, GetFault
  <2>2. /\ Reading(t) /\ pc'[t] # "receive"
        /\ UNCHANGED <<dir, name, inode>>
    BY <1>7 DEF GetAnnounce, GetSend, GetReadError, Reading, files, TypeOK
  <2> QED
    BY <1>1, <2>1, <2>2
<1>8. ASSUME NEW t \in Threads,
             UploadOpenFails(t) \/ UploadComplete(t) \/ GetEof(t) \/ GetWriteError(t)
      PROVE  ReaderInode'
  <2>1. Others(t)
    BY <1>8, OthersStay DEF UploadStep, GetStep, GetFault
  <2>2. UNCHANGED dir /\ \E r : Return(t, r)
    BY <1>8 DEF UploadOpenFails, UploadComplete, GetEof, GetWriteError, files
  <2> QED
    BY <1>4, <2>1, <2>2
<1>9. ASSUME NEW t \in Threads, Respond(t) PROVE ReaderInode'
  <2>1. Others(t) /\ UNCHANGED dir /\ pc'[t] = "idle"
    BY <1>9, OthersStay DEF Respond, files, TypeOK
  <2> QED
    BY <1>2, <2>1
<1>10. ASSUME NEW t \in Threads, UploadReceive(t) PROVE ReaderInode'
  <2>1. Others(t)
    BY <1>10, OthersStay DEF UploadStep
  <2>2. pc[t] = "receive" /\ UNCHANGED <<dir, pc, name, inode>>
    BY <1>10 DEF UploadReceive
  <2> QED
    BY <1>1, <2>1, <2>2 DEF Reading
<1>11. ASSUME NEW t \in Threads, UploadReadError(t) \/ UploadWriteError(t) PROVE ReaderInode'
  <2>1. Others(t) /\ pc[t] = "receive" /\ pc'[t] = "reply"
    BY <1>11, OthersStay DEF UploadStep, UploadReadError, UploadWriteError, Return, TypeOK
  <2>2. name[t] \in Names /\ dir' = [dir EXCEPT ![name[t]] = NoInode]
    BY <1>11, <2>1 DEF UploadReadError, UploadWriteError, TypeOK, Uploading
  <2>3. \A n \in Names : dir'[n] = dir[n] \/ dir'[n] = NoInode
    BY <2>2 DEF TypeOK
  <2>4. \A s \in Threads : Reading(s) => inode[s] # NoInode
    BY DEF TypeOK
  <2> QED
    BY <2>1, <2>3, <2>4 DEF Others, ReaderInode, Reading
<1>12. ASSUME NEW t \in Threads, UploadOpen(t) PROVE ReaderInode'
  <2>1. PICK i \in Inodes :
            /\ IF dir[name[t]] = NoInode THEN i \in FreeInodes ELSE i = dir[name[t]]
            /\ dir' = [dir EXCEPT ![name[t]] = i]
            /\ inode' = [inode EXCEPT ![t] = i]
    BY <1>12 DEF UploadOpen
  <2>2. /\ pc[t] = "open" /\ pc'[t] = "receive" /\ name'[t] = name[t] /\ inode'[t] = i
        /\ name[t] \in Names /\ Others(t)
    BY <1>12, <2>1, OthersStay DEF UploadOpen, UploadStep, TypeOK, Uploading
  <2>3. \A s \in Threads : Reading(s) /\ inode[s] = i => name[s] = name[t]
    BY <2>1, <2>2 DEF FreeInodes, ReaderInode
  <2>4. \A n \in Names : dir'[n] = IF n = name[t] THEN i ELSE dir[n]
    BY <2>1, <2>2 DEF TypeOK
  <2> QED
    BY <2>2, <2>3, <2>4 DEF Others, ReaderInode, Reading
<1>13. CASE Restart
  BY <1>13 DEF Restart, ReaderInode, Reading
<1> QED
  BY <1>5, <1>6, <1>7, <1>8, <1>9, <1>10, <1>11, <1>12, <1>13
  DEF Next, UploadStep, GetStep, GetFault

(* A reader that does not move, and whose file is not written, reads what it did. *)
LEMMA PartStays ==
    ASSUME Parts, NEW s \in Threads, spoiled \subseteq spoiled',
           pc'[s] = pc[s], name'[s] = name[s], size'[s] = size[s], inode'[s] = inode[s],
           pos'[s] = pos[s], sent'[s] = sent[s],
           (Reading(s) /\ name[s] \notin spoiled) => data'[inode[s]] = data[inode[s]]
    PROVE  PartOf(s)'
<1> SUFFICES ASSUME Reading(s)', name'[s] \notin spoiled'
             PROVE  (\E u \in Threads, k \in 0..MaxChunks : Reads(s, u, k))'
  BY DEF PartOf
<1>1. Reading(s) /\ name[s] \notin spoiled
  BY DEF Reading
<1>2. PICK u \in Threads, k \in 0..MaxChunks : Reads(s, u, k)
  BY <1>1 DEF Parts, PartOf
<1>3. Reads(s, u, k)'
  BY <1>1, <1>2 DEF Reads
<1> QED
  BY <1>3

(* A file of its own name that is read as it is opened is a part of an image. *)
LEMMA OpenedPart ==
    ASSUME TypeOK, SInv, Begun, NoLeftovers, NEW n \in Names \ spoiled, dir[n] # NoInode
    PROVE  \E u \in Threads, k \in 0..MaxChunks : data[dir[n]] = Image(u, k)
<1> USE ImageStoreAssumption
<1>1. ASSUME NEW u \in Threads, Uploading(u), name[u] = n
      PROVE  \E k \in 0..MaxChunks : data[dir[n]] = Image(u, k)
  <2>1. pc[u] = "receive" /\ dir[n] = inode[u]
    BY <1>1 DEF Uploading, SInv, Receiving
  <2>2. pos[u] <= size[u] /\ \E k \in 0..pos[u] : data[inode[u]] = Image(u, k)
    BY <1>1, <2>1 DEF Begun, BegunBy
  <2>3. pos[u] \in Nat /\ size[u] \in 1..MaxChunks
    BY <1>1 DEF TypeOK, SInv, SizeKnown
  <2>4. 0..pos[u] \subseteq 0..MaxChunks
    BY <2>2, <2>3
  <2> QED
    BY <2>1, <2>2, <2>4
<1>2. CASE \A u \in Threads : ~(Uploading(u) /\ name[u] = n)
  <2>1. stored[n] # NoImage
    BY <1>2 DEF NoLeftovers
  <2>2. stored[n] \in StoredImage
    BY <2>1 DEF TypeOK
  <2>3. stored[n].uploader \in Threads /\ stored[n].size \in 0..MaxChunks
    BY <2>2 DEF StoredImage
  <2>4. data[dir[n]] = Image(stored[n].uploader, stored[n].size)
    BY <2>1 DEF SInv, StoredImageStays
  <2> QED
    BY <2>3, <2>4
<1> QED
  BY <1>1, <1>2

LEMMA PartStep ==
    ASSUME TypeOK, SInv, Begun, ReaderInode, NoLeftovers, Parts, Next
    PROVE  Parts'
<1> USE ImageStoreAssumption
<1>1. ASSUME NEW t \in Threads, Others(t), UNCHANGED data, spoiled \subseteq spoiled', PartOf(t)'
      PROVE  Parts'
  <2>1. ASSUME NEW s \in Threads, s # t PROVE PartOf(s)'
    <3>1. /\ pc'[s] = pc[s] /\ name'[s] = name[s] /\ size'[s] = size[s]
          /\ inode'[s] = inode[s] /\ pos'[s] = pos[s] /\ sent'[s] = sent[s]
      BY <1>1, <2>1 DEF Others
    <3> QED
      BY <1>1, <3>1, PartStays
  <2> QED
    BY <1>1, <2>1 DEF Parts
<1>2. ASSUME NEW t \in Threads, Others(t), UNCHANGED data, spoiled \subseteq spoiled',
             pc'[t] \notin {"announce", "send", "stuck"}
      PROVE  Parts'
  <2>1. PartOf(t)'
    BY <1>2 DEF PartOf, Reading
  <2> QED
    BY <1>1, <1>2, <2>1
<1>3. ASSUME NEW t \in Threads, NEW r, Others(t), Return(t, r), UNCHANGED data,
             spoiled \subseteq spoiled'
      PROVE  Parts'
  <2>1. pc'[t] = "reply"
    BY <1>3 DEF Return, TypeOK
  <2> QED
    BY <1>2, <1>3, <2>1
<1>4. ASSUME NEW t \in Threads, NEW n \in Names \cup {BadName}, NEW k \in 1..MaxChunks,
             UploadCheck(t, n, k)
      PROVE  Parts'
  <2>1. Others(t) /\ UNCHANGED data /\ spoiled \subseteq spoiled'
    BY <1>4, OthersStay DEF UploadCheck, files
  <2>2. (\E r : Return(t, r)) \/ pc' = [pc EXCEPT ![t] = "open"]
    BY <1>4 DEF UploadCheck
  <2>3. CASE pc' = [pc EXCEPT ![t] = "open"]
    <3>1. pc'[t] = "open"
      BY <2>3 DEF TypeOK
    <3> QED
      BY <1>2, <2>1, <3>1
  <2> QED
    BY <1>3, <2>1, <2>2, <2>3
<1>5. ASSUME NEW t \in Threads, NEW n \in Names, GetOpen(t, n) PROVE Parts'
  <2>1. Others(t) /\ UNCHANGED <<data, spoiled>>
    BY <1>5, OthersStay DEF GetOpen, files
  <2>2. CASE Return(t, "404")
    BY <1>3, <2>1, <2>2
  <2>3. CASE Opens(t, n)
    <3>1. /\ pc'[t] = "announce" /\ name'[t] = n /\ inode'[t] = dir[n]
          /\ pos'[t] = 0 /\ sent'[t] = <<>>
      BY <1>5, <2>3 DEF GetOpen, Opens, TypeOK, SInv, Quiet
    <3>2. ASSUME n \notin spoiled
          PROVE  (\E u \in Threads, k \in 0..MaxChunks : Reads(t, u, k))'
      <4>1. PICK u \in Threads, k \in 0..MaxChunks : data[dir[n]] = Image(u, k)
        BY <2>3, <3>2, OpenedPart DEF Opens
      <4>2. Image(u, 0) = <<>> /\ 0 <= k
        BY DEF Image
      <4>3. Reads(t, u, k)'
        BY <2>1, <3>1, <4>1, <4>2 DEF Reads
      <4> QED
        BY <4>3
    <3>3. PartOf(t)'
      BY <2>1, <3>1, <3>2 DEF PartOf
    <3> QED
      BY <1>1, <2>1, <3>3
  <2> QED
    BY <1>5, <2>2, <2>3 DEF GetOpen, Opens
<1>6. ASSUME NEW t \in Threads, GetAnnounce(t) \/ GetReadError(t) PROVE Parts'
  <2>1. Others(t) /\ UNCHANGED <<data, name, inode, pos, sent, spoiled>>
    BY <1>6, OthersStay DEF GetAnnounce, GetReadError, GetStep, GetFault, files, history
  <2>2. ASSUME NEW u \in Threads, NEW k \in 0..MaxChunks, Reads(t, u, k) PROVE Reads(t, u, k)'
    <3>1. Len(Image(u, k)) = k
      BY DEF Image
    <3>2. size'[t] <= k
      <4>1. CASE GetAnnounce(t)
        <5>1. size'[t] = Len(data[inode[t]])
          BY <4>1 DEF GetAnnounce, TypeOK
        <5> QED
          BY <2>2, <3>1, <5>1 DEF Reads
      <4>2. CASE GetReadError(t)
        BY <2>2, <4>2 DEF GetReadError, Reads
      <4> QED
        BY <1>6, <4>1, <4>2
    <3> QED
      BY <2>1, <2>2, <3>2 DEF Reads
  <2>3. Reading(t)
    BY <1>6 DEF GetAnnounce, GetReadError, Reading
  <2>4. PartOf(t)'
    BY <2>1, <2>2, <2>3 DEF Parts, PartOf
  <2> QED
    BY <1>1, <2>1, <2>4
<1>7. ASSUME NEW t \in Threads, GetSend(t) PROVE Parts'
  <2>1. Others(t) /\ UNCHANGED <<data, pc, name, size, inode, spoiled>>
    BY <1>7, OthersStay DEF GetSend, GetStep, files, history
  <2>2. /\ Reading(t) /\ pos[t] \in Nat /\ pos[t] < Len(data[inode[t]])
        /\ pos'[t] = pos[t] + 1
        /\ sent'[t] = Append(sent[t], data[inode[t]][pos[t] + 1])
    BY <1>7 DEF GetSend, Reading, TypeOK
  <2>3. ASSUME NEW u \in Threads, NEW k \in 0..MaxChunks, Reads(t, u, k) PROVE Reads(t, u, k)'
    <3>1. pos[t] + 1 <= k /\ data[inode[t]][pos[t] + 1] = u
      BY <2>2, <2>3 DEF Reads, Image
    <3>2. Append(Image(u, pos[t]), u) = Image(u, pos[t] + 1)
      BY <2>2 DEF Image
    <3>3. sent'[t] = Image(u, pos[t] + 1)
      BY <2>2, <2>3, <3>1, <3>2 DEF Reads
    <3> QED
      BY <2>1, <2>2, <2>3, <3>1, <3>3 DEF Reads
  <2>4. PartOf(t)'
    BY <2>1, <2>2, <2>3 DEF Parts, PartOf
  <2> QED
    BY <1>1, <2>1, <2>4
<1>8. ASSUME NEW t \in Threads,
             \/ UploadOpenFails(t) \/ UploadComplete(t) \/ GetEof(t) \/ GetWriteError(t)
             \/ UploadReadError(t) \/ UploadWriteError(t)
      PROVE  Parts'
  <2>1. Others(t)
    BY <1>8, OthersStay DEF UploadStep, GetStep, GetFault
  <2>2. UNCHANGED <<data, spoiled>> /\ \E r : Return(t, r)
    BY <1>8 DEF UploadOpenFails, UploadComplete, GetEof, GetWriteError, UploadReadError,
                UploadWriteError, files, history
  <2> QED
    BY <1>3, <2>1, <2>2
<1>9. ASSUME NEW t \in Threads, Respond(t) PROVE Parts'
  <2>1. Others(t) /\ UNCHANGED <<data, spoiled>> /\ pc'[t] = "idle"
    BY <1>9, OthersStay DEF Respond, files, TypeOK
  <2> QED
    BY <1>2, <2>1
<1>10. ASSUME NEW t \in Threads, UploadReceive(t) PROVE Parts'
  <2>1. /\ pc[t] = "receive" /\ inode[t] \in Inodes /\ pos[t] \in Nat
        /\ pos[t] < size[t] /\ size[t] \in 1..MaxChunks
        /\ UNCHANGED <<pc, name, size, inode, sent, spoiled>>
    BY <1>10 DEF UploadReceive, history, TypeOK, SInv, SizeKnown, Uploading
  <2>2. Others(t)
    BY <1>10, OthersStay DEF UploadStep
  <2>3. \A i \in Inodes : i # inode[t] => data'[i] = data[i]
    BY <1>10 DEF UploadReceive, TypeOK
  <2>4. PartOf(t)'
    BY <2>1 DEF PartOf, Reading
  <2>5. ASSUME NEW s \in Threads, s # t PROVE PartOf(s)'
    <3>1. /\ pc'[s] = pc[s] /\ name'[s] = name[s] /\ size'[s] = size[s]
          /\ inode'[s] = inode[s] /\ pos'[s] = pos[s] /\ sent'[s] = sent[s]
      BY <2>2, <2>5 DEF Others
    <3>2. CASE (Reading(s) /\ name[s] \notin spoiled) => data'[inode[s]] = data[inode[s]]
      BY <2>1, <3>1, <3>2, PartStays
    <3>3. CASE /\ Reading(s) /\ name[s] \notin spoiled
               /\ data'[inode[s]] # data[inode[s]]
      <4>1. inode[s] = inode[t] /\ name[s] = name[t]
        BY <2>1, <2>3, <3>3 DEF TypeOK, ReaderInode
      <4>2. /\ ~bad[t]
            /\ data' = [data EXCEPT ![inode[t]] = WriteAt(data[inode[t]], pos[t], t)]
        BY <1>10, <3>3 DEF UploadReceive
      <4>3. data[inode[t]] = Image(t, pos[t])
        BY <2>1, <3>3, <4>1, <4>2 DEF SInv, Receiving
      <4>4. data'[inode[s]] = Image(t, pos[t] + 1)
        BY <2>1, <4>1, <4>2, <4>3, WriteAtEnd DEF TypeOK
      <4>5. PICK u \in Threads, k \in 0..MaxChunks : Reads(s, u, k)
        BY <3>3 DEF Parts, PartOf
      <4>6. k = pos[t]
        <5>1. Image(u, k) = Image(t, pos[t])
          BY <4>1, <4>3, <4>5 DEF Reads
        <5>2. Len(Image(u, k)) = k /\ Len(Image(t, pos[t])) = pos[t]
          BY <2>1 DEF Image
        <5> QED
          BY <5>1, <5>2
      <4>7. pos[s] \in 0..k
        BY <4>5 DEF Reads, TypeOK
      <4>8. sent[s] = Image(t, pos[s])
        <5>1. CASE k = 0
          BY <4>5, <4>7, <5>1 DEF Reads, Image
        <5>2. CASE k # 0
          <6>1. Image(u, k) = Image(t, k) /\ 1 \in 1..k
            BY <4>1, <4>3, <4>5, <4>6, <5>2 DEF Reads
          <6>2. Image(u, k)[1] = u /\ Image(t, k)[1] = t
            BY <6>1 DEF Image
          <6> QED
            BY <4>5, <6>1, <6>2 DEF Reads
        <5> QED
          BY <5>1, <5>2
      <4>9. PICK m \in 0..MaxChunks : m = pos[t] + 1
        BY <2>1
      <4>10. pos'[s] <= m /\ (pc'[s] \in {"send", "stuck"} => size'[s] <= m)
        <5>1. size[s] \in Nat
          BY DEF TypeOK
        <5> QED
          BY <2>1, <3>1, <4>5, <4>6, <4>7, <4>9, <5>1 DEF Reads
      <4>11. Reads(s, t, m)'
        <5>1. data'[inode'[s]] = Image(t, m) /\ sent'[s] = Image(t, pos'[s])
          BY <3>1, <4>4, <4>8, <4>9
        <5> QED
          BY <4>10, <5>1 DEF Reads
      <4> QED
        BY <4>11 DEF PartOf
    <3> QED
      BY <3>2, <3>3
  <2> QED
    BY <2>4, <2>5 DEF Parts
<1>11. ASSUME NEW t \in Threads, UploadOpen(t) PROVE Parts'
  <2>1. PICK i \in Inodes :
            /\ IF dir[name[t]] = NoInode THEN i \in FreeInodes ELSE i = dir[name[t]]
            /\ data' = [data EXCEPT ![i] = <<>>]
    BY <1>11 DEF UploadOpen
  <2>2. /\ pc[t] = "open" /\ pc'[t] = "receive" /\ name[t] \in Names
        /\ UNCHANGED spoiled /\ Others(t)
        /\ name[t] \notin spoiled => dir[name[t]] = NoInode
    BY <1>11, OthersStay
    DEF UploadOpen, UploadStep, history, TypeOK, SInv, Receiving, Uploading
  <2>3. PartOf(t)'
    BY <2>2 DEF PartOf, Reading
  <2>4. ASSUME NEW s \in Threads, s # t PROVE PartOf(s)'
    <3>1. /\ pc'[s] = pc[s] /\ name'[s] = name[s] /\ size'[s] = size[s]
          /\ inode'[s] = inode[s] /\ pos'[s] = pos[s] /\ sent'[s] = sent[s]
      BY <2>2, <2>4 DEF Others
    <3>2. ASSUME Reading(s), name[s] \notin spoiled PROVE data'[inode[s]] = data[inode[s]]
      <4>1. inode[s] # i
        BY <2>1, <2>2, <3>2 DEF FreeInodes, ReaderInode
      <4> QED
        BY <2>1, <3>2, <4>1 DEF TypeOK
    <3> QED
      BY <2>2, <3>1, <3>2, PartStays
  <2> QED
    BY <2>3, <2>4 DEF Parts
<1>12. CASE Restart
  BY <1>12 DEF Restart, Parts, PartOf, Reading
<1> QED
  BY <1>4, <1>5, <1>6, <1>7, <1>8, <1>9, <1>10, <1>11, <1>12
  DEF Next, UploadStep, GetStep, GetFault

-----------------------------------------------------------------------------
IInv ==
    /\ TypeOK /\ SInv /\ Sending /\ GetSendsStoredImage /\ NoLeftovers
    /\ Begun /\ ReaderInode /\ Parts

LEMMA InitIInv == Init => IInv
BY ImageStoreAssumption
DEF Init, IInv, TypeOK, SInv, SizeKnown, Alone, StoredClosed, OwnInode, Receiving, Quiet,
    StoredImageStays, Sending, SendingOf, GetSendsStoredImage, NoLeftovers, Uploading, Reading,
    Begun, BegunBy, ReaderInode, Parts, PartOf

LEMMA StutterIInv ==
    ASSUME IInv, UNCHANGED vars
    PROVE  IInv'
BY DEF IInv, vars, TypeOK, SInv, SizeKnown, Alone, StoredClosed, OwnInode, Receiving, Quiet,
       StoredImageStays, Sending, SendingOf, GetSendsStoredImage, NoLeftovers, Uploading, Reading,
       Begun, BegunBy, ReaderInode, Parts, PartOf, Reads

LEMMA SpecIInv == Spec => []IInv
<1>1. IInv /\ [Next]_vars => IInv'
  <2> SUFFICES ASSUME IInv, [Next]_vars PROVE IInv'
    OBVIOUS
  <2>1. CASE Next
    <3>1. TypeOK'
      BY <2>1, TypeStep DEF IInv, SInv
    <3>2. SInv'
      BY <2>1, AloneStep, OwnInodeStep, ReceivingStep, QuietStep, StoredImageStep DEF IInv, SInv
    <3> QED
      BY <2>1, <3>1, <3>2, SendingStep, NoLeftoversStep, BegunStep, ReaderInodeStep, PartStep
      DEF IInv
  <2>2. CASE UNCHANGED vars
    BY <2>2, StutterIInv
  <2> QED
    BY <2>1, <2>2
<1> QED
  BY <1>1, InitIInv, PTL DEF Spec

(* The files, and the state of every thread, keep their types. *)
THEOREM TypeCorrect == Spec => []TypeOK
<1>1. IInv => TypeOK
  BY DEF IInv
<1> QED
  BY <1>1, SpecIInv, PTL

(* An image that was uploaded alone and acknowledged stays as it is under any *)
(* later uploads, failures and restarts, for any number of threads and names. *)
THEOREM StoredImagesStay == Spec => []StoredImageStays
<1>1. IInv => StoredImageStays
  BY DEF IInv, SInv
<1> QED
  BY <1>1, SpecIInv, PTL

(* A failed upload leaves nothing that would stop it from being repeated. *)
THEOREM FailedUploadsLeaveNothing == Spec => []NoLeftovers
<1>1. IInv => NoLeftovers
  BY DEF IInv
<1> QED
  BY <1>1, SpecIInv, PTL

(* A GET_IMAGE of a stored image announces its size and sends its chunks. *)
THEOREM StoredImagesAreSent == Spec => []GetSendsStoredImage
<1>1. IInv => GetSendsStoredImage
  BY DEF IInv
<1> QED
  BY <1>1, SpecIInv, PTL

(* A file that no upload is under way for stays as it is, for any number of   *)
(* threads and names: what a crash has left as well as what was stored.       *)
THEOREM FilesAtRest == Spec => FilesAtRestStay
<1>1. IInv /\ [Next]_vars =>
        [\A n \in Names :
            (dir[n] # NoInode /\ \A t \in Threads : ~(Uploading(t) /\ name[t] = n))
                => dir'[n] = dir[n] /\ data'[dir[n]] = data[dir[n]]]_vars
  BY FilesAtRestStep DEF IInv, SInv
<1> QED
  BY <1>1, SpecIInv, PTL DEF Spec, FilesAtRestStay

(* Every size that GET_IMAGE announces is the one a client reads, for every   *)
(* number of eight bytes, of any base, on a machine of either byte order.     *)
THEOREM SizesArrive == Spec => []AnnouncedSizeArrives
<1>1. AnnouncedSizeArrives
  BY ClientReads DEF AnnouncedSizeArrives, Misread
<1> QED
  BY <1>1, PTL

-----------------------------------------------------------------------------
(* Refinement of ImageFiles.                                                *)

(* The image of a name is the one its file was stored with. *)
StoredAs(n) ==
    IF stored[n] = NoImage THEN <<>> ELSE Image(stored[n].uploader, stored[n].size)

LEMMA ImagesAre ==
    ASSUME IInv, NEW n \in Names
    PROVE  ImageOf(n) = StoredAs(n)
<1>1. CASE stored[n] # NoImage
  <2>1. n \notin spoiled /\ \A t \in Threads : Uploading(t) => name[t] # n
    BY <1>1 DEF IInv, SInv, StoredClosed
  <2>2. dir[n] = stored[n].inode /\ data[dir[n]] = Image(stored[n].uploader, stored[n].size)
    BY <1>1 DEF IInv, SInv, StoredImageStays
  <2>3. dir[n] # NoInode
    BY <1>1, <2>2, ImageStoreAssumption DEF IInv, TypeOK, StoredImage
  <2> QED
    BY <1>1, <2>1, <2>2, <2>3 DEF ImageOf, StoredAs
<1>2. CASE stored[n] = NoImage
  <2>1. n \in spoiled \/ dir[n] = NoInode \/ \E t \in Threads : Uploading(t) /\ name[t] = n
    BY <1>2 DEF IInv, NoLeftovers
  <2> QED
    BY <1>2, <2>1 DEF ImageOf, StoredAs
<1> QED
  BY <1>1, <1>2

LEMMA ImagesAreAlways == IInv => \A n \in Names : ImageOf(n) = StoredAs(n)
BY ImagesAre

LEMMA ImagesAreNext == IInv' => (\A n \in Names : ImageOf(n) = StoredAs(n))'
BY ImagesAreAlways, PTL

(* Nobody sees an image change while the uploads that were acknowledged stay. *)
LEMMA ImagesStay ==
    ASSUME IInv, IInv', UNCHANGED stored
    PROVE  UNCHANGED [n \in Names |-> ImageOf(n)]
<1>1. \A n \in Names : ImageOf(n) = StoredAs(n)
  BY ImagesAre
<1>2. \A n \in Names : ImageOf(n)' = StoredAs(n)'
  BY ImagesAreNext
<1>3. \A n \in Names : StoredAs(n)' = StoredAs(n)
  BY DEF StoredAs
<1> QED
  BY <1>1, <1>2, <1>3

(* An image of one chunk or more is an image, and as long as it says. *)
LEMMA ImageIs ==
    ASSUME NEW u \in Threads, NEW k \in Nat
    PROVE  /\ Len(Image(u, k)) = k /\ (k # 0 => Image(u, k) # <<>>)
           /\ DOMAIN Image(u, k) = 1..k
           /\ \A i \in 1..k : Image(u, k)[i] = u
BY DEF Image

(* A step of t changes what the abstract specification knows of t only. *)
LEMMA MapsOthers ==
    ASSUME NEW t \in Threads, Others(t)
    PROVE  /\ [s \in Threads |-> AbstractPhase(s)]' =
                 [[s \in Threads |-> AbstractPhase(s)] EXCEPT ![t] = AbstractPhase(t)']
           /\ [s \in Threads |-> AbstractImage(s)]' =
                 [[s \in Threads |-> AbstractImage(s)] EXCEPT ![t] = AbstractImage(t)']
           /\ [s \in Threads |-> Delivered(s)]' =
                 [[s \in Threads |-> Delivered(s)] EXCEPT ![t] = Delivered(t)']
<1>1. \A s \in Threads \ {t} : AbstractPhase(s)' = AbstractPhase(s)
  BY DEF Others, AbstractPhase, Uploading, Reading
<1>2. \A s \in Threads \ {t} : AbstractImage(s)' = AbstractImage(s)
  BY DEF Others, AbstractImage, Uploading, Reading
<1>3. \A s \in Threads \ {t} : Delivered(s)' = Delivered(s)
  BY DEF Others, Delivered
<1> QED
  BY <1>1, <1>2, <1>3

LEMMA Phases ==
    ASSUME IInv, NEW t \in Threads
    PROVE  /\ AbstractPhase(t) = "idle" <=> pc[t] = "idle"
           /\ AbstractPhase(t) = "answered" <=> pc[t] = "reply"
           /\ AbstractPhase(t) = "upload" <=> Uploading(t)
           /\ AbstractPhase(t) = "get" <=> Reading(t)
           /\ pc[t] \in {"idle", "reply"} => AbstractImage(t) = <<>>
           /\ Uploading(t) => AbstractImage(t) = Image(t, size[t])
           /\ pc[t] # "reply" => reply[t] = "none" /\ Delivered(t) = Promise!Nothing
BY DEF IInv, TypeOK, SInv, Quiet, AbstractPhase, AbstractImage, Delivered, Uploading, Reading,
       Promise!Nothing

LEMMA BusyIs ==
    ASSUME IInv, NEW n
    PROVE  Promise!Busy(n) <=> \E u \in Threads : Uploading(u) /\ name[u] = n
BY Phases DEF Promise!Busy

(* A file that exists() finds, or fopen opens, is an image, or nobody can tell. *)
LEMMA TakenIs ==
    ASSUME IInv, NEW n \in Names, dir[n] # NoInode
    PROVE  Promise!Taken(n)
<1>1. CASE stored[n] # NoImage
  <2>1. stored[n].uploader \in Threads /\ stored[n].size \in 1..MaxChunks
    BY <1>1 DEF IInv, TypeOK, StoredImage
  <2>2. ImageOf(n) # <<>>
    BY <1>1, <2>1, ImagesAre, ImageIs, ImageStoreAssumption DEF StoredAs
  <2> QED
    BY <2>2 DEF Promise!Taken, Promise!NoContent
<1>2. CASE stored[n] = NoImage
  BY <1>2, BusyIs DEF IInv, NoLeftovers, Promise!Taken
<1> QED
  BY <1>1, <1>2

(* A name without a file has no image. *)
LEMMA UntakenIs ==
    ASSUME IInv, NEW n \in Names, dir[n] = NoInode
    PROVE  [m \in Names |-> ImageOf(m)][n] = Promise!NoContent
BY DEF ImageOf, Promise!NoContent

LEMMA AnswerStep ==
    ASSUME IInv, IInv', NEW t \in Threads, NEW r, Others(t), Return(t, r)
    PROVE  Promise!Answer(t, r)
<1>1. pc'[t] = "reply"
  BY DEF Return, IInv, TypeOK
<1>2. AbstractPhase(t)' = "answered" /\ AbstractImage(t)' = <<>>
  BY <1>1 DEF AbstractPhase, AbstractImage, Uploading, Reading
<1> QED
  BY <1>2, MapsOthers DEF Promise!Answer, Promise!NoContent, Return

(* A thread that has sent nothing, and tells its client that, delivers nothing. *)
LEMMA NothingDelivered ==
    ASSUME IInv, NEW t \in Threads, Others(t), pc[t] # "reply", reply'[t] # "sent"
    PROVE  UNCHANGED [s \in Threads |-> Delivered(s)]
<1>1. Delivered(t) = Promise!Nothing
  BY Phases
<1>2. Delivered(t)' = Promise!Nothing
  BY DEF Delivered, Promise!Nothing
<1> QED
  BY <1>1, <1>2, MapsOthers

LEMMA RefInit == Init => Promise!Init
<1> SUFFICES ASSUME Init PROVE Promise!Init
  OBVIOUS
<1>1. \A n \in Names : ImageOf(n) = <<>>
  BY DEF Init, ImageOf
<1>2. \A t \in Threads : /\ AbstractPhase(t) = "idle" /\ AbstractImage(t) = <<>>
                         /\ Delivered(t) = Promise!Nothing
  BY DEF Init, AbstractPhase, AbstractImage, Delivered, Uploading, Reading, Promise!Nothing
<1> QED
  BY <1>1, <1>2 DEF Init, Promise!Init, Promise!NoContent

(* Opening a file, moving a chunk and announcing a size are not seen. *)
LEMMA RefStutters ==
    ASSUME IInv, IInv', NEW t \in Threads,
           \/ UploadOpen(t) \/ UploadReceive(t)
           \/ GetAnnounce(t) \/ GetSend(t) \/ GetReadError(t)
    PROVE  UNCHANGED Promise!vars
<1>1. Others(t)
  BY OthersStay DEF IInv, UploadStep, GetStep, GetFault
<1>2. UNCHANGED <<name, reply, stored, spoiled, wanted>>
  BY DEF UploadOpen, UploadReceive, GetAnnounce, GetSend, GetReadError, history
<1>3. \/ Uploading(t) /\ Uploading(t)' /\ size'[t] = size[t]
      \/ Reading(t) /\ Reading(t)'
  BY DEF UploadOpen, UploadReceive, GetAnnounce, GetSend, GetReadError, Uploading, Reading,
         IInv, TypeOK
<1>4. AbstractPhase(t)' = AbstractPhase(t) /\ AbstractImage(t)' = AbstractImage(t)
  <2>1. CASE Uploading(t) /\ Uploading(t)' /\ size'[t] = size[t]
    BY <2>1 DEF AbstractPhase, AbstractImage, Uploading, Reading
  <2>2. CASE Reading(t) /\ Reading(t)'
    BY <1>2, <2>2 DEF AbstractPhase, AbstractImage, Uploading, Reading
  <2> QED
    BY <1>3, <2>1, <2>2
<1>5. UNCHANGED <<[s \in Threads |-> AbstractPhase(s)], [s \in Threads |-> AbstractImage(s)]>>
  BY <1>1, <1>4, MapsOthers
<1>6. pc[t] # "reply" /\ reply'[t] = "none"
  BY <1>2, <1>3, Phases DEF Uploading, Reading
<1>7. UNCHANGED [s \in Threads |-> Delivered(s)]
  BY <1>1, <1>6, NothingDelivered
<1>8. UNCHANGED [n \in Names |-> ImageOf(n)]
  BY <1>2, ImagesStay
<1> QED
  BY <1>2, <1>5, <1>7, <1>8 DEF Promise!vars

LEMMA RefUploadCheck ==
    ASSUME IInv, IInv', NEW t \in Threads, NEW n \in Names \cup {BadName},
           NEW k \in 1..MaxChunks, UploadCheck(t, n, k)
    PROVE  Promise!UploadRefused(t) \/ Promise!UploadBegins(t)
<1> USE ImageStoreAssumption
<1>1. Others(t)
  BY OthersStay DEF IInv
<1>2. pc[t] = "idle" /\ name' = [name EXCEPT ![t] = n] /\ UNCHANGED stored
  BY DEF UploadCheck
<1>3. AbstractPhase(t) = "idle" /\ AbstractImage(t) = <<>>
  BY <1>2, Phases
<1>4. UNCHANGED [m \in Names |-> ImageOf(m)]
  BY <1>2, ImagesStay
<1>5. ASSUME NEW r \in {"400", "409"}, Return(t, r)
      PROVE  Promise!Answer(t, r) /\ UNCHANGED [s \in Threads |-> Delivered(s)]
  <2>1. reply'[t] # "sent"
    BY <1>5 DEF Return, IInv, TypeOK
  <2> QED
    BY <1>1, <1>2, <1>5, <2>1, AnswerStep, NothingDelivered
<1>6. CASE n = BadName /\ Return(t, "400") /\ UNCHANGED spoiled
  BY <1>2, <1>3, <1>4, <1>5, <1>6 DEF Promise!UploadRefused
<1>7. CASE n \in Names /\ dir[n] # NoInode /\ Return(t, "409") /\ UNCHANGED spoiled
  <2>1. Promise!Taken(n)
    BY <1>7, TakenIs
  <2> QED
    BY <1>2, <1>3, <1>4, <1>5, <1>7, <2>1 DEF Promise!UploadRefused
<1>8. CASE n \in Names /\ dir[n] = NoInode /\ pc' = [pc EXCEPT ![t] = "open"]
  <2>1. /\ size' = [size EXCEPT ![t] = k] /\ UNCHANGED reply
        /\ spoiled' = IF \E u \in Threads : Uploading(u) /\ name[u] = n
                      THEN spoiled \cup {n} ELSE spoiled
    BY <1>8 DEF UploadCheck
  <2>2. pc'[t] = "open" /\ size'[t] = k
    BY <1>8, <2>1 DEF IInv, TypeOK
  <2>3. AbstractPhase(t)' = "upload" /\ AbstractImage(t)' = Image(t, k)
    BY <2>2 DEF AbstractPhase, AbstractImage, Uploading, Reading
  <2>4. reply'[t] # "sent"
    BY <1>2, <2>1, Phases
  <2>5. UNCHANGED [s \in Threads |-> Delivered(s)]
    BY <1>1, <1>2, <2>4, NothingDelivered
  <2>6. Promise!Begin(t, "upload", n, Image(t, k))
    BY <1>1, <1>2, <1>3, <1>4, <2>1, <2>3, <2>5, MapsOthers DEF Promise!Begin
  <2>7. spoiled' = IF Promise!Busy(n) THEN spoiled \cup {n} ELSE spoiled
    BY <2>1, BusyIs
  <2>8. [m \in Names |-> ImageOf(m)][n] = Promise!NoContent
    BY <1>8, UntakenIs
  <2>9. n \in Names /\ Image(t, k) \in {Image(s, j) : s \in Threads, j \in 1..MaxChunks}
    BY <1>8
  <2>10. Promise!UploadBegins(t)
    BY <2>6, <2>7, <2>8, <2>9, SMTT(30) DEF Promise!UploadBegins
  <2> QED
    BY <2>10
<1> QED
  BY <1>6, <1>7, <1>8 DEF UploadCheck

LEMMA RefUploadComplete ==
    ASSUME IInv, IInv', NEW t \in Threads, UploadComplete(t)
    PROVE  Promise!UploadSucceeds(t)
<1> USE ImageStoreAssumption
<1>1. Others(t)
  BY OthersStay DEF IInv, UploadStep
<1>2. /\ pc[t] = "receive" /\ Uploading(t) /\ Return(t, "200") /\ name[t] \in Names
      /\ UNCHANGED <<spoiled, name>>
      /\ stored' = IF name[t] \in spoiled THEN stored
                   ELSE [stored EXCEPT ![name[t]] =
                          [inode |-> inode[t], uploader |-> t, size |-> size[t]]]
  BY DEF UploadComplete, Uploading, IInv, TypeOK
<1>3. AbstractPhase(t) = "upload" /\ AbstractImage(t) = Image(t, size[t])
  BY <1>2, Phases
<1>4. Promise!Answer(t, "200") /\ UNCHANGED [s \in Threads |-> Delivered(s)]
  <2>1. reply'[t] # "sent"
    BY <1>2 DEF Return, IInv, TypeOK
  <2> QED
    BY <1>1, <1>2, <2>1, AnswerStep, NothingDelivered
<1>5. ASSUME name[t] \notin spoiled
      PROVE  [n \in Names |-> ImageOf(n)]' =
                [[n \in Names |-> ImageOf(n)] EXCEPT ![name[t]] = Image(t, size[t])]
  <2> DEFINE s == [inode |-> inode[t], uploader |-> t, size |-> size[t]]
  <2>1. stored' = [stored EXCEPT ![name[t]] = s]
    BY <1>2, <1>5
  <2>2. s # NoImage /\ s.uploader = t /\ s.size = size[t]
    BY <1>2 DEF IInv, TypeOK, SInv, SizeKnown
  <2>3. \A n \in Names : StoredAs(n)' = IF n = name[t] THEN Image(t, size[t]) ELSE StoredAs(n)
    <3> HIDE DEF s
    <3> QED
      BY <1>2, <2>1, <2>2 DEF StoredAs, IInv, TypeOK
  <2>4. \A n \in Names : ImageOf(n) = StoredAs(n)
    BY ImagesAre
  <2>5. \A n \in Names : ImageOf(n)' = StoredAs(n)'
    BY ImagesAreNext
  <2> QED
    BY <2>3, <2>4, <2>5
<1>6. name[t] \in spoiled => UNCHANGED [n \in Names |-> ImageOf(n)]
  BY <1>2, ImagesStay
<1> QED
  BY <1>2, <1>3, <1>4, <1>5, <1>6 DEF Promise!UploadSucceeds

LEMMA RefUploadFails ==
    ASSUME IInv, IInv', NEW t \in Threads,
           UploadOpenFails(t) \/ UploadReadError(t) \/ UploadWriteError(t)
    PROVE  Promise!UploadFails(t)
<1>1. Others(t)
  BY OthersStay DEF IInv, UploadStep
<1>2. Uploading(t) /\ Return(t, "500") /\ UNCHANGED <<stored, spoiled, name>>
  BY DEF UploadOpenFails, UploadReadError, UploadWriteError, Uploading, history
<1>3. AbstractPhase(t) = "upload"
  BY <1>2, Phases
<1>4. Promise!Answer(t, "500") /\ UNCHANGED [s \in Threads |-> Delivered(s)]
  <2>1. reply'[t] # "sent" /\ pc[t] # "reply"
    BY <1>2 DEF Return, IInv, TypeOK, Uploading
  <2> QED
    BY <1>1, <1>2, <2>1, AnswerStep, NothingDelivered
<1>5. UNCHANGED [n \in Names |-> ImageOf(n)]
  BY <1>2, ImagesStay
<1> QED
  BY <1>2, <1>3, <1>4, <1>5 DEF Promise!UploadFails

LEMMA RefGetOpen ==
    ASSUME IInv, IInv', NEW t \in Threads, NEW n \in Names, GetOpen(t, n)
    PROVE  Promise!GetMissing(t) \/ Promise!GetBegins(t)
<1>1. Others(t)
  BY OthersStay DEF IInv
<1>2. /\ pc[t] = "idle" /\ name' = [name EXCEPT ![t] = n] /\ UNCHANGED <<stored, spoiled>>
  BY DEF GetOpen
<1>3. AbstractPhase(t) = "idle" /\ AbstractImage(t) = <<>>
  BY <1>2, Phases
<1>4. UNCHANGED [m \in Names |-> ImageOf(m)]
  BY <1>2, ImagesStay
<1>5. CASE (dir[n] = NoInode \/ DiskMayFail) /\ Return(t, "404")
  <2>1. reply'[t] # "sent"
    BY <1>5 DEF Return, IInv, TypeOK
  <2>2. Promise!Answer(t, "404") /\ UNCHANGED [s \in Threads |-> Delivered(s)]
    BY <1>1, <1>2, <1>5, <2>1, AnswerStep, NothingDelivered
  <2>3. dir[n] = NoInode => [m \in Names |-> ImageOf(m)][n] = Promise!NoContent
    BY UntakenIs
  <2> QED
    BY <1>2, <1>3, <1>4, <1>5, <2>2, <2>3 DEF Promise!GetMissing
<1>6. CASE Opens(t, n)
  <2>1. /\ pc' = [pc EXCEPT ![t] = "announce"] /\ wanted' = [wanted EXCEPT ![t] = stored[n]]
        /\ UNCHANGED reply
    BY <1>6 DEF Opens
  <2>2. pc'[t] = "announce" /\ wanted'[t] = stored[n]
    BY <2>1 DEF IInv, TypeOK
  <2>3. AbstractPhase(t)' = "get" /\ AbstractImage(t)' = StoredAs(n)
    BY <2>2 DEF AbstractPhase, AbstractImage, Uploading, Reading, StoredAs
  <2>4. [m \in Names |-> ImageOf(m)][n] = StoredAs(n)
    BY ImagesAre
  <2>5. reply'[t] # "sent"
    BY <1>2, <2>1, Phases
  <2>6. UNCHANGED [s \in Threads |-> Delivered(s)]
    BY <1>1, <1>2, <2>5, NothingDelivered
  <2>7. Promise!Begin(t, "get", n, StoredAs(n))
    BY <1>1, <1>2, <1>3, <1>4, <2>1, <2>3, <2>6, MapsOthers DEF Promise!Begin
  <2>8. Promise!Taken(n)
    BY <1>6, TakenIs DEF Opens
  <2> QED
    BY <1>2, <2>4, <2>7, <2>8 DEF Promise!GetBegins
<1> QED
  BY <1>5, <1>6 DEF GetOpen, Opens

(* What a GET_IMAGE has sent when it comes to the end of the file. *)
LEMMA RefGetEof ==
    ASSUME IInv, IInv', NEW t \in Threads, GetEof(t)
    PROVE  Promise!GetDelivers(t)
<1> USE ImageStoreAssumption
<1>1. Others(t)
  BY OthersStay DEF IInv, GetStep
<1>2. /\ pc[t] = "send" /\ Reading(t) /\ Return(t, "sent")
      /\ pos[t] >= Len(data[inode[t]])
      /\ UNCHANGED <<data, stored, spoiled, wanted, name, size, sent>>
  BY DEF GetEof, Reading, files, history
<1>3. AbstractPhase(t) = "get"
  BY <1>2, Phases
<1>4. Promise!Answer(t, "sent")
  BY <1>1, <1>2, AnswerStep
<1>5. UNCHANGED [n \in Names |-> ImageOf(n)]
  BY <1>2, ImagesStay
<1>6. reply'[t] = "sent" /\ Delivered(t)' = [announced |-> size[t], chunks |-> sent[t]]
  BY <1>2 DEF Return, IInv, TypeOK, Delivered
<1> DEFINE d == [s \in Threads |-> Delivered(s)]
<1>7. d'[t] = Delivered(t)' /\ \A u \in Threads \ {t} : d'[u] = d[u]
  BY <1>1, MapsOthers
<1>8. /\ [s \in Threads |-> AbstractPhase(s)][t] = "get"
      /\ [s \in Threads |-> AbstractImage(s)][t] = AbstractImage(t)
  BY <1>3
<1>9. CASE wanted[t] # NoImage
  <2>1. wanted[t].uploader \in Threads /\ wanted[t].size \in 1..MaxChunks
    BY <1>9 DEF IInv, TypeOK, StoredImage
  <2>2. size[t] = wanted[t].size /\ sent[t] = Image(wanted[t].uploader, wanted[t].size)
    BY <1>2, <1>6, <1>9 DEF IInv, GetSendsStoredImage
  <2>3. AbstractImage(t) = Image(wanted[t].uploader, wanted[t].size)
    BY <1>2, <1>9 DEF AbstractImage, Uploading, Reading
  <2>4. Image(wanted[t].uploader, wanted[t].size) # <<>>
    BY <2>1, ImageIs
  <2>5. Promise!Whole(Delivered(t)', AbstractImage(t))
    BY <1>6, <2>1, <2>2, <2>3, ImageIs DEF Promise!Whole
  <2> QED
    BY <1>2, <1>4, <1>5, <1>7, <1>8, <2>3, <2>4, <2>5
    DEF Promise!GetDelivers, Promise!NoContent
<1>10. CASE wanted[t] = NoImage
  <2>1. AbstractImage(t) = <<>>
    BY <1>2, <1>10 DEF AbstractImage, Uploading, Reading
  <2>2. ASSUME name[t] \notin spoiled
        PROVE  \E v \in {Image(u, k) : u \in Threads, k \in 1..MaxChunks} :
                   Promise!Part(Delivered(t)', v)
    <3>1. PICK u \in Threads, k \in 0..MaxChunks : Reads(t, u, k)
      BY <1>2, <2>2 DEF IInv, Parts, PartOf
    <3>2. /\ pos[t] \in Nat /\ pos[t] <= k /\ data[inode[t]] = Image(u, k)
          /\ sent[t] = Image(u, pos[t]) /\ size[t] <= k /\ size[t] \in Nat
      BY <1>2, <3>1 DEF Reads, IInv, TypeOK
    <3>3. sent[t] = Image(u, k)
      <4>1. pos[t] = k
        BY <1>2, <3>2, ImageIs
      <4> QED
        BY <3>2, <4>1
    <3>4. PICK m \in 1..MaxChunks : k <= m
      <4>1. k \in 1..MaxChunks \/ (k = 0 /\ 1 \in 1..MaxChunks)
        OBVIOUS
      <4> QED
        BY <4>1
    <3>5. Promise!Part(Delivered(t)', Image(u, m))
      BY <1>6, <3>2, <3>3, <3>4, ImageIs DEF Promise!Part
    <3> QED
      BY <3>5
  <2> QED
    BY <1>2, <1>4, <1>5, <1>7, <1>8, <2>1, <2>2
    DEF Promise!GetDelivers, Promise!NoContent
<1> QED
  BY <1>9, <1>10

LEMMA RefGetWriteError ==
    ASSUME IInv, IInv', NEW t \in Threads, GetWriteError(t)
    PROVE  Promise!GetBreaksOff(t)
<1>1. Others(t)
  BY OthersStay DEF IInv, GetFault
<1>2. Reading(t) /\ Return(t, "gone") /\ UNCHANGED <<stored, spoiled, name>>
  BY DEF GetWriteError, Reading, history
<1>3. AbstractPhase(t) = "get"
  BY <1>2, Phases
<1>4. Promise!Answer(t, "gone") /\ UNCHANGED [s \in Threads |-> Delivered(s)]
  <2>1. reply'[t] # "sent" /\ pc[t] # "reply"
    BY <1>2 DEF Return, IInv, TypeOK, Reading
  <2> QED
    BY <1>1, <1>2, <2>1, AnswerStep, NothingDelivered
<1>5. UNCHANGED [n \in Names |-> ImageOf(n)]
  BY <1>2, ImagesStay
<1> QED
  BY <1>2, <1>3, <1>4, <1>5 DEF Promise!GetBreaksOff

LEMMA RefRespond ==
    ASSUME IInv, IInv', NEW t \in Threads, Respond(t)
    PROVE  Promise!Respond(t)
<1>1. Others(t)
  BY OthersStay DEF IInv
<1>2. /\ pc[t] = "reply" /\ pc'[t] = "idle" /\ reply'[t] = "none"
      /\ reply' = [reply EXCEPT ![t] = "none"]
      /\ name' = [name EXCEPT ![t] = BadName] /\ UNCHANGED <<stored, spoiled>>
  BY DEF Respond, IInv, TypeOK
<1>3. AbstractPhase(t) = "answered" /\ AbstractImage(t) = <<>>
  BY <1>2, Phases
<1>4. /\ AbstractPhase(t)' = "idle" /\ AbstractImage(t)' = <<>>
      /\ Delivered(t)' = Promise!Nothing
  BY <1>2 DEF AbstractPhase, AbstractImage, Delivered, Uploading, Reading, Promise!Nothing
<1>5. UNCHANGED [n \in Names |-> ImageOf(n)]
  BY <1>2, ImagesStay
<1>6. UNCHANGED [s \in Threads |-> AbstractImage(s)]
  BY <1>1, <1>3, <1>4, MapsOthers
<1> QED
  BY <1>1, <1>2, <1>3, <1>4, <1>5, <1>6, MapsOthers DEF Promise!Respond

LEMMA RefRestart ==
    ASSUME IInv, IInv', Restart
    PROVE  Promise!Restart
<1>1. UNCHANGED [n \in Names |-> ImageOf(n)]
  BY ImagesStay DEF Restart
<1>2. \A t \in Threads : /\ AbstractPhase(t)' = "idle" /\ AbstractImage(t)' = <<>>
                         /\ Delivered(t)' = Promise!Nothing
  BY DEF Restart, AbstractPhase, AbstractImage, Delivered, Uploading, Reading, Promise!Nothing
<1>3. spoiled' = spoiled \cup {n \in Names : Promise!Busy(n)}
  <2>1. {name[t] : t \in {u \in Threads : Uploading(u)}} = {n \in Names : Promise!Busy(n)}
    BY BusyIs DEF IInv, TypeOK
  <2> QED
    BY <2>1 DEF Restart
<1> QED
  BY <1>1, <1>2, <1>3 DEF Restart, Promise!Restart, Promise!NoContent

(* Every step of the handlers is a step of ImageFiles, or one it does not see. *)
LEMMA RefStep ==
    ASSUME IInv, IInv', [Next]_vars
    PROVE  [Promise!Next]_Promise!vars
<1>1. ASSUME NEW t \in Threads, NEW n \in Names \cup {BadName}, NEW k \in 1..MaxChunks,
             UploadCheck(t, n, k)
      PROVE  Promise!Next
  BY <1>1, RefUploadCheck DEF Promise!Next
<1>2. ASSUME NEW t \in Threads, NEW n \in Names, GetOpen(t, n) PROVE Promise!Next
  BY <1>2, RefGetOpen DEF Promise!Next
<1>3. ASSUME NEW t \in Threads, UploadStep(t) PROVE Promise!Next \/ UNCHANGED Promise!vars
  BY <1>3, RefStutters, RefUploadComplete, RefUploadFails DEF UploadStep, Promise!Next
<1>4. ASSUME NEW t \in Threads, GetStep(t) \/ GetFault(t)
      PROVE  Promise!Next \/ UNCHANGED Promise!vars
  BY <1>4, RefStutters, RefGetEof, RefGetWriteError DEF GetStep, GetFault, Promise!Next
<1>5. ASSUME NEW t \in Threads, Respond(t) PROVE Promise!Next
  BY <1>5, RefRespond DEF Promise!Next
<1>6. CASE Restart
  BY <1>6, RefRestart DEF Promise!Next
<1>7. ASSUME UNCHANGED vars PROVE UNCHANGED Promise!vars
  <2>1. UNCHANGED [n \in Names |-> ImageOf(n)]
    BY <1>7, ImagesStay DEF vars
  <2>2. \A t \in Threads : /\ AbstractPhase(t)' = AbstractPhase(t)
                           /\ AbstractImage(t)' = AbstractImage(t)
                           /\ Delivered(t)' = Delivered(t)
    BY <1>7 DEF vars, AbstractPhase, AbstractImage, Delivered, Uploading, Reading
  <2> QED
    BY <1>7, <2>1, <2>2 DEF vars, Promise!vars
<1> QED
  BY <1>1, <1>2, <1>3, <1>4, <1>5, <1>6, <1>7 DEF Next

(* UPLOAD and GET_IMAGE keep the promises of ImageFiles, in every interleaving *)
(* of any number of threads, with failing disks, clients that leave, and       *)
(* restarts: an image is there whole from the instant its upload is            *)
(* acknowledged, and a transfer delivers one image, all that it announced.     *)
THEOREM Refinement == Spec => ImplementsImageFiles
<1>1. IInv /\ IInv' /\ [Next]_vars => [Promise!Next]_Promise!vars
  BY RefStep
<1> QED
  BY <1>1, RefInit, SpecIInv, PTL DEF Spec, ImplementsImageFiles, Promise!Spec
=============================================================================
