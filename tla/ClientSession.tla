---------------------------- MODULE ClientSession ---------------------------
(***************************************************************************)
(* One TLS connection: TcpServer::handleClientSSL, which cuts the byte      *)
(* stream of a client into command lines and image bodies, and its client.  *)
(*                                                                          *)
(* The protocol has no go-ahead: after an UPLOAD line the client sends the  *)
(* image at once (test/test_ImageUpload.cpp:35-45), and whatever the server *)
(* does not read as an image it reads as command lines.                     *)
(*                                                                          *)
(* The text of a command line is one element of the stream, its newline     *)
(* another, and every byte of an image one; image bytes are told apart by   *)
(* whether they happen to be a newline.                                     *)
(***************************************************************************)
EXTENDS Integers, Sequences

CONSTANTS
    Kinds,        \* bound: the kinds of lines the client sends
    MaxRequests,  \* bound: lines on one connection
    MaxBody,      \* bound: the largest image, in bytes
    MaxGarbage    \* bound: the largest value an uninitialised filesize is seen to have

AllKinds ==
    {"blank",             \* an empty line
     "upload",            \* UPLOAD name size, followed by size bytes
     "upload_invalid",    \* UPLOAD without a name, or with a size that reads as 0
     "upload_unsized",    \* UPLOAD name: filesize is never assigned
     "get_image",         \* GET_IMAGE path
     "get_image_nopath",  \* GET_IMAGE
     "command"}           \* any other line, handed to CommandHandler::handle

ASSUME ClientSessionAssumption ==
    /\ Kinds \subseteq AllKinds
    /\ MaxRequests \in Nat /\ MaxBody \in Nat \ {0} /\ MaxGarbage \in Nat \ {0}

VARIABLES
    (* The client. *)
    script,    \* the requests it has sent, in order
    owed,      \* the image bytes it has still to send for the last of them
    hungUp,    \* it has closed its end
    (* The connection and the server. *)
    stream,    \* bytes sent by the client and not read by the server
    pc,        \* what the thread is doing
    cmd,       \* std::string cmd, the line read so far
    left,      \* filesize - totalBytesRead of the upload under way
    serving,   \* the request of the upload under way
    replies,   \* the request every reply was given to, 0 for a line the client never sent
    (* What the environment remembers. *)
    outOfStep  \* an upload was refused whose image is in the stream, or one was
               \* accepted that has none

client == <<script, owed, hungUp>>
vars == <<script, owed, hungUp, stream, pc, cmd, left, serving, replies, outOfStep>>

Byte == [kind : {"text", "newline", "image", "image_newline"}, request : 1..MaxRequests]

ImageByte(b) == b.kind \in {"image", "image_newline"}

EndsLine(b) == b.kind \in {"newline", "image_newline"}

Init ==
    /\ script = <<>> /\ owed = 0 /\ hungUp = FALSE
    /\ stream = <<>> /\ pc = "line" /\ cmd = <<>>
    /\ left = 0 /\ serving = 0 /\ replies = <<>>
    /\ outOfStep = FALSE

-----------------------------------------------------------------------------
(* The client *)

(* A line; an "upload" line announces n bytes, other lines none. *)
SendLine(k, n) ==
    /\ ~hungUp /\ pc # "closed" /\ owed = 0 /\ Len(script) < MaxRequests
    /\ (n > 0) <=> (k = "upload")
    /\ LET i == Len(script) + 1
       IN  stream' = stream \o (IF k = "blank" THEN <<>> ELSE <<[kind |-> "text", request |-> i]>>)
                            \o <<[kind |-> "newline", request |-> i]>>
    /\ script' = Append(script, [kind |-> k, size |-> n])
    /\ owed' = n
    /\ UNCHANGED <<hungUp, pc, cmd, left, serving, replies, outOfStep>>

(* The image that belongs to the last line, byte by byte. *)
SendImageByte ==
    /\ ~hungUp /\ pc # "closed" /\ owed > 0
    /\ owed' = owed - 1
    /\ \E k \in {"image", "image_newline"} :
          stream' = Append(stream, [kind |-> k, request |-> Len(script)])
    /\ UNCHANGED <<script, hungUp, pc, cmd, left, serving, replies, outOfStep>>

(* The client closes the connection, possibly in the middle of an image. *)
HangUp ==
    /\ ~hungUp
    /\ hungUp' = TRUE
    /\ UNCHANGED <<script, owed, stream, pc, cmd, left, serving, replies, outOfStep>>

-----------------------------------------------------------------------------
(* handleClientSSL *)

(* SSL_read of one byte, up to the end of the line. *)
ReadLine ==
    /\ pc = "line" /\ stream # <<>>
    /\ cmd' = Append(cmd, Head(stream))
    /\ stream' = Tail(stream)
    /\ pc' = IF EndsLine(Head(stream)) THEN "dispatch" ELSE "line"
    /\ UNCHANGED <<client, left, serving, replies, outOfStep>>

(* Mutant: the end of the connection ends the line, as it would with getline. *)
ReadEndAsLine ==
    /\ pc = "line" /\ stream = <<>> /\ hungUp
    /\ cmd' = Append(cmd, [kind |-> "newline", request |-> 1])
    /\ pc' = "dispatch"
    /\ UNCHANGED <<client, stream, left, serving, replies, outOfStep>>

(* SSL_read finds the connection closed. *)
ReadEnd ==
    /\ pc = "line" /\ stream = <<>> /\ hungUp
    /\ pc' = "closed"
    /\ UNCHANGED <<client, stream, cmd, left, serving, replies, outOfStep>>

(* The tests of handleClientSSL on the line: the text of a command decides;  *)
(* a line that starts with image bytes is no known command.                  *)
Line ==
    CASE Len(cmd) = 1          -> "blank"
      [] cmd[1].kind = "text"  -> script[cmd[1].request].kind
      [] OTHER                 -> "unknown"

Requested == IF cmd[1].kind = "text" THEN cmd[1].request ELSE 0

(* SSL_write of a reply to request r, and back to the next line. *)
Reply(r) ==
    /\ replies' = Append(replies, r)
    /\ pc' = "line"
    /\ cmd' = <<>>

(* Mutants: an answer to an empty line, none to an invalid UPLOAD, a receive    *)
(* loop that ends a byte early or late, or one that waits for a byte more.    *)
AnswerBlank ==
    /\ pc = "dispatch" /\ Line = "blank"
    /\ Reply(0)
    /\ UNCHANGED <<client, stream, left, serving, outOfStep>>

UploadInvalidSilently ==
    /\ pc = "dispatch" /\ Line \in {"upload_invalid", "upload_unsized"}
    /\ pc' = "line" /\ cmd' = <<>>
    /\ UNCHANGED <<client, stream, left, serving, replies, outOfStep>>

ReadBodyLate ==
    /\ pc = "body" /\ left >= 0 /\ stream # <<>>
    /\ stream' = Tail(stream)
    /\ left' = left - 1
    /\ UNCHANGED <<client, pc, cmd, serving, replies, outOfStep>>

UploadAcceptedShort ==
    /\ pc = "dispatch" /\ Line = "upload"
    /\ left' = script[Requested].size - 1
    /\ serving' = Requested
    /\ pc' = "body" /\ cmd' = <<>>
    /\ UNCHANGED <<client, stream, replies, outOfStep>>

UploadAcceptedLong ==
    /\ pc = "dispatch" /\ Line = "upload"
    /\ left' = script[Requested].size + 1
    /\ serving' = Requested
    /\ pc' = "body" /\ cmd' = <<>>
    /\ UNCHANGED <<client, stream, replies, outOfStep>>

(* if (cmd == "\n") continue *)
SkipBlank ==
    /\ pc = "dispatch" /\ Line = "blank"
    /\ pc' = "line" /\ cmd' = <<>>
    /\ UNCHANGED <<client, stream, left, serving, replies, outOfStep>>

(* CommandHandler::handle answers every line that is left to it. *)
HandleCommand ==
    /\ pc = "dispatch" /\ Line \in {"command", "unknown"}
    /\ Reply(Requested)
    /\ UNCHANGED <<client, stream, left, serving, outOfStep>>

(* filename.empty() || filesize == 0 *)
UploadInvalid ==
    /\ pc = "dispatch" /\ Line \in {"upload_invalid", "upload_unsized"}
    /\ Reply(Requested)
    /\ UNCHANGED <<client, stream, left, serving, outOfStep>>

(* handleImageUpload returns 400, 409 or 500 before it reads the image. *)
UploadRefused ==
    /\ pc = "dispatch" /\ Line \in {"upload", "upload_unsized"}
    /\ Reply(Requested)
    /\ outOfStep' = (outOfStep \/ Line = "upload")
    /\ UNCHANGED <<client, stream, left, serving>>

(* handleImageUpload enters its receive loop; the filesize of a line without *)
(* one is whatever the memory held.                                          *)
UploadAccepted ==
    /\ pc = "dispatch" /\ Line \in {"upload", "upload_unsized"}
    /\ left' \in IF Line = "upload" THEN {script[Requested].size} ELSE 1..MaxGarbage
    /\ serving' = Requested
    /\ outOfStep' = (outOfStep \/ Line = "upload_unsized")
    /\ pc' = "body" /\ cmd' = <<>>
    /\ UNCHANGED <<client, stream, replies>>

(* while (totalBytesRead < filesize) *)
ReadBody ==
    /\ pc = "body" /\ left > 0 /\ stream # <<>>
    /\ stream' = Tail(stream)
    /\ left' = left - 1
    /\ UNCHANGED <<client, pc, cmd, serving, replies, outOfStep>>

(* The image is complete, or SSL_read has failed: handleImageUpload returns  *)
(* and its result is written to the client.                                  *)
UploadReturns ==
    /\ pc = "body"
    /\ left = 0 \/ (stream = <<>> /\ hungUp)
    /\ Reply(serving)
    /\ left' = 0 /\ serving' = 0
    /\ UNCHANGED <<client, stream, outOfStep>>

(* GET_IMAGE: the image or the error goes out and handleClientSSL returns,   *)
(* whatever else the client has sent.                                        *)
GetImage ==
    /\ pc = "dispatch" /\ Line \in {"get_image", "get_image_nopath"}
    /\ replies' = Append(replies, Requested)
    /\ pc' = "closed" /\ cmd' = <<>>
    /\ UNCHANGED <<client, stream, left, serving, outOfStep>>

ServerStep ==
    \/ ReadLine \/ ReadEnd \/ SkipBlank \/ HandleCommand
    \/ UploadInvalid \/ UploadRefused \/ UploadAccepted \/ ReadBody \/ UploadReturns
    \/ GetImage

Next ==
    \/ \E k \in Kinds, n \in 0..MaxBody : SendLine(k, n)
    \/ SendImageByte \/ HangUp
    \/ ServerStep

Spec == Init /\ [][Next]_vars

(* The thread of the connection runs, the handlers return, and a client that *)
(* has begun to send an image goes on or hangs up.                           *)
FairSpec == Spec /\ WF_vars(ServerStep) /\ WF_vars(SendImageByte)

-----------------------------------------------------------------------------
(* Properties *)

(* Type correctness of the connection and of the state of its thread. *)
TypeOK ==
    /\ script \in Seq([kind : Kinds, size : 0..MaxBody])
    /\ owed \in 0..MaxBody /\ hungUp \in BOOLEAN
    /\ stream \in Seq(Byte) /\ cmd \in Seq(Byte)
    /\ pc \in {"line", "dispatch", "body", "closed"}
    /\ left \in 0..(MaxBody + MaxGarbage)
    /\ serving \in 0..MaxRequests
    /\ replies \in Seq(0..MaxRequests)
    /\ outOfStep \in BOOLEAN

(* An image sent with an UPLOAD that the server accepts is read as that image *)
(* to its last byte, and nothing else is: no byte of it gets into a command   *)
(* line, no command line into it.                                             *)
BodiesAreBodies ==
    ~outOfStep =>
        /\ \A i \in DOMAIN cmd : ~ImageByte(cmd[i])
        /\ (pc = "body" /\ left > 0 /\ stream # <<>>) =>
               ImageByte(stream[1]) /\ stream[1].request = serving

(* The requests that ask for a reply. *)
Answerable == {i \in DOMAIN script : script[i].kind # "blank"}

(* A client that counts replies knows which request each belongs to: every    *)
(* reply comes after the replies to all earlier requests, also behind uploads *)
(* that break off, and none comes twice.                                      *)
RepliesInOrder ==
    ~outOfStep => \A k \in DOMAIN replies :
        /\ replies[k] \in Answerable
        /\ {replies[j] : j \in 1..(k - 1)} = {i \in Answerable : i < replies[k]}

(* Every request is answered, unless a GET_IMAGE or the client ends the       *)
(* connection before it.                                                      *)
EveryRequestAnswered ==
    \A i \in 1..MaxRequests :
        (i <= Len(script) /\ script[i].kind # "blank")
            ~> (i \in {replies[k] : k \in DOMAIN replies}
                  \/ pc = "closed" \/ hungUp \/ outOfStep)

Unanswered == Answerable \ {replies[k] : k \in DOMAIN replies}

(* Server and client never wait for each other: as long as a request has no   *)
(* reply, there is a byte to read, a line or an image to finish, or a byte     *)
(* the client has announced and not sent.                                     *)
NoStandstill ==
    (Unanswered # {} /\ ~outOfStep /\ pc # "closed") =>
        \/ owed > 0
        \/ stream # <<>> \/ hungUp
        \/ pc = "dispatch" \/ (pc = "body" /\ left = 0)

(* How many steps the server can take before it has to wait for a byte. *)
Work ==
    3 * Len(stream) + (CASE pc = "dispatch" -> 3 [] pc = "body" -> 2
                         [] pc = "line" -> 1 [] pc = "closed" -> 0)

(* No loop of the server turns without coming nearer to its end, blank lines   *)
(* and broken connections included: what the client has sent bounds the steps *)
(* the thread takes before it answers, or waits for more.                     *)
ServerComesToRest == [][ServerStep => Work' < Work]_vars

(* The bytes a client sends as an image (test/test_ImageUpload.cpp:39) are    *)
(* never part of a command line.                                              *)
ImageIsNoCommand == \A i \in DOMAIN cmd : ~ImageByte(cmd[i])
=============================================================================
