----------------------------- MODULE ImageFiles -----------------------------
(***************************************************************************)
(* What UPLOAD and GET_IMAGE promise to their clients: a file name has one  *)
(* image or none.  It gets the image at one instant, whole, when its upload *)
(* is acknowledged, and keeps it for ever; an upload that fails has no      *)
(* effect, and one is refused only for a reason.  A GET_IMAGE delivers the  *)
(* image the name had when the command was received; it answers "not found"  *)
(* only if there was none, or if the disk has failed it, which the client   *)
(* is not told apart.                                                       *)
(*                                                                          *)
(* Two uploads of one name at once, and an upload in which the process      *)
(* ends, spoil the name: nothing is promised of it any more.  A GET_IMAGE   *)
(* of a name that is being uploaded delivers a part of one image, and no    *)
(* less of it than it has announced.                                        *)
(*                                                                          *)
(* ImageStore.tla is the specification translated from the code; it is      *)
(* shown to implement this one.                                             *)
(***************************************************************************)
EXTENDS Naturals, Sequences

CONSTANTS
    Threads,    \* the client threads of the server
    Names,      \* file names
    NoName,     \* the name of a thread that serves no command
    Images,     \* what clients upload: sequences of one chunk or more
    DiskMayFail \* TRUE: a file may be there and not be readable

VARIABLES
    images,     \* images[n]: the image of n, or NoContent
    spoiled,    \* the names nothing is promised of
    phase,      \* phase[t]: where thread t stands
    name,       \* name[t]: the file name of its command
    image,      \* image[t]: what t uploads, or has to deliver if that is known
    answer,     \* answer[t]: the outcome the client is told
    delivered   \* delivered[t]: the size and the chunks a GET_IMAGE has sent

vars == <<images, spoiled, phase, name, image, answer, delivered>>

NoContent == <<>>

Nothing == [announced |-> 0, chunks |-> <<>>]

Init ==
    /\ images = [n \in Names |-> NoContent]
    /\ spoiled = {}
    /\ phase = [t \in Threads |-> "idle"]
    /\ name = [t \in Threads |-> NoName]
    /\ image = [t \in Threads |-> NoContent]
    /\ answer = [t \in Threads |-> "none"]
    /\ delivered = [t \in Threads |-> Nothing]

Busy(n) == \E t \in Threads : phase[t] = "upload" /\ name[t] = n

(* There is an image under n, or nobody can tell. *)
Taken(n) == images[n] # NoContent \/ Busy(n) \/ n \in spoiled

(* Thread t takes up a command on n. *)
Begin(t, p, n, v) ==
    /\ phase[t] = "idle"
    /\ phase' = [phase EXCEPT ![t] = p]
    /\ name' = [name EXCEPT ![t] = n]
    /\ image' = [image EXCEPT ![t] = v]
    /\ UNCHANGED <<images, answer, delivered>>

Answer(t, r) ==
    /\ phase' = [phase EXCEPT ![t] = "answered"]
    /\ image' = [image EXCEPT ![t] = NoContent]
    /\ answer' = [answer EXCEPT ![t] = r]

-----------------------------------------------------------------------------
(* UPLOAD *)

UploadBegins(t) ==
    \E n \in Names, v \in Images :
        /\ images[n] = NoContent
        /\ Begin(t, "upload", n, v)
        /\ spoiled' = IF Busy(n) THEN spoiled \cup {n} ELSE spoiled

(* A file name that is no file name, or one that is taken. *)
UploadRefused(t) ==
    /\ phase[t] = "idle"
    /\ \/ Answer(t, "400") /\ name' = [name EXCEPT ![t] = NoName]
       \/ \E n \in Names :
             Taken(n) /\ Answer(t, "409") /\ name' = [name EXCEPT ![t] = n]
    /\ UNCHANGED <<images, spoiled, delivered>>

(* The image is there from now on. *)
UploadSucceeds(t) ==
    /\ phase[t] = "upload"
    /\ images' = IF name[t] \in spoiled THEN images
                 ELSE [images EXCEPT ![name[t]] = image[t]]
    /\ Answer(t, "200")
    /\ UNCHANGED <<spoiled, name, delivered>>

UploadFails(t) ==
    /\ phase[t] = "upload"
    /\ Answer(t, "500")
    /\ UNCHANGED <<images, spoiled, name, delivered>>

-----------------------------------------------------------------------------
(* GET_IMAGE *)

GetBegins(t) ==
    \E n \in Names :
        /\ Taken(n)
        /\ Begin(t, "get", n, images[n])
        /\ UNCHANGED spoiled

GetMissing(t) ==
    /\ phase[t] = "idle"
    /\ \E n \in Names :
          /\ images[n] = NoContent \/ DiskMayFail
          /\ name' = [name EXCEPT ![t] = n]
    /\ Answer(t, "404")
    /\ UNCHANGED <<images, spoiled, delivered>>

(* d is all of image v. *)
Whole(d, v) == d = [announced |-> Len(v), chunks |-> v]

(* d is the beginning of image v, as much of it as was announced or more. *)
Part(d, v) ==
    /\ d.announced <= Len(d.chunks) /\ Len(d.chunks) <= Len(v)
    /\ \A i \in DOMAIN d.chunks : d.chunks[i] = v[i]

GetDelivers(t) ==
    /\ phase[t] = "get"
    /\ image[t] # NoContent => Whole(delivered'[t], image[t])
    /\ image[t] = NoContent /\ name[t] \notin spoiled =>
           \E v \in Images : Part(delivered'[t], v)
    /\ \A u \in Threads \ {t} : delivered'[u] = delivered[u]
    /\ Answer(t, "sent")
    /\ UNCHANGED <<images, spoiled, name>>

(* The client has gone. *)
GetBreaksOff(t) ==
    /\ phase[t] = "get"
    /\ Answer(t, "gone")
    /\ UNCHANGED <<images, spoiled, name, delivered>>

-----------------------------------------------------------------------------
Respond(t) ==
    /\ phase[t] = "answered"
    /\ phase' = [phase EXCEPT ![t] = "idle"]
    /\ answer' = [answer EXCEPT ![t] = "none"]
    /\ delivered' = [delivered EXCEPT ![t] = Nothing]
    /\ name' = [name EXCEPT ![t] = NoName]
    /\ UNCHANGED <<images, spoiled, image>>

(* The process ends and is started again: the images are all that is left. *)
Restart ==
    /\ spoiled' = spoiled \cup {n \in Names : Busy(n)}
    /\ phase' = [t \in Threads |-> "idle"]
    /\ name' = [t \in Threads |-> NoName]
    /\ image' = [t \in Threads |-> NoContent]
    /\ answer' = [t \in Threads |-> "none"]
    /\ delivered' = [t \in Threads |-> Nothing]
    /\ UNCHANGED images

Next ==
    \/ \E t \in Threads :
          \/ UploadBegins(t) \/ UploadRefused(t)
          \/ UploadSucceeds(t) \/ UploadFails(t)
          \/ GetBegins(t) \/ GetMissing(t) \/ GetDelivers(t) \/ GetBreaksOff(t)
          \/ Respond(t)
    \/ Restart

Spec == Init /\ [][Next]_vars
=============================================================================
