---------------------------- MODULE ClientService ---------------------------
(***************************************************************************)
(* What the server promises to those who connect.  While it is open,        *)
(* clients queue up and are let in one after the other, in the order of     *)
(* their arrival, as long as there is a seat.  Whoever is at the door is    *)
(* turned away or becomes a guest; a guest stays one, over a secure         *)
(* connection of his own, until he has been seen off, and leaves after      *)
(* that.  When the server closes, everybody is gone.                        *)
(*                                                                          *)
(* Server.tla is the specification translated from the code; it is shown to *)
(* implement this one.                                                      *)
(***************************************************************************)
EXTENDS Naturals, Sequences, FiniteSets

CONSTANTS
    Clients,   \* those who may connect
    Seats,     \* places for connections
    Backlog    \* how many may queue up

VARIABLES
    open,      \* the server accepts clients
    queue,     \* the clients that wait, in the order of their arrival
    place      \* place[c]: "away", "door", "guest" or "leaving"

vars == <<open, queue, place>>

Init ==
    /\ open = FALSE
    /\ queue = <<>>
    /\ place = [c \in Clients |-> "away"]

Seated == {c \in Clients : place[c] # "away"}

Goes(c, from, to) ==
    /\ place[c] = from
    /\ place' = [place EXCEPT ![c] = to]
    /\ UNCHANGED <<open, queue>>

-----------------------------------------------------------------------------
Open ==
    /\ open = FALSE /\ open' = TRUE
    /\ UNCHANGED <<queue, place>>

Arrive(c) ==
    /\ open /\ place[c] = "away"
    /\ Len(queue) < Backlog /\ \A i \in DOMAIN queue : queue[i] # c
    /\ queue' = Append(queue, c)
    /\ UNCHANGED <<open, place>>

(* The first of the queue has given up waiting. *)
GiveUp ==
    /\ queue # <<>>
    /\ queue' = Tail(queue)
    /\ UNCHANGED <<open, place>>

LetIn ==
    /\ queue # <<>>
    /\ \A c \in Clients : place[c] # "door"
    /\ Cardinality(Seated) < Cardinality(Seats)
    /\ place' = [place EXCEPT ![Head(queue)] = "door"]
    /\ queue' = Tail(queue)
    /\ UNCHANGED open

TurnAway(c) == Goes(c, "door", "away")

Welcome(c) == Goes(c, "door", "guest")

SeeOff(c) == Goes(c, "guest", "leaving")

Leave(c) == Goes(c, "leaving", "away")

Shut ==
    /\ open /\ open' = FALSE
    /\ queue' = <<>>
    /\ place' = [c \in Clients |-> "away"]

Next ==
    \/ Open \/ GiveUp \/ LetIn \/ Shut
    \/ \E c \in Clients :
          Arrive(c) \/ TurnAway(c) \/ Welcome(c) \/ SeeOff(c) \/ Leave(c)

Spec == Init /\ [][Next]_vars
=============================================================================
