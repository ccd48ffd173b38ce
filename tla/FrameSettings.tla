--------------------------- MODULE FrameSettings ---------------------------
(***************************************************************************)
(* What CHANGE_FRAME and GET_FRAME promise to their clients: there is one   *)
(* object of settings; a change takes effect at the one instant at which it *)
(* is acknowledged, and is refused, without an effect, only for a reason;   *)
(* GET_FRAME returns the settings there are, or says, for a reason, that it *)
(* cannot.  A disk that may fail is a reason.                               *)
(*                                                                          *)
(* Two changes at once, a failing disk and the end of the process in the    *)
(* middle of a change may disturb the settings.  From then on nobody knows  *)
(* them, but GET_FRAME still returns settings that make sense, and the      *)
(* changes that do are the ones that are acknowledged.                      *)
(*                                                                          *)
(* OverlayConfig.tla is the specification translated from the code; it is   *)
(* shown to implement this one.                                             *)
(***************************************************************************)

CONSTANTS
    Threads,           \* the client threads of the server
    Requests,          \* what a CHANGE_FRAME asks for
    NoRequest,         \* the request of a thread that serves no CHANGE_FRAME
    NoConfig,          \* no settings, or unknown ones
    Status,            \* what GET_LOG returns
    Malformed(_),      \* a request nobody can read
    Valid(_),          \* a request that makes sense
    Coherent(_),       \* settings that make sense
    Change(_, _),      \* the settings that result from a request
    FaultsMayHappen    \* TRUE: the disk may fail, the process may end

VARIABLES
    settings,   \* the settings, or NoConfig
    disturbed,  \* nobody knows the settings any more
    phase,      \* phase[t]: where thread t stands
    request,    \* request[t]: the change asked for, or NoRequest
    data,       \* data[t]: what a GET_FRAME or a GET_LOG returns
    answer      \* answer[t]: the "code" of the reply

vars == <<settings, disturbed, phase, request, data, answer>>

Init ==
    /\ settings = NoConfig \/ Coherent(settings)
    /\ disturbed = FALSE
    /\ phase = [t \in Threads |-> "idle"]
    /\ request = [t \in Threads |-> NoRequest]
    /\ data = [t \in Threads |-> NoConfig]
    /\ answer = [t \in Threads |-> 0]

Answer(t, code) ==
    /\ phase' = [phase EXCEPT ![t] = "answered"]
    /\ answer' = [answer EXCEPT ![t] = code]

(* A change is under way in a thread that is not t. *)
OtherChange(t) == \E u \in Threads \ {t} : phase[u] = "pending"

(* There are no settings to be had. *)
NoSettings(t) == disturbed \/ settings = NoConfig \/ OtherChange(t)

Disturb == disturbed' = TRUE /\ settings' = NoConfig

-----------------------------------------------------------------------------
(* CHANGE_FRAME *)

Receive(t) ==
    /\ phase[t] = "idle"
    /\ \E r \in Requests :
          /\ request' = [request EXCEPT ![t] = r]
          /\ \/ Malformed(r) /\ Answer(t, 400)
             \/ ~Malformed(r) /\ phase' = [phase EXCEPT ![t] = "pending"] /\ UNCHANGED answer
    /\ UNCHANGED <<settings, disturbed, data>>

Acknowledge(t) ==
    /\ phase[t] = "pending" /\ Valid(request[t])
    /\ Answer(t, 200)
    /\ \/ /\ ~disturbed /\ settings # NoConfig
          /\ settings' = Change(settings, request[t])
          /\ UNCHANGED disturbed
       \/ (disturbed \/ FaultsMayHappen) /\ Disturb
    /\ UNCHANGED <<request, data>>

Refuse(t) ==
    /\ phase[t] = "pending"
    /\ \/ ~Valid(request[t]) /\ Answer(t, 400)
       \/ (NoSettings(t) \/ FaultsMayHappen) /\ Answer(t, 500)
    /\ UNCHANGED <<settings, disturbed, request, data>>

(* Two changes meet. *)
Overlap(t) ==
    /\ phase[t] = "pending" /\ OtherChange(t)
    /\ Disturb
    /\ UNCHANGED <<phase, request, data, answer>>

-----------------------------------------------------------------------------
(* GET_FRAME, and GET_LOG, which returns a file of another program. *)

GetFrame(t) ==
    /\ phase[t] = "idle"
    /\ \/ /\ Answer(t, 200)
          /\ data'[t] \notin {NoConfig, Status}
          /\ IF disturbed THEN Coherent(data'[t]) ELSE data'[t] = settings
          /\ data' = [data EXCEPT ![t] = data'[t]]
       \/ (NoSettings(t) \/ FaultsMayHappen) /\ Answer(t, 500) /\ UNCHANGED data
    /\ UNCHANGED <<settings, disturbed, request>>

GetLog(t) ==
    /\ phase[t] = "idle"
    /\ \/ Answer(t, 200) /\ data' = [data EXCEPT ![t] = Status]
       \/ Answer(t, 500) /\ UNCHANGED data
    /\ UNCHANGED <<settings, disturbed, request>>

-----------------------------------------------------------------------------
Respond(t) ==
    /\ phase[t] = "answered"
    /\ phase' = [phase EXCEPT ![t] = "idle"]
    /\ request' = [request EXCEPT ![t] = NoRequest]
    /\ data' = [data EXCEPT ![t] = NoConfig]
    /\ answer' = [answer EXCEPT ![t] = 0]
    /\ UNCHANGED <<settings, disturbed>>

(* The process ends and is started again: changes that were not acknowledged  *)
(* have no effect, unless the end of one has disturbed the settings.          *)
Restart ==
    /\ FaultsMayHappen
    /\ \/ UNCHANGED <<settings, disturbed>>
       \/ (\E t \in Threads : phase[t] = "pending") /\ Disturb
    /\ phase' = [t \in Threads |-> "idle"]
    /\ request' = [t \in Threads |-> NoRequest]
    /\ data' = [t \in Threads |-> NoConfig]
    /\ answer' = [t \in Threads |-> 0]

Next ==
    \/ \E t \in Threads :
          \/ Receive(t) \/ Acknowledge(t) \/ Refuse(t) \/ Overlap(t)
          \/ GetFrame(t) \/ GetLog(t) \/ Respond(t)
    \/ Restart

Spec == Init /\ [][Next]_vars
=============================================================================
