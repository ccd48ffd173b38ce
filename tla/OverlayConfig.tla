---------------------------- MODULE OverlayConfig ---------------------------
(***************************************************************************)
(* /dev/shm/overlay_config: the JSON object by which CHANGE_FRAME steers    *)
(* the overlay program, and GET_FRAME, which returns it.  CHANGE_FRAME      *)
(* reads the file, changes its copy, truncates the file and writes the copy *)
(* back; the client threads do this side by side and without a lock.        *)
(* GET_LOG returns /dev/shm/shm_status in the same way, a file this program  *)
(* never writes.                                                            *)
(*                                                                          *)
(* The file is created by the overlay program, which is not part of this    *)
(* repository: it is taken to hold, from the start, an object with all keys *)
(* CHANGE_FRAME knows, or not to exist.                                     *)
(***************************************************************************)
EXTENDS Integers

CONSTANTS
    Threads,          \* client threads
    Requests,         \* bound: the CHANGE_FRAME payloads the clients send
    Junk,             \* a word operator>> cannot read, or no word at all
    Absent,           \* a key that is not in the object
    NoConfig,         \* the result of a parse that failed
    Status,           \* what shm_status holds
    FaultsMayHappen   \* TRUE: opens and writes may fail, the server may be killed and restarted

Modes == {"original", "sharp", "day", "night"}

Config == [bbox : BOOLEAN, timestamp : BOOLEAN, mode : Modes,
           sharpness : 0..100 \cup {Absent}]

(* A payload: menu_type, then bool_val or mode_val, and for "sharp" the level. *)
Request ==
    [menu : Int \cup {Junk}, flag : Int \cup {Junk},
     mode : Modes \cup {Junk}, level : Int \cup {Junk}]

ASSUME OverlayConfigAssumption ==
    /\ Requests \subseteq Request
    /\ Junk \notin Int /\ Junk \notin Modes
    /\ Absent \notin 0..100
    /\ NoConfig \notin Config /\ Status \notin Config \cup {NoConfig}
    /\ FaultsMayHappen \in BOOLEAN

VARIABLES
    file,      \* the file: whether it exists, its leading JSON object, its length
    pc,        \* pc[t]: where thread t stands
    request,   \* request[t]: the payload thread t is serving
    config,    \* config[t]: the JSON object in the handler of t
    answer,    \* answer[t]: the "code" of the reply of t
    (* What the environment remembers; the code keeps neither. *)
    expected,  \* the object that results if every acknowledged change counts
    overlapped,  \* TRUE once two changes have overlapped
    faulted    \* TRUE once a write has failed or a thread was killed before its write

vars == <<file, pc, request, config, answer, expected, overlapped, faulted>>

Missing == [exists |-> FALSE, object |-> NoConfig, length |-> 0]

Empty == [exists |-> TRUE, object |-> NoConfig, length |-> 0]

-----------------------------------------------------------------------------
(* The conversions *)

(* The length of config.dump(): punctuation, keys and values. *)
BoolLength(b) == IF b THEN 4 ELSE 5

ModeLength == [m \in Modes |->
    CASE m = "original" -> 8 [] m = "day" -> 3 [] OTHER -> 5]

LevelLength(l) ==
    CASE l = Absent -> 0 [] l = 100 -> 22 [] l \in 10..99 -> 21 [] OTHER -> 20

DumpLength(c) ==
    42 + ModeLength[c.mode] + LevelLength(c.sharpness)
       + BoolLength(c.bbox) + BoolLength(c.timestamp)

(* Mutants: text behind the object makes the parse fail, the range of the level *)
(* is off by one, the level of an older "sharp" is not erased.                *)
ParseAll(f) ==
    IF f.object # NoConfig /\ f.length = DumpLength(f.object) THEN f.object ELSE NoConfig

ValidTo101(r) ==
    \/ r.menu \in {0, 1} /\ r.flag \in {0, 1}
    \/ r.menu = 2 /\ r.mode \in Modes \ {"sharp"}
    \/ r.menu = 2 /\ r.mode = "sharp" /\ r.level \in 0..101

ChangeKeepsLevel(c, r) ==
    CASE r.menu = 0 -> [c EXCEPT !.bbox = (r.flag = 1)]
      [] r.menu = 1 -> [c EXCEPT !.timestamp = (r.flag = 1)]
      [] r.menu = 2 -> [c EXCEPT !.mode = r.mode,
                            !.sharpness = IF r.mode = "sharp" THEN r.level ELSE c.sharpness]

(* ifs >> config parses the JSON value the file starts with; what follows it *)
(* is not looked at (json.hpp:24170, parse(false, j)).                       *)
Parse(f) == f.object

(* ofs << config.dump() at offset 0: older text beyond the new one stays. *)
Overwrite(f, c) ==
    [exists |-> TRUE, object |-> c,
     length |-> IF f.length > DumpLength(c) THEN f.length ELSE DumpLength(c)]

(* The tests on the words after menu_type. *)
Valid(r) ==
    \/ r.menu \in {0, 1} /\ r.flag \in {0, 1}
    \/ r.menu = 2 /\ r.mode \in Modes \ {"sharp"}
    \/ r.menu = 2 /\ r.mode = "sharp" /\ r.level \in 0..100

(* The assignments to config, for a valid payload. *)
Change(c, r) ==
    CASE r.menu = 0 -> [c EXCEPT !.bbox = (r.flag = 1)]
      [] r.menu = 1 -> [c EXCEPT !.timestamp = (r.flag = 1)]
      [] r.menu = 2 -> [c EXCEPT !.mode = r.mode,
                            !.sharpness = IF r.mode = "sharp" THEN r.level ELSE Absent]

-----------------------------------------------------------------------------
NoRequest == [menu |-> Junk, flag |-> Junk, mode |-> Junk, level |-> Junk]

(* What the overlay program may have written: a level comes with "sharp" only. *)
Coherent(c) == (c.sharpness # Absent) <=> (c.mode = "sharp")

Init ==
    /\ \/ file = Missing
       \/ \E c \in [bbox : {TRUE}, timestamp : {TRUE}, mode : {"original"}, sharpness : {Absent}] :
             file = [exists |-> TRUE, object |-> c, length |-> DumpLength(c)]
    /\ pc = [t \in Threads |-> "idle"]
    /\ request = [t \in Threads |-> NoRequest]
    /\ config = [t \in Threads |-> NoConfig]
    /\ answer = [t \in Threads |-> 0]
    /\ expected = file.object
    /\ overlapped = FALSE /\ faulted = FALSE

Reply(t, code) ==
    /\ pc' = [pc EXCEPT ![t] = "reply"]
    /\ answer' = [answer EXCEPT ![t] = code]

(* handleChangeFrame reads menu_type. *)
ChangeReceive(t) ==
    /\ pc[t] = "idle"
    /\ \E r \in Requests :
          /\ request' = [request EXCEPT ![t] = r]
          /\ IF r.menu = Junk
             THEN Reply(t, 400)
             ELSE pc' = [pc EXCEPT ![t] = "read"] /\ UNCHANGED answer
    /\ UNCHANGED <<file, config, expected, overlapped, faulted>>

(* Mutants of ChangeRead: the copy is a fresh object with the defaults; a file *)
(* that cannot be read counts as one with the defaults.                       *)
Defaults == [bbox |-> TRUE, timestamp |-> TRUE, mode |-> "original", sharpness |-> Absent]

ChangeReadDefaults(t) ==
    /\ pc[t] = "read" /\ Parse(file) # NoConfig /\ Valid(request[t])
    /\ config' = [config EXCEPT ![t] = Change(Defaults, request[t])]
    /\ pc' = [pc EXCEPT ![t] = "open"]
    /\ overlapped' = (overlapped \/ \E u \in Threads : pc[u] \in {"open", "write"})
    /\ UNCHANGED <<file, request, answer, expected, faulted>>

ChangeReadAnyway(t) ==
    /\ pc[t] = "read" /\ Valid(request[t])
    /\ LET copy == IF Parse(file) = NoConfig THEN Defaults ELSE Parse(file)
       IN  config' = [config EXCEPT ![t] = Change(copy, request[t])]
    /\ pc' = [pc EXCEPT ![t] = "open"]
    /\ overlapped' = (overlapped \/ \E u \in Threads : pc[u] \in {"open", "write"})
    /\ UNCHANGED <<file, request, answer, expected, faulted>>

(* The file is opened, read and parsed, then the other words are tested and   *)
(* the copy is changed.                                                      *)
ChangeRead(t) ==
    /\ pc[t] = "read"
    /\ \/ /\ Parse(file) = NoConfig \/ FaultsMayHappen
          /\ Reply(t, 500) /\ UNCHANGED <<config, overlapped>>
       \/ /\ Parse(file) # NoConfig /\ ~Valid(request[t])
          /\ Reply(t, 400) /\ UNCHANGED <<config, overlapped>>
       \/ /\ Parse(file) # NoConfig /\ Valid(request[t])
          /\ config' = [config EXCEPT ![t] = Change(Parse(file), request[t])]
          /\ pc' = [pc EXCEPT ![t] = "open"]
          /\ overlapped' = (overlapped \/ \E u \in Threads : pc[u] \in {"open", "write"})
          /\ UNCHANGED answer
    /\ UNCHANGED <<file, request, expected, faulted>>

(* std::ofstream ofs(config_path) empties the file. *)
ChangeOpen(t) ==
    /\ pc[t] = "open"
    /\ \/ /\ file' = Empty
          /\ pc' = [pc EXCEPT ![t] = "write"]
          /\ UNCHANGED answer
       \/ /\ FaultsMayHappen
          /\ Reply(t, 500) /\ UNCHANGED file
    /\ UNCHANGED <<request, config, expected, overlapped, faulted>>

(* The copy is written.  The stream is not tested: the answer is the same    *)
(* when nothing could be written.                                            *)
ChangeWrite(t) ==
    /\ pc[t] = "write"
    /\ Reply(t, 200)
    /\ expected' = Change(expected, request[t])
    /\ \/ file' = Overwrite(file, config[t]) /\ UNCHANGED faulted
       \/ FaultsMayHappen /\ UNCHANGED file /\ faulted' = TRUE
    /\ UNCHANGED <<request, config, overlapped>>

(* Mutant of GetFrame: the exception of the parser is swallowed. *)
GetFrameUnparsed(t) ==
    /\ pc[t] = "idle"
    /\ config' = [config EXCEPT ![t] = Parse(file)]
    /\ Reply(t, 200)
    /\ UNCHANGED <<file, request, expected, overlapped, faulted>>

(* handleGetFrame opens, reads and parses the file once. *)
GetFrame(t) ==
    /\ pc[t] = "idle"
    /\ \/ /\ Parse(file) # NoConfig
          /\ Reply(t, 200) /\ config' = [config EXCEPT ![t] = Parse(file)]
       \/ /\ Parse(file) = NoConfig \/ FaultsMayHappen
          /\ Reply(t, 500) /\ UNCHANGED config
    /\ UNCHANGED <<file, request, expected, overlapped, faulted>>

(* handleGetLog: shm_status may be there, or not, and be readable, or not. *)
GetLog(t) ==
    /\ pc[t] = "idle"
    /\ \/ Reply(t, 200) /\ config' = [config EXCEPT ![t] = Status]
       \/ Reply(t, 500) /\ UNCHANGED config
    /\ UNCHANGED <<file, request, expected, overlapped, faulted>>

(* handleClientSSL writes the reply and reads the next command. *)
Respond(t) ==
    /\ pc[t] = "reply"
    /\ pc' = [pc EXCEPT ![t] = "idle"]
    /\ request' = [request EXCEPT ![t] = NoRequest]
    /\ config' = [config EXCEPT ![t] = NoConfig]
    /\ answer' = [answer EXCEPT ![t] = 0]
    /\ UNCHANGED <<file, expected, overlapped, faulted>>

(* The server is killed and started again; the file outlives it. *)
Restart ==
    /\ FaultsMayHappen
    /\ \E t \in Threads : pc[t] # "idle"
    /\ faulted' = (faulted \/ \E t \in Threads : pc[t] = "write")
    /\ pc' = [t \in Threads |-> "idle"]
    /\ request' = [t \in Threads |-> NoRequest]
    /\ config' = [t \in Threads |-> NoConfig]
    /\ answer' = [t \in Threads |-> 0]
    /\ UNCHANGED <<file, expected, overlapped>>

Next ==
    \/ \E t \in Threads :
          \/ ChangeReceive(t) \/ ChangeRead(t) \/ ChangeOpen(t) \/ ChangeWrite(t)
          \/ GetFrame(t) \/ GetLog(t)
          \/ Respond(t)
    \/ Restart

Spec == Init /\ [][Next]_vars

-----------------------------------------------------------------------------
(***************************************************************************)
(* Refinement: the settings are those that were acknowledged, and unknown   *)
(* once changes have overlapped or a fault has hit one.                     *)
(***************************************************************************)
Disturbed == overlapped \/ faulted

Settings == IF Disturbed THEN NoConfig ELSE expected

Malformed(r) == r.menu = Junk

AbstractPhase(t) ==
    CASE pc[t] = "idle"  -> "idle"
      [] pc[t] = "reply" -> "answered"
      [] pc[t] \in {"read", "open", "write"} -> "pending"

Returned(t) == IF request[t] = NoRequest THEN config[t] ELSE NoConfig

Frame == INSTANCE FrameSettings WITH
            settings  <- Settings,
            disturbed <- Disturbed,
            phase     <- [t \in Threads |-> AbstractPhase(t)],
            data      <- [t \in Threads |-> Returned(t)]

-----------------------------------------------------------------------------
(* Properties *)

Writing(t) == pc[t] = "write"

(* Type correctness of the file and of the state of every thread. *)
TypeOK ==
    /\ file \in [exists : BOOLEAN, object : Config \cup {NoConfig}, length : Nat]
    /\ pc \in [Threads -> {"idle", "read", "open", "write", "reply"}]
    /\ request \in [Threads -> Requests \cup {NoRequest}]
    /\ config \in [Threads -> Config \cup {NoConfig, Status}]
    /\ answer \in [Threads -> {0, 200, 400, 500}]
    /\ expected \in Config \cup {NoConfig}
    /\ overlapped \in BOOLEAN /\ faulted \in BOOLEAN

(* However changes of mode overlap and whatever fails, the overlay program    *)
(* never reads a sharpness level under a mode other than "sharp", nor "sharp" *)
(* without a level.                                                           *)
SharpnessGoesWithMode == Parse(file) # NoConfig => Coherent(Parse(file))

(* Changes that did not overlap, on a disk without faults, all count: between *)
(* the truncation and the write of a change apart, the file holds the result  *)
(* of every change that was acknowledged, and of no change that was refused.  *)
SerialChangesCount ==
    (~overlapped /\ ~faulted /\ \A t \in Threads : ~Writing(t)) => Parse(file) = expected

(* On a disk without faults, an existing file that cannot be parsed is one    *)
(* that some thread has emptied and is about to fill, also when two threads   *)
(* have written over one another: CHANGE_FRAME, which must parse the file     *)
(* first, would else fail for ever.                                           *)
ReadableAtRest ==
    (~faulted /\ file.exists /\ Parse(file) = NoConfig) => \E t \in Threads : Writing(t)

(* A file that a fault has left unreadable is not made up anew: while no      *)
(* change is under way that has read it before, no CHANGE_FRAME replaces the   *)
(* settings the overlay program had, or adds the file where it was missing.   *)
Unreadable == Parse(file) = NoConfig /\ \A t \in Threads : pc[t] \notin {"open", "write"}

UnreadableStays == [][Unreadable => Unreadable' /\ file' = file]_vars

(* CHANGE_FRAME and GET_FRAME keep the promises of FrameSettings: until two    *)
(* changes meet or a fault hits one, every interleaving of reading, emptying   *)
(* and writing the file answers as if each command had been served at one     *)
(* instant, GET_FRAME never returns settings that were not acknowledged, and  *)
(* an error is answered for a reason only, which is that there are no settings *)
(* to be had, or a fault.                                                     *)
ImplementsFrameSettings == Frame!Spec

(* "Overlay config updated" (CommandHandler.cpp:533): once no change is under *)
(* way, the file holds every change that was so acknowledged.                 *)
UpdatedMeansKept ==
    (\A t \in Threads : pc[t] \in {"idle", "reply"}) => Parse(file) = expected

=============================================================================
