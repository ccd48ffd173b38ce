------------------------ MODULE OverlayConfig_proofs ------------------------
(***************************************************************************)
(* Proofs about OverlayConfig, for any number of threads and any payloads.  *)
(*                                                                          *)
(* What a thread is about to write is always a coherent object (Copies);    *)
(* an unreadable file is one that a thread or a fault has emptied; and as   *)
(* long as changes have not overlapped, one thread at most is between its   *)
(* read and the end of its write, and its copy is the expected object with  *)
(* its change (Serial).                                                     *)
(***************************************************************************)
EXTENDS OverlayConfig, TLAPS

(* A change under way: it has read the file and has not yet written it. *)
Changing(t) == pc[t] \in {"open", "write"}

Copies ==
    /\ \A t \in Threads : Changing(t) =>
          /\ config[t] \in Config /\ Coherent(config[t])
          /\ request[t] \in Request /\ Valid(request[t])
          /\ expected \in Config
    /\ file.object # NoConfig => expected \in Config

Serial ==
    (~overlapped /\ ~faulted) =>
        /\ \A t, u \in Threads : Changing(t) /\ Changing(u) => t = u
        /\ \A t \in Threads : Changing(t) => config[t] = Change(expected, request[t])
        /\ \A t \in Threads : Writing(t) => Parse(file) = NoConfig

IInv ==
    /\ TypeOK /\ Copies /\ Serial
    /\ SharpnessGoesWithMode /\ SerialChangesCount /\ ReadableAtRest

-----------------------------------------------------------------------------
(* A valid change of a coherent object is a coherent object. *)
LEMMA ChangeKeeps ==
    ASSUME NEW c \in Config, NEW r \in Request, Valid(r)
    PROVE  Change(c, r) \in Config /\ (Coherent(c) => Coherent(Change(c, r)))
<1>1. CASE r.menu = 0
  <2>1. Change(c, r) = [c EXCEPT !.bbox = (r.flag = 1)]
    BY <1>1 DEF Change
  <2>2. PICK b \in BOOLEAN : b = (r.flag = 1)
    OBVIOUS
  <2>3. Change(c, r) = [c EXCEPT !.bbox = b]
    BY <2>1, <2>2
  <2>4. Change(c, r) \in Config
    BY <2>3 DEF Config
  <2>5. Change(c, r).mode = c.mode /\ Change(c, r).sharpness = c.sharpness
    BY <2>3 DEF Config
  <2> QED
    BY <2>4, <2>5 DEF Coherent
<1>2. CASE r.menu = 1
  <2>1. Change(c, r) = [c EXCEPT !.timestamp = (r.flag = 1)]
    BY <1>2 DEF Change
  <2>2. PICK b \in BOOLEAN : b = (r.flag = 1)
    OBVIOUS
  <2>3. Change(c, r) = [c EXCEPT !.timestamp = b]
    BY <2>1, <2>2
  <2>4. Change(c, r) \in Config
    BY <2>3 DEF Config
  <2>5. Change(c, r).mode = c.mode /\ Change(c, r).sharpness = c.sharpness
    BY <2>3 DEF Config
  <2> QED
    BY <2>4, <2>5 DEF Coherent
<1>3. CASE r.menu = 2 /\ r.mode \in Modes \ {"sharp"}
  <2>1. r.menu # 0 /\ r.menu # 1 /\ r.menu = 2 /\ r.mode # "sharp"
    BY <1>3
  <2>2. Change(c, r) = [c EXCEPT !.mode = r.mode,
                            !.sharpness = IF r.mode = "sharp" THEN r.level ELSE Absent]
    BY <2>1 DEF Change
  <2>3. Change(c, r) = [c EXCEPT !.mode = r.mode, !.sharpness = Absent]
    BY <2>1, <2>2
  <2>4. Change(c, r) \in Config
    BY <1>3, <2>3 DEF Config
  <2>5. Change(c, r).mode = r.mode /\ Change(c, r).sharpness = Absent
    BY <2>3 DEF Config
  <2> QED
    BY <1>3, <2>4, <2>5 DEF Coherent
<1>4. CASE r.menu = 2 /\ r.mode = "sharp" /\ r.level \in 0..100
  <2>1. Change(c, r) = [c EXCEPT !.mode = r.mode, !.sharpness = r.level]
    BY <1>4 DEF Change
  <2>2. Change(c, r) \in Config
    BY <1>4, <2>1 DEF Config, Modes
  <2>3. Change(c, r).mode = "sharp" /\ Change(c, r).sharpness # Absent
    BY <1>4, <2>1, OverlayConfigAssumption DEF Config
  <2> QED
    BY <2>2, <2>3 DEF Coherent
<1> QED
  BY <1>1, <1>2, <1>3, <1>4 DEF Valid

(* A text has a length. *)
LEMMA DumpLengthType ==
    ASSUME NEW c \in Config
    PROVE  DumpLength(c) \in Nat
<1>1. ModeLength[c.mode] \in Nat
  BY DEF ModeLength, Config, Modes
<1>2. LevelLength(c.sharpness) \in Nat
  BY DEF LevelLength
<1>3. BoolLength(c.bbox) \in Nat /\ BoolLength(c.timestamp) \in Nat
  BY DEF BoolLength
<1> QED
  BY <1>1, <1>2, <1>3 DEF DumpLength

File == [exists : BOOLEAN, object : Config \cup {NoConfig}, length : Nat]

LEMMA OverwriteType ==
    ASSUME NEW f \in File, NEW c \in Config
    PROVE  /\ Overwrite(f, c) \in File
           /\ Overwrite(f, c).object = c /\ Overwrite(f, c).exists
BY DumpLengthType DEF Overwrite, File

-----------------------------------------------------------------------------
LEMMA InitIInv == Init => IInv
<1> SUFFICES ASSUME Init PROVE IInv
  OBVIOUS
<1>1. CASE file = Missing
  BY <1>1
  DEF Init, IInv, TypeOK, Missing, Copies, Serial, SharpnessGoesWithMode, SerialChangesCount,
      ReadableAtRest, Changing, Parse
<1>2. ASSUME NEW c \in [bbox : {TRUE}, timestamp : {TRUE}, mode : {"original"}, sharpness : {Absent}],
             file = [exists |-> TRUE, object |-> c, length |-> DumpLength(c)]
      PROVE  IInv
  <2>1. c \in Config /\ Coherent(c)
    BY DEF Config, Modes, Coherent
  <2>2. DumpLength(c) \in Nat /\ c # NoConfig
    BY <2>1, DumpLengthType, OverlayConfigAssumption
  <2> QED
    BY <1>2, <2>1, <2>2
    DEF Init, IInv, TypeOK, Copies, Serial, SharpnessGoesWithMode, SerialChangesCount,
        ReadableAtRest, Changing, Writing, Parse
<1> QED
  BY <1>1, <1>2 DEF Init

(* A step that neither reads nor writes the file, and begins no change. *)
LEMMA Aside ==
    ASSUME IInv, TypeOK', UNCHANGED <<file, expected, overlapped, faulted>>,
           \A t \in Threads : Changing(t)' =>
               Changing(t) /\ config'[t] = config[t] /\ request'[t] = request[t],
           \A t \in Threads : Writing(t)' <=> Writing(t)
    PROVE  IInv'
BY DEF IInv, Copies, Serial, SharpnessGoesWithMode, SerialChangesCount, ReadableAtRest

LEMMA NextIInv == IInv /\ [Next]_vars => IInv'
<1> SUFFICES ASSUME IInv, [Next]_vars PROVE IInv'
  OBVIOUS
<1> USE DEF Changing, Writing, Reply
<1>1. ASSUME NEW t \in Threads, ChangeReceive(t) PROVE IInv'
  <2>1. TypeOK'
    BY <1>1 DEF ChangeReceive, IInv, TypeOK
  <2>2. /\ pc[t] = "idle" /\ pc'[t] \in {"read", "reply"}
        /\ \A s \in Threads \ {t} : pc'[s] = pc[s] /\ request'[s] = request[s]
        /\ UNCHANGED <<file, config, expected, overlapped, faulted>>
    BY <1>1 DEF ChangeReceive, IInv, TypeOK
  <2> QED
    BY <2>1, <2>2, Aside
<1>2. ASSUME NEW t \in Threads, ChangeRead(t) PROVE IInv'
  <2>1. CASE /\ pc[t] = "read" /\ \E code \in {400, 500} : Reply(t, code)
             /\ UNCHANGED <<file, request, config, expected, overlapped, faulted>>
    <3>1. TypeOK'
      BY <2>1 DEF IInv, TypeOK
    <3> QED
      BY <2>1, <3>1, Aside DEF IInv, TypeOK
  <2>2. CASE /\ pc[t] = "read" /\ Parse(file) # NoConfig /\ Valid(request[t])
             /\ config' = [config EXCEPT ![t] = Change(Parse(file), request[t])]
             /\ pc' = [pc EXCEPT ![t] = "open"]
             /\ overlapped' = (overlapped \/ \E u \in Threads : pc[u] \in {"open", "write"})
             /\ UNCHANGED <<file, request, answer, expected, faulted>>
    <3> DEFINE c == Change(file.object, request[t])
    <3>1. file.object \in Config /\ Coherent(file.object) /\ expected \in Config
      BY <2>2 DEF IInv, TypeOK, Parse, SharpnessGoesWithMode, Copies
    <3>2. request[t] \in Request
      BY <2>2, OverlayConfigAssumption DEF IInv, TypeOK, NoRequest, Request
    <3>3. c \in Config /\ Coherent(c)
      BY <2>2, <3>1, <3>2, ChangeKeeps
    <3>4. config'[t] = c /\ \A s \in Threads \ {t} : config'[s] = config[s] /\ pc'[s] = pc[s]
      BY <2>2 DEF IInv, TypeOK, Parse
    <3> HIDE DEF c
    <3>5. TypeOK'
      <4>1. config' \in [Threads -> Config \cup {NoConfig, Status}]
        BY <2>2, <3>3, <3>4 DEF IInv, TypeOK
      <4>2. overlapped' \in BOOLEAN
        BY <2>2 DEF IInv, TypeOK
      <4> QED
        BY <2>2, <4>1, <4>2 DEF IInv, TypeOK
    <3>6. Copies'
      BY <2>2, <3>1, <3>2, <3>3, <3>4 DEF IInv, Copies
    <3>7. Serial'
      <4> SUFFICES ASSUME ~overlapped', ~faulted' PROVE Serial'
        BY DEF Serial
      <4>1. ~overlapped /\ ~faulted /\ \A u \in Threads : ~Changing(u)
        BY <2>2
      <4>2. file.object = expected
        BY <4>1 DEF IInv, SerialChangesCount, Parse
      <4>3. c = Change(expected, request[t])
        BY <4>2 DEF c
      <4> QED
        BY <2>2, <3>4, <4>1, <4>3 DEF Serial
    <3>8. (SharpnessGoesWithMode /\ SerialChangesCount /\ ReadableAtRest)'
      <4>1. \A u \in Threads : Writing(u)' <=> Writing(u)
        BY <2>2, <3>4 DEF IInv, TypeOK
      <4>2. ~overlapped' => ~overlapped
        BY <2>2
      <4> QED
        BY <2>2, <4>1, <4>2 DEF IInv, SharpnessGoesWithMode, SerialChangesCount, ReadableAtRest
    <3> QED
      BY <3>5, <3>6, <3>7, <3>8 DEF IInv
  <2> QED
    BY <1>2, <2>1, <2>2 DEF ChangeRead
<1>3. ASSUME NEW t \in Threads, ChangeOpen(t) PROVE IInv'
  <2>1. CASE /\ pc[t] = "open" /\ Reply(t, 500)
             /\ UNCHANGED <<file, request, config, expected, overlapped, faulted>>
    <3>1. TypeOK'
      BY <2>1 DEF IInv, TypeOK
    <3> QED
      BY <2>1, <3>1, Aside DEF IInv, TypeOK
  <2>2. CASE /\ pc[t] = "open" /\ file' = Empty /\ pc' = [pc EXCEPT ![t] = "write"]
             /\ UNCHANGED <<answer, request, config, expected, overlapped, faulted>>
    <3>1. pc'[t] = "write" /\ \A s \in Threads \ {t} : pc'[s] = pc[s]
      BY <2>2 DEF IInv, TypeOK
    <3>2. TypeOK' /\ file'.object = NoConfig
      BY <2>2 DEF IInv, TypeOK, Empty
    <3>3. Copies' /\ Serial'
      BY <2>2, <3>1, <3>2 DEF IInv, Copies, Serial, Parse
    <3>4. (SharpnessGoesWithMode /\ SerialChangesCount /\ ReadableAtRest)'
      BY <3>1, <3>2 DEF SharpnessGoesWithMode, SerialChangesCount, ReadableAtRest, Parse
    <3> QED
      BY <3>2, <3>3, <3>4 DEF IInv
  <2> QED
    BY <1>3, <2>1, <2>2 DEF ChangeOpen
<1>4. ASSUME NEW t \in Threads, ChangeWrite(t) PROVE IInv'
  <2>1. /\ pc[t] = "write" /\ pc' = [pc EXCEPT ![t] = "reply"]
        /\ answer' = [answer EXCEPT ![t] = 200]
        /\ expected' = Change(expected, request[t])
        /\ UNCHANGED <<request, config, overlapped>>
    BY <1>4 DEF ChangeWrite
  <2>2. pc'[t] = "reply" /\ \A s \in Threads \ {t} : pc'[s] = pc[s]
    BY <2>1 DEF IInv, TypeOK
  <2>3. config[t] \in Config /\ Coherent(config[t]) /\ expected' \in Config
    BY <2>1, ChangeKeeps DEF IInv, Copies
  <2>4. \/ file' = Overwrite(file, config[t]) /\ faulted' = faulted
        \/ file' = file /\ faulted' = TRUE
    BY <1>4 DEF ChangeWrite
  <2>5. file \in File /\ faulted \in BOOLEAN
    BY DEF IInv, TypeOK, File
  <2>6. CASE file' = Overwrite(file, config[t]) /\ faulted' = faulted
    <3>1. file' \in File /\ file'.object = config[t] /\ file'.exists /\ config[t] # NoConfig
      BY <2>3, <2>5, <2>6, OverwriteType, OverlayConfigAssumption
    <3>2. TypeOK'
      BY <2>1, <2>3, <2>6, <3>1 DEF IInv, TypeOK, File
    <3>3. Copies'
      BY <2>1, <2>2, <2>3 DEF IInv, Copies
    <3>4. Serial'
      BY <2>1, <2>2, <2>6 DEF IInv, Serial
    <3>5. SharpnessGoesWithMode' /\ ReadableAtRest'
      BY <2>3, <3>1 DEF SharpnessGoesWithMode, ReadableAtRest, Parse
    <3>6. SerialChangesCount'
      BY <2>1, <2>6, <3>1 DEF IInv, Serial, SerialChangesCount, Parse
    <3> QED
      BY <3>2, <3>3, <3>4, <3>5, <3>6 DEF IInv
  <2>7. CASE file' = file /\ faulted' = TRUE
    <3>1. TypeOK'
      BY <2>1, <2>3, <2>7 DEF IInv, TypeOK
    <3>2. Copies'
      BY <2>1, <2>2, <2>3 DEF IInv, Copies
    <3> QED
      BY <2>7, <3>1, <3>2
      DEF IInv, Serial, SharpnessGoesWithMode, SerialChangesCount, ReadableAtRest
  <2> QED
    BY <2>4, <2>6, <2>7
<1>5. ASSUME NEW t \in Threads, GetFrame(t) PROVE IInv'
  <2>1. TypeOK'
    <3>1. Parse(file) \in Config \cup {NoConfig}
      BY DEF IInv, TypeOK, Parse
    <3> QED
      BY <1>5, <3>1 DEF GetFrame, IInv, TypeOK
  <2>2. /\ pc[t] = "idle" /\ pc'[t] = "reply"
        /\ \A s \in Threads \ {t} : pc'[s] = pc[s] /\ config'[s] = config[s]
        /\ UNCHANGED <<file, request, expected, overlapped, faulted>>
    BY <1>5 DEF GetFrame, IInv, TypeOK
  <2> QED
    BY <2>1, <2>2, Aside
<1>9. ASSUME NEW t \in Threads, GetLog(t) PROVE IInv'
  <2>1. TypeOK'
    BY <1>9 DEF GetLog, IInv, TypeOK
  <2>2. /\ pc[t] = "idle" /\ pc'[t] = "reply"
        /\ \A s \in Threads \ {t} : pc'[s] = pc[s] /\ config'[s] = config[s]
        /\ UNCHANGED <<file, request, expected, overlapped, faulted>>
    BY <1>9 DEF GetLog, IInv, TypeOK
  <2> QED
    BY <2>1, <2>2, Aside
<1>6. ASSUME NEW t \in Threads, Respond(t) PROVE IInv'
  <2>1. TypeOK'
    BY <1>6 DEF Respond, IInv, TypeOK
  <2>2. /\ pc[t] = "reply" /\ pc'[t] = "idle"
        /\ \A s \in Threads \ {t} : /\ pc'[s] = pc[s] /\ config'[s] = config[s]
                                    /\ request'[s] = request[s]
        /\ UNCHANGED <<file, expected, overlapped, faulted>>
    BY <1>6 DEF Respond, IInv, TypeOK
  <2> QED
    BY <2>1, <2>2, Aside
<1>7. CASE Restart
  <2>1. /\ \A t \in Threads : pc'[t] = "idle"
        /\ faulted' = (faulted \/ \E t \in Threads : Writing(t))
        /\ UNCHANGED <<file, expected, overlapped>>
    BY <1>7 DEF Restart
  <2>2. TypeOK'
    BY <1>7 DEF Restart, IInv, TypeOK
  <2>3. ~faulted' => ~faulted /\ \A t \in Threads : ~Writing(t)
    BY <2>1 DEF IInv, TypeOK
  <2>4. Copies' /\ Serial'
    BY <2>1 DEF IInv, Copies, Serial
  <2> QED
    BY <2>1, <2>2, <2>3, <2>4
    DEF IInv, SharpnessGoesWithMode, SerialChangesCount, ReadableAtRest
<1>8. CASE UNCHANGED vars
  BY <1>8
  DEF vars, IInv, TypeOK, Copies, Serial, SharpnessGoesWithMode, SerialChangesCount,
      ReadableAtRest
<1> QED
  BY <1>1, <1>2, <1>3, <1>4, <1>5, <1>6, <1>7, <1>8, <1>9 DEF Next

LEMMA SpecIInv == Spec => []IInv
BY InitIInv, NextIInv, PTL DEF Spec

-----------------------------------------------------------------------------
(* The file, and the state of every thread, keep their types. *)
THEOREM TypeCorrect == Spec => []TypeOK
<1>1. IInv => TypeOK
  BY DEF IInv
<1> QED
  BY <1>1, SpecIInv, PTL

(* However changes overlap and whatever fails, mode and level agree. *)
THEOREM SharpnessAgrees == Spec => []SharpnessGoesWithMode
<1>1. IInv => SharpnessGoesWithMode
  BY DEF IInv
<1> QED
  BY <1>1, SpecIInv, PTL

(* Changes that do not overlap, on a disk without faults, all count. *)
THEOREM SerialChangesKept == Spec => []SerialChangesCount
<1>1. IInv => SerialChangesCount
  BY DEF IInv
<1> QED
  BY <1>1, SpecIInv, PTL

(* Without faults, a file that cannot be read is one that is being written. *)
THEOREM FileReadable == Spec => []ReadableAtRest
<1>1. IInv => ReadableAtRest
  BY DEF IInv
<1> QED
  BY <1>1, SpecIInv, PTL

(* No CHANGE_FRAME starts from a file it cannot read. *)
THEOREM UnreadableIsLeft == Spec => UnreadableStays
<1>1. TypeOK /\ [Next]_vars => (Unreadable => Unreadable' /\ file' = file)
  <2> SUFFICES ASSUME TypeOK, Unreadable, [Next]_vars PROVE Unreadable' /\ file' = file
    OBVIOUS
  <2> USE DEF Parse
  <2>1. ASSUME NEW t \in Threads,
               ChangeReceive(t) \/ ChangeRead(t) \/ GetFrame(t) \/ GetLog(t) \/ Respond(t)
        PROVE  /\ file' = file /\ pc'[t] \in {"idle", "read", "reply"}
               /\ \A s \in Threads \ {t} : pc'[s] = pc[s]
    BY <2>1
    DEF Unreadable, TypeOK, ChangeReceive, ChangeRead, GetFrame, GetLog, Respond, Reply
  <2>2. ASSUME NEW t \in Threads PROVE ~ChangeOpen(t) /\ ~ChangeWrite(t)
    BY DEF Unreadable, ChangeOpen, ChangeWrite
  <2>3. CASE Restart
    BY <2>3 DEF Restart, Unreadable
  <2>4. CASE UNCHANGED vars
    BY <2>4 DEF vars, Unreadable
  <2>5. file' = file /\ \A t \in Threads : pc'[t] \notin {"open", "write"}
    BY <2>1, <2>2, <2>3, <2>4 DEF Next, Unreadable
  <2> QED
    BY <2>5 DEF Unreadable
<1> QED
  BY <1>1, TypeCorrect, PTL DEF Spec, UnreadableStays

-----------------------------------------------------------------------------
(* Refinement of FrameSettings.                                             *)

(* A thread that serves no CHANGE_FRAME has no request and, between two        *)
(* commands, no object; one that serves a CHANGE_FRAME has read its menu_type. *)
Quiet ==
    \A t \in Threads :
        /\ pc[t] = "idle" => request[t] = NoRequest /\ config[t] = NoConfig
        /\ pc[t] \in {"read", "open", "write"} => request[t].menu # Junk

LEMMA QuietInv == Spec => []Quiet
<1> USE DEF Quiet, Reply
<1>1. Init => Quiet
  BY DEF Init
<1>2. TypeOK /\ Quiet /\ [Next]_vars => Quiet'
  <2> SUFFICES ASSUME TypeOK, Quiet, [Next]_vars PROVE Quiet'
    OBVIOUS
  <2> USE DEF TypeOK
  <2>1. ASSUME NEW t \in Threads, ChangeReceive(t) PROVE Quiet'
    <3>1. PICK r \in Requests :
              /\ request' = [request EXCEPT ![t] = r]
              /\ IF r.menu = Junk
                 THEN Reply(t, 400)
                 ELSE pc' = [pc EXCEPT ![t] = "read"] /\ UNCHANGED answer
      BY <2>1 DEF ChangeReceive
    <3>2. /\ request'[t] = r /\ (pc'[t] = "reply" \/ (pc'[t] = "read" /\ r.menu # Junk))
          /\ \A s \in Threads \ {t} : pc'[s] = pc[s] /\ request'[s] = request[s]
          /\ UNCHANGED config
      BY <2>1, <3>1 DEF ChangeReceive
    <3> QED
      BY <3>2
  <2>2. ASSUME NEW t \in Threads, ChangeRead(t) \/ ChangeOpen(t) \/ ChangeWrite(t) PROVE Quiet'
    <3>1. /\ pc[t] \in {"read", "open", "write"} /\ pc'[t] \in {"open", "write", "reply"}
          /\ \A s \in Threads \ {t} : pc'[s] = pc[s] /\ config'[s] = config[s]
          /\ UNCHANGED request
      BY <2>2 DEF ChangeRead, ChangeOpen, ChangeWrite
    <3> QED
      BY <3>1
  <2>3. ASSUME NEW t \in Threads, GetFrame(t) \/ GetLog(t) PROVE Quiet'
    BY <2>3 DEF GetFrame, GetLog
  <2>4. ASSUME NEW t \in Threads, Respond(t) PROVE Quiet'
    BY <2>4 DEF Respond
  <2>5. CASE Restart
    BY <2>5 DEF Restart
  <2>6. CASE UNCHANGED vars
    BY <2>6 DEF vars
  <2> QED
    BY <2>1, <2>2, <2>3, <2>4, <2>5, <2>6 DEF Next
<1> QED
  BY <1>1, <1>2, TypeCorrect, PTL DEF Spec

(* No thread but t moves. *)
Others(t) ==
    \A s \in Threads \ {t} :
        pc'[s] = pc[s] /\ request'[s] = request[s] /\ config'[s] = config[s]

LEMMA MapsOthers ==
    ASSUME NEW t \in Threads, Others(t)
    PROVE  /\ [s \in Threads |-> AbstractPhase(s)]' =
                 [[s \in Threads |-> AbstractPhase(s)] EXCEPT ![t] = AbstractPhase(t)']
           /\ [s \in Threads |-> Returned(s)]' =
                 [[s \in Threads |-> Returned(s)] EXCEPT ![t] = Returned(t)']
<1>1. \A s \in Threads \ {t} : AbstractPhase(s)' = AbstractPhase(s)
  BY DEF Others, AbstractPhase
<1>2. \A s \in Threads \ {t} : Returned(s)' = Returned(s)
  BY DEF Others, Returned
<1> QED
  BY <1>1, <1>2

LEMMA Phases ==
    ASSUME TypeOK, Quiet, NEW t \in Threads
    PROVE  /\ AbstractPhase(t) = "idle" <=> pc[t] = "idle"
           /\ AbstractPhase(t) = "answered" <=> pc[t] = "reply"
           /\ AbstractPhase(t) = "pending" <=> pc[t] \in {"read", "open", "write"}
           /\ pc[t] \in {"idle", "read", "open", "write"} => Returned(t) = NoConfig
           /\ request[t] = NoRequest \/ request[t] \in Request
           /\ pc[t] \in {"read", "open", "write"} => request[t] # NoRequest
BY OverlayConfigAssumption DEF TypeOK, Quiet, AbstractPhase, Returned, NoRequest

(* A step of t that ends in Reply(t, code) is the abstract answer. *)
LEMMA AnswerStep ==
    ASSUME TypeOK, NEW t \in Threads, NEW code, Others(t), Reply(t, code)
    PROVE  Frame!Answer(t, code)
<1>1. pc'[t] = "reply" /\ answer' = [answer EXCEPT ![t] = code]
  BY DEF Reply, TypeOK
<1>2. AbstractPhase(t)' = "answered"
  BY <1>1 DEF AbstractPhase
<1> QED
  BY <1>1, <1>2, MapsOthers DEF Frame!Answer

(* A thread that serves a CHANGE_FRAME returns no settings. *)
LEMMA NothingReturned ==
    ASSUME TypeOK, Quiet, NEW t \in Threads, Others(t),
           pc[t] \in {"read", "open", "write"}, UNCHANGED request
    PROVE  UNCHANGED [s \in Threads |-> Returned(s)]
<1>1. request'[t] # NoRequest /\ Returned(t) = NoConfig
  BY Phases
<1>2. Returned(t)' = NoConfig
  BY <1>1 DEF Returned
<1> QED
  BY <1>1, <1>2, MapsOthers

(* What a thread that reads the file finds. *)
LEMMA Found ==
    ASSUME IInv, Quiet, NEW t \in Threads, pc[t] \in {"idle", "read"}
    PROVE  /\ Parse(file) = NoConfig => Frame!NoSettings(t)
           /\ Parse(file) # NoConfig => Parse(file) \in Config /\ Coherent(Parse(file))
           /\ Parse(file) # NoConfig /\ ~Disturbed => Parse(file) = Settings
<1>1. ASSUME ~Disturbed, NEW u \in Threads, Writing(u)
      PROVE  Parse(file) = NoConfig /\ Frame!OtherChange(t)
  <2>1. u # t /\ AbstractPhase(u) = "pending"
    BY <1>1, Phases DEF Writing, IInv
  <2> QED
    BY <1>1, <2>1 DEF IInv, Serial, Disturbed, Frame!OtherChange
<1>2. ASSUME ~Disturbed, \A u \in Threads : ~Writing(u)
      PROVE  Parse(file) = Settings
  BY <1>2 DEF IInv, SerialChangesCount, Disturbed, Settings
<1>3. Parse(file) # NoConfig => Parse(file) \in Config /\ Coherent(Parse(file))
  BY DEF IInv, TypeOK, Parse, SharpnessGoesWithMode
<1>4. Parse(file) = NoConfig => Frame!NoSettings(t)
  BY <1>1, <1>2 DEF Frame!NoSettings
<1> QED
  BY <1>1, <1>2, <1>3, <1>4

LEMMA RefInit == Init => Frame!Init
<1> SUFFICES ASSUME Init PROVE Frame!Init
  OBVIOUS
<1>1. \A t \in Threads : AbstractPhase(t) = "idle" /\ Returned(t) = NoConfig
  BY DEF Init, AbstractPhase, Returned
<1>2. Settings = file.object /\ Disturbed = FALSE
  BY DEF Init, Settings, Disturbed
<1>3. file.object = NoConfig \/ Coherent(file.object)
  <2>1. CASE file = Missing
    BY <2>1 DEF Missing
  <2>2. CASE file # Missing
    <3>1. PICK c \in [bbox : {TRUE}, timestamp : {TRUE}, mode : {"original"},
                     sharpness : {Absent}] :
             file = [exists |-> TRUE, object |-> c, length |-> DumpLength(c)]
      BY <2>2 DEF Init
    <3>2. file.object = c
      BY <3>1
    <3>3. c.mode = "original" /\ c.sharpness = Absent
      OBVIOUS
    <3> QED
      BY <3>2, <3>3 DEF Coherent
  <2> QED
    BY <2>1, <2>2
<1> QED
  BY <1>1, <1>2, <1>3 DEF Init, Frame!Init

LEMMA RefReceive ==
    ASSUME IInv, Quiet, NEW t \in Threads, ChangeReceive(t)
    PROVE  Frame!Receive(t)
<1>1. PICK r \in Requests :
          /\ request' = [request EXCEPT ![t] = r]
          /\ IF r.menu = Junk
             THEN Reply(t, 400)
             ELSE pc' = [pc EXCEPT ![t] = "read"] /\ UNCHANGED answer
  BY DEF ChangeReceive
<1>2. pc[t] = "idle" /\ UNCHANGED <<config, Settings, Disturbed>>
  BY DEF ChangeReceive, Settings, Disturbed
<1>3. Others(t)
  BY <1>1, <1>2 DEF Others, Reply, IInv, TypeOK
<1>4. AbstractPhase(t) = "idle" /\ Returned(t) = NoConfig /\ config[t] = NoConfig
  BY <1>2, Phases DEF Quiet, IInv
<1>5. UNCHANGED [s \in Threads |-> Returned(s)]
  <2>1. Returned(t)' = NoConfig
    BY <1>2, <1>4 DEF Returned
  <2> QED
    BY <1>3, <1>4, <2>1, MapsOthers
<1>6. CASE r.menu = Junk
  <2>1. Frame!Answer(t, 400)
    BY <1>1, <1>3, <1>6, AnswerStep DEF IInv
  <2> QED
    BY <1>1, <1>2, <1>4, <1>5, <1>6, <2>1 DEF Frame!Receive, Malformed
<1>7. CASE r.menu # Junk
  <2>1. AbstractPhase(t)' = "pending"
    BY <1>1, <1>7 DEF AbstractPhase, IInv, TypeOK
  <2> QED
    BY <1>1, <1>2, <1>3, <1>4, <1>5, <1>7, <2>1, MapsOthers DEF Frame!Receive, Malformed
<1> QED
  BY <1>6, <1>7

(* A refusal: nothing changes but the answer. *)
LEMMA RefRefuse ==
    ASSUME IInv, Quiet, NEW t \in Threads, pc[t] \in {"read", "open", "write"},
           UNCHANGED <<file, request, config, expected, overlapped, faulted>>,
           \/ ~Valid(request[t]) /\ Reply(t, 400)
           \/ (Frame!NoSettings(t) \/ FaultsMayHappen) /\ Reply(t, 500)
    PROVE  Frame!Refuse(t)
<1>1. Others(t)
  BY DEF Others, Reply, IInv, TypeOK
<1>2. AbstractPhase(t) = "pending" /\ UNCHANGED [s \in Threads |-> Returned(s)]
  BY <1>1, Phases, NothingReturned DEF IInv
<1>3. \/ ~Valid(request[t]) /\ Frame!Answer(t, 400)
      \/ (Frame!NoSettings(t) \/ FaultsMayHappen) /\ Frame!Answer(t, 500)
  BY <1>1, AnswerStep DEF IInv
<1>4. UNCHANGED <<Settings, Disturbed>>
  BY DEF Settings, Disturbed
<1> QED
  BY <1>2, <1>3, <1>4 DEF Frame!Refuse

(* A step of a change that is not answered is not seen, unless it meets       *)
(* another change.                                                            *)
LEMMA RefPending ==
    ASSUME IInv, Quiet, NEW t \in Threads, Others(t),
           pc[t] \in {"read", "open", "write"}, pc'[t] \in {"read", "open", "write"},
           UNCHANGED <<request, answer, expected, faulted>>,
           \/ UNCHANGED overlapped
           \/ overlapped' = TRUE /\ \E u \in Threads \ {t} : pc[u] \in {"open", "write"}
    PROVE  Frame!Overlap(t) \/ UNCHANGED Frame!vars
<1>1. UNCHANGED [s \in Threads |-> Returned(s)]
  BY NothingReturned DEF IInv
<1>2. UNCHANGED [s \in Threads |-> AbstractPhase(s)]
  <2>1. AbstractPhase(t)' = "pending" /\ AbstractPhase(t) = "pending"
    BY DEF AbstractPhase
  <2> QED
    BY <2>1, MapsOthers
<1>3. CASE UNCHANGED <<Settings, Disturbed>>
  BY <1>1, <1>2, <1>3 DEF Frame!vars
<1>4. CASE ~ UNCHANGED <<Settings, Disturbed>>
  <2>1. PICK u \in Threads \ {t} : pc[u] \in {"open", "write"} /\ overlapped' = TRUE
    BY <1>4 DEF Settings, Disturbed
  <2>2. AbstractPhase(t) = "pending" /\ AbstractPhase(u) = "pending"
    BY <2>1, Phases DEF IInv
  <2>3. Disturbed' = TRUE /\ Settings' = NoConfig
    BY <2>1 DEF Disturbed, Settings
  <2> QED
    BY <1>1, <1>2, <2>2, <2>3 DEF Frame!Overlap, Frame!OtherChange, Frame!Disturb
<1> QED
  BY <1>3, <1>4

LEMMA RefRead ==
    ASSUME IInv, Quiet, NEW t \in Threads, ChangeRead(t)
    PROVE  Frame!Refuse(t) \/ Frame!Overlap(t) \/ UNCHANGED Frame!vars
<1>1. pc[t] = "read"
  BY DEF ChangeRead
<1>2. CASE /\ (Parse(file) = NoConfig \/ FaultsMayHappen) /\ Reply(t, 500)
           /\ UNCHANGED <<file, request, config, expected, overlapped, faulted>>
  BY <1>1, <1>2, Found, RefRefuse
<1>3. CASE /\ ~Valid(request[t]) /\ Reply(t, 400)
           /\ UNCHANGED <<file, request, config, expected, overlapped, faulted>>
  BY <1>1, <1>3, RefRefuse
<1>4. CASE /\ pc' = [pc EXCEPT ![t] = "open"]
           /\ config' = [config EXCEPT ![t] = Change(Parse(file), request[t])]
           /\ overlapped' = (overlapped \/ \E u \in Threads : pc[u] \in {"open", "write"})
           /\ UNCHANGED <<file, request, answer, expected, faulted>>
  <2>1. Others(t) /\ pc'[t] = "open"
    BY <1>4 DEF Others, IInv, TypeOK
  <2>2. \/ UNCHANGED overlapped
        \/ overlapped' = TRUE /\ \E u \in Threads \ {t} : pc[u] \in {"open", "write"}
    BY <1>1, <1>4 DEF IInv, TypeOK
  <2> QED
    BY <1>1, <1>4, <2>1, <2>2, RefPending
<1> QED
  BY <1>2, <1>3, <1>4 DEF ChangeRead

LEMMA RefOpen ==
    ASSUME IInv, Quiet, NEW t \in Threads, ChangeOpen(t)
    PROVE  Frame!Refuse(t) \/ Frame!Overlap(t) \/ UNCHANGED Frame!vars
<1>1. pc[t] = "open" /\ UNCHANGED <<request, config, expected, overlapped, faulted>>
  BY DEF ChangeOpen
<1>2. CASE pc' = [pc EXCEPT ![t] = "write"] /\ UNCHANGED answer
  <2>1. Others(t) /\ pc'[t] = "write"
    BY <1>1, <1>2 DEF Others, IInv, TypeOK
  <2> QED
    BY <1>1, <1>2, <2>1, RefPending
<1>3. CASE FaultsMayHappen /\ Reply(t, 500) /\ UNCHANGED file
  BY <1>1, <1>3, RefRefuse
<1> QED
  BY <1>2, <1>3 DEF ChangeOpen

LEMMA RefWrite ==
    ASSUME IInv, Quiet, NEW t \in Threads, ChangeWrite(t)
    PROVE  Frame!Acknowledge(t)
<1>1. /\ pc[t] = "write" /\ Reply(t, 200) /\ expected' = Change(expected, request[t])
      /\ UNCHANGED <<request, config, overlapped>>
  BY DEF ChangeWrite
<1>2. Others(t)
  BY <1>1 DEF Others, Reply, IInv, TypeOK
<1>3. /\ AbstractPhase(t) = "pending" /\ Frame!Answer(t, 200)
      /\ UNCHANGED [s \in Threads |-> Returned(s)]
  BY <1>1, <1>2, Phases, AnswerStep, NothingReturned DEF IInv
<1>4. Valid(request[t]) /\ expected \in Config /\ expected # NoConfig
  BY <1>1, OverlayConfigAssumption DEF IInv, Copies, Changing
<1>5. \/ UNCHANGED faulted
      \/ FaultsMayHappen /\ faulted' = TRUE
  BY DEF ChangeWrite
<1>6. \/ /\ ~Disturbed /\ Settings # NoConfig
         /\ Settings' = Change(Settings, request[t]) /\ UNCHANGED Disturbed
      \/ (Disturbed \/ FaultsMayHappen) /\ Frame!Disturb
  <2>1. CASE ~Disturbed /\ UNCHANGED faulted
    BY <1>1, <1>4, <2>1 DEF Disturbed, Settings
  <2>2. CASE Disturbed \/ (FaultsMayHappen /\ faulted' = TRUE)
    BY <1>1, <1>5, <2>2 DEF Disturbed, Settings, Frame!Disturb, IInv, TypeOK
  <2> QED
    BY <1>5, <2>1, <2>2
<1> QED
  BY <1>1, <1>3, <1>4, <1>6 DEF Frame!Acknowledge

LEMMA RefGetFrame ==
    ASSUME IInv, Quiet, NEW t \in Threads, GetFrame(t)
    PROVE  Frame!GetFrame(t)
<1>1. pc[t] = "idle" /\ UNCHANGED <<request, Settings, Disturbed>>
  BY DEF GetFrame, Settings, Disturbed
<1>2. Others(t)
  BY DEF GetFrame, Others, Reply, IInv, TypeOK
<1>3. AbstractPhase(t) = "idle" /\ request[t] = NoRequest
  BY <1>1, Phases DEF IInv, Quiet
<1>4. /\ Parse(file) = NoConfig => Frame!NoSettings(t)
      /\ Parse(file) # NoConfig => Parse(file) \in Config /\ Coherent(Parse(file))
      /\ Parse(file) # NoConfig /\ ~Disturbed => Parse(file) = Settings
  <2>1. pc[t] \in {"idle", "read"}
    BY <1>1
  <2> QED
    BY <2>1, Found
<1> DEFINE d == [s \in Threads |-> Returned(s)]
<1>5. CASE /\ Parse(file) = NoConfig \/ FaultsMayHappen
           /\ Reply(t, 500) /\ UNCHANGED config
  <2>1. Frame!Answer(t, 500)
    BY <1>2, <1>5, AnswerStep DEF IInv
  <2>2. UNCHANGED d
    BY <1>1, <1>5 DEF Returned
  <2> QED
    BY <1>1, <1>3, <1>4, <1>5, <2>1, <2>2 DEF Frame!GetFrame
<1>6. CASE /\ Parse(file) # NoConfig
           /\ Reply(t, 200) /\ config' = [config EXCEPT ![t] = Parse(file)]
  <2>1. Frame!Answer(t, 200)
    BY <1>2, <1>6, AnswerStep DEF IInv
  <2>2. Returned(t)' = Parse(file)
    BY <1>1, <1>3, <1>6 DEF Returned, IInv, TypeOK
  <2>3. d' = [d EXCEPT ![t] = Parse(file)] /\ d'[t] = Parse(file)
    BY <1>2, <2>2, MapsOthers
  <2>4. d'[t] \notin {NoConfig, Status}
    BY <1>4, <1>6, <2>3, OverlayConfigAssumption
  <2>5. IF Disturbed THEN Coherent(d'[t]) ELSE d'[t] = Settings
    BY <1>4, <1>6, <2>3
  <2>6. d' = [d EXCEPT ![t] = d'[t]]
    BY <2>3
  <2> QED
    BY <1>1, <1>3, <2>1, <2>4, <2>5, <2>6 DEF Frame!GetFrame
<1> QED
  BY <1>5, <1>6 DEF GetFrame

LEMMA RefGetLog ==
    ASSUME IInv, Quiet, NEW t \in Threads, GetLog(t)
    PROVE  Frame!GetLog(t)
<1>1. pc[t] = "idle" /\ UNCHANGED <<request, Settings, Disturbed>>
  BY DEF GetLog, Settings, Disturbed
<1>2. Others(t)
  BY <1>1 DEF GetLog, Others, Reply, IInv, TypeOK
<1>3. /\ AbstractPhase(t) = "idle" /\ Returned(t) = NoConfig
      /\ request[t] = NoRequest /\ config[t] = NoConfig
  BY <1>1, Phases DEF IInv, Quiet
<1>4. CASE Reply(t, 200) /\ config' = [config EXCEPT ![t] = Status]
  <2>1. Returned(t)' = Status
    BY <1>1, <1>3, <1>4 DEF Returned, IInv, TypeOK
  <2>2. Frame!Answer(t, 200)
    BY <1>2, <1>4, AnswerStep DEF IInv
  <2> QED
    BY <1>1, <1>2, <1>3, <2>1, <2>2, MapsOthers DEF Frame!GetLog
<1>5. CASE Reply(t, 500) /\ UNCHANGED config
  <2>1. Returned(t)' = NoConfig
    BY <1>1, <1>3, <1>5 DEF Returned
  <2>2. Frame!Answer(t, 500)
    BY <1>2, <1>5, AnswerStep DEF IInv
  <2>3. UNCHANGED [s \in Threads |-> Returned(s)]
    BY <1>2, <1>3, <2>1, MapsOthers
  <2> QED
    BY <1>1, <1>3, <2>2, <2>3 DEF Frame!GetLog
<1> QED
  BY <1>4, <1>5 DEF GetLog

LEMMA RefRespond ==
    ASSUME IInv, Quiet, NEW t \in Threads, Respond(t)
    PROVE  Frame!Respond(t)
<1>1. /\ pc[t] = "reply" /\ pc'[t] = "idle" /\ UNCHANGED <<Settings, Disturbed>>
      /\ request' = [request EXCEPT ![t] = NoRequest] /\ config'[t] = NoConfig
      /\ answer' = [answer EXCEPT ![t] = 0]
  BY DEF Respond, Settings, Disturbed, IInv, TypeOK
<1>2. Others(t)
  BY DEF Respond, Others, IInv, TypeOK
<1>3. AbstractPhase(t) = "answered" /\ AbstractPhase(t)' = "idle" /\ Returned(t)' = NoConfig
  BY <1>1 DEF AbstractPhase, Returned
<1> QED
  BY <1>1, <1>2, <1>3, MapsOthers DEF Frame!Respond

LEMMA RefRestart ==
    ASSUME IInv, Quiet, Restart
    PROVE  Frame!Restart
<1>1. \A t \in Threads : AbstractPhase(t)' = "idle" /\ Returned(t)' = NoConfig
  BY DEF Restart, AbstractPhase, Returned
<1>2. \/ UNCHANGED <<Settings, Disturbed>>
      \/ (\E t \in Threads : AbstractPhase(t) = "pending") /\ Frame!Disturb
  <2>1. CASE \E t \in Threads : pc[t] = "write"
    <3>1. PICK t \in Threads : pc[t] = "write"
      BY <2>1
    <3>2. AbstractPhase(t) = "pending"
      BY <3>1, Phases DEF IInv
    <3>3. Frame!Disturb
      BY <2>1 DEF Restart, Frame!Disturb, Settings, Disturbed
    <3> QED
      BY <3>2, <3>3
  <2>2. CASE ~ \E t \in Threads : pc[t] = "write"
    BY <2>2 DEF Restart, Settings, Disturbed, IInv, TypeOK
  <2> QED
    BY <2>1, <2>2
<1> QED
  BY <1>1, <1>2 DEF Restart, Frame!Restart

LEMMA RefStep ==
    ASSUME IInv, Quiet, [Next]_vars
    PROVE  [Frame!Next]_Frame!vars
<1>1. ASSUME NEW t \in Threads, ChangeRead(t) \/ ChangeOpen(t)
      PROVE  Frame!Next \/ UNCHANGED Frame!vars
  BY <1>1, RefRead, RefOpen DEF Frame!Next
<1>2. ASSUME NEW t \in Threads, ChangeReceive(t) \/ ChangeWrite(t) PROVE Frame!Next
  BY <1>2, RefReceive, RefWrite DEF Frame!Next
<1>3. ASSUME NEW t \in Threads, GetFrame(t) \/ GetLog(t) \/ Respond(t) PROVE Frame!Next
  BY <1>3, RefGetFrame, RefGetLog, RefRespond DEF Frame!Next
<1>4. CASE Restart
  BY <1>4, RefRestart DEF Frame!Next
<1>5. CASE UNCHANGED vars
  BY <1>5 DEF vars, Frame!vars, Settings, Disturbed, AbstractPhase, Returned
<1> QED
  BY <1>1, <1>2, <1>3, <1>4, <1>5 DEF Next

(* CHANGE_FRAME and GET_FRAME implement the atomic settings of FrameSettings: *)
(* until two changes meet or a fault hits one, reading, emptying and writing  *)
(* the file look like one step, for any number of threads and any payloads.   *)
THEOREM Refinement == Spec => ImplementsFrameSettings
<1>1. IInv /\ Quiet /\ [Next]_vars => [Frame!Next]_Frame!vars
  BY RefStep
<1> QED
  BY <1>1, RefInit, SpecIInv, QuietInv, PTL
  DEF Spec, ImplementsFrameSettings, Frame!Spec
=============================================================================
