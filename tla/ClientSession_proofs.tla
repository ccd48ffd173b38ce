------------------------ MODULE ClientSession_proofs ------------------------
(***************************************************************************)
(* Proofs about a TLS connection (ClientSession).                           *)
(*                                                                          *)
(* While the connection is in step, what the server has not read is the end *)
(* of what the client has sent: the newlines of the lines from n on, one    *)
(* each and in order (Lines), every text in front of its newline (Texts),   *)
(* every image byte behind the line that announced it or at the very front, *)
(* where the upload under way expects it (Images), and no announced byte    *)
(* absent but those the client still owes (Missing).  The lines before n    *)
(* have been answered (Answered).  Each of these facts survives the loss of *)
(* the first byte (the Tail lemmas) and a line or an image byte more (the   *)
(* LineBehind and ByteBehind lemmas); the properties follow from them.      *)
(***************************************************************************)
EXTENDS ClientSession, SequenceTheorems, TLAPS

IsNewline(b) == b.kind = "newline"

IsText(b) == b.kind = "text"

(* The newlines of s are those of the lines from n on, in order. *)
Lines(sc, s, n) ==
    /\ \A j \in DOMAIN s : IsNewline(s[j]) => s[j].request \in n..Len(sc)
    /\ \A j, k \in DOMAIN s :
          IsNewline(s[j]) /\ IsNewline(s[k]) /\ j < k => s[j].request < s[k].request
    /\ \A r \in n..Len(sc) : \E j \in DOMAIN s : IsNewline(s[j]) /\ s[j].request = r

(* A text is followed by its newline, and a newline follows its text unless   *)
(* the line is empty; half: the text of the first line has been read.         *)
Texts(sc, s, half) ==
    /\ \A j \in DOMAIN s : IsText(s[j]) =>
          /\ j + 1 \in DOMAIN s /\ IsNewline(s[j + 1]) /\ s[j + 1].request = s[j].request
          /\ sc[s[j].request].kind # "blank"
    /\ \A j \in DOMAIN s : IsNewline(s[j]) /\ sc[s[j].request].kind # "blank" =>
          \/ j = 1 /\ half
          \/ j > 1 /\ IsText(s[j - 1]) /\ s[j - 1].request = s[j].request
    /\ half => s # <<>> /\ IsNewline(s[1]) /\ sc[s[1].request].kind # "blank"

(* Image bytes lie behind the line that announced them, or are the first d of *)
(* s, those of the upload o.                                                  *)
Images(sc, s, d, o) ==
    /\ \A i \in DOMAIN s : ImageByte(s[i]) =>
          \/ i <= d
          \/ \E j \in DOMAIN s : j < i /\ IsNewline(s[j]) /\ i <= j + sc[s[j].request].size
    /\ \A i \in DOMAIN s : i <= d => ImageByte(s[i]) /\ s[i].request = o
    /\ \A j, i \in DOMAIN s :
          IsNewline(s[j]) /\ j < i /\ i <= j + sc[s[j].request].size =>
              ImageByte(s[i]) /\ s[i].request = s[j].request

(* Of the images that are announced, w bytes are missing. *)
Missing(sc, s, w, d, o, open) ==
    /\ d > Len(s) => o = Len(sc) /\ d = Len(s) + w
    /\ \A j \in DOMAIN s : IsNewline(s[j]) /\ j + sc[s[j].request].size > Len(s) =>
          s[j].request = Len(sc) /\ j + sc[s[j].request].size = Len(s) + w
    /\ open /\ w > 0 =>
          \/ d = Len(s) + w /\ o = Len(sc)
          \/ \E j \in DOMAIN s : /\ IsNewline(s[j]) /\ s[j].request = Len(sc)
                                 /\ j + sc[s[j].request].size = Len(s) + w

Half == pc = "line" /\ cmd # <<>>

Due == IF pc = "body" THEN left
       ELSE IF pc = "dispatch" THEN script[cmd[1].request].size ELSE 0

(* The first line whose newline has not been read is n. *)
Reading(n) ==
    /\ n \in 1..(Len(script) + 1)
    /\ Half => /\ Len(cmd) = 1 /\ IsText(cmd[1]) /\ cmd[1].request = n
               /\ stream # <<>> /\ stream[1].request = n
    /\ pc = "dispatch" =>
          /\ n > 1 /\ cmd[1].request = n - 1
          /\ \/ Len(cmd) = 1 /\ IsNewline(cmd[1]) /\ script[n - 1].kind = "blank"
             \/ /\ Len(cmd) = 2 /\ IsText(cmd[1]) /\ IsNewline(cmd[2])
                /\ script[n - 1].kind # "blank"
    /\ pc = "body" =>
          cmd = <<>> /\ n > 1 /\ serving = n - 1 /\ script[n - 1].kind = "upload"

(* The requests before m have had their replies, in order. *)
Answered(m) == {replies[k] : k \in DOMAIN replies} = {i \in Answerable : i < m}

InStep(n) ==
    /\ Reading(n)
    /\ Lines(script, stream, n)
    /\ Texts(script, stream, Half)
    /\ Images(script, stream, Due, n - 1)
    /\ Missing(script, stream, owed, Due, n - 1, ~hungUp)
    /\ Answered(IF pc = "line" THEN n ELSE n - 1)

Base ==
    /\ TypeOK
    /\ Len(script) <= MaxRequests
    /\ \A i \in DOMAIN script : script[i].size > 0 <=> script[i].kind = "upload"
    /\ \A j \in DOMAIN stream : stream[j].request \in DOMAIN script
    /\ \A j \in DOMAIN cmd : cmd[j].request \in DOMAIN script
    /\ pc = "dispatch" => cmd # <<>>
    /\ pc # "body" => left = 0
    /\ owed > 0 => Len(script) > 0

IInv ==
    /\ Base
    /\ RepliesInOrder
    /\ ~outOfStep => \/ pc = "closed" /\ \A j \in DOMAIN cmd : ~ImageByte(cmd[j])
                     \/ pc # "closed" /\ \E n \in 1..(Len(script) + 1) : InStep(n)

-----------------------------------------------------------------------------
(* Reading the first byte. *)

LEMMA TailBytes ==
    ASSUME NEW s \in Seq(Byte), s # <<>>
    PROVE  /\ Tail(s) \in Seq(Byte) /\ Len(s) \in Nat \ {0} /\ Len(Tail(s)) = Len(s) - 1
           /\ 1 \in DOMAIN s /\ Head(s) = s[1] /\ DOMAIN s = 1..Len(s)
           /\ \A j \in DOMAIN Tail(s) : j \in Nat \ {0} /\ j + 1 \in DOMAIN s /\ Tail(s)[j] = s[j + 1]
           /\ \A j \in DOMAIN s : /\ j \in Nat
                                  /\ j > 1 => j - 1 \in DOMAIN Tail(s) /\ Tail(s)[j - 1] = s[j]
BY HeadTailProperties

(* The sizes of the lines that s speaks of. *)
Sized(sc, s) == \A j \in DOMAIN s : s[j].request \in Nat /\ sc[s[j].request].size \in Nat

LEMMA TailLines ==
    ASSUME NEW sc, NEW s \in Seq(Byte), s # <<>>, Len(sc) \in Nat, NEW n \in Nat, Sized(sc, s),
           Lines(sc, s, n)
    PROVE  /\ ~IsNewline(s[1]) => Lines(sc, Tail(s), n)
           /\ IsNewline(s[1]) => s[1].request = n /\ n <= Len(sc) /\ Lines(sc, Tail(s), n + 1)
<1> DEFINE t == Tail(s)
<1>1. /\ 1 \in DOMAIN s
      /\ \A j \in DOMAIN t : j \in Nat \ {0} /\ j + 1 \in DOMAIN s /\ t[j] = s[j + 1]
      /\ \A j \in DOMAIN s : j \in Nat /\ (j > 1 => j - 1 \in DOMAIN t /\ t[j - 1] = s[j])
      /\ \A j \in DOMAIN s : j = 1 \/ j > 1
  BY TailBytes
<1> HIDE DEF t
<1>2. \A j, k \in DOMAIN t :
         IsNewline(t[j]) /\ IsNewline(t[k]) /\ j < k => t[j].request < t[k].request
  <2> SUFFICES ASSUME NEW j \in DOMAIN t, NEW k \in DOMAIN t,
                      IsNewline(t[j]), IsNewline(t[k]), j < k
               PROVE  t[j].request < t[k].request
    OBVIOUS
  <2>1. j + 1 < k + 1
    BY <1>1
  <2> QED
    BY <1>1, <2>1 DEF Lines
<1>3. CASE ~IsNewline(s[1])
  <2>1. \A j \in DOMAIN t : IsNewline(t[j]) => t[j].request \in n..Len(sc)
    BY <1>1 DEF Lines
  <2>2. ASSUME NEW r \in n..Len(sc) PROVE \E j \in DOMAIN t : IsNewline(t[j]) /\ t[j].request = r
    <3>1. PICK j \in DOMAIN s : IsNewline(s[j]) /\ s[j].request = r
      BY DEF Lines
    <3>2. j > 1
      BY <1>1, <1>3, <3>1
    <3> QED
      BY <1>1, <3>1, <3>2
  <2> QED
    BY <1>2, <1>3, <2>1, <2>2 DEF Lines, t
<1>4. CASE IsNewline(s[1])
  <2>1. s[1].request \in n..Len(sc)
    BY <1>1, <1>4 DEF Lines
  <2>2. \A j \in DOMAIN s : IsNewline(s[j]) /\ j > 1 => s[1].request < s[j].request
    BY <1>1, <1>4 DEF Lines
  <2>3. s[1].request = n
    <3>1. PICK j \in DOMAIN s : IsNewline(s[j]) /\ s[j].request = n
      BY <2>1 DEF Lines
    <3> QED
      BY <1>1, <2>1, <2>2, <3>1
  <2>4. \A j \in DOMAIN t : IsNewline(t[j]) => t[j].request \in (n + 1)..Len(sc)
    <3> SUFFICES ASSUME NEW j \in DOMAIN t, IsNewline(t[j]) PROVE t[j].request \in (n + 1)..Len(sc)
      OBVIOUS
    <3>1. j + 1 \in DOMAIN s /\ t[j] = s[j + 1] /\ j + 1 > 1
      BY <1>1
    <3>2. s[j + 1].request \in n..Len(sc) /\ n < s[j + 1].request
      BY <2>2, <2>3, <3>1 DEF Lines
    <3> QED
      BY <3>1, <3>2
  <2>5. ASSUME NEW r \in (n + 1)..Len(sc)
        PROVE  \E j \in DOMAIN t : IsNewline(t[j]) /\ t[j].request = r
    <3>1. PICK j \in DOMAIN s : IsNewline(s[j]) /\ s[j].request = r
      BY DEF Lines
    <3>2. j > 1
      BY <1>1, <2>3, <3>1
    <3> QED
      BY <1>1, <3>1, <3>2
  <2> QED
    BY <1>2, <1>4, <2>1, <2>3, <2>4, <2>5 DEF Lines, t
<1> QED
  BY <1>3, <1>4

LEMMA TailTexts ==
    ASSUME NEW sc, NEW s \in Seq(Byte), s # <<>>, NEW half \in BOOLEAN, Texts(sc, s, half)
    PROVE  /\ IsText(s[1]) => Texts(sc, Tail(s), TRUE) /\ ~half
           /\ ~IsText(s[1]) => Texts(sc, Tail(s), FALSE)
<1> DEFINE t == Tail(s)
<1>1. /\ 1 \in DOMAIN s
      /\ \A j \in DOMAIN t : j \in Nat \ {0} /\ j + 1 \in DOMAIN s /\ t[j] = s[j + 1]
      /\ \A j \in DOMAIN s : j \in Nat /\ (j > 1 => j - 1 \in DOMAIN t /\ t[j - 1] = s[j])
      /\ t \in Seq(Byte)
  BY TailBytes
<1> HIDE DEF t
<1>2. ASSUME NEW j \in DOMAIN t, IsText(t[j])
      PROVE  /\ j + 1 \in DOMAIN t /\ IsNewline(t[j + 1]) /\ t[j + 1].request = t[j].request
             /\ sc[t[j].request].kind # "blank"
  <2>1. j + 1 \in DOMAIN s /\ IsText(s[j + 1]) /\ t[j] = s[j + 1]
    BY <1>1, <1>2
  <2>2. /\ (j + 1) + 1 \in DOMAIN s /\ IsNewline(s[(j + 1) + 1])
        /\ s[(j + 1) + 1].request = s[j + 1].request /\ sc[s[j + 1].request].kind # "blank"
    BY <2>1 DEF Texts
  <2>3. ((j + 1) + 1) - 1 = j + 1 /\ (j + 1) + 1 > 1
    BY <1>1
  <2>4. j + 1 \in DOMAIN t /\ t[j + 1] = s[(j + 1) + 1]
    BY <1>1, <2>2, <2>3
  <2> QED
    BY <2>1, <2>2, <2>4
<1>3. ASSUME NEW j \in DOMAIN t, IsNewline(t[j]), sc[t[j].request].kind # "blank"
      PROVE  \/ j = 1 /\ IsText(s[1])
             \/ j > 1 /\ IsText(t[j - 1]) /\ t[j - 1].request = t[j].request
  <2>1. j + 1 \in DOMAIN s /\ t[j] = s[j + 1] /\ j + 1 > 1 /\ (j + 1) - 1 = j /\ j + 1 # 1
    BY <1>1
  <2>2. IsText(s[j]) /\ s[j].request = s[j + 1].request
    BY <1>3, <2>1 DEF Texts
  <2>3. CASE j = 1
    BY <2>2, <2>3
  <2>4. CASE j # 1
    <3>1. j > 1 /\ j \in DOMAIN s
      BY <1>1, <2>4, TailBytes DEF t
    <3> QED
      BY <1>1, <2>1, <2>2, <3>1
  <2> QED
    BY <2>3, <2>4
<1>4. CASE IsText(s[1])
  <2>1. /\ 1 + 1 \in DOMAIN s /\ IsNewline(s[1 + 1]) /\ s[1 + 1].request = s[1].request
        /\ sc[s[1].request].kind # "blank"
    BY <1>1, <1>4 DEF Texts
  <2>2. 1 \in DOMAIN t /\ t[1] = s[1 + 1]
    BY <1>1, <2>1
  <2>3. t # <<>>
    BY <1>1, <2>2
  <2>4. ~half
    BY <1>4 DEF Texts, IsNewline, IsText
  <2> QED
    BY <1>2, <1>3, <1>4, <2>1, <2>2, <2>3, <2>4 DEF Texts, t
<1>5. CASE ~IsText(s[1])
  BY <1>2, <1>3, <1>5 DEF Texts, t
<1> QED
  BY <1>4, <1>5

LEMMA ByteKinds ==
    ASSUME NEW b \in Byte
    PROVE  /\ b.request \in 1..MaxRequests
           /\ IsText(b) \/ IsNewline(b) \/ ImageByte(b)
           /\ ~(IsText(b) /\ IsNewline(b)) /\ ~(IsText(b) /\ ImageByte(b))
           /\ ~(IsNewline(b) /\ ImageByte(b))
BY DEF Byte, IsText, IsNewline, ImageByte

(* What is due of an image when the first byte has been read. *)
DueBehind(sc, b, d) ==
    IF d > 0 THEN d - 1 ELSE IF IsNewline(b) THEN sc[b.request].size ELSE 0

OwnerBehind(b, d, o) == IF d = 0 /\ IsNewline(b) THEN b.request ELSE o

LEMMA TailImages ==
    ASSUME NEW sc, NEW s \in Seq(Byte), s # <<>>, NEW d \in Nat, NEW o, Sized(sc, s),
           Images(sc, s, d, o)
    PROVE  /\ d = 0 => ~ImageByte(s[1])
           /\ d > 0 => ImageByte(s[1]) /\ s[1].request = o
           /\ Images(sc, Tail(s), DueBehind(sc, s[1], d), OwnerBehind(s[1], d, o))
<1> DEFINE t == Tail(s)
           e == DueBehind(sc, s[1], d)
           p == OwnerBehind(s[1], d, o)
<1>1. /\ 1 \in DOMAIN s /\ s[1] \in Byte
      /\ \A j \in DOMAIN t : j \in Nat \ {0} /\ j + 1 \in DOMAIN s /\ t[j] = s[j + 1]
      /\ \A j \in DOMAIN s : j \in Nat /\ (j > 1 => j - 1 \in DOMAIN t /\ t[j - 1] = s[j])
      /\ \A j \in DOMAIN s : j = 1 \/ j > 1
  BY TailBytes
<1>2. \A j \in DOMAIN s : sc[s[j].request].size \in Nat
  BY DEF Sized
<1>3. d = 0 => ~ImageByte(s[1])
  <2> SUFFICES ASSUME d = 0, ImageByte(s[1]) PROVE FALSE
    OBVIOUS
  <2>1. \E j \in DOMAIN s : j < 1
    BY <1>1 DEF Images
  <2> QED
    BY <1>1, <2>1
<1>4. d > 0 => ImageByte(s[1]) /\ s[1].request = o
  BY <1>1 DEF Images
<1>5. IsNewline(s[1]) => d = 0
  BY <1>1, <1>4, ByteKinds
<1> HIDE DEF t, e, p
<1>6. ASSUME NEW i \in DOMAIN t, ImageByte(t[i])
      PROVE  \/ i <= e
             \/ \E j \in DOMAIN t : j < i /\ IsNewline(t[j]) /\ i <= j + sc[t[j].request].size
  <2>1. i + 1 \in DOMAIN s /\ ImageByte(s[i + 1])
    BY <1>1, <1>6
  <2>2. CASE i + 1 <= d
    BY <1>1, <2>2 DEF e, DueBehind
  <2>3. CASE \E j \in DOMAIN s : j < i + 1 /\ IsNewline(s[j]) /\ i + 1 <= j + sc[s[j].request].size
    <3>1. PICK j \in DOMAIN s : j < i + 1 /\ IsNewline(s[j]) /\ i + 1 <= j + sc[s[j].request].size
      BY <2>3
    <3>2. CASE j = 1
      <4>1. e = sc[s[1].request].size
        BY <1>5, <3>1, <3>2 DEF e, DueBehind
      <4> DEFINE z == sc[s[1].request].size
      <4>2. z \in Nat /\ i \in Nat /\ i + 1 <= 1 + z
        BY <1>1, <1>2, <3>1, <3>2
      <4> HIDE DEF z
      <4>3. i <= z
        BY <4>2
      <4>4. e = z
        BY <4>1 DEF z
      <4>5. i <= e
        BY <4>3, <4>4
      <4> QED
        BY <4>5
    <3>3. CASE j > 1
      <4>1. j - 1 \in DOMAIN t /\ t[j - 1] = s[j] /\ j - 1 < i
        BY <1>1, <3>1, <3>3
      <4> DEFINE z == sc[s[j].request].size
      <4>2. z \in Nat /\ i \in Nat /\ j \in Nat /\ i + 1 <= j + z
        BY <1>1, <1>2, <3>1
      <4> HIDE DEF z
      <4>3. i <= (j - 1) + z
        BY <4>2
      <4> QED
        BY <3>1, <4>1, <4>3 DEF z
    <3> QED
      BY <1>1, <3>2, <3>3
  <2> QED
    BY <2>1, <2>2, <2>3 DEF Images
<1>7. ASSUME NEW i \in DOMAIN t, i <= e PROVE ImageByte(t[i]) /\ t[i].request = p
  <2>1. i + 1 \in DOMAIN s /\ t[i] = s[i + 1] /\ i > 0
    BY <1>1
  <2>2. CASE d > 0
    <3>1. i + 1 <= d
      BY <1>1, <1>7, <2>2 DEF e, DueBehind
    <3> QED
      BY <2>1, <2>2, <3>1 DEF Images, p, OwnerBehind
  <2>3. CASE d = 0
    <3>1. IsNewline(s[1]) /\ e = sc[s[1].request].size
      BY <1>1, <1>7, <2>3 DEF e, DueBehind
    <3> DEFINE z == sc[s[1].request].size
    <3>2. z \in Nat /\ i \in Nat \ {0} /\ i <= z
      BY <1>1, <1>2, <1>7, <3>1
    <3> HIDE DEF z
    <3>3. 1 < i + 1 /\ i + 1 <= 1 + z
      BY <3>2
    <3>4. ImageByte(s[i + 1]) /\ s[i + 1].request = s[1].request
      BY <1>1, <2>1, <3>1, <3>3 DEF Images, z
    <3> QED
      BY <2>1, <2>3, <3>1, <3>4 DEF p, OwnerBehind
  <2> QED
    BY <2>2, <2>3
<1>8. ASSUME NEW j \in DOMAIN t, NEW i \in DOMAIN t,
             IsNewline(t[j]), j < i, i <= j + sc[t[j].request].size
      PROVE  ImageByte(t[i]) /\ t[i].request = t[j].request
  <2>1. j + 1 \in DOMAIN s /\ t[j] = s[j + 1] /\ i + 1 \in DOMAIN s /\ t[i] = s[i + 1]
    BY <1>1
  <2> DEFINE z == sc[s[j + 1].request].size
  <2>2. z \in Nat /\ i \in Nat /\ j \in Nat /\ j < i /\ i <= j + z
    BY <1>1, <1>2, <1>8, <2>1
  <2> HIDE DEF z
  <2>3. j + 1 < i + 1 /\ i + 1 <= (j + 1) + z
    BY <2>2
  <2> QED
    BY <1>8, <2>1, <2>3 DEF Images, z
<1>9. Images(sc, t, e, p)
  BY <1>6, <1>7, <1>8 DEF Images
<1> QED
  BY <1>3, <1>4, <1>9 DEF t, e, p

LEMMA TailMissing ==
    ASSUME NEW sc, NEW s \in Seq(Byte), s # <<>>, NEW w \in Nat, NEW d \in Nat, NEW o,
           NEW open \in BOOLEAN, Sized(sc, s), d > 0 => ~IsNewline(s[1]),
           Missing(sc, s, w, d, o, open)
    PROVE  Missing(sc, Tail(s), w, DueBehind(sc, s[1], d), OwnerBehind(s[1], d, o), open)
<1> DEFINE t == Tail(s)
           e == DueBehind(sc, s[1], d)
           p == OwnerBehind(s[1], d, o)
<1>1. /\ 1 \in DOMAIN s /\ Len(s) \in Nat \ {0} /\ Len(t) = Len(s) - 1
      /\ \A j \in DOMAIN t : j \in Nat \ {0} /\ j + 1 \in DOMAIN s /\ t[j] = s[j + 1]
      /\ \A j \in DOMAIN s : j \in Nat /\ (j > 1 => j - 1 \in DOMAIN t /\ t[j - 1] = s[j])
      /\ \A j \in DOMAIN s : j = 1 \/ j > 1
  BY TailBytes
<1>0. Len(s) \in Nat \ {0} /\ Len(t) = Len(s) - 1
  BY TailBytes
<1>2. \A j \in DOMAIN s : sc[s[j].request].size \in Nat
  BY DEF Sized
<1> HIDE DEF t, e, p
<1>3. e > Len(t) => p = Len(sc) /\ e = Len(t) + w
  <2>1. CASE d > 0
    BY <1>1, <2>1 DEF e, p, DueBehind, OwnerBehind, Missing
  <2>2. CASE d = 0 /\ IsNewline(s[1])
    <3>1. e = sc[s[1].request].size /\ p = s[1].request
      BY <2>2 DEF e, p, DueBehind, OwnerBehind
    <3>2. 1 + sc[s[1].request].size > Len(s) =>
             s[1].request = Len(sc) /\ 1 + sc[s[1].request].size = Len(s) + w
      BY <1>1, <2>2 DEF Missing
    <3> DEFINE z == sc[s[1].request].size
    <3>3. z \in Nat
      BY <1>1, <1>2
    <3>4. e = z /\ (1 + z > Len(s) => s[1].request = Len(sc) /\ 1 + z = Len(s) + w)
      BY <3>1, <3>2
    <3> HIDE DEF z
    <3> QED
      BY <1>1, <3>1, <3>3, <3>4
  <2>3. CASE d = 0 /\ ~IsNewline(s[1])
    BY <1>1, <2>3 DEF e, DueBehind
  <2> QED
    BY <2>1, <2>2, <2>3
<1>4. ASSUME NEW j \in DOMAIN t, IsNewline(t[j]), j + sc[t[j].request].size > Len(t)
      PROVE  t[j].request = Len(sc) /\ j + sc[t[j].request].size = Len(t) + w
  <2>1. j + 1 \in DOMAIN s /\ t[j] = s[j + 1]
    BY <1>1
  <2> DEFINE z == sc[s[j + 1].request].size
  <2>2. z \in Nat /\ j \in Nat /\ j + z > Len(t)
    BY <1>1, <1>2, <1>4, <2>1
  <2> HIDE DEF z
  <2>3. (j + 1) + z > Len(s)
    BY <1>1, <2>2
  <2>4. s[j + 1].request = Len(sc) /\ (j + 1) + z = Len(s) + w
    BY <1>4, <2>1, <2>3 DEF Missing, z
  <2>5. z \in Nat /\ j \in Nat /\ (j + 1) + z = Len(s) + w
    BY <2>2, <2>4
  <2>6. j + z = Len(t) + w
    BY <1>0, <2>5
  <2> QED
    BY <2>1, <2>4, <2>6 DEF z
<1>5. ASSUME open, w > 0
      PROVE  \/ e = Len(t) + w /\ p = Len(sc)
             \/ \E j \in DOMAIN t : /\ IsNewline(t[j]) /\ t[j].request = Len(sc)
                                    /\ j + sc[t[j].request].size = Len(t) + w
  <2>1. CASE d = Len(s) + w /\ o = Len(sc)
    BY <1>1, <2>1 DEF e, p, DueBehind, OwnerBehind
  <2>2. CASE \E j \in DOMAIN s : /\ IsNewline(s[j]) /\ s[j].request = Len(sc)
                                 /\ j + sc[s[j].request].size = Len(s) + w
    <3>1. PICK j \in DOMAIN s : /\ IsNewline(s[j]) /\ s[j].request = Len(sc)
                                /\ j + sc[s[j].request].size = Len(s) + w
      BY <2>2
    <3>2. CASE j = 1
      <4>1. e = sc[s[1].request].size /\ p = s[1].request
        BY <3>1, <3>2 DEF e, p, DueBehind, OwnerBehind
      <4> DEFINE z == sc[s[1].request].size
      <4>2. z \in Nat /\ 1 + z = Len(s) + w
        BY <1>1, <1>2, <3>1, <3>2
      <4> HIDE DEF z
      <4>3. z = Len(t) + w
        BY <1>1, <4>2
      <4> QED
        BY <3>1, <3>2, <4>1, <4>3 DEF z
    <3>3. CASE j > 1
      <4>1. j - 1 \in DOMAIN t /\ t[j - 1] = s[j]
        BY <1>1, <3>3
      <4> DEFINE z == sc[s[j].request].size
      <4>2. z \in Nat /\ j \in Nat /\ j + z = Len(s) + w
        BY <1>1, <1>2, <3>1
      <4> HIDE DEF z
      <4>3. (j - 1) + z = Len(t) + w
        BY <1>0, <4>2
      <4> QED
        BY <3>1, <4>1, <4>3 DEF z
    <3> QED
      BY <1>1, <3>2, <3>3
  <2> QED
    BY <1>5, <2>1, <2>2 DEF Missing
<1>6. Missing(sc, t, w, e, p, open)
  BY <1>3, <1>4, <1>5 DEF Missing
<1> QED
  BY <1>6 DEF t, e, p

-----------------------------------------------------------------------------
(* Sending. *)

(* t is s and the last line of sd, which sc does not have. *)
LineBehind(sc, sd, s, t) ==
    /\ Len(sc) \in Nat /\ Len(sd) = Len(sc) + 1 /\ Len(t) > Len(s)
    /\ \A j \in DOMAIN s : j \in DOMAIN t /\ t[j] = s[j] /\ s[j].request \in 1..Len(sc)
                           /\ sd[s[j].request] = sc[s[j].request]
                           /\ sc[s[j].request].size \in Nat
    /\ \A j \in DOMAIN t : j \in DOMAIN s \/ j = Len(t) \/ (j = Len(t) - 1 /\ IsText(t[j]))
    /\ IsNewline(t[Len(t)]) /\ t[Len(t)].request = Len(sd)
    /\ \/ Len(t) = Len(s) + 1 /\ sd[Len(sd)].kind = "blank"
       \/ /\ Len(t) = Len(s) + 2 /\ IsText(t[Len(t) - 1]) /\ t[Len(t) - 1].request = Len(sd)
          /\ sd[Len(sd)].kind # "blank"

LEMMA SeqDomain ==
    ASSUME NEW s \in Seq(Byte)
    PROVE  Len(s) \in Nat /\ DOMAIN s = 1..Len(s) /\ \A j \in DOMAIN s : s[j] \in Byte
BY ElementOfSeq

LEMMA LineBehindLines ==
    ASSUME NEW sc, NEW sd, NEW s \in Seq(Byte), NEW t \in Seq(Byte), LineBehind(sc, sd, s, t),
           NEW n \in 1..(Len(sc) + 1), Lines(sc, s, n)
    PROVE  Lines(sd, t, n)
<1>1. /\ Len(s) \in Nat /\ DOMAIN s = 1..Len(s) /\ Len(t) \in Nat /\ DOMAIN t = 1..Len(t)
      /\ Len(sc) \in Nat /\ Len(sd) = Len(sc) + 1 /\ Len(t) > Len(s)
  BY SeqDomain DEF LineBehind
<1>0. /\ Len(sc) \in Nat /\ Len(sd) = Len(sc) + 1 /\ Len(t) \in DOMAIN t
      /\ IsNewline(t[Len(t)]) /\ t[Len(t)].request = Len(sd)
  <2>1. Len(t) \in DOMAIN t
    BY <1>1
  <2> QED
    BY <2>1 DEF LineBehind
<1>2. ASSUME NEW j \in DOMAIN t, IsNewline(t[j])
      PROVE  \/ j = Len(t) /\ t[j].request = Len(sd)
             \/ j \in DOMAIN s /\ t[j] = s[j] /\ t[j].request \in n..Len(sc)
  BY <1>2 DEF LineBehind, Lines, IsNewline, IsText
<1>3. \A j \in DOMAIN t : IsNewline(t[j]) => t[j].request \in n..Len(sd)
  BY <1>1, <1>2
<1>4. \A j, k \in DOMAIN t :
         IsNewline(t[j]) /\ IsNewline(t[k]) /\ j < k => t[j].request < t[k].request
  <2> SUFFICES ASSUME NEW j \in DOMAIN t, NEW k \in DOMAIN t,
                      IsNewline(t[j]), IsNewline(t[k]), j < k
               PROVE  t[j].request < t[k].request
    OBVIOUS
  <2>1. j # Len(t)
    BY <1>1
  <2>2. j \in DOMAIN s /\ t[j] = s[j] /\ t[j].request \in n..Len(sc)
    BY <1>2, <2>1
  <2>3. CASE k = Len(t)
    BY <1>0, <2>2, <2>3
  <2>4. CASE k # Len(t)
    <3>1. k \in DOMAIN s /\ t[k] = s[k]
      BY <1>2, <2>4
    <3> QED
      BY <2>2, <3>1 DEF Lines
  <2> QED
    BY <2>3, <2>4
<1>5. ASSUME NEW r \in n..Len(sd) PROVE \E j \in DOMAIN t : IsNewline(t[j]) /\ t[j].request = r
  <2>1. CASE r = Len(sd)
    BY <1>0, <2>1
  <2>2. CASE r # Len(sd)
    <3>1. r \in n..Len(sc)
      BY <1>0, <2>2
    <3>2. PICK j \in DOMAIN s : IsNewline(s[j]) /\ s[j].request = r
      BY <3>1 DEF Lines
    <3> QED
      BY <3>2 DEF LineBehind
  <2> QED
    BY <2>1, <2>2
<1> QED
  BY <1>3, <1>4, <1>5 DEF Lines

LEMMA LineBehindTexts ==
    ASSUME NEW sc, NEW sd, NEW s \in Seq(Byte), NEW t \in Seq(Byte), LineBehind(sc, sd, s, t),
           NEW half \in BOOLEAN, Texts(sc, s, half)
    PROVE  Texts(sd, t, half)
<1>1. /\ Len(s) \in Nat /\ DOMAIN s = 1..Len(s) /\ Len(t) \in Nat /\ DOMAIN t = 1..Len(t)
      /\ Len(t) > Len(s)
  BY SeqDomain DEF LineBehind
<1>0. /\ IsNewline(t[Len(t)]) /\ t[Len(t)].request = Len(sd)
      /\ \/ Len(t) = Len(s) + 1
         \/ /\ Len(t) = Len(s) + 2 /\ t[Len(t) - 1].request = Len(sd)
            /\ sd[Len(sd)].kind # "blank"
  BY DEF LineBehind
<1>2. ASSUME NEW j \in DOMAIN t, IsText(t[j])
      PROVE  /\ j + 1 \in DOMAIN t /\ IsNewline(t[j + 1]) /\ t[j + 1].request = t[j].request
             /\ sd[t[j].request].kind # "blank"
  <2>1. CASE j \in DOMAIN s
    <3>1. t[j] = s[j] /\ IsText(s[j]) /\ sd[s[j].request] = sc[s[j].request]
      BY <1>2, <2>1 DEF LineBehind
    <3>2. /\ j + 1 \in DOMAIN s /\ IsNewline(s[j + 1]) /\ s[j + 1].request = s[j].request
          /\ sc[s[j].request].kind # "blank"
      BY <2>1, <3>1 DEF Texts
    <3>3. j + 1 \in DOMAIN t /\ t[j + 1] = s[j + 1]
      BY <3>2 DEF LineBehind
    <3> QED
      BY <3>1, <3>2, <3>3
  <2>2. CASE j \notin DOMAIN s
    <3>1. j = Len(t) - 1 /\ j # Len(t)
      BY <1>1, <1>2, <2>2 DEF LineBehind, IsText, IsNewline
    <3>2. Len(t) \in Nat /\ Len(s) \in Nat /\ ~(j \in 1..Len(s)) /\ j \in 1..Len(t)
      BY <1>1, <2>2
    <3>3. j + 1 = Len(t) /\ j + 1 \in 1..Len(t) /\ Len(t) # Len(s) + 1
      BY <3>1, <3>2
    <3> QED
      BY <1>0, <1>1, <3>1, <3>3
  <2> QED
    BY <2>1, <2>2
<1>3. ASSUME NEW j \in DOMAIN t, IsNewline(t[j]), sd[t[j].request].kind # "blank"
      PROVE  \/ j = 1 /\ half
             \/ j > 1 /\ IsText(t[j - 1]) /\ t[j - 1].request = t[j].request
  <2>1. CASE j \in DOMAIN s
    <3>1. \/ j = 1 /\ half
          \/ j > 1 /\ IsText(s[j - 1]) /\ s[j - 1].request = s[j].request
      BY <1>3, <2>1 DEF LineBehind, Texts
    <3>2. j > 1 => j - 1 \in DOMAIN s
      BY <1>1, <2>1
    <3> QED
      BY <2>1, <3>1, <3>2 DEF LineBehind
  <2>2. CASE j \notin DOMAIN s
    <3>1. j = Len(t)
      BY <1>3, <2>2 DEF LineBehind, IsText, IsNewline
    <3>2. /\ Len(t) = Len(s) + 2 /\ IsText(t[Len(t) - 1])
          /\ t[Len(t) - 1].request = t[Len(t)].request
      BY <1>3, <3>1 DEF LineBehind
    <3> QED
      BY <1>1, <3>1, <3>2
  <2> QED
    BY <2>1, <2>2
<1>4. half => t # <<>> /\ IsNewline(t[1]) /\ sd[t[1].request].kind # "blank"
  <2> SUFFICES ASSUME half PROVE t # <<>> /\ IsNewline(t[1]) /\ sd[t[1].request].kind # "blank"
    OBVIOUS
  <2>1. s # <<>> /\ IsNewline(s[1]) /\ sc[s[1].request].kind # "blank"
    BY DEF Texts
  <2>2. 1 \in DOMAIN s
    BY <1>1, <2>1, EmptySeq, TailBytes
  <2>3. t # <<>>
    BY <1>1, EmptySeq
  <2> QED
    BY <2>1, <2>2, <2>3 DEF LineBehind
<1> QED
  BY <1>2, <1>3, <1>4 DEF Texts

(* Nothing is missing of the images when a line is sent. *)
LEMMA LineBehindImages ==
    ASSUME NEW sc, NEW sd, NEW s \in Seq(Byte), NEW t \in Seq(Byte), LineBehind(sc, sd, s, t),
           NEW d \in Nat, NEW o, NEW open \in BOOLEAN, sd[Len(sd)].size \in Nat,
           Images(sc, s, d, o), Missing(sc, s, 0, d, o, open)
    PROVE  Images(sd, t, d, o) /\ Missing(sd, t, sd[Len(sd)].size, d, o, open)
<1> DEFINE m == sd[Len(sd)].size
<1>1. /\ Len(s) \in Nat /\ DOMAIN s = 1..Len(s) /\ Len(t) \in Nat /\ DOMAIN t = 1..Len(t)
      /\ Len(t) > Len(s) /\ m \in Nat
  BY SeqDomain DEF LineBehind
<1>2. \A j \in DOMAIN t : j \notin DOMAIN s => IsText(t[j]) \/ j = Len(t)
  BY DEF LineBehind
<1>3. \A j \in DOMAIN t : IsNewline(t[j]) => j \in DOMAIN s \/ j = Len(t)
  BY <1>2 DEF IsNewline, IsText
<1>4. \A j \in DOMAIN t : ImageByte(t[j]) => j \in DOMAIN s
  BY <1>2 DEF LineBehind, IsNewline, IsText, ImageByte
<1>5. d <= Len(s)
  <2>1. d > Len(s) => d = Len(s) + 0
    BY DEF Missing
  <2>2. Len(s) \in Nat
    BY <1>1
  <2> QED
    BY <2>1, <2>2
<1>6. ASSUME NEW j \in DOMAIN s, IsNewline(s[j])
      PROVE  /\ t[j] = s[j] /\ sd[t[j].request].size = sc[s[j].request].size
             /\ sc[s[j].request].size \in Nat /\ j + sc[s[j].request].size <= Len(s)
  <2>1. t[j] = s[j] /\ sd[s[j].request] = sc[s[j].request] /\ sc[s[j].request].size \in Nat
    BY DEF LineBehind
  <2> DEFINE z == sc[s[j].request].size
  <2>2. z \in Nat /\ (j + z > Len(s) => j + z = Len(s) + 0)
    BY <1>6, <2>1 DEF Missing
  <2> HIDE DEF z
  <2>3. j + z <= Len(s)
    BY <1>1, <2>2
  <2> QED
    BY <2>1, <2>3 DEF z
<1>7. sd[t[Len(t)].request].size = m /\ t[Len(t)].request = Len(sd) /\ IsNewline(t[Len(t)])
  BY DEF LineBehind
<1> HIDE DEF m
<1>8. Images(sd, t, d, o)
  <2>1. ASSUME NEW i \in DOMAIN t, ImageByte(t[i])
        PROVE  \/ i <= d
               \/ \E j \in DOMAIN t : j < i /\ IsNewline(t[j]) /\ i <= j + sd[t[j].request].size
    <3>1. i \in DOMAIN s /\ ImageByte(s[i])
      BY <1>4, <2>1 DEF LineBehind
    <3>2. \/ i <= d
          \/ \E j \in DOMAIN s : j < i /\ IsNewline(s[j]) /\ i <= j + sc[s[j].request].size
      BY <3>1 DEF Images
    <3> QED
      BY <1>6, <3>2 DEF LineBehind
  <2>2. ASSUME NEW i \in DOMAIN t, i <= d PROVE ImageByte(t[i]) /\ t[i].request = o
    <3>1. i \in DOMAIN s
      BY <1>1, <1>5, <2>2
    <3> QED
      BY <2>2, <3>1 DEF Images, LineBehind
  <2>3. ASSUME NEW j \in DOMAIN t, NEW i \in DOMAIN t,
               IsNewline(t[j]), j < i, i <= j + sd[t[j].request].size
        PROVE  ImageByte(t[i]) /\ t[i].request = t[j].request
    <3>1. j # Len(t)
      BY <1>1, <2>3
    <3>2. j \in DOMAIN s /\ t[j] = s[j]
      BY <1>3, <2>3, <3>1 DEF LineBehind
    <3> DEFINE z == sc[s[j].request].size
    <3>3. z \in Nat /\ j + z <= Len(s) /\ i <= j + z
      BY <1>6, <2>3, <3>2
    <3> HIDE DEF z
    <3>4. i \in DOMAIN s
      BY <1>1, <3>3
    <3> QED
      BY <2>3, <3>2, <3>3, <3>4 DEF Images, LineBehind, z
  <2> QED
    BY <2>1, <2>2, <2>3 DEF Images
<1>9. Missing(sd, t, m, d, o, open)
  <2>1. ~(d > Len(t))
    BY <1>1, <1>5
  <2>2. ASSUME NEW j \in DOMAIN t, IsNewline(t[j]), j + sd[t[j].request].size > Len(t)
        PROVE  t[j].request = Len(sd) /\ j + sd[t[j].request].size = Len(t) + m
    <3>1. CASE j = Len(t)
      BY <1>7, <3>1
    <3>2. CASE j # Len(t)
      <4>1. j \in DOMAIN s /\ IsNewline(s[j])
        BY <1>3, <2>2, <3>2 DEF LineBehind
      <4> DEFINE z == sd[t[j].request].size
      <4>2. z \in Nat /\ j + z <= Len(s) /\ j + z > Len(t)
        BY <1>6, <2>2, <4>1
      <4> HIDE DEF z
      <4> QED
        BY <1>1, <4>2
    <3> QED
      BY <3>1, <3>2
  <2>3. Len(t) \in DOMAIN t
    BY <1>1
  <2> QED
    BY <1>7, <2>1, <2>2, <2>3 DEF Missing
<1> QED
  BY <1>8, <1>9 DEF m

(* t is s and a byte of the image of the last line. *)
ByteBehind(sc, s, t) ==
    /\ Len(t) = Len(s) + 1
    /\ \A j \in DOMAIN s : j \in DOMAIN t /\ t[j] = s[j]
    /\ ImageByte(t[Len(t)]) /\ t[Len(t)].request = Len(sc)

LEMMA ByteBehindRest ==
    ASSUME NEW sc, NEW s \in Seq(Byte), NEW t \in Seq(Byte), ByteBehind(sc, s, t), NEW half \in BOOLEAN,
           NEW n
    PROVE  /\ Lines(sc, s, n) => Lines(sc, t, n)
           /\ Texts(sc, s, half) => Texts(sc, t, half)
<1>1. /\ Len(s) \in Nat /\ DOMAIN s = 1..Len(s) /\ DOMAIN t = 1..Len(t) /\ Len(t) = Len(s) + 1
      /\ \A j \in DOMAIN t : t[j] \in Byte
  BY SeqDomain DEF ByteBehind
<1>2. ASSUME NEW j \in DOMAIN t, ~ImageByte(t[j]) PROVE j \in DOMAIN s /\ t[j] = s[j]
  <2>1. j # Len(t)
    BY <1>2 DEF ByteBehind
  <2>2. j \in DOMAIN s
    BY <1>1, <2>1
  <2> QED
    BY <2>2 DEF ByteBehind
<1>3. \A j \in DOMAIN t : IsNewline(t[j]) \/ IsText(t[j]) => j \in DOMAIN s /\ t[j] = s[j]
  BY <1>1, <1>2, ByteKinds
<1>4. \A j \in DOMAIN s : j \in DOMAIN t /\ t[j] = s[j]
  BY DEF ByteBehind
<1>5. Lines(sc, s, n) => Lines(sc, t, n)
  BY <1>3, <1>4 DEF Lines
<1>6. ASSUME Texts(sc, s, half) PROVE Texts(sc, t, half)
  <2>1. ASSUME NEW j \in DOMAIN t, IsText(t[j])
        PROVE  /\ j + 1 \in DOMAIN t /\ IsNewline(t[j + 1]) /\ t[j + 1].request = t[j].request
               /\ sc[t[j].request].kind # "blank"
    BY <1>3, <1>4, <1>6, <2>1 DEF Texts
  <2>2. ASSUME NEW j \in DOMAIN t, IsNewline(t[j]), sc[t[j].request].kind # "blank"
        PROVE  \/ j = 1 /\ half
               \/ j > 1 /\ IsText(t[j - 1]) /\ t[j - 1].request = t[j].request
    <3>1. j \in DOMAIN s /\ t[j] = s[j]
      BY <1>3, <2>2
    <3>2. j > 1 => j - 1 \in DOMAIN s
      BY <1>1, <3>1
    <3> QED
      BY <1>4, <1>6, <2>2, <3>1, <3>2 DEF Texts
  <2>3. half => t # <<>> /\ IsNewline(t[1]) /\ sc[t[1].request].kind # "blank"
    <3> SUFFICES ASSUME half PROVE t # <<>> /\ IsNewline(t[1]) /\ sc[t[1].request].kind # "blank"
      OBVIOUS
    <3>1. s # <<>> /\ IsNewline(s[1]) /\ sc[s[1].request].kind # "blank"
      BY <1>6 DEF Texts
    <3>2. 1 \in DOMAIN s
      BY <3>1, TailBytes
    <3>3. Len(t) # 0
      BY <1>1
    <3>4. t # <<>>
      BY <3>3, EmptySeq
    <3> QED
      BY <1>4, <3>1, <3>2, <3>4
  <2> QED
    BY <2>1, <2>2, <2>3 DEF Texts
<1> QED
  BY <1>5, <1>6

LEMMA ByteBehindImages ==
    ASSUME NEW sc, NEW s \in Seq(Byte), NEW t \in Seq(Byte), ByteBehind(sc, s, t), Sized(sc, s),
           NEW d \in Nat, NEW o, NEW w \in Nat \ {0}, Images(sc, s, d, o), Missing(sc, s, w, d, o, TRUE)
    PROVE  Images(sc, t, d, o) /\ Missing(sc, t, w - 1, d, o, TRUE)
<1>1. Len(s) \in Nat /\ Len(t) = Len(s) + 1
  BY SeqDomain DEF ByteBehind
<1>2. /\ DOMAIN s = 1..Len(s) /\ DOMAIN t = 1..Len(t)
      /\ \A j \in DOMAIN t : t[j] \in Byte
  BY SeqDomain
<1>3. /\ \A j \in DOMAIN s : j \in DOMAIN t /\ t[j] = s[j]
      /\ ImageByte(t[Len(t)]) /\ t[Len(t)].request = Len(sc)
  BY DEF ByteBehind
<1>4. \A j \in DOMAIN t : j \in DOMAIN s \/ j = Len(t)
  BY <1>1, <1>2
<1>5. \A j \in DOMAIN t : IsNewline(t[j]) => j \in DOMAIN s /\ t[j] = s[j]
  BY <1>2, <1>3, <1>4, ByteKinds
<1>6. \A j \in DOMAIN s : sc[s[j].request].size \in Nat /\ j \in 1..Len(s)
  BY <1>2 DEF Sized
(* The byte is one that was missing. *)
<1>7. \/ d = Len(s) + w /\ o = Len(sc)
      \/ \E j \in DOMAIN s : /\ IsNewline(s[j]) /\ s[j].request = Len(sc)
                             /\ j + sc[s[j].request].size = Len(s) + w
  BY DEF Missing
<1>8. Images(sc, t, d, o)
  <2>1. ASSUME NEW i \in DOMAIN t, ImageByte(t[i])
        PROVE  \/ i <= d
               \/ \E j \in DOMAIN t : j < i /\ IsNewline(t[j]) /\ i <= j + sc[t[j].request].size
    <3>1. CASE i \in DOMAIN s
      <4>1. \/ i <= d
            \/ \E j \in DOMAIN s : j < i /\ IsNewline(s[j]) /\ i <= j + sc[s[j].request].size
        BY <1>3, <2>1, <3>1 DEF Images
      <4> QED
        BY <1>3, <4>1
    <3>2. CASE i = Len(t)
      <4>1. CASE d = Len(s) + w
        BY <1>1, <3>2, <4>1
      <4>2. CASE \E j \in DOMAIN s : IsNewline(s[j]) /\ j + sc[s[j].request].size = Len(s) + w
        <5>1. PICK j \in DOMAIN s : IsNewline(s[j]) /\ j + sc[s[j].request].size = Len(s) + w
          BY <4>2
        <5>2. j < i
          BY <1>1, <1>6, <3>2
        <5>3. Len(t) <= Len(s) + w
          BY <1>1
        <5> QED
          BY <1>3, <3>2, <5>1, <5>2, <5>3
      <4> QED
        BY <1>7, <4>1, <4>2
    <3> QED
      BY <1>4, <3>1, <3>2
  <2>2. ASSUME NEW i \in DOMAIN t, i <= d PROVE ImageByte(t[i]) /\ t[i].request = o
    <3>1. CASE i \in DOMAIN s
      BY <1>3, <2>2, <3>1 DEF Images
    <3>2. CASE i = Len(t)
      <4>1. d > Len(s)
        BY <1>1, <2>2, <3>2
      <4>2. o = Len(sc)
        BY <4>1 DEF Missing
      <4> QED
        BY <1>3, <3>2, <4>2
    <3> QED
      BY <1>4, <3>1, <3>2
  <2>3. ASSUME NEW j \in DOMAIN t, NEW i \in DOMAIN t,
               IsNewline(t[j]), j < i, i <= j + sc[t[j].request].size
        PROVE  ImageByte(t[i]) /\ t[i].request = t[j].request
    <3>1. j \in DOMAIN s /\ t[j] = s[j]
      BY <1>5, <2>3
    <3>2. CASE i \in DOMAIN s
      BY <1>3, <2>3, <3>1, <3>2 DEF Images
    <3>3. CASE i = Len(t)
      <4> DEFINE z == sc[s[j].request].size
      <4>1. z \in Nat /\ j \in Nat /\ Len(t) <= j + z
        BY <1>6, <2>3, <3>1, <3>3
      <4> HIDE DEF z
      <4>2. j + z > Len(s)
        BY <1>1, <4>1
      <4>3. s[j].request = Len(sc)
        BY <2>3, <3>1, <4>2 DEF Missing, z
      <4> QED
        BY <1>3, <3>1, <3>3, <4>3
    <3> QED
      BY <1>4, <3>2, <3>3
  <2> QED
    BY <2>1, <2>2, <2>3 DEF Images
<1>9. Missing(sc, t, w - 1, d, o, TRUE)
  <2>0. w - 1 \in Nat /\ Len(t) + (w - 1) = Len(s) + w
    BY <1>1
  <2>1. d > Len(t) => o = Len(sc) /\ d = Len(t) + (w - 1)
    <3>1. d > Len(t) => d > Len(s)
      BY <1>1
    <3> QED
      BY <2>0, <3>1 DEF Missing
  <2>2. ASSUME NEW j \in DOMAIN t, IsNewline(t[j]), j + sc[t[j].request].size > Len(t)
        PROVE  t[j].request = Len(sc) /\ j + sc[t[j].request].size = Len(t) + (w - 1)
    <3>1. j \in DOMAIN s /\ t[j] = s[j]
      BY <1>5, <2>2
    <3> DEFINE z == sc[s[j].request].size
    <3>2. z \in Nat /\ j \in Nat /\ j + z > Len(t)
      BY <1>6, <2>2, <3>1
    <3> HIDE DEF z
    <3>3. j + z > Len(s)
      BY <1>1, <3>2
    <3>4. s[j].request = Len(sc) /\ j + z = Len(s) + w
      BY <2>2, <3>1, <3>3 DEF Missing, z
    <3> QED
      BY <2>0, <3>1, <3>4 DEF z
  <2>3. \/ d = Len(t) + (w - 1) /\ o = Len(sc)
        \/ \E j \in DOMAIN t : /\ IsNewline(t[j]) /\ t[j].request = Len(sc)
                               /\ j + sc[t[j].request].size = Len(t) + (w - 1)
    BY <1>3, <1>7, <2>0
  <2> QED
    BY <2>1, <2>2, <2>3 DEF Missing
<1> QED
  BY <1>8, <1>9

-----------------------------------------------------------------------------
(* Type correctness. *)

ScriptLine == [kind : Kinds, size : 0..MaxBody]

LEMMA ScriptFacts ==
    ASSUME Base
    PROVE  /\ Len(script) \in 0..MaxRequests /\ DOMAIN script = 1..Len(script)
           /\ \A i \in DOMAIN script : script[i].size \in 0..MaxBody /\ script[i].kind \in AllKinds
           /\ Sized(script, stream)
<1>1. script \in Seq(ScriptLine)
  BY DEF Base, TypeOK, ScriptLine
<1>2. Len(script) \in Nat /\ DOMAIN script = 1..Len(script)
  BY <1>1, LenProperties
<1>3. \A i \in DOMAIN script : script[i] \in ScriptLine
  BY <1>1, <1>2, ElementOfSeq
<1>4. \A i \in DOMAIN script : script[i].size \in 0..MaxBody /\ script[i].kind \in AllKinds
  BY <1>3, ClientSessionAssumption DEF ScriptLine
<1>5. Len(script) \in 0..MaxRequests
  BY <1>2, ClientSessionAssumption DEF Base
<1>6. Sized(script, stream)
  BY <1>2, <1>4 DEF Base, Sized
<1> QED
  BY <1>2, <1>4, <1>5, <1>6

(* The requests a dispatched line speaks of. *)
LEMMA DispatchFacts ==
    ASSUME Base, pc = "dispatch"
    PROVE  /\ 1 \in DOMAIN cmd /\ cmd[1] \in Byte /\ cmd[1].request \in DOMAIN script
           /\ Requested \in 0..MaxRequests
           /\ Line \in AllKinds => Line = "blank" \/ (Requested = cmd[1].request /\ Line = script[Requested].kind)
<1>1. cmd \in Seq(Byte) /\ cmd # <<>>
  BY DEF Base, TypeOK
<1>2. 1 \in DOMAIN cmd /\ cmd[1] \in Byte
  BY <1>1, SeqDomain, TailBytes
<1>3. cmd[1].request \in DOMAIN script /\ cmd[1].request \in 1..MaxRequests
  BY <1>2, ByteKinds DEF Base
<1>4. Requested \in 0..MaxRequests
  BY <1>3, ClientSessionAssumption DEF Requested
<1>5. Line \in AllKinds => Line = "blank" \/ (Requested = cmd[1].request /\ Line = script[Requested].kind)
  BY DEF Line, Requested, AllKinds
<1> QED
  BY <1>2, <1>3, <1>4, <1>5

LEMMA SentLine ==
    ASSUME Base, NEW k \in Kinds, NEW m \in 0..MaxBody, SendLine(k, m)
    PROVE  /\ script' \in Seq(ScriptLine) /\ Len(script') = Len(script) + 1
           /\ DOMAIN script' = DOMAIN script \cup {Len(script) + 1}
           /\ \A r \in DOMAIN script : script'[r] = script[r]
           /\ script'[Len(script) + 1] = [kind |-> k, size |-> m]
           /\ stream' \in Seq(Byte) /\ LineBehind(script, script', stream, stream')
<1> DEFINE i == Len(script) + 1
           rec == [kind |-> k, size |-> m]
           text == [kind |-> "text", request |-> i]
           newline == [kind |-> "newline", request |-> i]
<1>1. script \in Seq(ScriptLine) /\ stream \in Seq(Byte) /\ rec \in ScriptLine
  BY DEF Base, TypeOK, ScriptLine
<1>2. /\ Len(script) \in Nat /\ DOMAIN script = 1..Len(script) /\ i \in 1..MaxRequests
      /\ script' = Append(script, rec)
  BY ScriptFacts, ClientSessionAssumption DEF SendLine
<1>3. text \in Byte /\ newline \in Byte
  BY <1>2 DEF Byte
<1>4. /\ script' \in Seq(ScriptLine) /\ Len(script') = i /\ DOMAIN script' = 1..i
      /\ \A r \in 1..Len(script) : script'[r] = script[r]
      /\ script'[i] = rec
  BY <1>1, <1>2, AppendProperties
<1>5. stream' = Append(IF k = "blank" THEN stream ELSE Append(stream, text), newline)
  <2> HIDE DEF text, newline
  <2>1. stream' = (stream \o (IF k = "blank" THEN <<>> ELSE <<text>>)) \o <<newline>>
    BY DEF SendLine, text, newline
  <2>2. \A b \in Byte, q \in Seq(Byte) : q \o <<b>> = Append(q, b) /\ Append(q, b) \in Seq(Byte)
    BY AppendIsConcat, AppendProperties
  <2>3. CASE k = "blank"
    <3>1. stream \o <<>> = stream
      BY <1>1, ConcatEmptySeq
    <3> QED
      BY <1>1, <1>3, <2>1, <2>2, <2>3, <3>1
  <2>4. CASE k # "blank"
    BY <1>1, <1>3, <2>1, <2>2, <2>4
  <2> QED
    BY <2>3, <2>4
<1>6. /\ Len(stream) \in Nat /\ DOMAIN stream = 1..Len(stream)
  BY <1>1, SeqDomain
<1>7. /\ stream' \in Seq(Byte)
      /\ Len(stream') = IF k = "blank" THEN Len(stream) + 1 ELSE Len(stream) + 2
      /\ \A j \in 1..Len(stream) : stream'[j] = stream[j]
      /\ stream'[Len(stream')] = newline
      /\ k # "blank" => stream'[Len(stream') - 1] = text
  <2> HIDE DEF text, newline
  <2>1. CASE k = "blank"
    <3>1. stream' = Append(stream, newline)
      BY <1>5, <2>1
    <3>2. /\ stream' \in Seq(Byte) /\ Len(stream') = Len(stream) + 1
          /\ \A j \in 1..Len(stream) : stream'[j] = stream[j]
          /\ stream'[Len(stream) + 1] = newline
      BY <1>1, <1>3, <3>1, AppendProperties
    <3> QED
      BY <2>1, <3>2
  <2>2. CASE k # "blank"
    <3> DEFINE q == Append(stream, text)
    <3>1. /\ q \in Seq(Byte) /\ Len(q) = Len(stream) + 1
          /\ \A j \in 1..Len(stream) : q[j] = stream[j]
          /\ q[Len(stream) + 1] = text
      BY <1>1, <1>3, AppendProperties
    <3>2. stream' = Append(q, newline)
      BY <1>5, <2>2
    <3> HIDE DEF q
    <3>3. /\ stream' \in Seq(Byte) /\ Len(stream') = Len(q) + 1
          /\ \A j \in 1..Len(q) : stream'[j] = q[j]
          /\ stream'[Len(q) + 1] = newline
      BY <1>3, <3>1, <3>2, AppendProperties
    <3>4. Len(stream') - 1 = Len(q) /\ Len(stream') = Len(stream) + 2 /\ Len(q) \in 1..Len(q)
      BY <1>6, <3>1, <3>3
    <3>5. \A j \in 1..Len(stream) : j \in 1..Len(q)
      BY <1>6, <3>1
    <3> QED
      BY <2>2, <3>1, <3>3, <3>4, <3>5
  <2> QED
    BY <2>1, <2>2
<1>8. DOMAIN stream' = 1..Len(stream')
  BY <1>7, SeqDomain
<1>9. LineBehind(script, script', stream, stream')
  <2>1. Len(script) \in Nat /\ Len(script') = Len(script) + 1 /\ Len(stream') > Len(stream)
    BY <1>2, <1>4, <1>6, <1>7
  <2>2. ASSUME NEW j \in DOMAIN stream
        PROVE  /\ j \in DOMAIN stream' /\ stream'[j] = stream[j] /\ stream[j].request \in 1..Len(script)
               /\ script'[stream[j].request] = script[stream[j].request]
               /\ script[stream[j].request].size \in Nat
    <3>1. stream[j].request \in 1..Len(script)
      BY <1>2 DEF Base
    <3>2. script[stream[j].request].size \in Nat
      BY <1>2, <3>1, ScriptFacts
    <3>3. j \in DOMAIN stream'
      BY <1>6, <1>7, <1>8, <2>1
    <3> QED
      BY <1>4, <1>6, <1>7, <3>1, <3>2, <3>3
  <2>3. IsText(text) /\ IsNewline(newline) /\ text.request = i /\ newline.request = i
    BY DEF IsText, IsNewline
  <2>4. rec.kind = k
    OBVIOUS
  <2> HIDE DEF text, newline, rec
  <2>5. ASSUME NEW j \in DOMAIN stream'
        PROVE  j \in DOMAIN stream \/ j = Len(stream') \/ (j = Len(stream') - 1 /\ IsText(stream'[j]))
    BY <1>6, <1>7, <1>8, <2>3
  <2>6. \/ Len(stream') = Len(stream) + 1 /\ script'[Len(script')].kind = "blank"
        \/ /\ Len(stream') = Len(stream) + 2 /\ IsText(stream'[Len(stream') - 1])
           /\ stream'[Len(stream') - 1].request = Len(script')
           /\ script'[Len(script')].kind # "blank"
    BY <1>4, <1>7, <2>3, <2>4
  <2>7. IsNewline(stream'[Len(stream')]) /\ stream'[Len(stream')].request = Len(script')
    BY <1>4, <1>7, <2>3
  <2> QED
    BY <2>1, <2>2, <2>5, <2>6, <2>7 DEF LineBehind
<1>10. DOMAIN script' = DOMAIN script \cup {Len(script) + 1}
  BY <1>2, <1>4
<1> QED
  BY <1>2, <1>4, <1>7, <1>9, <1>10

LEMMA SentByte ==
    ASSUME Base, SendImageByte
    PROVE  stream' \in Seq(Byte) /\ ByteBehind(script, stream, stream') /\ Len(script) \in DOMAIN script
<1>1. PICK k \in {"image", "image_newline"} :
         stream' = Append(stream, [kind |-> k, request |-> Len(script)])
  BY DEF SendImageByte
<1> DEFINE b == [kind |-> k, request |-> Len(script)]
<1>2. Len(script) \in 1..MaxRequests /\ Len(script) \in DOMAIN script
  BY ScriptFacts DEF SendImageByte, Base
<1>3. b \in Byte /\ ImageByte(b) /\ b.request = Len(script)
  BY <1>2 DEF Byte, ImageByte
<1>4. stream \in Seq(Byte) /\ stream' = Append(stream, b)
  BY <1>1 DEF Base, TypeOK
<1> HIDE DEF b
<1>5. /\ stream' \in Seq(Byte) /\ Len(stream') = Len(stream) + 1
      /\ \A j \in 1..Len(stream) : stream'[j] = stream[j]
      /\ stream'[Len(stream) + 1] = b
  BY <1>3, <1>4, AppendProperties
<1>6. /\ Len(stream) \in Nat /\ DOMAIN stream = 1..Len(stream)
      /\ DOMAIN stream' = 1..Len(stream')
  BY <1>4, <1>5, SeqDomain
<1> QED
  BY <1>2, <1>3, <1>5, <1>6 DEF ByteBehind

LEMMA SendLineBase ==
    ASSUME Base, NEW k \in Kinds, NEW m \in 0..MaxBody, SendLine(k, m)
    PROVE  Base'
<1>1. /\ script' \in Seq(ScriptLine) /\ Len(script') = Len(script) + 1
      /\ DOMAIN script' = DOMAIN script \cup {Len(script) + 1}
      /\ \A r \in DOMAIN script : script'[r] = script[r]
      /\ script'[Len(script) + 1] = [kind |-> k, size |-> m]
      /\ stream' \in Seq(Byte) /\ LineBehind(script, script', stream, stream')
  BY SentLine
<1>2. /\ owed' = m /\ (m > 0 <=> k = "upload") /\ Len(script) < MaxRequests
      /\ UNCHANGED <<hungUp, pc, cmd, left, serving, replies, outOfStep>>
  BY DEF SendLine
<1>3. Len(script) \in Nat /\ DOMAIN script = 1..Len(script) /\ MaxRequests \in Nat
  BY ScriptFacts, ClientSessionAssumption
<1>4. TypeOK'
  BY <1>1, <1>2 DEF Base, TypeOK, ScriptLine
<1>5. \A i \in DOMAIN script' : script'[i].size > 0 <=> script'[i].kind = "upload"
  BY <1>1, <1>2 DEF Base
<1>6. ASSUME NEW j \in DOMAIN stream' PROVE stream'[j].request \in DOMAIN script'
  <2>1. CASE j \in DOMAIN stream
    BY <1>1, <1>3, <2>1 DEF LineBehind
  <2>2. CASE j = Len(stream')
    BY <1>1, <1>3, <2>2 DEF LineBehind
  <2>3. CASE j = Len(stream') - 1 /\ j \notin DOMAIN stream /\ IsText(stream'[j])
    <3>1. Len(stream') # Len(stream) + 1
      <4>1. /\ Len(stream) \in Nat /\ Len(stream') \in Nat
            /\ DOMAIN stream = 1..Len(stream) /\ DOMAIN stream' = 1..Len(stream')
        BY <1>1, SeqDomain DEF Base, TypeOK
      <4>2. j \in 1..Len(stream') /\ j = Len(stream') - 1 /\ ~(j \in 1..Len(stream))
        BY <2>3, <4>1
      <4>3. \A a, b \in Nat : \A x \in 1..b : (x = b - 1 /\ ~(x \in 1..a)) => b # a + 1
        OBVIOUS
      <4> QED
        BY <4>1, <4>2, <4>3
    <3>2. stream'[j].request = Len(script')
      BY <1>1, <2>3, <3>1 DEF LineBehind
    <3> QED
      BY <1>1, <3>2
  <2> QED
    BY <1>1, <2>1, <2>2, <2>3 DEF LineBehind
<1>7. Len(script') <= MaxRequests /\ Len(script') > 0
  BY <1>1, <1>2, <1>3
<1> QED
  BY <1>1, <1>2, <1>4, <1>5, <1>6, <1>7 DEF Base

LEMMA SendImageByteBase ==
    ASSUME Base, SendImageByte
    PROVE  Base'
<1>1. stream' \in Seq(Byte) /\ ByteBehind(script, stream, stream') /\ Len(script) \in DOMAIN script
  BY SentByte
<1>2. /\ owed > 0 /\ owed' = owed - 1
      /\ UNCHANGED <<script, hungUp, pc, cmd, left, serving, replies, outOfStep>>
  BY DEF SendImageByte
<1>3. owed' \in 0..MaxBody
  BY <1>2, ClientSessionAssumption DEF Base, TypeOK
<1>4. TypeOK'
  BY <1>1, <1>2, <1>3 DEF Base, TypeOK
<1>5. \A j \in DOMAIN stream' : stream'[j].request \in DOMAIN script
  <2>1. /\ Len(stream) \in Nat /\ DOMAIN stream = 1..Len(stream) /\ DOMAIN stream' = 1..Len(stream')
        /\ Len(stream') = Len(stream) + 1
    BY <1>1, SeqDomain DEF Base, TypeOK, ByteBehind
  <2>2. \A j \in DOMAIN stream' : j \in DOMAIN stream \/ j = Len(stream')
    BY <2>1
  <2> QED
    BY <1>1, <2>2 DEF Base, ByteBehind
<1>6. Len(script) > 0
  BY <1>1, ScriptFacts
<1> QED
  BY <1>2, <1>4, <1>5, <1>6 DEF Base

(* The first byte of the stream is read. *)
LEMMA ReadByteBase ==
    ASSUME Base, stream # <<>>, stream' = Tail(stream)
    PROVE  /\ stream' \in Seq(Byte) /\ Head(stream) = stream[1] /\ 1 \in DOMAIN stream
           /\ stream[1] \in Byte /\ stream[1].request \in DOMAIN script
           /\ \A j \in DOMAIN stream' : stream'[j].request \in DOMAIN script
BY TailBytes, SeqDomain DEF Base, TypeOK

LEMMA ReadLineBase ==
    ASSUME Base, ReadLine
    PROVE  Base'
<1>1. /\ stream # <<>> /\ stream' = Tail(stream) /\ cmd' = Append(cmd, Head(stream))
      /\ UNCHANGED <<script, owed, hungUp, left, serving, replies, outOfStep>>
      /\ pc = "line" /\ pc' \in {"line", "dispatch"}
  BY DEF ReadLine, client
<1>2. /\ stream' \in Seq(Byte) /\ Head(stream) = stream[1] /\ stream[1] \in Byte
      /\ stream[1].request \in DOMAIN script
      /\ \A j \in DOMAIN stream' : stream'[j].request \in DOMAIN script
  BY <1>1, ReadByteBase
<1>3. cmd \in Seq(Byte) /\ cmd' = Append(cmd, stream[1])
  BY <1>1, <1>2 DEF Base, TypeOK
<1>4. /\ cmd' \in Seq(Byte) /\ cmd' # <<>> /\ Len(cmd') = Len(cmd) + 1
      /\ \A j \in 1..Len(cmd) : cmd'[j] = cmd[j]
      /\ cmd'[Len(cmd) + 1] = stream[1]
  BY <1>2, <1>3, AppendProperties
<1>5. Len(cmd) \in Nat /\ DOMAIN cmd = 1..Len(cmd) /\ DOMAIN cmd' = 1..Len(cmd')
  BY <1>3, <1>4, SeqDomain
<1>6. ASSUME NEW j \in DOMAIN cmd' PROVE cmd'[j].request \in DOMAIN script
  <2>1. j \in 1..Len(cmd) \/ j = Len(cmd) + 1
    BY <1>4, <1>5
  <2> QED
    BY <1>2, <1>4, <1>5, <2>1 DEF Base
<1>7. TypeOK'
  BY <1>1, <1>2, <1>4 DEF Base, TypeOK
<1> QED
  BY <1>1, <1>2, <1>4, <1>6, <1>7 DEF Base

(* A reply to a request of the client, or to a line that is none. *)
LEMMA ReplyBase ==
    ASSUME Base, NEW r \in 0..MaxRequests, replies' = Append(replies, r), cmd' = <<>>,
           pc' \in {"line", "closed"}, left' = 0, serving' \in 0..MaxRequests, outOfStep' \in BOOLEAN,
           UNCHANGED <<script, owed, hungUp, stream>>
    PROVE  Base'
<1>1. replies' \in Seq(0..MaxRequests)
  BY AppendProperties DEF Base, TypeOK
<1>2. cmd' \in Seq(Byte) /\ DOMAIN cmd' = {}
  OBVIOUS
<1>3. TypeOK'
  BY <1>1, <1>2, ClientSessionAssumption DEF Base, TypeOK
<1> QED
  BY <1>2, <1>3 DEF Base

LEMMA BaseStep == Base /\ [Next]_vars => Base'
<1> SUFFICES ASSUME Base, [Next]_vars PROVE Base'
  OBVIOUS
<1>0. /\ left \in 0..(MaxBody + MaxGarbage) /\ serving \in 0..MaxRequests /\ outOfStep \in BOOLEAN
      /\ owed \in 0..MaxBody /\ hungUp \in BOOLEAN /\ (pc # "body" => left = 0)
      /\ MaxBody \in Nat /\ MaxGarbage \in Nat /\ MaxRequests \in Nat
  BY ClientSessionAssumption DEF Base, TypeOK
<1>1. ASSUME NEW k \in Kinds, NEW m \in 0..MaxBody, SendLine(k, m) PROVE Base'
  BY <1>1, SendLineBase
<1>2. CASE SendImageByte
  BY <1>2, SendImageByteBase
<1>3. CASE HangUp
  BY <1>3 DEF HangUp, Base, TypeOK
<1>4. CASE ReadLine
  BY <1>4, ReadLineBase
<1>5. CASE ReadEnd
  BY <1>5 DEF ReadEnd, client, Base, TypeOK
<1>6. CASE SkipBlank
  <2>1. cmd' \in Seq(Byte) /\ DOMAIN cmd' = {}
    BY <1>6 DEF SkipBlank
  <2> QED
    BY <1>6, <2>1 DEF SkipBlank, client, Base, TypeOK
<1>7. CASE HandleCommand \/ UploadInvalid \/ UploadRefused \/ GetImage
  <2>1. /\ pc = "dispatch" /\ replies' = Append(replies, Requested) /\ cmd' = <<>>
        /\ pc' \in {"line", "closed"} /\ left' = left /\ serving' = serving
        /\ UNCHANGED <<script, owed, hungUp, stream>>
    BY <1>7 DEF HandleCommand, UploadInvalid, UploadRefused, GetImage, Reply, client
  <2>2. outOfStep' \in BOOLEAN
    BY <1>0, <1>7 DEF HandleCommand, UploadInvalid, UploadRefused, GetImage
  <2>3. Requested \in 0..MaxRequests
    BY <2>1, DispatchFacts
  <2>4. left' = 0 /\ serving' \in 0..MaxRequests
    BY <1>0, <2>1
  <2> QED
    BY <2>1, <2>2, <2>3, <2>4, ReplyBase
<1>8. CASE UploadAccepted
  <2>1. /\ pc = "dispatch" /\ Line \in {"upload", "upload_unsized"}
        /\ left' \in IF Line = "upload" THEN {script[Requested].size} ELSE 1..MaxGarbage
        /\ serving' = Requested /\ outOfStep' \in BOOLEAN
        /\ pc' = "body" /\ cmd' = <<>> /\ UNCHANGED <<script, owed, hungUp, stream, replies>>
    BY <1>0, <1>8 DEF UploadAccepted, client
  <2>2. Requested \in 0..MaxRequests /\ Requested \in DOMAIN script
    BY <2>1, DispatchFacts DEF AllKinds
  <2>3. script[Requested].size \in 0..MaxBody
    BY <2>2, ScriptFacts
  <2>4. left' \in 0..(MaxBody + MaxGarbage)
    BY <1>0, <2>1, <2>3
  <2>5. cmd' \in Seq(Byte) /\ DOMAIN cmd' = {}
    BY <2>1
  <2> QED
    BY <2>1, <2>2, <2>4, <2>5 DEF Base, TypeOK
<1>9. CASE ReadBody
  <2>1. /\ pc = "body" /\ left > 0 /\ stream # <<>> /\ stream' = Tail(stream) /\ left' = left - 1
        /\ UNCHANGED <<script, owed, hungUp, pc, cmd, serving, replies, outOfStep>>
    BY <1>9 DEF ReadBody, client
  <2>2. left' \in 0..(MaxBody + MaxGarbage)
    BY <1>0, <2>1
  <2>3. stream' \in Seq(Byte) /\ \A j \in DOMAIN stream' : stream'[j].request \in DOMAIN script
    BY <2>1, ReadByteBase
  <2> QED
    BY <2>1, <2>2, <2>3 DEF Base, TypeOK
<1>10. CASE UploadReturns
  <2>1. /\ replies' = Append(replies, serving) /\ cmd' = <<>> /\ pc' = "line" /\ left' = 0
        /\ serving' = 0 /\ outOfStep' = outOfStep /\ UNCHANGED <<script, owed, hungUp, stream>>
    BY <1>10 DEF UploadReturns, Reply, client
  <2> QED
    BY <1>0, <2>1, ReplyBase
<1>11. CASE UNCHANGED vars
  BY <1>11 DEF vars, Base, TypeOK
<1> QED
  BY <1>1, <1>2, <1>3, <1>4, <1>5, <1>6, <1>7, <1>8, <1>9, <1>10, <1>11 DEF Next, ServerStep

-----------------------------------------------------------------------------
(* The connection in step. *)

Ordered ==
    \A k \in DOMAIN replies :
        /\ replies[k] \in Answerable
        /\ {replies[j] : j \in 1..(k - 1)} = {i \in Answerable : i < replies[k]}

(* The next answer. *)
LEMMA AnswerNext ==
    ASSUME Base, Ordered, NEW m \in DOMAIN script, m \in Answerable, Answered(m),
           replies' = Append(replies, m), script' = script
    PROVE  Ordered' /\ Answered(m + 1)'
<1>1. /\ replies \in Seq(0..MaxRequests) /\ m \in 0..MaxRequests /\ m \in Nat
      /\ Answerable \subseteq Nat /\ Answerable' = Answerable
  <2>1. DOMAIN script \subseteq Nat /\ m \in 1..MaxRequests
    BY ScriptFacts, ClientSessionAssumption
  <2> QED
    BY <2>1 DEF Base, TypeOK, Answerable
<1>2. /\ Len(replies) \in Nat /\ DOMAIN replies = 1..Len(replies)
      /\ Len(replies') = Len(replies) + 1 /\ DOMAIN replies' = 1..(Len(replies) + 1)
      /\ \A k \in 1..Len(replies) : replies'[k] = replies[k]
      /\ replies'[Len(replies) + 1] = m
  <2>1. /\ replies' \in Seq(0..MaxRequests) /\ Len(replies') = Len(replies) + 1
        /\ \A k \in 1..Len(replies) : replies'[k] = replies[k]
        /\ replies'[Len(replies) + 1] = m
    BY <1>1, AppendProperties
  <2> QED
    BY <1>1, <2>1, LenProperties
<1>3. {replies[j] : j \in 1..Len(replies)} = {i \in Answerable : i < m}
  BY <1>2 DEF Answered
<1>4. ASSUME NEW k \in DOMAIN replies'
      PROVE  /\ replies'[k] \in Answerable
             /\ {replies'[j] : j \in 1..(k - 1)} = {i \in Answerable : i < replies'[k]}
  <2>1. \A j \in 1..(k - 1) : j \in 1..Len(replies) /\ replies'[j] = replies[j]
    BY <1>2
  <2>2. {replies'[j] : j \in 1..(k - 1)} = {replies[j] : j \in 1..(k - 1)}
    BY <2>1
  <2>3. CASE k \in 1..Len(replies)
    BY <1>2, <2>2, <2>3 DEF Ordered
  <2>4. CASE k = Len(replies) + 1
    BY <1>2, <1>3, <2>2, <2>4
  <2> QED
    BY <1>2, <2>3, <2>4
<1>5. {replies'[j] : j \in DOMAIN replies'} = {i \in Answerable : i < m + 1}
  <2>1. {replies'[j] : j \in DOMAIN replies'} = {replies[j] : j \in 1..Len(replies)} \cup {m}
    BY <1>2
  <2>2. {i \in Answerable : i < m + 1} = {i \in Answerable : i < m} \cup {m}
    BY <1>1
  <2> QED
    BY <1>3, <2>1, <2>2
<1> QED
  BY <1>1, <1>4, <1>5 DEF Ordered, Answered

(* The line that is dispatched is the one before those in the stream. *)
LEMMA Dispatched ==
    ASSUME Base, pc = "dispatch", NEW n, InStep(n)
    PROVE  /\ n \in Nat /\ n - 1 \in DOMAIN script /\ Line = script[n - 1].kind
           /\ Line # "blank" => Requested = n - 1
           /\ Due = script[n - 1].size /\ Due \in Nat
           /\ Line # "upload" => Due = 0
           /\ Line # "blank" <=> n - 1 \in Answerable
<1>1. /\ n \in 1..(Len(script) + 1) /\ n > 1 /\ cmd[1].request = n - 1
      /\ \/ Len(cmd) = 1 /\ IsNewline(cmd[1]) /\ script[n - 1].kind = "blank"
         \/ /\ Len(cmd) = 2 /\ IsText(cmd[1]) /\ IsNewline(cmd[2])
            /\ script[n - 1].kind # "blank"
  BY DEF InStep, Reading
<1>2. n \in Nat /\ n - 1 \in DOMAIN script
  BY <1>1, ScriptFacts
<1>3. Line = script[n - 1].kind
  <2>1. CASE Len(cmd) = 1 /\ IsNewline(cmd[1]) /\ script[n - 1].kind = "blank"
    <3>1. Len(cmd) = 1 /\ cmd[1].kind # "text"
      BY <2>1 DEF IsNewline
    <3> QED
      BY <2>1, <3>1 DEF Line
  <2>2. CASE Len(cmd) = 2 /\ IsText(cmd[1])
    <3>1. Len(cmd) = 2
      BY <2>2
    <3> QED
      BY <1>1, <2>2, <3>1 DEF Line, IsText
  <2> QED
    BY <1>1, <2>1, <2>2
<1>4. Line # "blank" => Requested = n - 1
  BY <1>1, <1>3 DEF Requested, IsText
<1>5. Due = script[n - 1].size /\ Due \in Nat
  BY <1>1, <1>2, ScriptFacts DEF Due
<1>6. Line # "upload" => Due = 0
  BY <1>2, <1>3, <1>5 DEF Base
<1>7. Line # "blank" <=> n - 1 \in Answerable
  BY <1>2, <1>3 DEF Answerable
<1> QED
  BY <1>2, <1>3, <1>4, <1>5, <1>6, <1>7

LEMMA SkipBlankInStep ==
    ASSUME Base, Base', ~outOfStep, NEW n, InStep(n), SkipBlank
    PROVE  InStep(n)'
<1>1. /\ pc = "dispatch" /\ Line = "blank" /\ pc' = "line" /\ cmd' = <<>>
      /\ UNCHANGED <<script, owed, hungUp, stream, left, serving, replies, outOfStep>>
  BY DEF SkipBlank, client
<1>2. n \in Nat /\ n - 1 \in DOMAIN script /\ Due = 0 /\ n - 1 \notin Answerable
  BY <1>1, Dispatched
<1>3. Due' = 0 /\ Half' = FALSE /\ Half = FALSE
  BY <1>1 DEF Due, Half
<1>4. Reading(n)'
  BY <1>1 DEF Reading, InStep, Half
<1>5. Answered(n)'
  <2>1. Answered(n - 1)
    BY <1>1 DEF InStep
  <2>2. Answerable \subseteq Nat /\ Answerable' = Answerable
    BY <1>1, ScriptFacts DEF Answerable
  <2>3. {i \in Answerable : i < n - 1} = {i \in Answerable : i < n}
    <3>1. \A i \in Answerable : i < n - 1 <=> i < n
      BY <1>2, <2>2
    <3> QED
      BY <3>1
  <2> QED
    BY <1>1, <2>1, <2>2, <2>3 DEF Answered
<1> QED
  BY <1>1, <1>2, <1>3, <1>4, <1>5 DEF InStep

(* A line that is answered and has no image. *)
LEMMA ReplyInStep ==
    ASSUME Base, Base', ~outOfStep, NEW n, InStep(n), Ordered, pc = "dispatch",
           Line \notin {"blank", "upload"}, Reply(Requested),
           UNCHANGED <<script, owed, hungUp, stream, left, serving>>
    PROVE  InStep(n)' /\ Ordered'
<1>1. pc' = "line" /\ cmd' = <<>> /\ replies' = Append(replies, Requested)
  BY DEF Reply
<1>2. n \in Nat /\ n - 1 \in DOMAIN script /\ Due = 0 /\ n - 1 \in Answerable /\ Requested = n - 1
  BY Dispatched
<1>3. Due' = 0 /\ Half' = FALSE /\ Half = FALSE
  BY <1>1 DEF Due, Half
<1>4. Reading(n)'
  BY <1>1 DEF Reading, InStep, Half
<1>5. Ordered' /\ Answered(n)'
  <2>1. Answered(n - 1)
    BY DEF InStep
  <2>2. Ordered' /\ Answered((n - 1) + 1)'
    BY <1>1, <1>2, <2>1, AnswerNext
  <2>3. (n - 1) + 1 = n
    BY <1>2
  <2> QED
    BY <2>2, <2>3
<1> QED
  BY <1>1, <1>2, <1>3, <1>4, <1>5 DEF InStep

LEMMA UploadAcceptedInStep ==
    ASSUME Base, Base', ~outOfStep, NEW n, InStep(n), UploadAccepted, Line = "upload"
    PROVE  InStep(n)'
<1>1. /\ pc = "dispatch" /\ pc' = "body" /\ cmd' = <<>> /\ left' = script[Requested].size
      /\ serving' = Requested
      /\ UNCHANGED <<script, owed, hungUp, stream, replies>>
  BY DEF UploadAccepted, client
<1>2. /\ n \in Nat /\ n - 1 \in DOMAIN script /\ Due = script[n - 1].size /\ Requested = n - 1
      /\ script[n - 1].kind = "upload"
  BY <1>1, Dispatched
<1>3. Due' = Due /\ Half' = FALSE /\ Half = FALSE
  BY <1>1, <1>2 DEF Due, Half
<1>4. Reading(n)'
  BY <1>1, <1>2 DEF Reading, InStep, Half
<1>5. Answered(n - 1)'
  BY <1>1 DEF InStep, Answered, Answerable
<1> QED
  BY <1>1, <1>3, <1>4, <1>5 DEF InStep

(* Whatever breaks an upload off, nothing of the image is to come. *)
LEMMA UploadReturnsInStep ==
    ASSUME Base, Base', ~outOfStep, NEW n, InStep(n), Ordered, UploadReturns
    PROVE  InStep(n)' /\ Ordered'
<1>1. /\ pc = "body" /\ pc' = "line" /\ cmd' = <<>> /\ replies' = Append(replies, serving)
      /\ UNCHANGED <<script, owed, hungUp, stream>>
      /\ left = 0 \/ (stream = <<>> /\ hungUp)
  BY DEF UploadReturns, Reply, client
<1>2. /\ n \in 1..(Len(script) + 1) /\ n > 1 /\ serving = n - 1 /\ script[n - 1].kind = "upload"
      /\ Due = left
  BY <1>1 DEF InStep, Reading, Due
<1>3. n \in Nat /\ n - 1 \in DOMAIN script /\ n - 1 \in Answerable
  BY <1>2, ScriptFacts DEF Answerable
<1>4. Due' = 0 /\ Half' = FALSE /\ Half = FALSE
  BY <1>1 DEF Due, Half
<1>5. Reading(n)'
  BY <1>1 DEF Reading, InStep, Half
<1>6. Ordered' /\ Answered(n)'
  <2>1. Answered(n - 1)
    BY <1>1 DEF InStep
  <2>2. Ordered' /\ Answered((n - 1) + 1)'
    BY <1>1, <1>2, <1>3, <2>1, AnswerNext
  <2>3. (n - 1) + 1 = n
    BY <1>3
  <2> QED
    BY <2>2, <2>3
<1>7. Images(script, stream, 0, n - 1) /\ Missing(script, stream, owed, 0, n - 1, ~hungUp)
  <2>1. CASE left = 0
    BY <1>2, <2>1 DEF InStep
  <2>2. CASE stream = <<>> /\ hungUp
    <3>1. DOMAIN stream = {} /\ Len(stream) = 0
      BY <2>2
    <3> QED
      BY <2>2, <3>1 DEF Images, Missing
  <2> QED
    BY <1>1, <2>1, <2>2
<1> QED
  BY <1>1, <1>4, <1>5, <1>6, <1>7 DEF InStep

LEMMA ReadBodyInStep ==
    ASSUME Base, Base', ~outOfStep, NEW n, InStep(n), ReadBody
    PROVE  InStep(n)'
<1>1. /\ pc = "body" /\ left > 0 /\ stream # <<>> /\ stream' = Tail(stream) /\ left' = left - 1
      /\ UNCHANGED <<script, owed, hungUp, pc, cmd, serving, replies>>
  BY DEF ReadBody, client
<1>2. /\ stream \in Seq(Byte) /\ Sized(script, stream) /\ owed \in Nat /\ hungUp \in BOOLEAN
      /\ left \in Nat /\ Len(script) \in Nat /\ n \in Nat
  BY ScriptFacts, ClientSessionAssumption DEF Base, TypeOK, InStep, Reading
<1>3. /\ Due = left /\ Due' = left - 1 /\ Half = FALSE /\ Half' = FALSE
      /\ DueBehind(script, stream[1], left) = left - 1
      /\ OwnerBehind(stream[1], left, n - 1) = n - 1
  BY <1>1, <1>2 DEF Due, Half, DueBehind, OwnerBehind
<1>4. ImageByte(stream[1]) /\ Images(script, stream', left - 1, n - 1)
  BY <1>1, <1>2, <1>3, TailImages DEF InStep
<1>5. ~IsNewline(stream[1]) /\ ~IsText(stream[1])
  BY <1>4 DEF IsNewline, IsText, ImageByte
<1>6. Missing(script, stream', owed, left - 1, n - 1, ~hungUp)
  BY <1>1, <1>2, <1>3, <1>5, TailMissing DEF InStep
<1>7. Lines(script, stream', n) /\ Texts(script, stream', FALSE)
  BY <1>1, <1>2, <1>3, <1>5, TailLines, TailTexts DEF InStep
<1>8. Reading(n)' /\ Answered(n - 1)'
  BY <1>1 DEF InStep, Reading, Half, Answered, Answerable
<1> QED
  BY <1>1, <1>3, <1>4, <1>6, <1>7, <1>8 DEF InStep

LEMMA ReadLineInStep ==
    ASSUME Base, Base', ~outOfStep, NEW n, InStep(n), ReadLine
    PROVE  \E p \in 1..(Len(script) + 1) : InStep(p)'
<1>1. /\ pc = "line" /\ stream # <<>> /\ stream' = Tail(stream) /\ cmd' = Append(cmd, Head(stream))
      /\ pc' = IF EndsLine(Head(stream)) THEN "dispatch" ELSE "line"
      /\ UNCHANGED <<script, owed, hungUp, left, serving, replies>>
  BY DEF ReadLine, client
<1>2. /\ stream \in Seq(Byte) /\ Sized(script, stream) /\ owed \in Nat /\ hungUp \in BOOLEAN
      /\ Len(script) \in Nat /\ n \in Nat /\ n \in 1..(Len(script) + 1) /\ Half \in BOOLEAN
      /\ cmd \in Seq(Byte)
  BY ScriptFacts, ClientSessionAssumption DEF Base, TypeOK, InStep, Reading, Half
<1>3. Head(stream) = stream[1] /\ 1 \in DOMAIN stream /\ stream[1] \in Byte
  BY <1>1, ReadByteBase
<1>4. /\ Due = 0 /\ Answered(n)
      /\ DueBehind(script, stream[1], 0) = IF IsNewline(stream[1]) THEN script[stream[1].request].size ELSE 0
      /\ OwnerBehind(stream[1], 0, n - 1) = IF IsNewline(stream[1]) THEN stream[1].request ELSE n - 1
  BY <1>1 DEF Due, DueBehind, OwnerBehind, InStep
<1>5. /\ ~ImageByte(stream[1])
      /\ Images(script, stream', DueBehind(script, stream[1], 0), OwnerBehind(stream[1], 0, n - 1))
  BY <1>1, <1>2, <1>4, TailImages DEF InStep
<1>6. Missing(script, stream', owed, DueBehind(script, stream[1], 0),
              OwnerBehind(stream[1], 0, n - 1), ~hungUp)
  <2>1. Missing(script, stream, owed, 0, n - 1, ~hungUp)
    BY <1>4 DEF InStep
  <2>2. (~hungUp) \in BOOLEAN /\ 0 \in Nat /\ ~(0 > 0)
    OBVIOUS
  <2> QED
    BY <1>1, <1>2, <2>1, <2>2, TailMissing
<1>7. /\ ~IsNewline(stream[1]) => Lines(script, stream', n)
      /\ IsNewline(stream[1]) =>
            stream[1].request = n /\ n <= Len(script) /\ Lines(script, stream', n + 1)
  BY <1>1, <1>2, TailLines DEF InStep
<1>8. /\ IsText(stream[1]) => Texts(script, stream', TRUE) /\ ~Half
      /\ ~IsText(stream[1]) => Texts(script, stream', FALSE)
  BY <1>1, <1>2, TailTexts DEF InStep
<1>9. Answered(n)'
  BY <1>1, <1>4 DEF Answered, Answerable
(* The text of a line. *)
<1>10. CASE IsText(stream[1])
  <2>1. pc' = "line" /\ Len(cmd') = 1 /\ cmd'[1] = stream[1] /\ ~IsNewline(stream[1])
    <3>1. Len(cmd) = 0
      BY <1>1, <1>8, <1>10 DEF Half
    <3>2. Len(cmd') = 0 + 1 /\ cmd'[0 + 1] = stream[1]
      BY <1>1, <1>2, <1>3, <3>1, AppendProperties
    <3> QED
      BY <1>1, <1>3, <1>10, <3>2 DEF IsText, IsNewline, EndsLine
  <2>2. Half' = TRUE /\ Due' = 0
    <3>1. cmd' # <<>>
      BY <2>1
    <3> QED
      BY <2>1, <3>1 DEF Half, Due
  <2>3. Texts(script, stream', TRUE) /\ Lines(script, stream', n)
    BY <1>7, <1>8, <1>10, <2>1
  <2>4. /\ stream[1 + 1].request = stream[1].request /\ 1 + 1 \in DOMAIN stream
        /\ stream' # <<>> /\ IsNewline(stream'[1]) /\ stream'[1] = stream[1 + 1]
    <3>1. 1 + 1 \in DOMAIN stream /\ stream[1 + 1].request = stream[1].request
      BY <1>3, <1>10 DEF InStep, Texts
    <3>2. stream' # <<>> /\ IsNewline(stream'[1])
      BY <2>3 DEF Texts
    <3>3. stream' \in Seq(Byte)
      BY <1>1, ReadByteBase
    <3>4. 1 \in DOMAIN stream'
      BY <3>2, <3>3, TailBytes
    <3>5. stream'[1] = stream[1 + 1]
      BY <1>1, <1>2, <3>4, TailBytes
    <3> QED
      BY <3>1, <3>2, <3>5
  (* The first newline of the stream is that of n. *)
  <2>5. stream'[1].request = n
    <3>1. /\ stream' \in Seq(Byte) /\ stream' # <<>> /\ Sized(script, stream')
      BY <1>1, <2>4, ReadByteBase, ScriptFacts DEF Sized
    <3> QED
      BY <1>2, <2>3, <2>4, <3>1, TailLines
  <2>6. Reading(n)'
    BY <1>1, <1>2, <1>10, <2>1, <2>2, <2>4, <2>5 DEF Reading
  <2>7. Images(script, stream', 0, n - 1) /\ Missing(script, stream', owed, 0, n - 1, ~hungUp)
    BY <1>4, <1>5, <1>6, <2>1
  <2>8. InStep(n)'
    BY <1>1, <1>9, <2>1, <2>2, <2>3, <2>6, <2>7 DEF InStep
  <2> QED
    BY <1>2, <2>8
(* The newline of a line. *)
<1>11. CASE IsNewline(stream[1])
  <2>1. pc' = "dispatch" /\ ~IsText(stream[1])
    BY <1>1, <1>3, <1>11 DEF IsText, IsNewline, EndsLine
  <2>0. /\ Len(cmd') = Len(cmd) + 1 /\ cmd'[Len(cmd) + 1] = stream[1]
        /\ \A j \in 1..Len(cmd) : cmd'[j] = cmd[j]
        /\ cmd = <<>> => Len(cmd) = 0
        /\ cmd'[1 + 1] = cmd'[2]
    BY <1>1, <1>2, <1>3, AppendProperties
  <2>2. stream[1].request = n /\ n + 1 \in 1..(Len(script) + 1) /\ n \in DOMAIN script
    BY <1>2, <1>7, <1>11, ScriptFacts
  <2>3. Lines(script, stream', n + 1) /\ Texts(script, stream', FALSE)
    BY <1>7, <1>8, <1>11, <2>1
  <2>4. \/ Len(cmd') = 1 /\ cmd'[1] = stream[1] /\ script[n].kind = "blank"
        \/ /\ Len(cmd') = 2 /\ cmd'[1] = cmd[1] /\ cmd'[2] = stream[1]
           /\ IsText(cmd[1]) /\ cmd[1].request = n /\ script[n].kind # "blank"
    <3>1. CASE cmd = <<>>
      <4>1. Len(cmd') = 1 /\ cmd'[1] = stream[1] /\ Half = FALSE
        BY <1>1, <2>0, <3>1 DEF Half
      <4>2. script[n].kind = "blank"
        BY <1>3, <1>11, <2>2, <4>1 DEF InStep, Texts
      <4> QED
        BY <4>1, <4>2
    <3>2. CASE cmd # <<>>
      <4>1. Half = TRUE
        BY <1>1, <3>2 DEF Half
      <4>2. Len(cmd) = 1 /\ IsText(cmd[1]) /\ cmd[1].request = n
        BY <4>1 DEF InStep, Reading
      <4>3. script[n].kind # "blank"
        BY <2>2, <4>1 DEF InStep, Texts
      <4>4. Len(cmd') = 2 /\ cmd'[1] = cmd[1] /\ cmd'[2] = stream[1]
        BY <2>0, <4>2
      <4> QED
        BY <4>2, <4>3, <4>4
    <3> QED
      BY <3>1, <3>2
  <2>5. cmd'[1].request = n /\ (n + 1) - 1 = n /\ n + 1 > 1
    BY <1>2, <2>2, <2>4
  <2>6. Half' = FALSE /\ Due' = script[n].size
    BY <1>1, <2>1, <2>5 DEF Half, Due
  <2>7. Reading(n + 1)'
    <3>1. \/ Len(cmd') = 1 /\ IsNewline(cmd'[1]) /\ script[n].kind = "blank"
          \/ /\ Len(cmd') = 2 /\ IsText(cmd'[1]) /\ IsNewline(cmd'[2])
             /\ script[n].kind # "blank"
      BY <1>11, <2>4
    <3> QED
      BY <1>1, <2>1, <2>2, <2>5, <2>6, <3>1 DEF Reading
  <2>8. /\ Images(script, stream', script[n].size, n)
        /\ Missing(script, stream', owed, script[n].size, n, ~hungUp)
    BY <1>4, <1>5, <1>6, <1>11, <2>2
  <2>9. InStep(n + 1)'
    BY <1>1, <1>9, <2>1, <2>3, <2>5, <2>6, <2>7, <2>8 DEF InStep
  <2> QED
    BY <2>2, <2>9
<1> QED
  BY <1>3, <1>5, <1>10, <1>11, ByteKinds

(* Later requests change nothing for those that have their replies. *)
LEMMA LaterRequest ==
    ASSUME Base, DOMAIN script' = DOMAIN script \cup {Len(script) + 1},
           \A r \in DOMAIN script : script'[r] = script[r], replies' = replies
    PROVE  /\ Ordered => Ordered'
           /\ \A m \in 1..(Len(script) + 1) : Answered(m) => Answered(m)'
<1>1. Len(script) \in Nat /\ DOMAIN script = 1..Len(script)
  BY ScriptFacts
<1>2. ASSUME NEW m \in 1..(Len(script) + 1)
      PROVE  {i \in Answerable : i < m} = {i \in Answerable' : i < m}
  <2>1. \A i \in DOMAIN script' : i < m => i \in DOMAIN script
    BY <1>1
  <2>2. \A i \in DOMAIN script : i \in Answerable <=> i \in Answerable'
    BY DEF Answerable
  <2>3. Answerable \subseteq DOMAIN script /\ Answerable' \subseteq DOMAIN script'
    BY DEF Answerable
  <2> QED
    BY <2>1, <2>2, <2>3
<1>3. \A m \in 1..(Len(script) + 1) : Answered(m) => Answered(m)'
  BY <1>2 DEF Answered
<1>4. ASSUME Ordered PROVE Ordered'
  <2> SUFFICES ASSUME NEW k \in DOMAIN replies
               PROVE  /\ replies[k] \in Answerable'
                      /\ {replies[j] : j \in 1..(k - 1)} = {i \in Answerable' : i < replies[k]}
    BY DEF Ordered
  <2>1. /\ replies[k] \in Answerable
        /\ {replies[j] : j \in 1..(k - 1)} = {i \in Answerable : i < replies[k]}
    BY <1>4 DEF Ordered
  <2>2. replies[k] \in DOMAIN script /\ replies[k] \in Answerable'
    BY <2>1 DEF Answerable
  <2>3. replies[k] \in 1..(Len(script) + 1)
    BY <1>1, <2>2
  <2> QED
    BY <1>2, <2>1, <2>2, <2>3
<1> QED
  BY <1>3, <1>4

LEMMA SendLineInStep ==
    ASSUME Base, Base', ~outOfStep, NEW n, InStep(n), NEW k \in Kinds, NEW m \in 0..MaxBody,
           SendLine(k, m)
    PROVE  n \in 1..(Len(script') + 1) /\ InStep(n)'
<1>1. /\ script' \in Seq(ScriptLine) /\ Len(script') = Len(script) + 1
      /\ DOMAIN script' = DOMAIN script \cup {Len(script) + 1}
      /\ \A r \in DOMAIN script : script'[r] = script[r]
      /\ script'[Len(script) + 1] = [kind |-> k, size |-> m]
      /\ stream' \in Seq(Byte) /\ LineBehind(script, script', stream, stream')
  BY SentLine
<1>2. /\ owed = 0 /\ owed' = m
      /\ UNCHANGED <<hungUp, pc, cmd, left, serving, replies, outOfStep>>
  BY DEF SendLine
<1>3. /\ Len(script) \in Nat /\ DOMAIN script = 1..Len(script) /\ stream \in Seq(Byte)
      /\ hungUp \in BOOLEAN /\ n \in 1..(Len(script) + 1) /\ n \in Nat /\ m \in Nat
      /\ Half \in BOOLEAN
  BY ScriptFacts, ClientSessionAssumption DEF Base, TypeOK, InStep, Reading, Half
<1>4. n > 1 => n - 1 \in DOMAIN script /\ script'[n - 1] = script[n - 1] /\ n - 1 \in 1..(Len(script) + 1)
  BY <1>1, <1>3
<1>5. Half' = Half
  BY <1>2 DEF Half
<1>6. Due' = Due /\ Due \in Nat
  <2>1. CASE pc = "dispatch"
    <3>1. cmd[1].request = n - 1 /\ n > 1
      BY <2>1 DEF InStep, Reading
    <3>2. script[n - 1].size \in Nat
      BY <1>4, <3>1, ScriptFacts
    <3> QED
      BY <1>2, <1>4, <2>1, <3>1, <3>2 DEF Due
  <2>2. CASE pc # "dispatch"
    BY <1>2, <2>2, ClientSessionAssumption DEF Due, Base, TypeOK
  <2> QED
    BY <2>1, <2>2
<1>7. n \in 1..(Len(script') + 1)
  BY <1>1, <1>3
<1>8. Reading(n)'
  <2>1. Half => stream' # <<>> /\ stream'[1] = stream[1]
    <3> SUFFICES ASSUME Half PROVE stream' # <<>> /\ stream'[1] = stream[1]
      OBVIOUS
    <3>1. 1 \in DOMAIN stream
      BY <1>3, TailBytes DEF InStep, Reading
    <3>2. 1 \in DOMAIN stream' /\ stream'[1] = stream[1]
      BY <1>1, <3>1 DEF LineBehind
    <3> QED
      BY <3>2
  <2> QED
    BY <1>2, <1>4, <1>5, <1>7, <2>1 DEF InStep, Reading
<1>9. Lines(script', stream', n) /\ Texts(script', stream', Half)
  BY <1>1, <1>3, LineBehindLines, LineBehindTexts DEF InStep
<1>10. Images(script', stream', Due, n - 1) /\ Missing(script', stream', m, Due, n - 1, ~hungUp)
  <2>1. script'[Len(script')].size = m
    BY <1>1
  <2>2. Images(script, stream, Due, n - 1) /\ Missing(script, stream, 0, Due, n - 1, ~hungUp)
    BY <1>2 DEF InStep
  <2>3. (~hungUp) \in BOOLEAN
    OBVIOUS
  <2> QED
    BY <1>1, <1>3, <1>6, <2>1, <2>2, <2>3, LineBehindImages
<1>11. pc # "closed"
  BY DEF SendLine
<1>12. Answered(IF pc = "line" THEN n ELSE n - 1)'
  <2>0. \A p \in 1..(Len(script) + 1) : Answered(p) => Answered(p)'
    BY <1>1, <1>2, LaterRequest
  <2>1. CASE pc = "line"
    <3>1. Answered(n)
      BY <2>1 DEF InStep
    <3> QED
      BY <1>2, <1>3, <2>0, <2>1, <3>1
  <2>2. CASE pc # "line"
    <3>1. n > 1 /\ Answered(n - 1)
      BY <1>11, <2>2 DEF InStep, Reading, Base, TypeOK
    <3> QED
      BY <1>2, <1>4, <2>0, <2>2, <3>1
  <2> QED
    BY <2>1, <2>2
<1> QED
  BY <1>2, <1>5, <1>6, <1>7, <1>8, <1>9, <1>10, <1>12 DEF InStep

LEMMA SendImageByteInStep ==
    ASSUME Base, Base', ~outOfStep, NEW n, InStep(n), SendImageByte
    PROVE  InStep(n)'
<1>1. stream' \in Seq(Byte) /\ ByteBehind(script, stream, stream')
  BY SentByte
<1>2. /\ owed > 0 /\ owed' = owed - 1 /\ ~hungUp
      /\ UNCHANGED <<script, hungUp, pc, cmd, left, serving, replies, outOfStep>>
  BY DEF SendImageByte
<1>3. /\ stream \in Seq(Byte) /\ Sized(script, stream) /\ owed \in Nat \ {0} /\ Half \in BOOLEAN
  BY <1>2, ScriptFacts, ClientSessionAssumption DEF Base, TypeOK, Half
<1>4. Half' = Half /\ Due' = Due /\ Due \in Nat
  <2>1. pc = "dispatch" => Due \in Nat
    BY Dispatched
  <2>2. pc # "dispatch" => Due \in Nat
    BY ClientSessionAssumption DEF Due, Base, TypeOK
  <2> QED
    BY <1>2, <2>1, <2>2 DEF Half, Due
<1>5. Reading(n)'
  <2>1. Half => stream' # <<>> /\ stream'[1] = stream[1]
    <3> SUFFICES ASSUME Half PROVE stream' # <<>> /\ stream'[1] = stream[1]
      OBVIOUS
    <3>1. 1 \in DOMAIN stream
      BY <1>3, TailBytes DEF InStep, Reading
    <3>2. 1 \in DOMAIN stream' /\ stream'[1] = stream[1]
      BY <1>1, <3>1 DEF ByteBehind
    <3> QED
      BY <3>2
  <2> QED
    BY <1>2, <1>4, <2>1 DEF InStep, Reading
<1>6. Lines(script, stream', n) /\ Texts(script, stream', Half)
  BY <1>1, <1>3, ByteBehindRest DEF InStep
<1>7. Images(script, stream', Due, n - 1) /\ Missing(script, stream', owed - 1, Due, n - 1, TRUE)
  <2>1. Images(script, stream, Due, n - 1) /\ Missing(script, stream, owed, Due, n - 1, TRUE)
    BY <1>2 DEF InStep
  <2> QED
    BY <1>1, <1>3, <1>4, <2>1, ByteBehindImages
<1>8. Missing(script, stream', owed - 1, Due, n - 1, ~hungUp)
  BY <1>2, <1>7
<1>9. Answered(IF pc = "line" THEN n ELSE n - 1)'
  BY <1>2 DEF InStep, Answered, Answerable
<1> QED
  BY <1>2, <1>4, <1>5, <1>6, <1>7, <1>8, <1>9 DEF InStep

LEMMA HangUpInStep ==
    ASSUME NEW n, InStep(n), HangUp
    PROVE  InStep(n)'
<1>1. hungUp' = TRUE /\ UNCHANGED <<script, owed, stream, pc, cmd, left, serving, replies, outOfStep>>
  BY DEF HangUp
<1>2. /\ Reading(n)' /\ Half' = Half /\ Due' = Due
      /\ Answered(IF pc = "line" THEN n ELSE n - 1)'
  BY <1>1 DEF InStep, Reading, Half, Due, Answered, Answerable
<1>3. Missing(script, stream, owed, Due, n - 1, FALSE)
  BY DEF InStep, Missing
<1> QED
  BY <1>1, <1>2, <1>3 DEF InStep

(* No line that is read in step has a byte of an image. *)
LEMMA LineOfText ==
    ASSUME Base, pc # "closed", NEW n, InStep(n)
    PROVE  \A j \in DOMAIN cmd : ~ImageByte(cmd[j])
<1>1. cmd \in Seq(Byte) /\ DOMAIN cmd = 1..Len(cmd) /\ Len(cmd) \in Nat
  BY SeqDomain DEF Base, TypeOK
<1>2. \A b : IsText(b) \/ IsNewline(b) => ~ImageByte(b)
  BY DEF IsText, IsNewline, ImageByte
<1>3. CASE cmd = <<>>
  BY <1>3
<1>4. CASE cmd # <<>> /\ pc = "line"
  <2>1. Len(cmd) = 1 /\ IsText(cmd[1])
    BY <1>4 DEF InStep, Reading, Half
  <2>2. \A j \in DOMAIN cmd : j = 1
    BY <1>1, <2>1
  <2> QED
    BY <1>2, <2>1, <2>2
<1>5. CASE pc = "dispatch"
  <2>1. \/ Len(cmd) = 1 /\ IsNewline(cmd[1])
        \/ Len(cmd) = 2 /\ IsText(cmd[1]) /\ IsNewline(cmd[2])
    BY <1>5 DEF InStep, Reading
  <2>2. \A j \in DOMAIN cmd : j = 1 \/ (j = 2 /\ Len(cmd) = 2)
    BY <1>1, <2>1
  <2> QED
    BY <1>2, <2>1, <2>2
<1>6. CASE pc = "body"
  BY <1>6 DEF InStep, Reading
<1> QED
  BY <1>3, <1>4, <1>5, <1>6 DEF Base, TypeOK

-----------------------------------------------------------------------------
(* The inductive invariant. *)

Closed == pc = "closed" /\ \A j \in DOMAIN cmd : ~ImageByte(cmd[j])

Open == pc # "closed" /\ \E n \in 1..(Len(script) + 1) : InStep(n)

LEMMA InitIInv == Init => IInv
<1> SUFFICES ASSUME Init PROVE IInv
  OBVIOUS
<1>1. /\ script = <<>> /\ owed = 0 /\ hungUp = FALSE /\ stream = <<>> /\ pc = "line" /\ cmd = <<>>
      /\ left = 0 /\ serving = 0 /\ replies = <<>> /\ outOfStep = FALSE
  BY DEF Init
<1>2. /\ Len(script) = 0 /\ DOMAIN script = {} /\ Len(stream) = 0 /\ DOMAIN stream = {}
      /\ DOMAIN cmd = {} /\ DOMAIN replies = {}
  BY <1>1
<1>3. Base
  <2>1. \A S : <<>> \in Seq(S)
    OBVIOUS
  <2>2. MaxRequests \in Nat /\ 0 \in 0..MaxBody /\ 0 \in 0..(MaxBody + MaxGarbage) /\ 0 \in 0..MaxRequests
    BY ClientSessionAssumption
  <2>3. TypeOK
    BY <1>1, <2>1, <2>2 DEF TypeOK
  <2> QED
    BY <1>1, <1>2, <2>2, <2>3 DEF Base
<1>4. RepliesInOrder
  BY <1>2 DEF RepliesInOrder
<1>5. Half = FALSE /\ Due = 0
  BY <1>1 DEF Half, Due
<1>6. Reading(1) /\ Answered(1)
  BY <1>1, <1>2, <1>5 DEF Reading, Answered, Answerable
<1>7. Lines(script, stream, 1)
  <2>1. 1..0 = {}
    OBVIOUS
  <2> QED
    BY <1>2, <2>1 DEF Lines
<1>8. Texts(script, stream, FALSE) /\ Images(script, stream, 0, 1 - 1)
  BY <1>2 DEF Texts, Images
<1>9. Missing(script, stream, 0, 0, 1 - 1, TRUE)
  BY <1>2 DEF Missing
<1>10. InStep(1)
  BY <1>1, <1>5, <1>6, <1>7, <1>8, <1>9 DEF InStep
<1> QED
  BY <1>1, <1>2, <1>3, <1>4, <1>10 DEF IInv

LEMMA InStepNext ==
    ASSUME Base, Base', [Next]_vars, ~outOfStep, ~outOfStep', Ordered, Open
    PROVE  Ordered' /\ (Closed' \/ Open')
<1>1. PICK n \in 1..(Len(script) + 1) : InStep(n)
  BY DEF Open
<1>0. pc # "closed" /\ pc \in {"line", "dispatch", "body", "closed"}
  BY DEF Open, Base, TypeOK
<1>2. ASSUME NEW k \in Kinds, NEW m \in 0..MaxBody, SendLine(k, m) PROVE Ordered' /\ Open'
  <2>1. n \in 1..(Len(script') + 1) /\ InStep(n)'
    BY <1>1, <1>2, SendLineInStep
  <2>2. pc' = pc /\ replies' = replies
    BY <1>2 DEF SendLine
  <2>3. Ordered'
    BY <1>2, <2>2, SentLine, LaterRequest
  <2> QED
    BY <1>0, <2>1, <2>2, <2>3 DEF Open
<1>3. ASSUME pc' # "closed", script' = script, InStep(n)' PROVE Open'
  BY <1>1, <1>3 DEF Open
<1>4. ASSUME script' = script, replies' = replies PROVE Ordered'
  BY <1>4 DEF Ordered, Answerable
<1>5. CASE SendImageByte
  BY <1>0, <1>1, <1>3, <1>4, <1>5, SendImageByteInStep DEF SendImageByte
<1>6. CASE HangUp
  BY <1>0, <1>1, <1>3, <1>4, <1>6, HangUpInStep DEF HangUp
<1>7. CASE ReadLine
  <2>1. script' = script /\ replies' = replies /\ pc' # "closed"
    BY <1>7 DEF ReadLine, client
  <2>2. \E p \in 1..(Len(script) + 1) : InStep(p)'
    BY <1>1, <1>7, ReadLineInStep
  <2> QED
    BY <1>4, <2>1, <2>2 DEF Open
<1>8. CASE ReadEnd
  <2>1. script' = script /\ replies' = replies /\ pc' = "closed" /\ cmd' = cmd
    BY <1>8 DEF ReadEnd, client
  <2> QED
    BY <1>0, <1>1, <1>4, <2>1, LineOfText DEF Closed
<1>9. CASE SkipBlank
  <2>1. script' = script /\ replies' = replies /\ pc' # "closed"
    BY <1>9 DEF SkipBlank, client
  <2> QED
    BY <1>1, <1>3, <1>4, <1>9, <2>1, SkipBlankInStep
<1>10. CASE HandleCommand \/ UploadInvalid \/ UploadRefused
  <2>1. /\ pc = "dispatch" /\ Reply(Requested)
        /\ UNCHANGED <<script, owed, hungUp, stream, left, serving>> /\ pc' = "line"
    BY <1>10 DEF HandleCommand, UploadInvalid, UploadRefused, Reply, client
  <2>2. Line \notin {"blank", "upload"}
    BY <1>10 DEF HandleCommand, UploadInvalid, UploadRefused
  <2> QED
    BY <1>1, <1>3, <2>1, <2>2, ReplyInStep
<1>11. CASE UploadAccepted
  <2>1. Line = "upload"
    BY <1>11 DEF UploadAccepted
  <2>2. script' = script /\ replies' = replies /\ pc' # "closed"
    BY <1>11 DEF UploadAccepted, client
  <2> QED
    BY <1>1, <1>3, <1>4, <1>11, <2>1, <2>2, UploadAcceptedInStep
<1>12. CASE ReadBody
  <2>1. script' = script /\ replies' = replies /\ pc' # "closed"
    BY <1>12 DEF ReadBody, client
  <2> QED
    BY <1>1, <1>3, <1>4, <1>12, <2>1, ReadBodyInStep
<1>13. CASE UploadReturns
  <2>1. script' = script /\ pc' # "closed"
    BY <1>13 DEF UploadReturns, Reply, client
  <2> QED
    BY <1>1, <1>3, <1>13, <2>1, UploadReturnsInStep
<1>14. CASE GetImage
  <2>1. /\ pc = "dispatch" /\ Line \in {"get_image", "get_image_nopath"}
        /\ replies' = Append(replies, Requested) /\ pc' = "closed" /\ cmd' = <<>> /\ script' = script
    BY <1>14 DEF GetImage, client
  <2>2. n - 1 \in DOMAIN script /\ n - 1 \in Answerable /\ Requested = n - 1
    BY <1>1, <2>1, Dispatched
  <2>3. Answered(n - 1)
    BY <1>1, <2>1 DEF InStep
  <2>4. Ordered'
    BY <2>1, <2>2, <2>3, AnswerNext
  <2>5. DOMAIN cmd' = {}
    BY <2>1
  <2> QED
    BY <2>1, <2>4, <2>5 DEF Closed
<1>15. CASE UNCHANGED vars
  <2>1. UNCHANGED <<script, owed, hungUp, stream, pc, cmd, left, serving, replies, outOfStep>>
    BY <1>15 DEF vars
  <2>2. InStep(n)'
    BY <1>1, <2>1 DEF InStep, Reading, Half, Due, Answered, Answerable
  <2> QED
    BY <1>0, <1>3, <1>4, <2>1, <2>2
<1> QED
  BY <1>2, <1>5, <1>6, <1>7, <1>8, <1>9, <1>10, <1>11, <1>12, <1>13, <1>14, <1>15 DEF Next, ServerStep

LEMMA ClosedNext ==
    ASSUME Base, [Next]_vars, Ordered, Closed
    PROVE  Ordered' /\ Closed'
<1>1. CASE HangUp
  BY <1>1 DEF HangUp, Ordered, Answerable, Closed
<1>2. CASE UNCHANGED vars
  BY <1>2 DEF vars, Ordered, Answerable, Closed
<1>3. pc = "closed"
  BY DEF Closed
<1>4. /\ ~SendImageByte /\ ~ServerStep
      /\ \A k \in Kinds, m \in 0..MaxBody : ~SendLine(k, m)
  BY <1>3 DEF SendLine, SendImageByte, ServerStep, ReadLine, ReadEnd, SkipBlank, HandleCommand,
              UploadInvalid, UploadRefused, UploadAccepted, ReadBody, UploadReturns, GetImage
<1> QED
  BY <1>1, <1>2, <1>4 DEF Next

LEMMA NextIInv == IInv /\ [Next]_vars => IInv'
<1> SUFFICES ASSUME IInv, [Next]_vars PROVE IInv'
  OBVIOUS
<1>1. Base /\ Base'
  BY BaseStep DEF IInv
<1>2. ASSUME ~outOfStep' PROVE ~outOfStep
  BY <1>2 DEF Next, vars, SendLine, SendImageByte, HangUp, ServerStep, ReadLine, ReadEnd, SkipBlank,
              HandleCommand, UploadInvalid, UploadRefused, UploadAccepted, ReadBody, UploadReturns,
              GetImage
<1>3. ASSUME ~outOfStep' PROVE Ordered' /\ (Closed' \/ Open')
  <2>1. ~outOfStep
    BY <1>2, <1>3
  <2>2. Ordered /\ (Closed \/ Open)
    BY <2>1 DEF IInv, RepliesInOrder, Ordered, Closed, Open
  <2> QED
    BY <1>1, <1>3, <2>1, <2>2, ClosedNext, InStepNext
<1>4. RepliesInOrder'
  BY <1>3 DEF RepliesInOrder, Ordered
<1> QED
  BY <1>1, <1>3, <1>4 DEF IInv, Closed, Open

LEMMA SpecIInv == Spec => []IInv
<1>1. Init => IInv
  BY InitIInv
<1>2. IInv /\ [Next]_vars => IInv'
  BY NextIInv
<1> QED
  BY <1>1, <1>2, PTL DEF Spec

-----------------------------------------------------------------------------
(* The state of the connection and of its thread has the types of its         *)
(* variables: std::string cmd, filesize - totalBytesRead, the replies.        *)
THEOREM TypeCorrect == Spec => []TypeOK
<1>1. IInv => TypeOK
  BY DEF IInv, Base
<1> QED
  BY <1>1, SpecIInv, PTL

(* handleClientSSL reads an image as the image that was sent, to its last     *)
(* byte, and nothing else as one, however long lines, images and connections  *)
(* are.                                                                       *)
THEOREM BodiesRead == Spec => []BodiesAreBodies
<1>1. IInv => BodiesAreBodies
  <2> SUFFICES ASSUME IInv, ~outOfStep
               PROVE  /\ \A i \in DOMAIN cmd : ~ImageByte(cmd[i])
                      /\ (pc = "body" /\ left > 0 /\ stream # <<>>) =>
                             ImageByte(stream[1]) /\ stream[1].request = serving
    BY DEF BodiesAreBodies
  <2>1. Base
    BY DEF IInv
  <2>2. CASE pc = "closed"
    BY <2>2 DEF IInv
  <2>3. CASE pc # "closed"
    <3>1. PICK n \in 1..(Len(script) + 1) : InStep(n)
      BY <2>3 DEF IInv
    <3>2. \A i \in DOMAIN cmd : ~ImageByte(cmd[i])
      BY <2>1, <2>3, <3>1, LineOfText
    <3>3. ASSUME pc = "body", left > 0, stream # <<>>
          PROVE  ImageByte(stream[1]) /\ stream[1].request = serving
      <4>1. Images(script, stream, left, n - 1) /\ serving = n - 1
        BY <3>1, <3>3 DEF InStep, Reading, Due
      <4>2. stream \in Seq(Byte) /\ Sized(script, stream) /\ left \in Nat
        BY <2>1, ScriptFacts, ClientSessionAssumption DEF Base, TypeOK
      <4> QED
        BY <3>3, <4>1, <4>2, TailImages
    <3> QED
      BY <3>2, <3>3
  <2> QED
    BY <2>2, <2>3
<1> QED
  BY <1>1, SpecIInv, PTL

(* The replies of a connection are those to the requests of the client, in    *)
(* the order it sent them: none is left out, none comes twice.                *)
THEOREM RepliesOrdered == Spec => []RepliesInOrder
<1>1. IInv => RepliesInOrder
  BY DEF IInv
<1> QED
  BY <1>1, SpecIInv, PTL

(* handleClientSSL and its client never wait for each other: a server that    *)
(* has read all there is, and waits, either owes no reply or waits for a byte *)
(* the client has announced.                                                  *)
THEOREM NobodyWaitsForTheOther == Spec => []NoStandstill
<1>1. IInv => NoStandstill
  <2> SUFFICES ASSUME IInv PROVE NoStandstill
    OBVIOUS
  <2> SUFFICES ASSUME ~outOfStep, pc # "closed", pc # "dispatch",
                      ~(pc = "body" /\ left = 0), stream = <<>>, owed = 0
               PROVE  Unanswered = {}
    <3>1. owed \in Nat /\ (owed > 0 \/ owed = 0)
      BY ClientSessionAssumption DEF IInv, Base, TypeOK
    <3> QED
      BY <3>1 DEF NoStandstill
  <2>1. PICK n \in 1..(Len(script) + 1) : InStep(n)
    BY DEF IInv
  <2>2. /\ Base /\ DOMAIN script = 1..Len(script) /\ Len(script) \in Nat
        /\ Len(stream) = 0 /\ DOMAIN stream = {}
    BY ScriptFacts DEF IInv
  <2>3. CASE pc = "line"
    <3>1. ~ \E r \in n..Len(script) : TRUE
      BY <2>1, <2>2 DEF InStep, Lines
    <3>2. \A i \in DOMAIN script : i < n
      BY <2>2, <3>1
    <3>3. {replies[k] : k \in DOMAIN replies} = {i \in Answerable : i < n}
      BY <2>1, <2>3 DEF InStep, Answered
    <3> QED
      BY <3>2, <3>3 DEF Unanswered, Answerable
  <2>4. CASE pc = "body"
    <3>1. Due = left /\ left \in Nat /\ left # 0
      BY <2>2, <2>4, ClientSessionAssumption DEF Due, Base, TypeOK
    <3>2. Due > Len(stream) => Due = Len(stream) + owed
      BY <2>1 DEF InStep, Missing
    <3> QED
      BY <2>2, <3>1, <3>2
  <2> QED
    BY <2>2, <2>3, <2>4 DEF Base, TypeOK
<1> QED
  BY <1>1, SpecIInv, PTL

(* The loops of handleClientSSL end: a step of the thread takes a byte off    *)
(* the stream, or brings the line or the upload nearer to its end.            *)
THEOREM WorkIsFinite == Spec => ServerComesToRest
<1>1. TypeOK /\ ServerStep => Work' < Work
  <2> SUFFICES ASSUME TypeOK, ServerStep PROVE Work' < Work
    OBVIOUS
  <2> DEFINE w(q) == CASE q = "dispatch" -> 3 [] q = "body" -> 2
                       [] q = "line" -> 1 [] q = "closed" -> 0
  <2>1. Work = 3 * Len(stream) + w(pc) /\ Work' = 3 * Len(stream') + w(pc')
    BY DEF Work
  <2>2. w("dispatch") = 3 /\ w("body") = 2 /\ w("line") = 1 /\ w("closed") = 0
    OBVIOUS
  <2>3. Len(stream) \in Nat
    BY DEF TypeOK
  <2> HIDE DEF w
  <2>4. CASE /\ stream # <<>> /\ stream' = Tail(stream)
             /\ \/ pc = "line" /\ pc' \in {"line", "dispatch"}
                \/ pc = "body" /\ pc' = "body"
    <3>1. Len(stream') = Len(stream) - 1
      BY <2>4, TailBytes DEF TypeOK
    <3>2. w(pc) \in {1, 2} /\ w(pc') < w(pc) + 3 /\ w(pc') \in Nat
      BY <2>2, <2>4
    <3> QED
      BY <2>1, <2>3, <3>1, <3>2
  <2>5. CASE /\ stream' = stream
             /\ \/ pc = "dispatch" /\ pc' \in {"line", "body", "closed"}
                \/ pc = "body" /\ pc' = "line"
                \/ pc = "line" /\ pc' = "closed"
    BY <2>1, <2>2, <2>3, <2>5
  <2> QED
    BY <2>4, <2>5
    DEF ServerStep, ReadLine, ReadEnd, SkipBlank, HandleCommand, UploadInvalid, UploadRefused,
        UploadAccepted, ReadBody, UploadReturns, GetImage, Reply
<1>2. TypeOK /\ [Next]_vars => [ServerStep => Work' < Work]_vars
  BY <1>1
<1> QED
  BY <1>2, TypeCorrect, PTL DEF Spec, ServerComesToRest
=============================================================================
