----------------------------- MODULE EndianUtils -----------------------------
(***************************************************************************)
(* htonll and ntohll, by which GET_IMAGE announces the size of an image.    *)
(* An unsigned number is the function from the positions of its bytes, 0    *)
(* the least significant one, to their values; shifts by whole bytes, masks *)
(* and the "or" of numbers without a byte in common are all there is to it. *)
(***************************************************************************)
EXTENDS Integers

CONSTANTS
    Base,          \* the number of values of a byte, 256 on every machine
    LittleEndian   \* the byte order of the machine

ASSUME EndianUtilsAssumption == Base \in Nat \ {0, 1} /\ LittleEndian \in BOOLEAN

Byte == 0..(Base - 1)

UInt32 == [0..3 -> Byte]

UInt64 == [0..7 -> Byte]

(* The value of a number. *)
Number(v) ==
    v[0] + Base * (v[1] + Base * (v[2] + Base * (v[3]
         + Base * (v[4] + Base * (v[5] + Base * (v[6] + Base * v[7]))))))

(* The bytes of a number of n bytes as they lie in memory. *)
Memory(v, n) == [i \in 0..(n - 1) |-> IF LittleEndian THEN v[i] ELSE v[n - 1 - i]]

(* htonl, and ntohl, of the C library. *)
htonl(w) == [i \in 0..3 |-> IF LittleEndian THEN w[3 - i] ELSE w[i]]

(* value & 0xFFFFFFFF and value >> 32, as the argument of htonl *)
Low(v) == [i \in 0..3 |-> v[i]]

High(v) == [i \in 0..3 |-> v[i + 4]]

(* (uint64_t)w << 32 *)
Up(w) == [i \in 0..7 |-> IF i >= 4 THEN w[i - 4] ELSE 0]

(* u | w, for a u whose lower half is 0 *)
Or(u, w) == [i \in 0..7 |-> IF i >= 4 THEN u[i] ELSE w[i]]

(* Mutant of htonll: the halves are not exchanged. *)
HtonllInPlace(v) == IF LittleEndian THEN Or(Up(htonl(High(v))), htonl(Low(v))) ELSE v

htonll(v) == IF LittleEndian THEN Or(Up(htonl(Low(v))), htonl(High(v))) ELSE v

(* ntohll has the same body, with ntohl for htonl. *)
ntohll(v) == htonll(v)

(* What a client reads that takes eight bytes, the first one to be the most   *)
(* significant.                                                               *)
ReadInNetworkOrder(bytes) == Number([i \in 0..7 |-> bytes[7 - i]])
=============================================================================
