-------------------------- MODULE EndianUtils_proofs --------------------------
(* htonll gives the network byte order of every number on every machine. *)
EXTENDS EndianUtils, TLAPS

(* The bytes of htonll, one by one: those of its argument the other way round. *)
LEMMA HtonllBytes ==
    ASSUME NEW v \in UInt64
    PROVE  /\ htonll(v) \in UInt64
           /\ htonll(v) = IF LittleEndian THEN [i \in 0..7 |-> v[7 - i]] ELSE v
<1>1. CASE ~LittleEndian
  BY <1>1 DEF htonll
<1>2. CASE LittleEndian
  <2>1. htonl(Low(v)) = [i \in 0..3 |-> v[3 - i]]
    BY <1>2 DEF htonl, Low
  <2>2. htonl(High(v)) = [i \in 0..3 |-> v[7 - i]]
    BY <1>2 DEF htonl, High
  <2>3. Up(htonl(Low(v))) = [i \in 0..7 |-> IF i >= 4 THEN v[7 - i] ELSE 0]
    BY <2>1 DEF Up
  <2>4. htonll(v) = [i \in 0..7 |-> v[7 - i]]
    BY <1>2, <2>2, <2>3 DEF htonll, Or
  <2> QED
    BY <1>2, <2>4 DEF UInt64
<1> QED
  BY <1>1, <1>2

(* The size of an image goes out in network order, whatever the machine, and  *)
(* ntohll gives it back as it was (EndianUtils.hpp).                          *)
THEOREM NetworkOrder ==
    \A v \in UInt64 : /\ Memory(htonll(v), 8) = [i \in 0..7 |-> v[7 - i]]
                      /\ ntohll(htonll(v)) = v
<1> SUFFICES ASSUME NEW v \in UInt64
             PROVE  /\ Memory(htonll(v), 8) = [i \in 0..7 |-> v[7 - i]]
                    /\ ntohll(htonll(v)) = v
  OBVIOUS
<1>1. htonll(v) \in UInt64 /\ htonll(htonll(v)) = v
  BY HtonllBytes DEF UInt64
<1>2. Memory(htonll(v), 8) = [i \in 0..7 |-> v[7 - i]]
  BY HtonllBytes DEF Memory
<1> QED
  BY <1>1, <1>2 DEF ntohll

(* A client that reads the announcement in network order reads the number.    *)
LEMMA ClientReads ==
    ASSUME NEW v \in UInt64
    PROVE  ReadInNetworkOrder(Memory(htonll(v), 8)) = Number(v)
<1>1. Memory(htonll(v), 8) = [i \in 0..7 |-> v[7 - i]]
  BY NetworkOrder
<1>2. \A i \in 0..7 : Memory(htonll(v), 8)[7 - i] = v[i]
  BY <1>1
<1> QED
  BY <1>2 DEF ReadInNetworkOrder, Number
=============================================================================
