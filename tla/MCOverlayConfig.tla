--------------------------- MODULE MCOverlayConfig --------------------------
(* TLC instances of OverlayConfig. *)
EXTENDS OverlayConfig, TLC

Flag(m, v) == [menu |-> m, flag |-> v, mode |-> Junk, level |-> Junk]

Mode(v, l) == [menu |-> 2, flag |-> Junk, mode |-> v, level |-> l]

(* One payload of every kind the handler tells apart, with the levels at and  *)
(* beyond both ends of the range.  One flag goes off and on, the other off.   *)
MCRequests ==
    {Flag(0, 0), Flag(0, 1), Flag(1, 0)}
    \cup {Mode("sharp", l) : l \in {-1, 0, 100, 101}}
    \cup {Mode("day", Junk), Mode(Junk, Junk), Flag(1, 2), Flag(3, Junk), Flag(Junk, Junk)}

(* Payloads on two different keys. *)
TwoKeys == {Flag(0, 0), Flag(1, 0)}

Symmetry == Permutations(Threads)
=============================================================================
