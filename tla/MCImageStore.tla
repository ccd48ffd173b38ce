---------------------------- MODULE MCImageStore ----------------------------
(* TLC instances of ImageStore. *)
EXTENDS ImageStore, TLC

(* Threads, names and inodes are interchangeable. *)
Symmetry == Permutations(Threads) \cup Permutations(Names) \cup Permutations(Inodes)
=============================================================================
