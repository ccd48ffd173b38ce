----------------------------- MODULE MCHistory ------------------------------
(* TLC instances of History. *)
EXTENDS History, TLC

Add(d, s, type, speed) ==
    [kind |-> "add", date |-> [day |-> d, time |-> s], type |-> type,
     snapshots |-> TRUE, speed |-> speed, utf8 |-> TRUE]

(* Events of every type at both ends of two days, one dated by its day alone, *)
(* payloads whose words are missing or not numbers, and one that is not UTF-8. *)
MCAddRequests ==
    {Add(1, 0, 0, 1), Add(1, LastSecond, 1, 1), Add(2, NoTime, 1, Junk),
     Add(2, 0, None, None), Add(2, LastSecond, Junk, None),
     [Add(1, 0, 0, 1) EXCEPT !.date = None], [Add(2, 0, 1, 1) EXCEPT !.utf8 = FALSE]}

FewAddRequests == {Add(1, 0, 0, 1), Add(2, LastSecond, 1, 1), Add(2, 0, 0, 1)}

Ask(kind, type, from, to, limit, offset) ==
    [kind |-> kind, email |-> "known", type |-> type, from |-> from, to |-> to,
     limit |-> limit, offset |-> offset]

MCQueries ==
    {Ask("all", None, None, None, 1, None), Ask("type", 1, None, None, 1, 0),
     Ask("dates", None, 1, 1, 1, 0), Ask("both", 1, 1, 2, 1, 0),
     Ask("type", Junk, None, None, 2, 1), Ask("both", Junk, 1, 2, 1, 0),
     Ask("all", None, None, None, Junk, 0), Ask("all", None, None, None, None, None),
     [Ask("all", None, None, None, 1, 0) EXCEPT !.email = "unknown"],
     [Ask("type", None, None, None, None, None) EXCEPT !.email = None]}

(* Full pages and a page that is never full. *)
FewQueries == {Ask("all", None, None, None, 1, 0), Ask("dates", None, 1, 2, 2, 0)}

MCDays == {1, 2}

MCGarbage == {-1, 2, 3}

Symmetry == Permutations(Threads)
=============================================================================
