------------------------- MODULE MCDifferentMutexes -------------------------
(* The three kinds in the order of main(), and the five calls of a thread. *)
EXTENDS DifferentMutexes

MCTypes == <<"normal", "recursive", "errorcheck">>
=============================================================================
