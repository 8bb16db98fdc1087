---------------------------- MODULE MCFileTools ----------------------------
(* Up to three bytes of data, a length of two bytes, and lengths that are too *)
(* small, right and too large for them.                                       *)
EXTENDS FileTools

MCInputs == {[j \in 1 .. n |-> <<"data", j>>] : n \in 0 .. 3}
=============================================================================
