----------------------------- MODULE MCJobQueue -----------------------------
(* Three threads; main() is asked for no job, for one and for four. *)
EXTENDS JobQueue
=============================================================================
