-------------------------- MODULE MCSemaphoreJobs --------------------------
(* Two producers that make two jobs each, and two consumers. *)
EXTENDS SemaphoreJobs
=============================================================================
