------------------------------ MODULE Cleanup ------------------------------
(***************************************************************************)
(* ch04/cleanup.c: a thread allocates a buffer, registers a handler that   *)
(* frees it, and sleeps; main() cancels the thread.                        *)
(*                                                                         *)
(* Cancellation is deferred: it takes effect in sleep(), or in a printf()  *)
(* that writes, or never if the thread gets past them.  Each place of the  *)
(* thread stands for the calls in which that may happen.                   *)
(***************************************************************************)
EXTENDS Naturals

VARIABLES main,      \* where main() is
          thread,    \* where the thread is: "returned" and "cancelled" are its ends
          requested, \* has it been asked to stop?
          buffer,    \* temp_buffer: "none", "allocated" or "freed"
          frees,     \* how often an allocated buffer was freed
          stopped_at \* where the thread was when it was cancelled

vars == <<main, thread, requested, buffer, frees, stopped_at>>

Init == /\ main = "create" /\ thread = "unborn" /\ requested = FALSE
        /\ buffer = "none" /\ frees = 0 /\ stopped_at = "nowhere"

Goto(from, to) == thread = from /\ thread' = to

-----------------------------------------------------------------------------
(* main *)

Create == /\ main = "create" /\ main' = "cancel"
          /\ Goto("unborn", "start")
          /\ UNCHANGED <<requested, buffer, frees, stopped_at>>

Cancel == /\ main = "cancel" /\ main' = "join"
          /\ requested' = TRUE
          /\ UNCHANGED <<thread, buffer, frees, stopped_at>>

Join == /\ main = "join" /\ main' = "exit"
        /\ thread \in {"returned", "cancelled"}
        /\ UNCHANGED <<thread, requested, buffer, frees, stopped_at>>

Main == Create \/ Cancel \/ Join

-----------------------------------------------------------------------------
(* do_some_work *)

\* allocate_buffer(); malloc may fail
Allocate == /\ Goto("start", "push")
            /\ buffer' \in {"allocated", "none"}
            /\ UNCHANGED <<main, requested, frees, stopped_at>>

\* pthread_cleanup_push()
Push == /\ Goto("push", "sleep")
        /\ UNCHANGED <<main, requested, buffer, frees, stopped_at>>

\* pthread_cleanup_pop(1) unregisters the handler, then calls it
Pop == /\ Goto("sleep", "pop")
       /\ UNCHANGED <<main, requested, buffer, frees, stopped_at>>

\* free(buffer), in the handler
Free(from, to) == /\ Goto(from, to)
                  /\ IF buffer = "none" THEN UNCHANGED <<buffer, frees>>
                     ELSE buffer' = "freed" /\ frees' = frees + 1
                  /\ UNCHANGED <<main, requested, stopped_at>>

\* Fault: the handler is pushed too late.
Die_Unregistered == /\ requested /\ thread \in {"start", "push", "sleep", "pop"}
                    /\ stopped_at' = thread
                    /\ thread' = "cancelled"
                    /\ UNCHANGED <<main, requested, buffer, frees>>

\* The request takes effect: what is registered will be called.
Die == /\ requested /\ thread \in {"start", "push", "sleep", "pop"}
       /\ stopped_at' = thread
       /\ thread' = IF thread = "sleep" THEN "unwinding" ELSE "cancelled"
       /\ UNCHANGED <<main, requested, buffer, frees>>

do_some_work == Allocate \/ Push \/ Pop \/ Free("pop", "returned") \/ Die
                \/ Free("unwinding", "cancelled")

Ended == main = "exit" /\ UNCHANGED vars

Next == Main \/ do_some_work \/ Ended

Spec == Init /\ [][Next]_vars

-----------------------------------------------------------------------------
(* Properties *)

\* The types of the variables.
TypeOK == /\ main \in {"create", "cancel", "join", "exit"}
          /\ thread \in {"unborn", "start", "push", "sleep", "pop", "unwinding", "returned",
                         "cancelled"}
          /\ requested \in BOOLEAN /\ frees \in Nat
          /\ buffer \in {"none", "allocated", "freed"}
          /\ stopped_at \in {"nowhere", "start", "push", "sleep", "pop"}

\* Lines 26-27, "to deallocate it in case the thread exits or is cancelled": the buffer is
\* never freed twice, and when main() has joined the thread it has been freed, unless the
\* cancellation hit between the allocation and the push, or in the handler itself, which
\* is unregistered when the thread calls it.
FreedOnce == /\ frees = (IF buffer = "freed" THEN 1 ELSE 0)
             /\ main = "exit" /\ buffer = "allocated" => stopped_at \in {"push", "pop"}

\* main() gets past its join, whether the request came in time or not.
ThreadJoined == <>(main = "exit")
=============================================================================
