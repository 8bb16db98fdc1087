------------------------------ MODULE TryLock ------------------------------
(***************************************************************************)
(* ch04/trylock-example.c: threads that never block on the mutex they      *)
(* share, but try it, sleep and try again; main() joins them and destroys  *)
(* the mutex.                                                              *)
(***************************************************************************)
CONSTANTS Workers,  \* the numthreads threads
          Nobody    \* the owner of a mutex nobody holds, or that was destroyed

VARIABLES main,  \* where main() is
          pc,    \* where each thread is
          lock   \* its owner

vars == <<main, pc, lock>>

Init == main = "create" /\ pc = [t \in Workers |-> "unborn"] /\ lock = Nobody

Goto(t, from, to) == pc[t] = from /\ pc' = [pc EXCEPT ![t] = to]

Create(t) == /\ main = "create" /\ Goto(t, "unborn", "try")
             /\ UNCHANGED <<main, lock>>

\* pthread_mutex_trylock() answers 0, or EBUSY and the thread sleeps before it tries again.
TryLocks(t) == /\ lock = Nobody /\ lock' = t
               /\ Goto(t, "try", "inside")
               /\ UNCHANGED main

TryFails(t) == /\ lock # Nobody
               /\ Goto(t, "try", "sleep")
               /\ UNCHANGED <<main, lock>>

WakesUp(t) == Goto(t, "sleep", "try") /\ UNCHANGED <<main, lock>>

Unlock(t) == /\ Goto(t, "inside", "returned")
             /\ lock' = Nobody
             /\ UNCHANGED main

task(t) == TryLocks(t) \/ TryFails(t) \/ WakesUp(t) \/ Unlock(t)

\* The joins, and pthread_mutex_destroy()
Destroy == /\ main = "create" /\ main' = "exit"
           /\ \A t \in Workers : pc[t] = "returned"
           /\ UNCHANGED <<pc, lock>>

Main == Destroy \/ \E t \in Workers : Create(t)

Ended == main = "exit" /\ UNCHANGED vars

Next == Main \/ Ended \/ \E t \in Workers : task(t)

-----------------------------------------------------------------------------
(* Properties *)

\* The types; the thread that owns the mutex is the one inside, and nobody owns it when it
\* is destroyed.
TypeOK == /\ main \in {"create", "exit"}
          /\ pc \in [Workers -> {"unborn", "try", "sleep", "inside", "returned"}]
          /\ lock \in Workers \cup {Nobody}
          /\ \A t \in Workers : (pc[t] = "inside") <=> (lock = t)

\* No thread finds the mutex taken for ever: each gets in once, and main() past its joins.
AllGetIn == <>(main = "exit")
=============================================================================
