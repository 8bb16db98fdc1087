------------------------------ MODULE JobPool ------------------------------
(***************************************************************************)
(* What the two job programs of ch04 (job-queue.c and semaphore-jobs.c)    *)
(* promise, with lists, mutexes and semaphores left out: a job that was    *)
(* submitted is taken by at most one worker, which finishes it, and no     *)
(* finished job ever comes back.                                           *)
(***************************************************************************)
CONSTANTS Jobs, Workers

VARIABLES pending,   \* the jobs no worker has taken yet
          held,      \* held[w]: the job w has taken and not finished, {} or {j}
          done       \* the finished jobs

vars == <<pending, held, done>>

Submitted == pending \cup (UNION {held[w] : w \in Workers}) \cup done

Init == /\ pending = {}
        /\ held = [w \in Workers |-> {}]
        /\ done = {}

Submit(S) == /\ S # {}
             /\ S \cap Submitted = {}
             /\ pending' = pending \cup S
             /\ UNCHANGED <<held, done>>

Take(w, j) == /\ held[w] = {}
              /\ j \in pending
              /\ pending' = pending \ {j}
              /\ held' = [held EXCEPT ![w] = {j}]
              /\ UNCHANGED done

Finish(w, j) == /\ j \in held[w]
                /\ held' = [held EXCEPT ![w] = {}]
                /\ done' = done \cup {j}
                /\ UNCHANGED pending

Next == \/ \E S \in SUBSET Jobs : Submit(S)
        \/ \E w \in Workers, j \in Jobs : Take(w, j) \/ Finish(w, j)

\* The safety half of the promise, and the half that needs scheduling: a worker
\* that has taken a job finishes it.
SafeSpec == Init /\ [][Next]_vars
Spec == SafeSpec /\ \A w \in Workers : WF_vars(\E j \in Jobs : Finish(w, j))
============================================================================
