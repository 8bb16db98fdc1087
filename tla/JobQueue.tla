------------------------------ MODULE JobQueue ------------------------------
(***************************************************************************)
(* ch04/job-queue.c: main() builds a linked list of jobs, then four        *)
(* threads empty it under a mutex; each adds the factors of its jobs to    *)
(* its own cell of an array, which main() sums after the joins.            *)
(*                                                                         *)
(* A job is known by its factor.  The list is the sequence of the jobs     *)
(* from its head, and list_end is what the next field of the last node     *)
(* holds: init_jobs never writes it, so it is whatever malloc returned,    *)
(* NULL in fresh memory and a wild pointer in recycled memory.  Reading    *)
(* through a wild pointer ends the process.                                *)
(***************************************************************************)
EXTENDS Integers, Sequences, FiniteSets, Functions

CONSTANTS Threads,      \* the NUM_THREADS tids
          NumJobsArgs,  \* the numbers main() may get as its argument
          NULL, Wild,   \* the values a link that nobody wrote may have
          NoThread,     \* the owner of a mutex nobody holds
          IntMax        \* INT_MAX

StaleLinks == {NULL, Wild}

ASSUME JobQueueAssumption ==
  /\ IsFiniteSet(Threads) /\ Threads # {} /\ NoThread \notin Threads
  /\ IntMax \in Nat
  /\ NumJobsArgs \subseteq -(IntMax + 1) .. IntMax
  /\ NULL # Wild /\ StaleLinks \cap Int = {}

VARIABLES main,             \* where main() is; "crashed" when the process is gone
          pc,               \* where each thread is
          num_jobs,         \* main()'s argument
          job_queue,        \* the jobs on the list, from its head
          list_end,         \* the link of the last node
          job_queue_mutex,  \* its owner
          next_job,         \* next_job[t]: the job of thread t, or NULL or Wild
          accum,
          freed,            \* the jobs whose memory was freed
          res,              \* main()'s total,
          printed           \*   and what it prints for it

vars == <<main, pc, num_jobs, job_queue, list_end, job_queue_mutex,
          next_job, accum, freed, res, printed>>

totals == <<res, printed>>

Init == /\ main = "init"
        /\ pc = [t \in Threads |-> "unborn"]
        /\ num_jobs \in NumJobsArgs
        /\ job_queue = <<>>
        /\ list_end = NULL
        /\ job_queue_mutex = NoThread
        /\ next_job = [t \in Threads |-> NULL]
        /\ accum = [t \in Threads |-> 0]
        /\ freed = {}
        /\ res = 0 /\ printed = 0

-----------------------------------------------------------------------------
(* main *)

\* The jobs init_jobs(n) makes: the head always exists.
JobsMade(n) == IF n > 1 THEN n ELSE 1

\* init_jobs and the loop that zeroes accum
InitJobs == /\ main = "init"
            /\ main' = "create"
            /\ job_queue' = [i \in 1 .. JobsMade(num_jobs) |-> i - 1]
            /\ list_end' \in StaleLinks
            /\ UNCHANGED <<pc, num_jobs, job_queue_mutex, next_job, accum, freed, totals>>

Create(t) == /\ main = "create"
             /\ pc[t] = "unborn"
             /\ pc' = [pc EXCEPT ![t] = "loop"]
             /\ UNCHANGED <<main, num_jobs, job_queue, list_end, job_queue_mutex,
                            next_job, accum, freed, totals>>

\* What is printed of a long whose format is "%d": its low bits, as an int.
AsInt(x) == ((x + IntMax + 1) % (2 * (IntMax + 1))) - (IntMax + 1)

\* Fault: main() sums as soon as one thread has been joined.
JoinAndSum_Early == /\ main = "create"
                    /\ \A t \in Threads : pc[t] # "unborn"
                    /\ \E t \in Threads : pc[t] = "returned"
                    /\ main' = "exit"
                    /\ res' = SumFunction(accum) /\ printed' = AsInt(res')
                    /\ UNCHANGED <<pc, num_jobs, job_queue, list_end, job_queue_mutex,
                                   next_job, accum, freed>>

JoinAndSum == /\ main = "create"
              /\ \A t \in Threads : pc[t] = "returned"
              /\ main' = "exit"
              /\ res' = SumFunction(accum)
              /\ printed' = AsInt(res')
              /\ UNCHANGED <<pc, num_jobs, job_queue, list_end, job_queue_mutex,
                             next_job, accum, freed>>

-----------------------------------------------------------------------------
(* thread_function *)

Running(t, from) == main = "create" /\ pc[t] = from

\* Fault: the list is read without the mutex.
Lock_Skipped(t) == /\ Running(t, "loop")
                   /\ pc' = [pc EXCEPT ![t] = "test"]
                   /\ UNCHANGED <<main, num_jobs, job_queue, list_end, job_queue_mutex,
                                  next_job, accum, freed, totals>>

Lock(t) == /\ Running(t, "loop")
           /\ job_queue_mutex = NoThread
           /\ job_queue_mutex' = t
           /\ pc' = [pc EXCEPT ![t] = "test"]
           /\ UNCHANGED <<main, num_jobs, job_queue, list_end,
                          next_job, accum, freed, totals>>

\* if (job_queue == NULL) next_job = NULL; else next_job = job_queue
ReadHead(t) == /\ Running(t, "test")
               /\ next_job' = [next_job EXCEPT ![t] =
                                 IF job_queue = <<>> THEN list_end ELSE Head(job_queue)]
               /\ pc' = [pc EXCEPT ![t] = IF job_queue = <<>> /\ list_end = NULL
                                          THEN "unlock" ELSE "advance"]
               /\ UNCHANGED <<main, num_jobs, job_queue, list_end, job_queue_mutex,
                              accum, freed, totals>>

\* Fault: the head is not moved on.
Advance_KeepsHead(t) == /\ Running(t, "advance")
                        /\ job_queue # <<>>
                        /\ pc' = [pc EXCEPT ![t] = "unlock"]
                        /\ UNCHANGED <<main, num_jobs, job_queue, list_end, job_queue_mutex,
                                       next_job, accum, freed, totals>>

\* job_queue = job_queue->next
Advance(t) == /\ Running(t, "advance")
              /\ job_queue # <<>>
              /\ job_queue' = Tail(job_queue)
              /\ pc' = [pc EXCEPT ![t] = "unlock"]
              /\ UNCHANGED <<main, num_jobs, list_end, job_queue_mutex,
                             next_job, accum, freed, totals>>

\* The same statement when job_queue is the link nobody wrote.
FollowWildLink(t) == /\ Running(t, "advance")
                     /\ job_queue = <<>>
                     /\ main' = "crashed"
                     /\ UNCHANGED <<pc, num_jobs, job_queue, list_end, job_queue_mutex,
                                    next_job, accum, freed, totals>>

\* Fault: the thread ends as if it had found no job.
Unlock_Quits(t) == /\ Running(t, "unlock")
                   /\ job_queue_mutex' = NoThread
                   /\ pc' = [pc EXCEPT ![t] = "returned"]
                   /\ UNCHANGED <<main, num_jobs, job_queue, list_end, next_job,
                                  accum, freed, totals>>

\* Faults: continue for break, or a test that only skips the work.
Unlock_Continues(t) ==
  /\ Running(t, "unlock")
  /\ job_queue_mutex' = NoThread
  /\ pc' = [pc EXCEPT ![t] = IF next_job[t] = NULL THEN "loop" ELSE "work"]
  /\ UNCHANGED <<main, num_jobs, job_queue, list_end, next_job, accum, freed, totals>>
Unlock_SkipsWork(t) ==
  /\ Running(t, "unlock")
  /\ job_queue_mutex' = NoThread
  /\ pc' = [pc EXCEPT ![t] = IF next_job[t] = NULL THEN "free" ELSE "work"]
  /\ UNCHANGED <<main, num_jobs, job_queue, list_end, next_job, accum, freed, totals>>

\* pthread_mutex_unlock; if (!next_job) break
Unlock(t) == /\ Running(t, "unlock")
             /\ job_queue_mutex' = NoThread
             /\ pc' = [pc EXCEPT ![t] = IF next_job[t] = NULL THEN "returned" ELSE "work"]
             /\ UNCHANGED <<main, num_jobs, job_queue, list_end,
                            next_job, accum, freed, totals>>

\* process_job(next_job, tid)
ProcessJob(t) == /\ Running(t, "work")
                 /\ accum' = [accum EXCEPT ![t] = @ + next_job[t]]
                 /\ pc' = [pc EXCEPT ![t] = "free"]
                 /\ UNCHANGED <<main, num_jobs, job_queue, list_end, job_queue_mutex,
                                next_job, freed, totals>>

Free(t) == /\ Running(t, "free")
           /\ freed' = freed \cup {next_job[t]}
           /\ pc' = [pc EXCEPT ![t] = "loop"]
           /\ UNCHANGED <<main, num_jobs, job_queue, list_end, job_queue_mutex,
                          next_job, accum, totals>>

ThreadFunction(t) == \/ Lock(t) \/ ReadHead(t) \/ Advance(t) \/ FollowWildLink(t)
                     \/ Unlock(t) \/ ProcessJob(t) \/ Free(t)

-----------------------------------------------------------------------------

Main == \/ InitJobs \/ JoinAndSum
        \/ \E t \in Threads : Create(t)

Ended == main \in {"exit", "crashed"} /\ UNCHANGED vars

Next == \/ Main
        \/ \E t \in Threads : ThreadFunction(t)
        \/ Ended

\* The kernel runs every thread that can run, and the mutex is not kept from one
\* thread for ever: each thread only locks it once more than there are jobs.
Fairness == /\ WF_vars(Main)
            /\ \A t \in Threads : WF_vars(ThreadFunction(t))

Spec == Init /\ [][Next]_vars /\ Fairness

-----------------------------------------------------------------------------
(* Properties *)

ThreadStates == {"unborn", "loop", "test", "advance", "unlock", "work", "free", "returned"}
Elements(q) == {q[i] : i \in DOMAIN q}

\* The types of the variables; what res and printed are, TotalMatchesWork says.
TypeOK == /\ main \in {"init", "create", "exit", "crashed"}
          /\ pc \in [Threads -> ThreadStates]
          /\ num_jobs \in NumJobsArgs
          /\ job_queue \in Seq(Nat)
          /\ list_end \in StaleLinks
          /\ job_queue_mutex \in Threads \cup {NoThread}
          /\ next_job \in [Threads -> Nat \cup StaleLinks]
          /\ accum \in [Threads -> Nat]
          /\ freed \subseteq Nat

\* The threads that have taken a job off the list and not freed it.
Holding == {t \in Threads : /\ pc[t] \in {"unlock", "work", "free"}
                            /\ next_job[t] \notin StaleLinks}
Held == {next_job[t] : t \in Holding}

\* Every job that was made is on the list, in one thread's hands or freed, and in one
\* of these places only: none is processed twice or forgotten.
JobsAccountedFor ==
  main # "init" =>
    /\ 0 .. JobsMade(num_jobs) - 1 = Elements(job_queue) \cup Held \cup freed
    /\ Len(job_queue) + Cardinality(Holding) + Cardinality(freed) = JobsMade(num_jobs)

\* The threads' totals are together the factors of the jobs they have processed, so what
\* main() finds is the sum of all the factors.  Line 110, "Prints the total accumulated":
\* it does as long as the sum is an int (up to 65536 jobs), and not beyond.
TotalMatchesWork ==
  LET processed == freed \cup {next_job[t] : t \in {u \in Threads : pc[u] = "free"}}
      n == JobsMade(num_jobs)
  IN  /\ SumFunction(accum) = SumFunction([j \in processed |-> j])
      /\ main = "exit" => /\ res = (n * (n - 1)) \div 2
                          /\ (printed = res) <=> (res <= IntMax)

\* Line 22, "Process queued jobs until the queue is empty": a thread returns only when
\* the list has run out, and then no job is left for anybody.
ReturnsOnlyWhenEmpty ==
  (\E t \in Threads : pc[t] = "returned") => job_queue = <<>> /\ list_end = NULL

\* The threads are the workers of a job pool.
Pool == INSTANCE JobPool WITH
          Jobs <- UNION {0 .. JobsMade(n) - 1 : n \in NumJobsArgs},
          Workers <- Threads,
          pending <- Elements(job_queue),
          held <- [t \in Threads |-> IF t \in Holding THEN {next_job[t]} ELSE {}],
          done <- freed
ImplementsJobPool == Pool!SafeSpec

\* When the last link is NULL, main() gets past its joins.
Termination == [](main = "create" /\ list_end = NULL => <>(main = "exit"))

\* Line 22 again, for what happens at the end of the list: no thread goes past it.
StopsAtTheEnd == main # "crashed"
=============================================================================
