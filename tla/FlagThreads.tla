---------------------------- MODULE FlagThreads ----------------------------
(***************************************************************************)
(* ch04/condvar.c and ch04/spin-condvar.c: one thread toggles a flag       *)
(* MAX_LOOPS times, another works while the flag is set.  Where the flag   *)
(* is clear, the worker of condvar sleeps on a condition variable; that of *)
(* spin-condvar tests again.  program says which of the two runs.          *)
(*                                                                         *)
(* loop_count, and the flag that the toggler negates, are read without the *)
(* mutex.  Only the toggler writes them, so each such read is one step.    *)
(* pthread_cond_wait may return though nobody signalled.  Time is left     *)
(* out: sleep and usleep return at any later moment.                       *)
(***************************************************************************)
EXTENDS Integers

CONSTANTS Programs,   \* the programs that may be the one that runs
          MAX_LOOPS

ASSUME FlagThreadsAssumption ==
  /\ Programs \subseteq {"condvar", "spin"}
  /\ MAX_LOOPS \in Nat

VARIABLES program,
          main,        \* the call that main() is at
          worker,      \* where each of the two threads is
          toggler,
          mutex,       \* the owner of thread_flag_mutex, or "nobody"
          thread_flag,
          loop_count,
          flag_value,  \* the argument of set_thread_flag
          flag_is_set  \* the local variable of spin-condvar's worker

vars == <<program, main, worker, toggler, mutex, thread_flag, loop_count, flag_value,
          flag_is_set>>

\* The flag is 0 or, in spin-condvar, 1: neither program calls initialize_flag().
FirstFlag == IF program = "condvar" THEN 0 ELSE 1

Init == /\ program \in Programs
        /\ main = "create_worker"
        /\ worker = "none" /\ toggler = "none"
        /\ mutex = "nobody"
        /\ thread_flag = FirstFlag
        /\ loop_count = 0
        /\ flag_value = 0
        /\ flag_is_set = 0

-----------------------------------------------------------------------------
(* The worker *)

Works(from, to) == worker = from /\ worker' = to

\* while (loop_count < MAX_LOOPS), read outside the mutex
TestCount == /\ Works("test_count", IF loop_count < MAX_LOOPS THEN "lock" ELSE "returned")
             /\ UNCHANGED <<program, main, toggler, mutex, thread_flag, loop_count, flag_value,
                            flag_is_set>>

WorkerLocks == /\ Works("lock", "test_flag")
               /\ mutex = "nobody" /\ mutex' = "worker"
               /\ UNCHANGED <<program, main, toggler, thread_flag, loop_count, flag_value,
                              flag_is_set>>

WorkerUnlocks == /\ Works("unlock", IF program = "condvar" THEN "test_count" ELSE "use_flag")
                 /\ mutex' = "nobody"
                 /\ UNCHANGED <<program, main, toggler, thread_flag, loop_count, flag_value,
                                flag_is_set>>

\* condvar: while (!thread_flag) pthread_cond_wait(...); the wait lets go of the mutex
\* and falls asleep in one step.
SeesFlag == /\ program = "condvar" /\ thread_flag # 0
            /\ Works("test_flag", "unlock")
            /\ UNCHANGED <<program, main, toggler, mutex, thread_flag, loop_count, flag_value,
                           flag_is_set>>

Waits == /\ program = "condvar" /\ thread_flag = 0
         /\ Works("test_flag", "asleep")
         /\ mutex' = "nobody"
         /\ UNCHANGED <<program, main, toggler, thread_flag, loop_count, flag_value, flag_is_set>>

WakesUnasked == /\ Works("asleep", "relock")
                /\ UNCHANGED <<program, main, toggler, mutex, thread_flag, loop_count, flag_value,
                               flag_is_set>>

\* Fault: if (!thread_flag) in the place of while: the flag is not tested again.
Relocks_Trusts == /\ Works("relock", "unlock")
                  /\ mutex = "nobody" /\ mutex' = "worker"
                  /\ UNCHANGED <<program, main, toggler, thread_flag, loop_count, flag_value,
                                 flag_is_set>>

\* The end of pthread_cond_wait: back to the test of the flag.
Relocks == /\ Works("relock", "test_flag")
           /\ mutex = "nobody" /\ mutex' = "worker"
           /\ UNCHANGED <<program, main, toggler, thread_flag, loop_count, flag_value, flag_is_set>>

\* spin-condvar: flag_is_set = thread_flag, and what is done with it after the unlock.
ReadsFlag == /\ program = "spin"
             /\ Works("test_flag", "unlock")
             /\ flag_is_set' = thread_flag
             /\ UNCHANGED <<program, main, toggler, mutex, thread_flag, loop_count, flag_value>>

UsesFlag == /\ Works("use_flag", "test_count")
            /\ UNCHANGED <<program, main, toggler, mutex, thread_flag, loop_count, flag_value,
                           flag_is_set>>

Worker == \/ TestCount \/ WorkerLocks \/ WorkerUnlocks
          \/ SeesFlag \/ Waits \/ Relocks
          \/ ReadsFlag \/ UsesFlag

-----------------------------------------------------------------------------
(* The toggler *)

Toggles(from, to) == toggler = from /\ toggler' = to

\* while (loop_count++ < MAX_LOOPS)
CountLoop == /\ Toggles("count", IF loop_count < MAX_LOOPS THEN "negate" ELSE "returned")
             /\ loop_count' = loop_count + 1
             /\ UNCHANGED <<program, main, worker, mutex, thread_flag, flag_value, flag_is_set>>

\* Fault: the flag is passed on as it is.
Negate_Forgotten == /\ Toggles("negate", "lock")
                    /\ flag_value' = thread_flag
                    /\ UNCHANGED <<program, main, worker, mutex, thread_flag, loop_count,
                                   flag_is_set>>

\* set_thread_flag(!thread_flag): the argument is computed outside the mutex.
Negate == /\ Toggles("negate", "lock")
          /\ flag_value' = 1 - thread_flag
          /\ UNCHANGED <<program, main, worker, mutex, thread_flag, loop_count, flag_is_set>>

\* Fault: the flag is set without the mutex.
TogglerLocks_Not == /\ Toggles("lock", "set")
                    /\ UNCHANGED <<program, main, worker, mutex, thread_flag, loop_count,
                                   flag_value, flag_is_set>>

TogglerLocks == /\ Toggles("lock", "set")
                /\ mutex = "nobody" /\ mutex' = "toggler"
                /\ UNCHANGED <<program, main, worker, thread_flag, loop_count, flag_value,
                               flag_is_set>>

SetFlag == /\ Toggles("set", IF program = "condvar" THEN "signal" ELSE "unlock")
           /\ thread_flag' = flag_value
           /\ UNCHANGED <<program, main, worker, mutex, loop_count, flag_value, flag_is_set>>

\* Fault: the signal is not sent.
Signal_Forgotten == /\ Toggles("signal", "unlock")
                    /\ UNCHANGED <<program, main, worker, mutex, thread_flag, loop_count,
                                   flag_value, flag_is_set>>

\* A signal wakes the worker if it sleeps, and is lost if it does not.
Signal == /\ Toggles("signal", "unlock")
          /\ worker' = IF worker = "asleep" THEN "relock" ELSE worker
          /\ UNCHANGED <<program, main, mutex, thread_flag, loop_count, flag_value, flag_is_set>>

\* Fault: set_thread_flag() returns without the unlock.
TogglerUnlocks_Forgotten == /\ Toggles("unlock", "count")
                            /\ UNCHANGED <<program, main, worker, mutex, thread_flag, loop_count,
                                           flag_value, flag_is_set>>

\* ... and sleep(1)
TogglerUnlocks == /\ Toggles("unlock", "count")
                  /\ mutex' = "nobody"
                  /\ UNCHANGED <<program, main, worker, thread_flag, loop_count, flag_value,
                                 flag_is_set>>

Toggler == CountLoop \/ Negate \/ TogglerLocks \/ SetFlag \/ Signal \/ TogglerUnlocks

-----------------------------------------------------------------------------
(* main *)

MainGoes(from, to) ==
  /\ main = from /\ main' = to
  /\ UNCHANGED <<program, mutex, thread_flag, loop_count, flag_value, flag_is_set>>

CreateWorker == /\ MainGoes("create_worker", "create_toggler")
                /\ worker' = "test_count"
                /\ UNCHANGED toggler

CreateToggler == /\ MainGoes("create_toggler",
                             IF program = "condvar" THEN "join_toggler" ELSE "join_worker")
                 /\ toggler' = "count"
                 /\ UNCHANGED worker

JoinToggler == /\ toggler = "returned"
               /\ MainGoes("join_toggler",
                           IF program = "condvar" THEN "join_worker" ELSE "exit")
               /\ UNCHANGED <<worker, toggler>>

JoinWorker == /\ worker = "returned"
              /\ MainGoes("join_worker",
                          IF program = "condvar" THEN "exit" ELSE "join_toggler")
              /\ UNCHANGED <<worker, toggler>>

Main == CreateWorker \/ CreateToggler \/ JoinToggler \/ JoinWorker

Exited == main = "exit" /\ UNCHANGED vars

Next == Main \/ Worker \/ Toggler \/ WakesUnasked \/ Exited

\* Every thread that can run does; the toggler gets the mutex though a worker that
\* spins takes it again and again.  Nothing promises a wake-up nobody asked for.
Fairness == /\ WF_vars(Main) /\ WF_vars(Worker) /\ WF_vars(Toggler)
            /\ SF_vars(TogglerLocks)

Spec == Init /\ [][Next]_vars /\ Fairness

-----------------------------------------------------------------------------
(* Properties *)

\* The types of the variables; a thread owns the mutex exactly in the statements between
\* its lock and its unlock, so that never both are there; spin-condvar never waits.
TypeOK ==
  /\ program \in Programs
  /\ main \in {"create_worker", "create_toggler", "join_toggler", "join_worker", "exit"}
  /\ worker \in {"none", "test_count", "lock", "test_flag", "asleep", "relock", "unlock",
                 "use_flag", "returned"}
  /\ toggler \in {"none", "count", "negate", "lock", "set", "signal", "unlock", "returned"}
  /\ thread_flag \in {0, 1} /\ flag_value \in {0, 1} /\ flag_is_set \in {0, 1}
  /\ loop_count \in 0 .. MAX_LOOPS + 1
  /\ mutex \in {"nobody", "worker", "toggler"}
  /\ mutex = "worker" <=> worker \in {"test_flag", "unlock"}
  /\ mutex = "toggler" <=> toggler \in {"set", "signal", "unlock"}
  /\ worker \in {"asleep", "relock"} => program = "condvar"
  /\ toggler = "signal" => program = "condvar"

\* Line 47, "When we've gotten here, we know the flag must be set": past its loop, and
\* until it unlocks the mutex, condvar's worker has a flag that is set, however it woke up.
FlagSetPastWait == program = "condvar" /\ worker = "unlock" => thread_flag = 1

\* No wake-up is lost: a worker sleeps with the flag set only until the toggler, which
\* has just set it, sends its signal.
NoLostWakeUp == worker = "asleep" /\ thread_flag = 1 => toggler = "signal"

\* The unprotected reads do no harm: the flag has been negated once for each loop that
\* was counted, but for the one under way, and the toggler's argument is never stale.
TogglesDone == IF toggler \in {"negate", "lock", "set", "returned"} THEN loop_count - 1
                                                                     ELSE loop_count
FlagFollowsCount ==
  /\ thread_flag = (FirstFlag + TogglesDone) % 2
  /\ toggler \in {"lock", "set"} => flag_value = 1 - thread_flag

\* The toggler always returns.  Then spin-condvar ends; condvar ends, or its worker stays
\* in the loop that waits for a flag which nobody will set again.
EndsOrOversleeps ==
  /\ <>(toggler = "returned")
  /\ <>[](\/ main = "exit"
          \/ /\ program = "condvar" /\ main = "join_worker" /\ thread_flag = 0
             /\ worker \in {"test_flag", "asleep", "relock"})

\* Line 90, "Join the threads (e.g., wait for them to finish)": main() returns.
Termination == <>(main = "exit")
=============================================================================
