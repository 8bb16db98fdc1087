-------------------------- MODULE DifferentMutexes --------------------------
(***************************************************************************)
(* ch04/different-mutexes.c: for each kind of mutex in turn, two threads   *)
(* lock the mutex num_locks times and never unlock it; main() cancels them *)
(* after a while, destroys the mutex, joins them and goes on to the next.  *)
(*                                                                         *)
(* The mutex is that of glibc, as the program uses it.  What POSIX leaves  *)
(* undefined has the outcomes of that library: to destroy a mutex that is  *)
(* in use is refused with EBUSY (main() ignores that), and to lock one     *)
(* that was destroyed before the call is refused with EINVAL; a call that  *)
(* has looked at the mutex before it was destroyed goes on.  The           *)
(* cancellation is asynchronous: a cancelled thread dies between any two   *)
(* of its steps, or within pthread_mutex_lock, when it may have taken the  *)
(* lock but not yet recorded that it uses the mutex.  Time (the sleep) and *)
(* output are left out.                                                    *)
(***************************************************************************)
EXTENDS Integers, Sequences

CONSTANTS lock_types,  \* the kinds of mutex, in the order main() tries them
          num_locks

Threads == {1, 2}

ASSUME DifferentMutexesAssumption ==
  /\ lock_types \in Seq({"normal", "recursive", "errorcheck"}) /\ Len(lock_types) > 0
  /\ num_locks \in Nat \ {0}

VARIABLES i,          \* the round that main() is in
          main,       \* the call that main() is at
          valid,      \* the mutex: made and not destroyed,
          owner,      \* who has locked it,
          users,      \* and the number of threads that libc thinks use it
          pc,         \* where each thread of the round is
          tries,      \* the calls of pthread_mutex_lock it has made, how many
          got,        \* of them succeeded, and how many reported a deadlock
          deadlocks,
          cancelled   \* the threads with a cancellation request

mutex == <<valid, owner, users>>
vars == <<i, main, mutex, pc, tries, got, deadlocks, cancelled>>

kind == lock_types[i]
Nobody == 0    \* the mutex is free
Somebody == 3  \* it is locked by a thread that died before it said so

Init == /\ i = 1
        /\ main = "init"
        /\ valid = FALSE /\ owner = Nobody /\ users = 0
        /\ pc = [t \in Threads |-> "none"]
        /\ tries = [t \in Threads |-> 0]
        /\ got = [t \in Threads |-> 0]
        /\ deadlocks = [t \in Threads |-> 0]
        /\ cancelled = {}

-----------------------------------------------------------------------------
(* thread_task *)

\* Fault: i <= num_locks + 1.
Returned_OneMore(t) ==
  /\ tries' = [tries EXCEPT ![t] = @ + 1]
  /\ pc' = [pc EXCEPT ![t] = IF tries[t] = num_locks THEN "returned" ELSE "lock"]

\* The call returns, and the loop goes on or the thread returns.
Returned(t) == /\ tries' = [tries EXCEPT ![t] = @ + 1]
               /\ pc' = [pc EXCEPT ![t] = IF tries[t] + 1 = num_locks THEN "returned" ELSE "lock"]

\* pthread_mutex_lock looks at the mutex: EINVAL when it has been destroyed.
EnterLock(t) == /\ pc[t] = "lock" /\ valid
                /\ pc' = [pc EXCEPT ![t] = "in_lock"]
                /\ UNCHANGED <<i, main, mutex, tries, got, deadlocks, cancelled>>

LockDestroyed(t) == /\ pc[t] = "lock" /\ ~valid
                    /\ Returned(t)
                    /\ UNCHANGED <<i, main, mutex, got, deadlocks, cancelled>>

Locks(t) == /\ pc[t] = "in_lock"
            /\ UNCHANGED <<i, main, cancelled>>

\* The mutex is free: lock it.
LockFree(t) == /\ Locks(t)
               /\ owner = Nobody /\ owner' = t
               /\ users' = 1
               /\ got' = [got EXCEPT ![t] = @ + 1]
               /\ Returned(t)
               /\ UNCHANGED <<valid, deadlocks>>

\* Fault: the lock of a recursive mutex that is taken succeeds whoever owns it.
LockAgain_Anyone(t) == /\ Locks(t)
                       /\ owner # Nobody /\ kind = "recursive"
                       /\ got' = [got EXCEPT ![t] = @ + 1]
                       /\ Returned(t)
                       /\ UNCHANGED <<mutex, deadlocks>>

\* The owner locks a recursive mutex once more.
LockAgain(t) == /\ Locks(t)
                /\ owner = t /\ kind = "recursive"
                /\ got' = [got EXCEPT ![t] = @ + 1]
                /\ Returned(t)
                /\ UNCHANGED <<mutex, deadlocks>>

\* EDEADLK: an error-checking mutex warns its owner.
LockDeadlock(t) == /\ Locks(t)
                   /\ owner = t /\ kind = "errorcheck"
                   /\ deadlocks' = [deadlocks EXCEPT ![t] = @ + 1]
                   /\ Returned(t)
                   /\ UNCHANGED <<mutex, got>>

\* A thread that finds the mutex taken, by another thread or with a normal mutex by
\* itself, sleeps in pthread_mutex_lock: none of the steps above is enabled until the
\* mutex is free, which it never is, and a mutex that is destroyed wakes nobody.
LockBlocks(t) == /\ Locks(t)
                 /\ owner # Nobody
                 /\ owner = t => kind = "normal"
                 /\ pc' = [pc EXCEPT ![t] = "blocked"]
                 /\ UNCHANGED <<mutex, tries, got, deadlocks>>

Live(t) == pc[t] \in {"lock", "in_lock", "blocked"}

\* The request takes effect; the second way to die is inside pthread_mutex_lock.
Die(t) == /\ t \in cancelled /\ Live(t)
          /\ pc' = [pc EXCEPT ![t] = "cancelled"]
          /\ \/ UNCHANGED mutex
             \/ /\ pc[t] = "in_lock" /\ owner = Nobody
                /\ \/ owner' = Somebody /\ users' = 0
                   \/ owner' = t /\ users' \in {0, 1}
                /\ UNCHANGED valid
          /\ UNCHANGED <<i, main, tries, got, deadlocks, cancelled>>

thread_task(t) == \/ EnterLock(t) \/ LockDestroyed(t)
                  \/ LockFree(t) \/ LockAgain(t) \/ LockDeadlock(t) \/ LockBlocks(t)
                  \/ Die(t)

-----------------------------------------------------------------------------
(* main *)

MainGoes(from, to) == main = from /\ main' = to

\* A round begins with a new mutex; what was counted of the joined threads is dropped.
InitMutex == /\ MainGoes("init", "create")
             /\ valid' = TRUE /\ owner' = Nobody /\ users' = 0
             /\ pc' = [t \in Threads |-> "none"]
             /\ tries' = [t \in Threads |-> 0]
             /\ got' = [t \in Threads |-> 0]
             /\ deadlocks' = [t \in Threads |-> 0]
             /\ cancelled' = {}
             /\ UNCHANGED i

\* The first thread may run before the second is created.
Create(t, next) == /\ MainGoes(IF t = 1 THEN "create" ELSE "create_other", next)
                   /\ pc' = [pc EXCEPT ![t] = "lock"]
                   /\ UNCHANGED <<i, mutex, tries, got, deadlocks, cancelled>>

\* Fault: main() cancels the first thread twice.
Cancel_First(t, next) == /\ MainGoes(IF t = 1 THEN "cancel" ELSE "cancel_other", next)
                         /\ cancelled' = cancelled \cup {1}
                         /\ UNCHANGED <<i, mutex, pc, tries, got, deadlocks>>

Cancel(t, next) == /\ MainGoes(IF t = 1 THEN "cancel" ELSE "cancel_other", next)
                   /\ cancelled' = cancelled \cup {t}
                   /\ UNCHANGED <<i, mutex, pc, tries, got, deadlocks>>

\* Fault: the library destroys a mutex that is in use.
Destroy_InUse == /\ MainGoes("destroy", "join")
                 /\ valid' = FALSE
                 /\ UNCHANGED <<i, owner, users, pc, tries, got, deadlocks, cancelled>>

\* EBUSY, which main() does not look at, or the mutex is marked as destroyed.
Destroy == /\ MainGoes("destroy", "join")
           /\ valid' = (users # 0)
           /\ UNCHANGED <<i, owner, users, pc, tries, got, deadlocks, cancelled>>

\* Fault: main() joins the first thread twice.
Join_First(t, next) == /\ MainGoes(IF t = 1 THEN "join" ELSE "join_other", next)
                       /\ pc[1] \in {"returned", "cancelled"}
                       /\ UNCHANGED <<i, mutex, pc, tries, got, deadlocks, cancelled>>

Join(t, next) == /\ MainGoes(IF t = 1 THEN "join" ELSE "join_other", next)
                 /\ pc[t] \in {"returned", "cancelled"}
                 /\ UNCHANGED <<i, mutex, pc, tries, got, deadlocks, cancelled>>

NextRound == /\ MainGoes("next", IF i < Len(lock_types) THEN "init" ELSE "exit")
             /\ i' = IF i < Len(lock_types) THEN i + 1 ELSE i
             /\ UNCHANGED <<mutex, pc, tries, got, deadlocks, cancelled>>

Main == \/ InitMutex
        \/ Create(1, "create_other") \/ Create(2, "cancel")
        \/ Cancel(1, "cancel_other") \/ Cancel(2, "destroy")
        \/ Destroy
        \/ Join(1, "join_other") \/ Join(2, "next")
        \/ NextRound

Exited == main = "exit" /\ UNCHANGED vars

Next == Main \/ (\E t \in Threads : thread_task(t)) \/ Exited

\* The kernel runs every thread that can run.
Fairness == WF_vars(Main) /\ \A t \in Threads : WF_vars(thread_task(t))

Spec == Init /\ [][Next]_vars /\ Fairness

-----------------------------------------------------------------------------
(* Properties *)

\* A thread makes num_locks calls at most; some succeed, some report a deadlock.
CallsAddUp == \A t \in Threads : got[t] + deadlocks[t] <= tries[t] /\ tries[t] <= num_locks

\* The types of the variables; the numbers of the calls add up.
TypeOK ==
  /\ i \in 1 .. Len(lock_types)
  /\ main \in {"init", "create", "create_other", "cancel", "cancel_other", "destroy",
               "join", "join_other", "next", "exit"}
  /\ valid \in BOOLEAN /\ owner \in Threads \cup {Nobody, Somebody} /\ users \in {0, 1}
  /\ pc \in [Threads -> {"none", "lock", "in_lock", "blocked", "returned", "cancelled"}]
  /\ tries \in [Threads -> Nat] /\ got \in [Threads -> Nat] /\ deadlocks \in [Threads -> Nat]
  /\ cancelled \subseteq Threads
  /\ CallsAddUp

\* Once a thread has locked the mutex nobody else does in that round, whatever the kind
\* and whoever is cancelled: the thread stays its owner when it has returned or died.
LockStaysTaken == \A t \in Threads : got[t] > 0 => owner = t

\* What a thread that returns has seen.  While the mutex stands only its owner returns:
\* with a recursive mutex each call succeeded, with an error-checking one each call after
\* the first reported the deadlock, and with a normal one it returns from one call at most.
\* A mutex that main() destroyed, which it can only do before anybody has locked it, was
\* locked at most once, by a call under way, and only a thread that is to be cancelled
\* sees it.
KindDecides ==
  \A t \in Threads : main # "init" /\ pc[t] = "returned" =>
     IF valid
     THEN \/ kind = "recursive" /\ got[t] = num_locks
          \/ kind = "errorcheck" /\ got[t] = 1 /\ deadlocks[t] = num_locks - 1
          \/ kind = "normal" /\ got[t] = 1 /\ num_locks = 1
     ELSE got[t] <= 1 /\ deadlocks[t] = 0 /\ t \in cancelled

\* Line 91, "Destroy the mutex because we'll create it again in the next loop": when it is
\* made again no thread of the round before is left that could still be in it.
MadeAgainUnused == main = "init" => \A t \in Threads : ~Live(t)

\* Lines 87-89, "Cancel the threads after sleeping because they could be locked": the
\* threads deadlock, and main() gets past its joins all the same.
Termination == <>(main = "exit")
=============================================================================
