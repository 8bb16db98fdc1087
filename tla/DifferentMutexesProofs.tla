----------------------- MODULE DifferentMutexesProofs -----------------------
(* Proofs about DifferentMutexes, for any kinds in any order and any num_locks. *)
EXTENDS DifferentMutexes, TLAPS

Dead(t) == pc[t] \in {"none", "returned", "cancelled"}

\* What main() has done and has still to do.
MainOK ==
  /\ main = "create" => pc[1] = "none"
  /\ main \in {"create", "create_other"} => pc[2] = "none"
  /\ main = "cancel_other" => 1 \in cancelled
  /\ main \in {"destroy", "join", "join_other", "next", "exit"} => cancelled = Threads
  /\ main = "join_other" => Dead(1)
  /\ main \in {"init", "next", "exit"} => \A t \in Threads : Dead(t)
  /\ ~valid => main \in {"init", "join", "join_other", "next", "exit"}

\* How far a thread is in its loop, and what it has seen of the mutex so far.
Progress(t) ==
  /\ pc[t] = "none" => tries[t] = 0 /\ owner # t
  /\ Live(t) => tries[t] < num_locks
  /\ pc[t] = "returned" => tries[t] = num_locks
  /\ owner = t /\ Live(t) => got[t] > 0
  /\ got[t] > 0 => users = 1
  /\ got[t] = 0 => deadlocks[t] = 0

\* What the calls of each kind return, while the mutex stands and when it was destroyed.
Seen(t) ==
  main # "init" =>
    IF valid
    THEN /\ tries[t] = got[t] + deadlocks[t]
         /\ kind # "errorcheck" => deadlocks[t] = 0
         /\ kind # "recursive" => got[t] <= 1
    ELSE /\ got[t] <= 1 /\ deadlocks[t] = 0
         /\ got[t] > 0 => pc[t] \in {"lock", "returned", "cancelled"}

ThreadOK == \A t \in Threads : Progress(t) /\ Seen(t)

IInv == TypeOK /\ MainOK /\ ThreadOK /\ LockStaysTaken

\* What the proofs need of the constants.
LEMMA Constants == /\ num_locks \in Nat \ {0}
                   /\ Len(lock_types) \in Nat \ {0}
                   /\ 1 \in Threads /\ 2 \in Threads /\ Nobody \notin Threads /\ Somebody \notin Threads
                   /\ \A t \in Threads : t = 1 \/ t = 2
  BY DifferentMutexesAssumption DEF Threads, Nobody, Somebody

\* The kind of the round is one of the three.
LEMMA Kinds == ASSUME TypeOK PROVE kind \in {"normal", "recursive", "errorcheck"}
  BY DifferentMutexesAssumption DEF TypeOK, kind

\* No thread runs and no mutex stands before the first round.
LEMMA InitIInv == Init => IInv
<1> SUFFICES ASSUME Init PROVE IInv
  OBVIOUS
<1> USE Constants DEF Init
<1>1. TypeOK
  <2>1. /\ i \in 1 .. Len(lock_types)
        /\ pc \in [Threads -> {"none", "lock", "in_lock", "blocked", "returned", "cancelled"}]
        /\ tries \in [Threads -> Nat] /\ got \in [Threads -> Nat]
        /\ deadlocks \in [Threads -> Nat]
    OBVIOUS
  <2>2. CallsAddUp
    BY DEF CallsAddUp
  <2> QED
    BY <2>1, <2>2 DEF TypeOK
<1>2. MainOK
  BY DEF MainOK, Dead
<1>3. ThreadOK /\ LockStaysTaken
  BY DEF ThreadOK, Progress, Seen, Live, LockStaysTaken
<1> QED
  BY <1>1, <1>2, <1>3 DEF IInv

\* Every step of a thread keeps the invariant.
LEMMA ThreadStep == ASSUME IInv, NEW t \in Threads, thread_task(t) PROVE IInv'
<1> USE Constants DEF IInv, mutex
<1>a. tries[t] \in Nat /\ got[t] \in Nat /\ deadlocks[t] \in Nat
  BY DEF TypeOK
<1>b. got[t] + deadlocks[t] <= tries[t] /\ tries[t] <= num_locks
  BY DEF TypeOK, CallsAddUp
<1>c. Progress(t) /\ Seen(t) /\ (got[t] > 0 => owner = t)
  BY DEF ThreadOK, LockStaysTaken
<1>k. UNCHANGED <<i, main, cancelled, kind>>
  BY DEF thread_task, EnterLock, LockDestroyed, LockFree, LockAgain, LockDeadlock,
     LockBlocks, Die, Locks, kind
<1>m. /\ owner' \in Threads \cup {Nobody, Somebody} /\ users' \in {0, 1}
      /\ valid' = valid
  BY DEF TypeOK, thread_task, EnterLock, LockDestroyed, LockFree, LockAgain, LockDeadlock,
     LockBlocks, Die, Locks
<1>o. ASSUME NEW u \in Threads \ {t}
      PROVE  UNCHANGED <<pc[u], tries[u], got[u], deadlocks[u]>>
  BY DEF TypeOK, thread_task, EnterLock, LockDestroyed, LockFree, LockAgain, LockDeadlock,
     LockBlocks, Die, Locks, Returned
<1>l. Live(t)
  BY DEF thread_task, EnterLock, LockDestroyed, LockFree, LockAgain, LockDeadlock,
     LockBlocks, Die, Locks, Live
<1>f. /\ pc' \in [Threads -> {"none", "lock", "in_lock", "blocked", "returned", "cancelled"}]
      /\ tries' \in [Threads -> Nat] /\ got' \in [Threads -> Nat]
      /\ deadlocks' \in [Threads -> Nat]
  <2>1. pc' \in [Threads -> {"none", "lock", "in_lock", "blocked", "returned", "cancelled"}]
    <3>1. \E q \in {"lock", "in_lock", "blocked", "returned", "cancelled"} :
             pc' = [pc EXCEPT ![t] = q]
      BY DEF thread_task, EnterLock, LockDestroyed, LockFree, LockAgain, LockDeadlock,
         LockBlocks, Die, Returned
    <3>2. pc \in [Threads -> {"none", "lock", "in_lock", "blocked", "returned", "cancelled"}]
      BY DEF TypeOK
    <3> QED
      BY ONLY <3>1, <3>2
  <2>2. tries' \in [Threads -> Nat]
    <3>1. UNCHANGED tries \/ tries' = [tries EXCEPT ![t] = @ + 1]
      BY DEF thread_task, EnterLock, LockDestroyed, LockFree, LockAgain, LockDeadlock,
         LockBlocks, Die, Returned
    <3>2. tries \in [Threads -> Nat]
      BY DEF TypeOK
    <3> QED
      BY ONLY <3>1, <3>2, t \in Threads
  <2>3. got' \in [Threads -> Nat]
    <3>1. UNCHANGED got \/ got' = [got EXCEPT ![t] = @ + 1]
      BY DEF thread_task, EnterLock, LockDestroyed, LockFree, LockAgain, LockDeadlock,
         LockBlocks, Die
    <3>2. got \in [Threads -> Nat]
      BY DEF TypeOK
    <3> QED
      BY ONLY <3>1, <3>2, t \in Threads
  <2>4. deadlocks' \in [Threads -> Nat]
    <3>1. UNCHANGED deadlocks \/ deadlocks' = [deadlocks EXCEPT ![t] = @ + 1]
      BY DEF thread_task, EnterLock, LockDestroyed, LockFree, LockAgain, LockDeadlock,
         LockBlocks, Die
    <3>2. deadlocks \in [Threads -> Nat]
      BY DEF TypeOK
    <3> QED
      BY ONLY <3>1, <3>2, t \in Threads
  <2> QED
    BY <2>1, <2>2, <2>3, <2>4
\* It is enough to look at the thread that moves, and at what it does to the mutex.
<1>s. SUFFICES /\ got'[t] + deadlocks'[t] <= tries'[t] /\ tries'[t] <= num_locks
               /\ Progress(t)' /\ Seen(t)'
               /\ got'[t] > 0 => owner' = t
               /\ pc'[t] # "none"
               /\ \/ UNCHANGED <<owner, users>>
                  \/ owner = Nobody /\ owner' \in {Somebody, t}
  <2>1. TypeOK'
    BY <1>k, <1>m, <1>o, <1>f, <1>s DEF TypeOK, CallsAddUp
  <2>2. MainOK'
    <3>1. \A u \in Threads : Dead(u) => u # t /\ pc'[u] = pc[u]
      BY <1>l, <1>o DEF Dead, Live
    <3> QED
      BY <3>1, <1>k, <1>m DEF MainOK, Dead
  <2>3. ASSUME NEW u \in Threads \ {t} PROVE Progress(u)' /\ Seen(u)'
    BY <1>k, <1>m, <1>o, <1>s DEF ThreadOK, LockStaysTaken, Progress, Seen, Live
  <2>4. LockStaysTaken'
    BY <1>o, <1>s DEF LockStaysTaken
  <2> QED
    BY <1>s, <2>1, <2>2, <2>3, <2>4 DEF ThreadOK
<1>1. CASE EnterLock(t)
  <2>1. /\ pc[t] = "lock" /\ pc'[t] = "in_lock" /\ valid
        /\ UNCHANGED <<owner, users, tries, got, deadlocks>>
    BY <1>1, <1>a DEF TypeOK, EnterLock
  <2>2. /\ got'[t] + deadlocks'[t] <= tries'[t] /\ tries'[t] <= num_locks
        /\ Progress(t)'
    BY <2>1, <1>a, <1>b, <1>c DEF Progress, Live
  <2>3. Seen(t)'
    BY <2>1, <1>a, <1>b, <1>c, <1>k, <1>m DEF Progress, Seen, Live
  <2> QED
    BY <2>1, <2>2, <2>3, <1>a, <1>c DEF Live, Dead
<1>2. CASE LockDestroyed(t)
  <2>1. /\ pc[t] = "lock" /\ ~valid
        /\ UNCHANGED <<owner, users, got, deadlocks>>
        /\ tries'[t] = tries[t] + 1
        /\ pc'[t] = IF tries[t] + 1 = num_locks THEN "returned" ELSE "lock"
    BY <1>2, <1>a DEF TypeOK, LockDestroyed, Returned
  <2>2. /\ got'[t] + deadlocks'[t] <= tries'[t] /\ tries'[t] <= num_locks
        /\ Progress(t)'
    BY <2>1, <1>a, <1>b, <1>c DEF Progress, Live
  <2>3. Seen(t)'
    BY <2>1, <1>a, <1>b, <1>c, <1>k, <1>m DEF Progress, Seen, Live
  <2> QED
    BY <2>1, <2>2, <2>3, <1>a, <1>c DEF Live, Dead
<1>3. CASE LockFree(t)
  <2>1. /\ pc[t] = "in_lock" /\ owner = Nobody
        /\ owner' = t /\ users' = 1
        /\ got'[t] = got[t] + 1 /\ UNCHANGED deadlocks
        /\ tries'[t] = tries[t] + 1
        /\ pc'[t] = IF tries[t] + 1 = num_locks THEN "returned" ELSE "lock"
    BY <1>3, <1>a DEF TypeOK, LockFree, Locks, Returned
  <2>2. /\ got'[t] + deadlocks'[t] <= tries'[t] /\ tries'[t] <= num_locks
        /\ Progress(t)'
    <3>1. tries[t] < num_locks
      BY <2>1, <1>c DEF Progress, Live
    <3>2. got'[t] + deadlocks'[t] <= tries'[t] /\ tries'[t] <= num_locks
      BY <2>1, <3>1, <1>a, <1>b
    <3>3. Progress(t)'
      BY <2>1, <3>1, <1>a, <1>c DEF Progress, Live
    <3> QED
      BY <3>2, <3>3
  <2>3. Seen(t)'
    BY <2>1, <1>a, <1>b, <1>c, <1>k, <1>m DEF Progress, Seen, Live
  <2> QED
    BY <2>1, <2>2, <2>3, <1>a, <1>c DEF Live, Dead
<1>4. CASE LockAgain(t)
  <2>1. /\ pc[t] = "in_lock" /\ owner = t /\ kind = "recursive"
        /\ got'[t] = got[t] + 1 /\ UNCHANGED <<owner, users, deadlocks>>
        /\ tries'[t] = tries[t] + 1
        /\ pc'[t] = IF tries[t] + 1 = num_locks THEN "returned" ELSE "lock"
    BY <1>4, <1>a DEF TypeOK, LockAgain, Locks, Returned
  <2>2. /\ got'[t] + deadlocks'[t] <= tries'[t] /\ tries'[t] <= num_locks
        /\ Progress(t)'
    <3>1. tries[t] < num_locks
      BY <2>1, <1>c DEF Progress, Live
    <3>2. got'[t] + deadlocks'[t] <= tries'[t] /\ tries'[t] <= num_locks
      BY <2>1, <3>1, <1>a, <1>b
    <3>3. Progress(t)'
      BY <2>1, <3>1, <1>a, <1>c DEF Progress, Live
    <3> QED
      BY <3>2, <3>3
  <2>3. Seen(t)'
    BY <2>1, <1>a, <1>b, <1>c, <1>k, <1>m DEF Progress, Seen, Live
  <2> QED
    BY <2>1, <2>2, <2>3, <1>a, <1>c DEF Live, Dead
<1>5. CASE LockDeadlock(t)
  <2>1. /\ pc[t] = "in_lock" /\ owner = t /\ kind = "errorcheck"
        /\ deadlocks'[t] = deadlocks[t] + 1 /\ UNCHANGED <<owner, users, got>>
        /\ tries'[t] = tries[t] + 1
        /\ pc'[t] = IF tries[t] + 1 = num_locks THEN "returned" ELSE "lock"
    BY <1>5, <1>a DEF TypeOK, LockDeadlock, Locks, Returned
  <2>2. /\ got'[t] + deadlocks'[t] <= tries'[t] /\ tries'[t] <= num_locks
        /\ Progress(t)'
    <3>1. tries[t] < num_locks
      BY <2>1, <1>c DEF Progress, Live
    <3>2. got'[t] + deadlocks'[t] <= tries'[t] /\ tries'[t] <= num_locks
      BY <2>1, <3>1, <1>a, <1>b
    <3>3. Progress(t)'
      BY <2>1, <3>1, <1>a, <1>c DEF Progress, Live
    <3> QED
      BY <3>2, <3>3
  <2>3. Seen(t)'
    BY <2>1, <1>a, <1>b, <1>c, <1>k, <1>m DEF Progress, Seen, Live
  <2> QED
    BY <2>1, <2>2, <2>3, <1>a, <1>c DEF Live, Dead
<1>6. CASE LockBlocks(t)
  <2>1. /\ pc[t] = "in_lock" /\ pc'[t] = "blocked"
        /\ owner # Nobody /\ (owner = t => kind = "normal")
        /\ UNCHANGED <<owner, users, tries, got, deadlocks>>
    BY <1>6, <1>a DEF TypeOK, LockBlocks, Locks
  <2>2. /\ got'[t] + deadlocks'[t] <= tries'[t] /\ tries'[t] <= num_locks
        /\ Progress(t)'
    BY <2>1, <1>a, <1>b, <1>c DEF Progress, Live
  <2>3. Seen(t)'
    BY <2>1, <1>a, <1>b, <1>c, <1>k, <1>m DEF Progress, Seen, Live
  <2> QED
    BY <2>1, <2>2, <2>3, <1>a, <1>c DEF Live, Dead
<1>7. CASE Die(t)
  <2>1. /\ Live(t) /\ pc'[t] = "cancelled" /\ UNCHANGED <<tries, got, deadlocks>>
        /\ \/ UNCHANGED <<owner, users>>
           \/ owner = Nobody /\ owner' \in {Somebody, t}
    BY <1>7, <1>a DEF TypeOK, Die
  <2>2. /\ got'[t] + deadlocks'[t] <= tries'[t] /\ tries'[t] <= num_locks
        /\ Progress(t)'
    BY <2>1, <1>a, <1>b, <1>c DEF Progress, Live
  <2>3. Seen(t)'
    BY <2>1, <1>a, <1>b, <1>c, <1>k, <1>m DEF Progress, Seen, Live
  <2> QED
    BY <2>1, <2>2, <2>3, <1>a, <1>c DEF Live, Dead
<1> QED
  BY <1>1, <1>2, <1>3, <1>4, <1>5, <1>6, <1>7 DEF thread_task

\* So does every step of main().
LEMMA MainStep == ASSUME IInv, Main PROVE IInv'
<1> USE Constants DEF IInv, MainGoes, mutex
<1>1. CASE InitMutex
  <2> USE <1>1 DEF InitMutex
  <2>1. TypeOK'
    BY DEF TypeOK, CallsAddUp
  <2>2. MainOK'
    BY DEF TypeOK, MainOK, Dead
  <2>3. ThreadOK'
    <3>1. ASSUME NEW u \in Threads PROVE Progress(u)'
      BY DEF TypeOK, MainOK, ThreadOK, Progress, Live, Dead
    <3>2. ASSUME NEW u \in Threads PROVE Seen(u)'
      BY DEF TypeOK, MainOK, ThreadOK, LockStaysTaken, Progress, Seen, Live, Dead, kind
    <3> QED
      BY <3>1, <3>2 DEF ThreadOK
  <2>4. LockStaysTaken'
    BY DEF TypeOK, LockStaysTaken
  <2> QED
    BY <2>1, <2>2, <2>3, <2>4
<1>2. CASE Create(1, "create_other")
  <2> USE <1>2 DEF Create
  <2>1. TypeOK'
    BY DEF TypeOK, CallsAddUp
  <2>2. MainOK'
    BY DEF TypeOK, MainOK, Dead
  <2>3. ThreadOK'
    <3>1. ASSUME NEW u \in Threads PROVE Progress(u)'
      BY DEF TypeOK, MainOK, ThreadOK, Progress, Live
    <3>2. ASSUME NEW u \in Threads PROVE Seen(u)'
      BY DEF TypeOK, MainOK, ThreadOK, Seen, kind
    <3> QED
      BY <3>1, <3>2 DEF ThreadOK
  <2>4. LockStaysTaken'
    BY DEF TypeOK, LockStaysTaken
  <2> QED
    BY <2>1, <2>2, <2>3, <2>4
<1>3. CASE Create(2, "cancel")
  <2> USE <1>3 DEF Create
  <2>1. TypeOK'
    BY DEF TypeOK, CallsAddUp
  <2>2. MainOK'
    BY DEF TypeOK, MainOK, Dead
  <2>3. ThreadOK'
    <3>1. ASSUME NEW u \in Threads PROVE Progress(u)'
      BY DEF TypeOK, MainOK, ThreadOK, Progress, Live
    <3>2. ASSUME NEW u \in Threads PROVE Seen(u)'
      BY DEF TypeOK, MainOK, ThreadOK, Seen, kind
    <3> QED
      BY <3>1, <3>2 DEF ThreadOK
  <2>4. LockStaysTaken'
    BY DEF TypeOK, LockStaysTaken
  <2> QED
    BY <2>1, <2>2, <2>3, <2>4
<1>4. CASE Cancel(1, "cancel_other") \/ Cancel(2, "destroy")
  <2> USE <1>4 DEF Cancel
  <2>1. TypeOK'
    BY DEF TypeOK, CallsAddUp
  <2>2. MainOK'
    <3>1. main = "cancel_other" => cancelled \cup {2} = Threads
      BY DEF TypeOK, MainOK
    <3>2. CASE Cancel(1, "cancel_other")
      BY <3>2 DEF MainOK, Dead
    <3>3. CASE Cancel(2, "destroy")
      BY <3>1, <3>3 DEF MainOK, Dead
    <3> QED
      BY <3>2, <3>3
  <2>3. ThreadOK'
    <3>1. ASSUME NEW u \in Threads PROVE Progress(u)'
      BY DEF TypeOK, MainOK, ThreadOK, Progress, Live, Dead
    <3>2. ASSUME NEW u \in Threads PROVE Seen(u)'
      <4>1. Seen(u) /\ main # "init"
        BY DEF ThreadOK
      <4>2. UNCHANGED <<valid, kind, pc, tries, got, deadlocks>>
        BY DEF kind
      <4> QED
        BY ONLY <4>1, <4>2 DEF Seen
    <3> QED
      BY <3>1, <3>2 DEF ThreadOK
  <2>4. LockStaysTaken'
    BY DEF TypeOK, LockStaysTaken
  <2> QED
    BY <2>1, <2>2, <2>3, <2>4
<1>5. CASE Destroy
  <2> USE <1>5 DEF Destroy
  <2>1. TypeOK'
    BY DEF TypeOK, CallsAddUp
  <2>2. MainOK'
    BY DEF TypeOK, MainOK, Dead
  <2>3. ThreadOK'
    <3>1. ASSUME NEW u \in Threads PROVE Progress(u)'
      BY DEF TypeOK, MainOK, ThreadOK, Progress, Live, Dead
    <3>2. ASSUME NEW u \in Threads PROVE Seen(u)'
      <4>1. Progress(u) /\ Seen(u) /\ valid /\ main # "init" /\ got[u] \in Nat
        BY DEF TypeOK, MainOK, ThreadOK
      <4>2. UNCHANGED <<kind, tries, got, deadlocks>>
        BY DEF kind
      <4>3. CASE users = 0
        <5>1. got[u] = 0
          BY <4>1, <4>3 DEF Progress
        <5>2. deadlocks[u] = 0
          BY <5>1, <4>1 DEF Progress
        <5>3. ~valid'
          BY <4>3
        <5> QED
          BY <5>1, <5>2, <5>3, <4>2 DEF Seen
      <4>4. CASE users # 0
        <5>1. valid'
          BY <4>4
        <5> QED
          BY <5>1, <4>1, <4>2 DEF Seen
      <4> QED
        BY <4>3, <4>4
    <3> QED
      BY <3>1, <3>2 DEF ThreadOK
  <2>4. LockStaysTaken'
    BY DEF TypeOK, LockStaysTaken
  <2> QED
    BY <2>1, <2>2, <2>3, <2>4
<1>6. CASE Join(1, "join_other") \/ Join(2, "next")
  <2> USE <1>6 DEF Join
  <2>1. TypeOK'
    BY DEF TypeOK, CallsAddUp
  <2>2. MainOK'
    BY DEF TypeOK, MainOK, Dead
  <2>3. ThreadOK'
    <3>1. ASSUME NEW u \in Threads PROVE Progress(u)'
      BY DEF TypeOK, MainOK, ThreadOK, Progress, Live, Dead
    <3>2. ASSUME NEW u \in Threads PROVE Seen(u)'
      <4>1. Seen(u) /\ main # "init"
        BY DEF ThreadOK
      <4>2. UNCHANGED <<valid, kind, pc, tries, got, deadlocks>>
        BY DEF kind
      <4> QED
        BY ONLY <4>1, <4>2 DEF Seen
    <3> QED
      BY <3>1, <3>2 DEF ThreadOK
  <2>4. LockStaysTaken'
    BY DEF TypeOK, LockStaysTaken
  <2> QED
    BY <2>1, <2>2, <2>3, <2>4
<1>7. CASE NextRound
  <2> USE <1>7 DEF NextRound
  <2>1. TypeOK'
    <3>1. i' \in 1 .. Len(lock_types) /\ main' \in {"init", "exit"}
      BY DEF TypeOK
    <3> QED
      BY <3>1 DEF TypeOK, CallsAddUp
  <2>2. MainOK'
    BY DEF TypeOK, MainOK, Dead
  <2>3. ThreadOK'
    <3>1. ASSUME NEW u \in Threads PROVE Progress(u)'
      BY DEF TypeOK, MainOK, ThreadOK, Progress, Live, Dead
    <3>2. ASSUME NEW u \in Threads PROVE Seen(u)'
      <4>1. Seen(u) /\ Dead(u) /\ main # "init"
        BY DEF MainOK, ThreadOK
      <4>2. UNCHANGED <<valid, pc, tries, got, deadlocks>>
        OBVIOUS
      <4>3. UNCHANGED kind \/ main' = "init"
        BY DEF kind
      <4> QED
        BY ONLY <4>1, <4>2, <4>3 DEF Seen
    <3> QED
      BY <3>1, <3>2 DEF ThreadOK
  <2>4. LockStaysTaken'
    BY DEF TypeOK, LockStaysTaken
  <2> QED
    BY <2>1, <2>2, <2>3, <2>4
<1> QED
  BY <1>1, <1>2, <1>3, <1>4, <1>5, <1>6, <1>7 DEF Main

\* The two together, and a step that changes nothing.
LEMMA StepIInv == IInv /\ [Next]_vars => IInv'
<1> SUFFICES ASSUME IInv, [Next]_vars PROVE IInv'
  OBVIOUS
<1>1. CASE UNCHANGED vars
  <2> USE <1>1 DEF vars, mutex, IInv
  <2>1. TypeOK'
    BY DEF TypeOK, CallsAddUp
  <2>2. MainOK'
    BY DEF MainOK, Dead
  <2>3. ThreadOK'
    BY DEF ThreadOK, Progress, Seen, Live, kind
  <2>4. LockStaysTaken'
    BY DEF LockStaysTaken
  <2> QED
    BY <2>1, <2>2, <2>3, <2>4
<1> QED
  BY <1>1, ThreadStep, MainStep DEF Next, Exited

\* The invariant says what each kind of mutex lets a thread see.
LEMMA IInvKinds == IInv => KindDecides
<1> SUFFICES ASSUME IInv, main # "init", NEW t \in Threads, pc[t] = "returned"
             PROVE  IF valid
                    THEN \/ kind = "recursive" /\ got[t] = num_locks
                         \/ kind = "errorcheck" /\ got[t] = 1 /\ deadlocks[t] = num_locks - 1
                         \/ kind = "normal" /\ got[t] = 1 /\ num_locks = 1
                    ELSE got[t] <= 1 /\ deadlocks[t] = 0 /\ t \in cancelled
  BY DEF KindDecides
<1>1. kind \in {"normal", "recursive", "errorcheck"}
  BY Kinds DEF IInv
<1>2. Progress(t) /\ Seen(t) /\ tries[t] = num_locks
  BY DEF IInv, ThreadOK, Progress
<1>3. got[t] \in Nat /\ deadlocks[t] \in Nat
  BY DEF IInv, TypeOK
<1>4. CASE valid
  BY <1>1, <1>2, <1>3, <1>4, Constants DEF Progress, Seen
<1>5. CASE ~valid
  BY <1>2, <1>5 DEF IInv, MainOK, Seen
<1> QED
  BY <1>4, <1>5

\* The invariant holds in every reachable state.
THEOREM Invariant == Spec => []IInv
  BY InitIInv, StepIInv, PTL DEF Spec

\* The types.
THEOREM Types == Spec => []TypeOK
  BY Invariant, PTL DEF IInv

\* One thread at most ever locks the mutex of a round.
THEOREM StaysTaken == Spec => []LockStaysTaken
  BY Invariant, PTL DEF IInv

\* The kind of the mutex decides what a thread that returns has seen.
THEOREM Outcomes == Spec => []KindDecides
  BY Invariant, IInvKinds, PTL

\* No thread is left in the mutex of the round before when it is made again.
THEOREM UnusedWhenMade == Spec => []MadeAgainUnused
<1>1. IInv => MadeAgainUnused
  BY DEF IInv, MainOK, MadeAgainUnused, Dead, Live
<1> QED
  BY <1>1, Invariant, PTL
=============================================================================
