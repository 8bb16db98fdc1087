--------------------------- MODULE JobQueueProofs ---------------------------
(***************************************************************************)
(* Theorems about JobQueue, for any finite set of threads and any number   *)
(* of jobs.  The mutex makes what a thread has read of the list stay true  *)
(* until it unlocks (Inside); then the list is always the end of what      *)
(* init_jobs built, and the jobs taken off it are each in one place        *)
(* (Places).                                                               *)
(***************************************************************************)
EXTENDS JobQueue, SumTheorems, FiniteSetTheorems, TLAPS

M == JobsMade(num_jobs)
Left == Len(job_queue)

\* The thread between its lock and its unlock owns the mutex.
Owner == \A t \in Threads : (pc[t] \in {"test", "advance", "unlock"}) <=> (job_queue_mutex = t)

\* What a thread knows of its job and of the list at each place.
Knows(t) ==
  /\ pc[t] = "advance" => next_job[t] = (IF job_queue = <<>> THEN Wild ELSE Head(job_queue))
  /\ pc[t] = "unlock" => next_job[t] \in Nat \/ (next_job[t] = NULL /\ job_queue = <<>>
                                                                    /\ list_end = NULL)
  /\ pc[t] \in {"work", "free"} => next_job[t] \in Nat
  /\ pc[t] = "returned" => job_queue = <<>> /\ list_end = NULL

Unstarted == main = "init" => /\ job_queue = <<>> /\ freed = {}
                              /\ \A t \in Threads : pc[t] = "unborn"

Inside == TypeOK /\ Owner /\ (\A t \in Threads : Knows(t)) /\ Unstarted

\* The list is the end of 0 .. M - 1, in order, and what is not on it is in one thread's
\* hands or freed.
Ordered == Left <= M /\ \A i \in 1 .. Left : job_queue[i] = (M - Left) + (i - 1)
Apart == /\ \A t \in Holding : next_job[t] \notin freed
         /\ \A t, u \in Holding : next_job[t] = next_job[u] => t = u
Taken == 0 .. (M - Left) - 1 = Held \cup freed
Counted == Cardinality(Holding) + Cardinality(freed) = M - Left

Places == main # "init" => Ordered /\ Apart /\ Taken /\ Counted

-----------------------------------------------------------------------------
(* Facts without a state *)

LEMMA Constants == IsFiniteSet(Threads) /\ NoThread \notin Threads /\ NULL # Wild
                   /\ NULL \notin Int /\ Wild \notin Int /\ NumJobsArgs \subseteq Int
  BY JobQueueAssumption DEF StaleLinks

\* There is always a job to make.
LEMMA Made == ASSUME NEW n \in Int PROVE JobsMade(n) \in Nat /\ JobsMade(n) >= 1
  BY DEF JobsMade

\* The list that init_jobs builds.
LEMMA Built ==
  ASSUME NEW n \in Nat
  PROVE  LET q == [i \in 1 .. n |-> i - 1] IN q \in Seq(Nat) /\ Len(q) = n
<1> DEFINE q == [i \in 1 .. n |-> i - 1]
<1>1. q \in [1 .. n -> Nat]
  OBVIOUS
<1>2. q \in Seq(Nat)
  BY <1>1
<1>3. Len(q) = n
  BY <1>1, <1>2
<1> QED
  BY <1>2, <1>3

-----------------------------------------------------------------------------
(* Inside is an invariant *)

LEMMA InsideInit == Init => Inside
<1> SUFFICES ASSUME Init PROVE Inside
  OBVIOUS
<1>1. TypeOK
  BY DEF Init, TypeOK, ThreadStates, StaleLinks
<1>2. Owner
  BY Constants DEF Init, Owner
<1>3. ASSUME NEW t \in Threads PROVE Knows(t)
  BY DEF Init, Knows
<1>4. Unstarted
  BY DEF Init, Unstarted
<1> QED
  BY <1>1, <1>2, <1>3, <1>4 DEF Inside

\* A step of a thread that is not in the list's way: what the others know stays true.
LEMMA KnowsKept ==
  ASSUME NEW u \in Threads, Knows(u), pc'[u] = pc[u], next_job'[u] = next_job[u],
         job_queue' = job_queue, list_end' = list_end
  PROVE  Knows(u)'
  BY DEF Knows

LEMMA InsideStep == Inside /\ [Next]_vars => Inside'
<1> SUFFICES ASSUME Inside, [Next]_vars PROVE Inside'
  OBVIOUS
<1> USE DEF Inside
<1>types. /\ pc \in [Threads -> ThreadStates] /\ next_job \in [Threads -> Nat \cup StaleLinks]
          /\ accum \in [Threads -> Nat] /\ job_queue \in Seq(Nat)
  BY DEF TypeOK
<1>1. CASE InitJobs
  <2>1. /\ job_queue' \in Seq(Nat) /\ list_end' \in StaleLinks
    <3>1. num_jobs \in Int
      BY Constants DEF TypeOK
    <3> QED
      BY <1>1, <3>1, Made, Built DEF InitJobs
  <2>2. TypeOK'
    BY <1>1, <2>1 DEF InitJobs, TypeOK
  <2>3. \A t \in Threads : pc[t] = "unborn"
    BY <1>1 DEF InitJobs, Unstarted
  <2>4. Owner' /\ Unstarted'
    BY <1>1 DEF InitJobs, Owner, Unstarted
  <2>5. \A t \in Threads : Knows(t)'
    BY <1>1, <2>3 DEF InitJobs, Knows
  <2> QED
    BY <2>2, <2>4, <2>5
<1>2. CASE JoinAndSum
  <2>1. TypeOK' /\ Owner' /\ Unstarted'
    BY <1>2 DEF JoinAndSum, TypeOK, Owner, Unstarted
  <2>2. \A t \in Threads : Knows(t)'
    BY <1>2, KnowsKept DEF JoinAndSum
  <2> QED
    BY <2>1, <2>2
<1>3. ASSUME NEW t \in Threads, Create(t) PROVE Inside'
  <2>1. /\ pc[t] = "unborn" /\ pc' = [pc EXCEPT ![t] = "loop"] /\ main = "create" /\ main' = main
        /\ UNCHANGED <<num_jobs, job_queue, list_end, job_queue_mutex, next_job, accum, freed>>
    BY <1>3 DEF Create
  <2>2. TypeOK'
    BY <2>1 DEF TypeOK, ThreadStates
  <2>3. Owner' /\ Unstarted'
    BY <1>types, <2>1 DEF Owner, Unstarted
  <2>4. ASSUME NEW u \in Threads PROVE Knows(u)'
    <3>1. CASE u = t
      BY <1>types, <2>1, <3>1 DEF Knows
    <3>2. CASE u # t
      BY <1>types, <2>1, <3>2, KnowsKept
    <3> QED
      BY <3>1, <3>2
  <2> QED
    BY <2>2, <2>3, <2>4
<1>4. ASSUME NEW t \in Threads, Lock(t) PROVE Inside'
  <2>1. /\ pc[t] = "loop" /\ pc' = [pc EXCEPT ![t] = "test"] /\ main = "create" /\ main' = main
        /\ job_queue_mutex = NoThread /\ job_queue_mutex' = t
        /\ UNCHANGED <<num_jobs, job_queue, list_end, next_job, accum, freed>>
    BY <1>4 DEF Lock, Running
  <2>2. TypeOK'
    BY <2>1 DEF TypeOK, ThreadStates
  <2>3. Owner' /\ Unstarted'
    BY <1>types, <2>1, Constants DEF Owner, Unstarted
  <2>4. ASSUME NEW u \in Threads PROVE Knows(u)'
    <3>1. CASE u = t
      BY <1>types, <2>1, <3>1 DEF Knows
    <3>2. CASE u # t
      BY <1>types, <2>1, <3>2, KnowsKept
    <3> QED
      BY <3>1, <3>2
  <2> QED
    BY <2>2, <2>3, <2>4
<1>5. ASSUME NEW t \in Threads, ReadHead(t) PROVE Inside'
  <2> DEFINE at == IF job_queue = <<>> /\ list_end = NULL THEN "unlock" ELSE "advance"
             job == IF job_queue = <<>> THEN list_end ELSE Head(job_queue)
  <2>1. /\ pc[t] = "test" /\ pc' = [pc EXCEPT ![t] = at] /\ main = "create" /\ main' = main
        /\ next_job' = [next_job EXCEPT ![t] = job]
        /\ UNCHANGED <<num_jobs, job_queue, list_end, job_queue_mutex, accum, freed>>
    BY <1>5 DEF ReadHead, Running
  <2>2. list_end \in StaleLinks /\ (job_queue # <<>> => Head(job_queue) \in Nat)
    BY <1>types DEF TypeOK
  <2>3. TypeOK'
    BY <2>1, <2>2 DEF TypeOK, ThreadStates
  <2>4. Owner' /\ Unstarted'
    BY <1>types, <2>1 DEF Owner, Unstarted
  <2>5. ASSUME NEW u \in Threads PROVE Knows(u)'
    <3>1. CASE u = t
      <4>1. pc'[t] = at /\ next_job'[t] = job
        BY <1>types, <2>1
      <4> QED
        BY <2>1, <2>2, <3>1, <4>1 DEF Knows, StaleLinks
    <3>2. CASE u # t
      BY <1>types, <2>1, <3>2, KnowsKept
    <3> QED
      BY <3>1, <3>2
  <2> QED
    BY <2>3, <2>4, <2>5
<1>6. ASSUME NEW t \in Threads, Advance(t) PROVE Inside'
  <2>1. /\ pc[t] = "advance" /\ pc' = [pc EXCEPT ![t] = "unlock"] /\ main = "create"
        /\ main' = main /\ job_queue # <<>> /\ job_queue' = Tail(job_queue)
        /\ UNCHANGED <<num_jobs, list_end, job_queue_mutex, next_job, accum, freed>>
    BY <1>6 DEF Advance, Running
  <2>2. next_job[t] \in Nat /\ job_queue' \in Seq(Nat)
    BY <1>types, <2>1 DEF Knows
  <2>3. TypeOK'
    BY <2>1, <2>2 DEF TypeOK, ThreadStates
  <2>4. Owner' /\ Unstarted'
    BY <1>types, <2>1 DEF Owner, Unstarted
  <2>5. ASSUME NEW u \in Threads PROVE Knows(u)'
    <3>1. CASE u = t
      BY <1>types, <2>1, <2>2, <3>1 DEF Knows
    <3>2. CASE u # t
      <4>1. pc[u] \notin {"advance", "unlock"}
        BY <2>1, <3>2 DEF Owner
      <4>2. pc[u] # "returned"
        BY <2>1 DEF Knows
      <4> QED
        BY <1>types, <2>1, <3>2, <4>1, <4>2 DEF Knows
    <3> QED
      BY <3>1, <3>2
  <2> QED
    BY <2>3, <2>4, <2>5
<1>7. ASSUME NEW t \in Threads, FollowWildLink(t) PROVE Inside'
  <2>1. TypeOK' /\ Owner' /\ Unstarted'
    BY <1>7 DEF FollowWildLink, Running, TypeOK, Owner, Unstarted
  <2>2. \A u \in Threads : Knows(u)'
    BY <1>7, KnowsKept DEF FollowWildLink
  <2> QED
    BY <2>1, <2>2
<1>8. ASSUME NEW t \in Threads, Unlock(t) PROVE Inside'
  <2> DEFINE at == IF next_job[t] = NULL THEN "returned" ELSE "work"
  <2>1. /\ pc[t] = "unlock" /\ pc' = [pc EXCEPT ![t] = at] /\ main = "create" /\ main' = main
        /\ job_queue_mutex' = NoThread
        /\ UNCHANGED <<num_jobs, job_queue, list_end, next_job, accum, freed>>
    BY <1>8 DEF Unlock, Running
  <2>2. TypeOK'
    BY <2>1 DEF TypeOK, ThreadStates
  <2>3. Unstarted'
    BY <2>1 DEF Unstarted
  <2>4. Owner'
    <3>1. job_queue_mutex = t
      BY <2>1 DEF Owner
    <3> QED
      BY <1>types, <2>1, <3>1, Constants DEF Owner
  <2>5. ASSUME NEW u \in Threads PROVE Knows(u)'
    <3>1. CASE u = t
      <4>1. pc'[t] = at
        BY <1>types, <2>1
      <4> QED
        BY <2>1, <3>1, <4>1, Constants DEF Knows
    <3>2. CASE u # t
      BY <1>types, <2>1, <3>2, KnowsKept
    <3> QED
      BY <3>1, <3>2
  <2> QED
    BY <2>2, <2>3, <2>4, <2>5
<1>9. ASSUME NEW t \in Threads, ProcessJob(t) PROVE Inside'
  <2>1. /\ pc[t] = "work" /\ pc' = [pc EXCEPT ![t] = "free"] /\ main = "create" /\ main' = main
        /\ accum' = [accum EXCEPT ![t] = accum[t] + next_job[t]]
        /\ UNCHANGED <<num_jobs, job_queue, list_end, job_queue_mutex, next_job, freed>>
    BY <1>9 DEF ProcessJob, Running
  <2>2. next_job[t] \in Nat
    BY <2>1 DEF Knows
  <2>3. accum' \in [Threads -> Nat]
    BY <1>types, <2>1, <2>2
  <2>4. TypeOK'
    BY <2>1, <2>3 DEF TypeOK, ThreadStates
  <2>5. Owner' /\ Unstarted'
    BY <1>types, <2>1 DEF Owner, Unstarted
  <2>6. ASSUME NEW u \in Threads PROVE Knows(u)'
    <3>1. CASE u = t
      BY <1>types, <2>1, <2>2, <3>1 DEF Knows
    <3>2. CASE u # t
      BY <1>types, <2>1, <3>2, KnowsKept
    <3> QED
      BY <3>1, <3>2
  <2> QED
    BY <2>4, <2>5, <2>6
<1>10. ASSUME NEW t \in Threads, Free(t) PROVE Inside'
  <2>1. /\ pc[t] = "free" /\ pc' = [pc EXCEPT ![t] = "loop"] /\ main = "create" /\ main' = main
        /\ freed' = freed \cup {next_job[t]}
        /\ UNCHANGED <<num_jobs, job_queue, list_end, job_queue_mutex, next_job, accum>>
    BY <1>10 DEF Free, Running
  <2>2. next_job[t] \in Nat
    BY <2>1 DEF Knows
  <2>3. TypeOK'
    BY <2>1, <2>2 DEF TypeOK, ThreadStates
  <2>4. Owner' /\ Unstarted'
    BY <1>types, <2>1 DEF Owner, Unstarted
  <2>5. ASSUME NEW u \in Threads PROVE Knows(u)'
    <3>1. CASE u = t
      BY <1>types, <2>1, <3>1 DEF Knows
    <3>2. CASE u # t
      BY <1>types, <2>1, <3>2, KnowsKept
    <3> QED
      BY <3>1, <3>2
  <2> QED
    BY <2>3, <2>4, <2>5
<1>11. CASE UNCHANGED vars
  <2>1. TypeOK' /\ Owner' /\ Unstarted'
    BY <1>11 DEF vars, TypeOK, Owner, Unstarted
  <2>2. \A u \in Threads : Knows(u)'
    BY <1>11, KnowsKept DEF vars
  <2> QED
    BY <2>1, <2>2
<1> QED
  BY <1>1, <1>2, <1>3, <1>4, <1>5, <1>6, <1>7, <1>8, <1>9, <1>10, <1>11
     DEF Next, Main, ThreadFunction, Ended

\* The types of the variables, for any number of threads and jobs.
THEOREM Types == Spec => []TypeOK
<1>1. Inside => TypeOK
  BY DEF Inside
<1> QED
  BY InsideInit, InsideStep, <1>1, PTL DEF Spec

\* Line 22, "Process queued jobs until the queue is empty": a thread returns only when the
\* list has run out.
THEOREM Returns == Spec => []ReturnsOnlyWhenEmpty
<1>1. Inside => ReturnsOnlyWhenEmpty
  BY DEF Inside, Knows, ReturnsOnlyWhenEmpty
<1> QED
  BY InsideInit, InsideStep, <1>1, PTL DEF Spec

\* A thread that is about to follow a link past the last node has read a wild one.
AtTheEnd == /\ main = "crashed" => list_end # NULL
            /\ \A t \in Threads : pc[t] = "advance" /\ job_queue = <<>> => list_end # NULL

LEMMA AtTheEndStep == ASSUME Inside, AtTheEnd, [Next]_vars PROVE AtTheEnd'
<1>types. pc \in [Threads -> ThreadStates]
  BY DEF Inside, TypeOK
<1>1. CASE InitJobs
  BY <1>1 DEF InitJobs, Inside, Unstarted, AtTheEnd
<1>2. CASE JoinAndSum
  BY <1>2 DEF JoinAndSum, AtTheEnd
<1>3. ASSUME NEW t \in Threads, Create(t) \/ Lock(t) \/ Unlock(t) \/ ProcessJob(t) \/ Free(t)
      PROVE  AtTheEnd'
  <2>1. /\ UNCHANGED <<main, job_queue, list_end>> /\ pc'[t] # "advance"
        /\ \A u \in Threads : u # t => pc'[u] = pc[u]
    BY <1>types, <1>3 DEF Create, Lock, Unlock, ProcessJob, Free
  <2> QED
    BY <2>1 DEF AtTheEnd
<1>4. ASSUME NEW t \in Threads, ReadHead(t) PROVE AtTheEnd'
  <2>1. /\ UNCHANGED <<main, job_queue, list_end>>
        /\ pc'[t] = "advance" => ~(job_queue = <<>> /\ list_end = NULL)
        /\ \A u \in Threads : u # t => pc'[u] = pc[u]
    BY <1>types, <1>4 DEF ReadHead
  <2> QED
    BY <2>1 DEF AtTheEnd
<1>5. ASSUME NEW t \in Threads, Advance(t) PROVE AtTheEnd'
  <2>1. /\ UNCHANGED <<main, list_end>> /\ pc[t] = "advance" /\ pc'[t] # "advance"
        /\ \A u \in Threads : u # t => pc'[u] = pc[u]
    BY <1>types, <1>5 DEF Advance, Running
  <2>2. \A u \in Threads : u # t => pc[u] # "advance"
    BY <2>1 DEF Inside, Owner
  <2> QED
    BY <2>1, <2>2 DEF AtTheEnd
<1>6. ASSUME NEW t \in Threads, FollowWildLink(t) PROVE AtTheEnd'
  BY <1>6 DEF FollowWildLink, Running, AtTheEnd
<1>7. CASE Ended \/ UNCHANGED vars
  BY <1>7 DEF Ended, vars, AtTheEnd
<1> QED
  BY <1>1, <1>2, <1>3, <1>4, <1>5, <1>6, <1>7 DEF Next, Main, ThreadFunction

\* Line 22 again, for what happens at the end of the list: no thread goes past it, if the
\* link that init_jobs does not write is NULL.
THEOREM Stops == Spec => [](list_end = NULL => StopsAtTheEnd)
<1>1. Init => AtTheEnd
  BY DEF Init, AtTheEnd
<1>2. AtTheEnd => (list_end = NULL => StopsAtTheEnd)
  BY DEF AtTheEnd, StopsAtTheEnd
<1> QED
  BY InsideInit, InsideStep, AtTheEndStep, <1>1, <1>2, PTL DEF Spec

-----------------------------------------------------------------------------
(* Where the jobs are *)

\* The steps that neither take nor free a job.
Quiet == /\ Holding' = Holding /\ \A t \in Holding : next_job'[t] = next_job[t]
         /\ UNCHANGED <<num_jobs, job_queue, freed>>
         /\ (main = "init") <=> (main' = "init")

LEMMA InHolding ==
  ASSUME TypeOK, NEW t \in Threads
  PROVE  t \in Holding <=> pc[t] \in {"unlock", "work", "free"} /\ next_job[t] \in Nat
  BY Constants DEF TypeOK, Holding, StaleLinks

LEMMA QuietSteps ==
  ASSUME Inside, [Next]_vars, ~InitJobs, \A t \in Threads : ~Advance(t) /\ ~Free(t)
  PROVE  Quiet
<1> USE DEF Inside
<1>types. pc \in [Threads -> ThreadStates] /\ next_job \in [Threads -> Nat \cup StaleLinks]
  BY DEF TypeOK
<1>1. ASSUME NEW t \in Threads, Create(t) \/ Lock(t) \/ Unlock(t) \/ ProcessJob(t) PROVE Quiet
  <2>1. UNCHANGED <<num_jobs, job_queue, next_job, freed, main>>
    BY <1>1 DEF Create, Lock, Unlock, ProcessJob
  <2>2. (pc'[t] \in {"unlock", "work", "free"} /\ next_job[t] \notin StaleLinks)
           <=> (pc[t] \in {"unlock", "work", "free"} /\ next_job[t] \notin StaleLinks)
    BY <1>types, <1>1, Constants DEF Create, Lock, Unlock, ProcessJob, Running, StaleLinks, Knows
  <2>3. \A u \in Threads : u # t => pc'[u] = pc[u]
    BY <1>types, <1>1 DEF Create, Lock, Unlock, ProcessJob
  <2>4. Holding' = Holding
    BY <2>1, <2>2, <2>3 DEF Holding, StaleLinks
  <2> QED
    BY <2>1, <2>4 DEF Quiet
<1>2. ASSUME NEW t \in Threads, ReadHead(t) PROVE Quiet
  <2>1. UNCHANGED <<num_jobs, job_queue, freed, main>>
    BY <1>2 DEF ReadHead
  <2>2. /\ t \notin Holding
        /\ pc'[t] = "advance" \/ (pc'[t] = "unlock" /\ next_job'[t] \in StaleLinks)
    BY <1>types, <1>2 DEF ReadHead, Running, Holding, StaleLinks
  <2>3. \A u \in Threads : u # t => pc'[u] = pc[u] /\ next_job'[u] = next_job[u]
    BY <1>types, <1>2 DEF ReadHead
  <2>4. Holding' = Holding /\ \A u \in Holding : next_job'[u] = next_job[u]
    BY <2>2, <2>3 DEF Holding, StaleLinks
  <2> QED
    BY <2>1, <2>4 DEF Quiet
<1>3. CASE JoinAndSum \/ UNCHANGED vars \/ \E t \in Threads : FollowWildLink(t)
  <2>1. UNCHANGED <<pc, next_job, num_jobs, job_queue, freed>>
        /\ ((main = "init") <=> (main' = "init"))
    BY <1>3 DEF JoinAndSum, FollowWildLink, Running, vars
  <2> QED
    BY <2>1 DEF Quiet, Holding, StaleLinks
<1> QED
  BY <1>1, <1>2, <1>3 DEF Next, Main, ThreadFunction, Ended

\* The list holds the last Left jobs.
LEMMA Listed ==
  ASSUME TypeOK, Ordered
  PROVE  Elements(job_queue) = M - Left .. M - 1
<1>1. M \in Nat /\ Left \in Nat /\ Left <= M /\ DOMAIN job_queue = 1 .. Left
  BY Made, Constants DEF TypeOK, M, Left, Ordered
<1>2. \A i \in 1 .. Left : job_queue[i] = (M - Left) + (i - 1)
  BY DEF Ordered
<1>3. \A x \in M - Left .. M - 1 : x - (M - Left) + 1 \in 1 .. Left
                                  /\ job_queue[x - (M - Left) + 1] = x
  BY <1>1, <1>2
<1>4. \A i \in 1 .. Left : job_queue[i] \in M - Left .. M - 1
  BY <1>1, <1>2
<1> QED
  BY <1>1, <1>3, <1>4 DEF Elements

\* Advance takes the first job of the list, Free the job of a thread.
LEMMA AdvanceMoves ==
  ASSUME Inside, Places, NEW t \in Threads, Advance(t)
  PROVE  /\ main # "init" /\ main' # "init" /\ M' = M /\ UNCHANGED <<next_job, freed>>
         /\ next_job[t] = M - Left /\ Left > 0 /\ Left' = Left - 1
         /\ t \notin Holding /\ Holding' = Holding \cup {t}
         /\ job_queue' = Tail(job_queue)
<1> USE DEF Inside
<1>1. /\ pc[t] = "advance" /\ pc' = [pc EXCEPT ![t] = "unlock"] /\ main = "create"
      /\ job_queue # <<>> /\ job_queue' = Tail(job_queue)
      /\ UNCHANGED <<main, num_jobs, next_job, freed>>
  BY DEF Advance, Running
<1>2. job_queue \in Seq(Nat) /\ pc \in [Threads -> ThreadStates]
  BY DEF TypeOK
<1>3. Left > 0 /\ Left' = Left - 1
  BY <1>1, <1>2 DEF Left
<1>4. next_job[t] = M - Left
  <2>1. next_job[t] = Head(job_queue) /\ Head(job_queue) = job_queue[1]
    BY <1>1, <1>2 DEF Knows
  <2>2. M \in Nat /\ Left \in Nat
    BY <1>2, Made, Constants DEF TypeOK, M, Left
  <2>3. job_queue[1] = (M - Left) + (1 - 1)
    BY <1>1, <1>3, <2>2 DEF Places, Ordered
  <2> QED
    BY <2>1, <2>2, <2>3
<1>5. next_job[t] \in Nat
  BY <1>1, <1>2 DEF Knows
<1>6. t \notin Holding /\ Holding' = Holding \cup {t}
  BY <1>1, <1>2, <1>5, Constants DEF Holding, StaleLinks
<1> QED
  BY <1>1, <1>3, <1>4, <1>6 DEF M

LEMMA FreeMoves ==
  ASSUME Inside, NEW t \in Threads, Free(t)
  PROVE  /\ main # "init" /\ main' # "init" /\ UNCHANGED <<num_jobs, next_job, job_queue>>
         /\ t \in Holding /\ Holding' = Holding \ {t}
         /\ freed' = freed \cup {next_job[t]}
<1> USE DEF Inside
<1>1. /\ pc[t] = "free" /\ pc' = [pc EXCEPT ![t] = "loop"] /\ main = "create"
      /\ freed' = freed \cup {next_job[t]}
      /\ UNCHANGED <<main, num_jobs, next_job, job_queue>>
  BY DEF Free, Running
<1>2. next_job[t] \in Nat /\ pc \in [Threads -> ThreadStates]
  BY <1>1 DEF TypeOK, Knows
<1> QED
  BY <1>1, <1>2, Constants DEF Holding, StaleLinks

LEMMA FiniteSets == ASSUME TypeOK, Taken PROVE IsFiniteSet(Holding) /\ IsFiniteSet(freed)
<1>1. Holding \subseteq Threads
  BY DEF Holding
<1>2. M - Left - 1 \in Int
  BY Made, Constants DEF TypeOK, M, Left
<1>3. IsFiniteSet(0 .. (M - Left) - 1) /\ freed \subseteq 0 .. (M - Left) - 1
  BY <1>2, FS_Interval DEF Taken
<1> QED
  BY <1>1, <1>3, Constants, FS_Subset

LEMMA PlacesStep == Inside /\ Places /\ [Next]_vars => Places'
<1> SUFFICES ASSUME Inside, Places, [Next]_vars PROVE Places'
  OBVIOUS
<1>numbers. M \in Nat /\ Left \in Nat
  BY Made, Constants DEF Inside, TypeOK, M, Left
<1>1. CASE InitJobs
  <2>1. num_jobs' = num_jobs /\ freed' = {} /\ job_queue' = [i \in 1 .. M |-> i - 1]
    BY <1>1 DEF InitJobs, Inside, Unstarted, M
  <2>2. Holding' = {}
    BY <1>1 DEF InitJobs, Inside, Unstarted, Holding
  <2>3. Left' = M /\ M' = M
    BY <1>numbers, <2>1, Built DEF Left, M
  <2>4. Ordered'
    BY <1>numbers, <2>1, <2>3 DEF Ordered
  <2>5. Apart'
    BY <2>2 DEF Apart
  <2>6. Taken'
    <3>1. Held' = {}
      BY <2>2 DEF Held
    <3>2. (M - Left)' = 0
      BY <1>numbers, <2>3
    <3> QED
      BY <2>1, <3>1, <3>2 DEF Taken
  <2>7. Counted'
    BY <1>numbers, <2>1, <2>2, <2>3, FS_EmptySet DEF Counted
  <2> QED
    BY <2>4, <2>5, <2>6, <2>7 DEF Places
<1>2. ASSUME NEW t \in Threads, Advance(t) PROVE Places'
  <2> DEFINE j == M - Left
  <2>1. /\ main # "init" /\ M' = M /\ UNCHANGED <<next_job, freed>>
        /\ next_job[t] = j /\ Left > 0 /\ Left' = Left - 1
        /\ t \notin Holding /\ Holding' = Holding \cup {t}
        /\ job_queue' = Tail(job_queue)
    BY <1>2, AdvanceMoves
  <2>2. Ordered /\ Apart /\ Taken /\ Counted
    BY <2>1 DEF Places
  <2>3. (M - Left)' = j + 1 /\ j \in Nat
    BY <1>numbers, <2>1, <2>2 DEF Ordered
  <2>4. Ordered'
    <3>1. \A i \in 1 .. Left - 1 : job_queue'[i] = job_queue[i + 1]
      BY <2>1 DEF Inside, TypeOK, Left
    <3>2. \A i \in 1 .. Left - 1 : job_queue'[i] = (M - Left) + i
      BY <1>numbers, <2>2, <3>1 DEF Ordered
    <3>3. Left' = Left - 1 /\ M' = M
      BY <2>1
    <3>4. Left' <= M' /\ 1 .. Left' = 1 .. Left - 1
      BY <1>numbers, <2>2, <3>3 DEF Ordered
    <3>5. \A i \in 1 .. Left - 1 : (M' - Left') + (i - 1) = (M - Left) + i
      BY ONLY <1>numbers, <3>3
    <3>6. \A i \in 1 .. Left' : job_queue'[i] = (M' - Left') + (i - 1)
      BY ONLY <3>2, <3>4, <3>5
    <3> QED
      BY ONLY <3>4, <3>6 DEF Ordered
  <2>5. Held' = Held \cup {j}
    BY <2>1 DEF Held
  <2>6. j \notin Held \cup freed
    BY <2>2, <2>3 DEF Taken
  <2>7. Apart'
    <3>1. \A u \in Holding : next_job[u] # j
      BY <2>6 DEF Held
    <3> QED
      BY <2>1, <2>2, <2>6, <3>1 DEF Apart
  <2>8. Taken'
    <3>1. 0 .. (M - Left)' - 1 = (0 .. j - 1) \cup {j}
      BY <2>3
    <3> QED
      BY <2>1, <2>2, <2>5, <3>1 DEF Taken
  <2>9. Counted'
    <3>1. IsFiniteSet(Holding) /\ IsFiniteSet(freed)
      BY <2>2, FiniteSets DEF Inside
    <3>2. Cardinality(Holding') = Cardinality(Holding) + 1
      BY <2>1, <3>1, FS_AddElement
    <3>3. Cardinality(Holding) \in Nat /\ Cardinality(freed) \in Nat
      BY <3>1, FS_CardinalityType
    <3> QED
      BY <2>1, <2>2, <2>3, <3>2, <3>3 DEF Counted
  <2> QED
    BY <2>4, <2>7, <2>8, <2>9 DEF Places
<1>3. ASSUME NEW t \in Threads, Free(t) PROVE Places'
  <2>1. /\ main # "init" /\ UNCHANGED <<num_jobs, next_job, job_queue>>
        /\ t \in Holding /\ Holding' = Holding \ {t}
        /\ freed' = freed \cup {next_job[t]}
    BY <1>3, FreeMoves
  <2>2. Ordered /\ Apart /\ Taken /\ Counted
    BY <2>1 DEF Places
  <2>3. M' = M /\ Left' = Left
    BY <2>1 DEF M, Left
  <2>4. Ordered'
    BY <2>1, <2>2, <2>3 DEF Ordered
  <2>5. Apart'
    BY <2>1, <2>2 DEF Apart
  <2>6. Taken'
    <3>1. Held' \cup freed' = Held \cup freed
      BY <2>1 DEF Held
    <3> QED
      BY <2>2, <2>3, <3>1 DEF Taken
  <2>7. Counted'
    <3>1. IsFiniteSet(Holding) /\ IsFiniteSet(freed)
      BY <2>2, FiniteSets DEF Inside
    <3>2. next_job[t] \notin freed
      BY <2>1, <2>2 DEF Apart
    <3>3. Cardinality(Holding') = Cardinality(Holding) - 1
      BY <2>1, <3>1, FS_RemoveElement
    <3>4. Cardinality(freed') = Cardinality(freed) + 1
      BY <2>1, <3>1, <3>2, FS_AddElement
    <3>5. Cardinality(Holding) \in Nat /\ Cardinality(freed) \in Nat
      BY <3>1, FS_CardinalityType
    <3> QED
      BY <2>2, <2>3, <3>3, <3>4, <3>5 DEF Counted
  <2> QED
    BY <2>4, <2>5, <2>6, <2>7 DEF Places
<1>4. CASE ~InitJobs /\ \A t \in Threads : ~Advance(t) /\ ~Free(t)
  <2>1. Quiet
    BY <1>4, QuietSteps
  <2>2. M' = M /\ Left' = Left /\ Held' = Held
    BY <2>1 DEF Quiet, M, Left, Held
  <2> QED
    BY <2>1, <2>2 DEF Quiet, Places, Ordered, Apart, Taken, Counted
<1> QED
  BY <1>1, <1>2, <1>3, <1>4

LEMMA PlacesInvariant == Spec => [](Inside /\ Places)
<1>1. Init => Places
  BY DEF Init, Places
<1> QED
  BY <1>1, InsideInit, InsideStep, PlacesStep, PTL DEF Spec

\* Every job is on the list, in one thread's hands or freed, and in one of these places.
THEOREM Accounted == Spec => []JobsAccountedFor
<1>1. Inside /\ Places => JobsAccountedFor
  <2> SUFFICES ASSUME Inside, Places, main # "init" PROVE JobsAccountedFor
    BY DEF JobsAccountedFor
  <2>1. Ordered /\ Taken /\ Counted /\ Elements(job_queue) = M - Left .. M - 1
    BY Listed DEF Places, Inside
  <2>2. M \in Nat /\ Left \in Nat /\ Left <= M
    BY <2>1, Made, Constants DEF Inside, TypeOK, M, Left, Ordered
  <2>3. 0 .. M - 1 = (M - Left .. M - 1) \cup (0 .. (M - Left) - 1)
    BY <2>2
  <2>4. 0 .. M - 1 = Elements(job_queue) \cup Held \cup freed
    BY <2>1, <2>3 DEF Taken
  <2>5. Cardinality(Holding) \in Nat /\ Cardinality(freed) \in Nat
    BY <2>1, FiniteSets, FS_CardinalityType DEF Inside
  <2>6. Left + Cardinality(Holding) + Cardinality(freed) = M
    BY <2>1, <2>2, <2>5 DEF Counted
  <2> QED
    BY <2>4, <2>6 DEF JobsAccountedFor, M, Left
<1> QED
  BY PlacesInvariant, <1>1, PTL

-----------------------------------------------------------------------------
(* The totals *)

Freeing == {t \in Threads : pc[t] = "free"}
Processed == freed \cup {next_job[t] : t \in Freeing}

Sums == /\ SumFunction(accum) = SumFunction([j \in Processed |-> j])
        /\ main = "exit" => /\ res = (M * (M - 1)) \div 2
                            /\ (printed = res) <=> (res <= IntMax)

\* A sum is printed as it is exactly when it is an int.
LEMMA PrintedAsIs ==
  ASSUME NEW x \in Nat
  PROVE  (AsInt(x) = x) <=> (x <= IntMax)
<1> DEFINE W == IntMax + 1
<1>1. W \in Nat /\ W > 0 /\ IntMax = W - 1
  BY JobQueueAssumption
<1> HIDE DEF W
<1>2. (x + W) % (2 * W) \in 0 .. (2 * W) - 1
  BY <1>1
<1>3. x < W => (x + W) % (2 * W) = x + W
  BY <1>1
<1>4. AsInt(x) = ((x + W) % (2 * W)) - W
  <2>1. x + IntMax + 1 = x + W
    BY <1>1
  <2> QED
    BY <2>1 DEF AsInt, W
<1> QED
  BY <1>1, <1>2, <1>3, <1>4

LEMMA ProcessedFinite ==
  ASSUME Inside, Places, main # "init"
  PROVE  IsFiniteSet(Processed) /\ Processed \subseteq Nat
<1>1. M - Left - 1 \in Int
  BY Made, Constants DEF Inside, TypeOK, M, Left
<1>2. ASSUME NEW t \in Freeing PROVE t \in Holding
  BY InHolding DEF Inside, Freeing, Knows
<1>3. Processed \subseteq 0 .. (M - Left) - 1
  BY <1>2 DEF Places, Taken, Held, Processed
<1>4. IsFiniteSet(0 .. (M - Left) - 1)
  BY <1>1, FS_Interval
<1>5. 0 .. (M - Left) - 1 \subseteq Nat
  BY <1>1
<1> QED
  BY <1>3, <1>4, <1>5, FS_Subset

\* process_job adds the job to the thread's cell, and to those that are processed, where it
\* was not.
LEMMA ProcessAdds ==
  ASSUME Inside, Places, Sums, NEW t \in Threads, ProcessJob(t)
  PROVE  (SumFunction(accum) = SumFunction([j \in Processed |-> j]))'
<1>1. /\ pc[t] = "work" /\ pc' = [pc EXCEPT ![t] = "free"] /\ main = "create"
      /\ accum' = [accum EXCEPT ![t] = accum[t] + next_job[t]]
      /\ UNCHANGED <<next_job, freed>>
  BY DEF ProcessJob, Running
<1>2. /\ pc \in [Threads -> ThreadStates] /\ accum \in [Threads -> Nat]
      /\ next_job[t] \in Nat /\ IsFiniteSet(Threads)
  BY <1>1, Constants DEF Inside, TypeOK, Knows
<1>3. t \in Holding /\ \A u \in Freeing : u \in Holding /\ u # t
  BY <1>1, <1>2, InHolding DEF Inside, Freeing, Knows
<1>4. next_job[t] \notin Processed
  BY <1>1, <1>3 DEF Places, Apart, Processed
<1>5. Processed' = Processed \cup {next_job[t]}
  <2>1. Freeing' = Freeing \cup {t}
    BY <1>1, <1>2 DEF Freeing
  <2> QED
    BY <1>1, <2>1 DEF Processed
<1>6. IsFiniteSet(Processed) /\ Processed \subseteq Nat
  BY <1>1, ProcessedFinite
<1>7. SumFunction([j \in Processed \cup {next_job[t]} |-> j])
        = SumFunction([j \in Processed |-> j]) + next_job[t]
  <2>1. Processed \subseteq Int /\ next_job[t] \in Int
    BY <1>2, <1>6
  <2> QED
    BY <1>4, <1>6, <2>1, SumOfIdentity, Zenon
<1>8. SumFunction(accum') = SumFunction(accum) - accum[t] + (accum[t] + next_job[t])
  <2> DEFINE v == accum[t] + next_job[t]
  <2>1. accum \in [Threads -> Int]
    BY <1>2
  <2>2. v \in Int
    BY <1>2
  <2>3. IsFiniteSet(Threads)
    BY <1>2
  <2> HIDE DEF v
  <2>4. SumFunction([accum EXCEPT ![t] = v]) = SumFunction(accum) - accum[t] + v
    BY <2>1, <2>2, <2>3, SumOfUpdate, Zenon
  <2> QED
    BY <1>1, <2>4 DEF v
<1>9. SumFunction(accum) \in Int /\ accum[t] \in Int
  <2>1. accum \in [Threads -> Int]
    BY <1>2
  <2> QED
    BY <1>2, <2>1, SumOfInts
<1>10. SumFunction(accum') = SumFunction(accum) + next_job[t]
  BY <1>2, <1>8, <1>9
<1> QED
  BY <1>5, <1>7, <1>10 DEF Sums

\* When all the threads have returned, they have processed all the jobs.
LEMMA JoinTotals ==
  ASSUME Inside, Places, Sums, JoinAndSum
  PROVE  Sums'
<1>1. /\ main = "create" /\ \A t \in Threads : pc[t] = "returned"
      /\ res' = SumFunction(accum) /\ printed' = AsInt(res')
      /\ UNCHANGED <<pc, num_jobs, job_queue, next_job, accum, freed>>
  BY DEF JoinAndSum
<1>2. Left = 0
  <2>1. job_queue = <<>>
    BY <1>1, JobQueueAssumption DEF Inside, Knows
  <2> QED
    BY <2>1 DEF Left
<1>3. Holding = {} /\ Freeing = {}
  BY <1>1 DEF Holding, Freeing
<1>4. M \in Nat
  BY Made, Constants DEF Inside, TypeOK, M
<1>5. Processed = 0 .. M - 1
  BY <1>1, <1>2, <1>3, <1>4 DEF Processed, Places, Taken, Held
<1>6. 2 * res' = M * (M - 1)
  BY <1>1, <1>4, <1>5, SumOfFirst DEF Sums
<1>7. res' \in Int
  <2>1. accum \in [Threads -> Int]
    BY DEF Inside, TypeOK
  <2> QED
    BY <1>1, <2>1, SumOfInts, Constants
<1>8. res' = (M * (M - 1)) \div 2
  BY <1>6, <1>7
<1>9. M' = M /\ Processed' = Processed
  BY <1>1 DEF M, Processed, Freeing
<1>10. (printed' = res') <=> (res' <= IntMax)
  <2>1. M - 1 \in Nat
    <3>1. num_jobs \in Int
      BY Constants DEF Inside, TypeOK
    <3>2. M >= 1
      BY <3>1, Made DEF M
    <3> QED
      BY <1>4, <3>2
  <2>2. M * (M - 1) >= 0
    BY <1>4, <2>1
  <2>3. res' \in Nat
    BY <1>6, <1>7, <2>2
  <2> QED
    BY <1>1, <2>3, PrintedAsIs
<1> QED
  BY <1>1, <1>8, <1>9, <1>10 DEF Sums

LEMMA SumsStep == Inside /\ Places /\ Sums /\ [Next]_vars => Sums'
<1> SUFFICES ASSUME Inside, Places, Sums, [Next]_vars PROVE Sums'
  OBVIOUS
<1>types. pc \in [Threads -> ThreadStates] /\ next_job \in [Threads -> Nat \cup StaleLinks]
  BY DEF Inside, TypeOK
<1>1. CASE InitJobs
  BY <1>1 DEF InitJobs, Sums, Processed, Freeing
<1>2. CASE JoinAndSum
  BY <1>2, JoinTotals
<1>3. ASSUME NEW t \in Threads, ProcessJob(t) PROVE Sums'
  <2>1. main # "exit" /\ main' = main
    BY <1>3 DEF ProcessJob, Running
  <2> QED
    BY <1>3, <2>1, ProcessAdds DEF Sums
<1>4. ASSUME NEW t \in Threads, Free(t) PROVE Sums'
  <2>1. /\ main # "exit" /\ main' = main /\ UNCHANGED <<accum, next_job>>
        /\ pc[t] = "free" /\ pc' = [pc EXCEPT ![t] = "loop"]
        /\ freed' = freed \cup {next_job[t]}
    BY <1>4 DEF Free, Running
  <2>2. Freeing' = Freeing \ {t} /\ t \in Freeing
    BY <1>types, <2>1 DEF Freeing
  <2>3. Processed' = Processed
    BY <2>1, <2>2 DEF Processed
  <2> QED
    BY <2>1, <2>3 DEF Sums
<1>5. ASSUME NEW t \in Threads,
             Create(t) \/ Lock(t) \/ ReadHead(t) \/ Advance(t) \/ FollowWildLink(t) \/ Unlock(t)
      PROVE  Sums'
  <2>1. /\ main # "exit" /\ main' # "exit" /\ UNCHANGED <<accum, freed>>
        /\ pc[t] # "free" /\ pc'[t] # "free"
        /\ \A u \in Threads : u # t => pc'[u] = pc[u] /\ next_job'[u] = next_job[u]
    BY <1>types, <1>5 DEF Create, Lock, ReadHead, Advance, FollowWildLink, Unlock, Running
  <2>2. Freeing' = Freeing /\ \A u \in Freeing : next_job'[u] = next_job[u]
    BY <2>1 DEF Freeing
  <2>3. Processed' = Processed
    BY <2>1, <2>2 DEF Processed
  <2> QED
    BY <2>1, <2>3 DEF Sums
<1>6. CASE Ended \/ UNCHANGED vars
  BY <1>6 DEF Ended, vars, Sums, Processed, Freeing, M
<1> QED
  BY <1>1, <1>2, <1>3, <1>4, <1>5, <1>6 DEF Next, Main, ThreadFunction

\* The threads' totals are together the factors of the jobs they have processed; what main()
\* finds is the sum of all the factors, and what it prints is that sum exactly when the sum
\* is an int (lines 104-111).
THEOREM Totals == Spec => []TotalMatchesWork
<1>1. Init => Sums
  <2> SUFFICES ASSUME Init PROVE Sums
    OBVIOUS
  <2>1. Processed = {}
    BY DEF Init, Processed, Freeing
  <2>2. SumFunction(accum) = 0
    BY SumOfZeros, Constants DEF Init
  <2>3. SumFunction([j \in Processed |-> j]) = 0
    BY <2>1, SumOfNone
  <2> QED
    BY <2>2, <2>3 DEF Init, Sums
<1>2. Sums => TotalMatchesWork
  BY DEF Sums, TotalMatchesWork, Processed, Freeing, M
<1> QED
  BY <1>1, <1>2, PlacesInvariant, SumsStep, PTL DEF Spec

-----------------------------------------------------------------------------
(* The refinement *)

PoolJobs == UNION {0 .. JobsMade(n) - 1 : n \in NumJobsArgs}
PoolHeld == [t \in Threads |-> IF t \in Holding THEN {next_job[t]} ELSE {}]

\* init_jobs submits all the jobs together.
LEMMA PoolSubmits == ASSUME Inside, InitJobs PROVE Pool!Submit(0 .. M - 1) /\ 0 .. M - 1 \in SUBSET PoolJobs
<1> USE DEF Inside
<1>1. M \in Nat /\ M >= 1 /\ num_jobs \in NumJobsArgs
  BY Made, Constants DEF TypeOK, M
<1>2. /\ job_queue = <<>> /\ freed = {} /\ \A t \in Threads : pc[t] = "unborn"
      /\ job_queue' = [i \in 1 .. M |-> i - 1]
      /\ UNCHANGED <<pc, next_job, freed>>
  BY DEF InitJobs, Unstarted, M
<1>3. Elements(job_queue) = {} /\ Holding = {} /\ Holding' = {}
  BY <1>2 DEF Elements, Holding
<1>4. Elements(job_queue)' = 0 .. M - 1
  <2>1. DOMAIN job_queue' = 1 .. M /\ \A i \in 1 .. M : job_queue'[i] = i - 1
    BY <1>1, <1>2
  <2>2. \A x \in 0 .. M - 1 : x + 1 \in 1 .. M /\ job_queue'[x + 1] = x
    BY <1>1, <2>1
  <2>3. \A i \in 1 .. M : job_queue'[i] \in 0 .. M - 1
    BY <1>1, <2>1
  <2> QED
    BY <2>1, <2>2, <2>3 DEF Elements
<1>5. PoolHeld = [t \in Threads |-> {}] /\ PoolHeld' = PoolHeld
  BY <1>3 DEF PoolHeld
<1>6. Pool!Submitted = {}
  BY <1>2, <1>3, <1>5 DEF Pool!Submitted, PoolHeld
<1>7. 0 \in 0 .. M - 1
  BY <1>1
<1>8. 0 .. M - 1 \in SUBSET PoolJobs
  BY <1>1 DEF PoolJobs, M
<1> QED
  BY <1>2, <1>3, <1>4, <1>5, <1>6, <1>7, <1>8 DEF Pool!Submit, PoolHeld

LEMMA PoolTakes ==
  ASSUME Inside, Places, NEW t \in Threads, Advance(t)
  PROVE  \E j \in PoolJobs : Pool!Take(t, j)
<1> DEFINE j == M - Left
<1>1. /\ main # "init" /\ M' = M /\ UNCHANGED <<next_job, freed>>
      /\ next_job[t] = j /\ Left > 0 /\ Left' = Left - 1
      /\ t \notin Holding /\ Holding' = Holding \cup {t}
  BY AdvanceMoves
<1>2. Ordered /\ TypeOK /\ Places' /\ TypeOK'
  BY <1>1, PlacesStep, InsideStep DEF Places, Inside, Next, ThreadFunction
<1>3. Ordered' /\ num_jobs \in NumJobsArgs
  BY <1>1, <1>2, AdvanceMoves DEF Places, TypeOK
<1>4. Elements(job_queue) = j .. M - 1 /\ Elements(job_queue)' = (M - Left)' .. (M - 1)'
  <2>1. Elements(job_queue) = M - Left .. M - 1
    BY <1>2, Listed
  <2>2. (Elements(job_queue) = M - Left .. M - 1)'
    BY <1>2, <1>3, Listed, PTL
  <2> QED
    BY <2>1, <2>2
<1>5. M \in Nat /\ Left \in Nat /\ Left <= M
  BY <1>2, Made, Constants DEF TypeOK, M, Left, Ordered
<1>6. Elements(job_queue)' = Elements(job_queue) \ {j} /\ j \in Elements(job_queue)
  <2>1. (M - Left)' = j + 1 /\ (M - 1)' = M - 1
    BY <1>1, <1>5
  <2>2. j \in Nat /\ j <= M - 1
    BY <1>1, <1>5
  <2> QED
    BY <1>4, <1>5, <2>1, <2>2
<1>7. j \in PoolJobs
  BY <1>1, <1>3, <1>5 DEF PoolJobs, M
<1>8. PoolHeld[t] = {} /\ PoolHeld' = [PoolHeld EXCEPT ![t] = {j}]
  BY <1>1 DEF PoolHeld
<1>9. PICK n \in PoolJobs : n = j
  BY <1>7
<1>10. Pool!Take(t, n)
  BY <1>1, <1>6, <1>8, <1>9 DEF Pool!Take, PoolHeld
<1> QED
  BY <1>10

LEMMA PoolFinishes ==
  ASSUME Inside, Places, NEW t \in Threads, Free(t)
  PROVE  \E j \in PoolJobs : Pool!Finish(t, j)
<1>1. /\ main # "init" /\ UNCHANGED <<num_jobs, next_job, job_queue>>
      /\ t \in Holding /\ Holding' = Holding \ {t}
      /\ freed' = freed \cup {next_job[t]}
  BY FreeMoves
<1>2. M \in Nat /\ Left \in Nat /\ num_jobs \in NumJobsArgs
  BY Made, Constants DEF Inside, TypeOK, M, Left
<1>3. next_job[t] \in 0 .. (M - Left) - 1
  BY <1>1 DEF Places, Taken, Held
<1>4. next_job[t] \in 0 .. M - 1
  BY <1>2, <1>3
<1>5. next_job[t] \in PoolJobs
  BY <1>2, <1>4 DEF PoolJobs, M
<1>6. next_job[t] \in PoolHeld[t] /\ PoolHeld' = [PoolHeld EXCEPT ![t] = {}]
  BY <1>1 DEF PoolHeld
<1>7. PICK j \in PoolJobs : j = next_job[t]
  BY <1>5
<1>8. Pool!Finish(t, j)
  BY <1>1, <1>6, <1>7 DEF Pool!Finish, PoolHeld
<1> QED
  BY <1>8

\* The threads implement the job pool of JobPool (its safety half): init_jobs submits the
\* jobs, each is taken off the list by one thread only, and that thread finishes it.
THEOREM Refinement == Spec => ImplementsJobPool
<1>1. Init => Pool!Init
  <2> SUFFICES ASSUME Init PROVE Pool!Init
    OBVIOUS
  <2>1. Elements(job_queue) = {} /\ freed = {} /\ Holding = {}
    BY DEF Init, Elements, Holding
  <2> QED
    BY <2>1 DEF Pool!Init
<1>2. Inside /\ Places /\ [Next]_vars => [Pool!Next]_Pool!vars
  <2> SUFFICES ASSUME Inside, Places, [Next]_vars PROVE [Pool!Next]_Pool!vars
    OBVIOUS
  <2>1. CASE InitJobs
    BY <2>1, PoolSubmits DEF Pool!Next, PoolJobs
  <2>2. ASSUME NEW t \in Threads, Advance(t) PROVE Pool!Next
    BY <2>2, PoolTakes DEF Pool!Next, PoolJobs
  <2>3. ASSUME NEW t \in Threads, Free(t) PROVE Pool!Next
    BY <2>3, PoolFinishes DEF Pool!Next, PoolJobs
  <2>4. CASE ~InitJobs /\ \A t \in Threads : ~Advance(t) /\ ~Free(t)
    <3>1. Quiet
      BY <2>4, QuietSteps
    <3>2. PoolHeld' = PoolHeld /\ Elements(job_queue)' = Elements(job_queue)
      BY <3>1 DEF Quiet, PoolHeld, Elements
    <3> QED
      BY <3>1, <3>2 DEF Quiet, Pool!vars, PoolHeld
  <2> QED
    BY <2>1, <2>2, <2>3, <2>4
<1> QED
  BY PlacesInvariant, <1>1, <1>2, PTL DEF Spec, ImplementsJobPool, Pool!SafeSpec
=============================================================================
