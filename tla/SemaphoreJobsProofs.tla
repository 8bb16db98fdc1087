------------------------ MODULE SemaphoreJobsProofs ------------------------
(***************************************************************************)
(* Theorems about SemaphoreJobs, for any sets of producers and consumers.  *)
(*                                                                         *)
(* The invariants are proved in layers, each with the help of those before *)
(* it: who holds the mutex and what a thread inside it knows (Inside);     *)
(* one token per job (TokensMatchJobs); the order of the list (Ordered);   *)
(* where each job is (JobsAccountedFor).                                   *)
(***************************************************************************)
EXTENDS SemaphoreJobs, FiniteSetTheorems, TLAPS

USE SemaphoreJobsAssumption

\* The threads between their lock and their unlock.
Critical(t) == pc[t] \in {"link", "publish", "post", "read_head", "advance", "unlock"}

\* What a thread inside the mutex knows of the list: nobody has changed it since it
\* looked.  A consumer that got past its pop holds a job.
Inside ==
  /\ \A t \in Threads : Critical(t) <=> lock_job = t
  /\ \A p \in Producers : pc[p] = "publish" =>
        /\ next[p] = job_queue
        /\ new_job[p] \in Nat
        /\ job_counter = new_job[p] + 1
  /\ \A c \in Consumers :
        /\ pc[c] = "advance" =>
              this_job[c] = IF job_queue = <<>> THEN NoJob ELSE Head(job_queue)
        /\ pc[c] \in {"unlock", "report"} => this_job[c] \in Nat

\* The base layer: types, the mutex, and what its owner knows, hold in the initial
\* state and are kept by every step of a producer, of a consumer and of main().
LEMMA BaseInit == Init => TypeOK /\ Inside
  BY DEF Init, TypeOK, Inside, Critical, Threads, ProducerStates, ConsumerStates

LEMMA BaseProducer ==
  ASSUME TypeOK, Inside, NEW p \in Producers, Producer(p)
  PROVE  TypeOK' /\ Inside'
<1> USE DEF TypeOK, Inside, Critical, Threads, ProducerStates, ConsumerStates,
            Goto, list, locals
<1>1. CASE Allocate(p)
  BY <1>1 DEF Allocate
<1>2. CASE ProducerReturns(p)
  BY <1>2 DEF ProducerReturns
<1>3. CASE ProducerLocks(p)
  BY <1>3 DEF ProducerLocks, Lock
<1>4. CASE Link(p)
  BY <1>4 DEF Link
<1>5. CASE Publish(p)
  BY <1>5 DEF Publish
<1>6. CASE Post(p)
  BY <1>6 DEF Post
<1>7. CASE ProducerUnlocks(p)
  BY <1>7 DEF ProducerUnlocks, Unlock
<1>8. CASE Announce(p)
  BY <1>8 DEF Announce
<1>q. QED
  BY <1>1, <1>2, <1>3, <1>4, <1>5, <1>6, <1>7, <1>8 DEF Producer

LEMMA BaseConsumer ==
  ASSUME TypeOK, Inside, NEW c \in Consumers, Consumer(c)
  PROVE  TypeOK' /\ Inside'
<1> USE DEF TypeOK, Inside, Critical, Threads, ProducerStates, ConsumerStates,
            Goto, list, locals
<1>1. CASE ClaimToken(c)
  <2>1. /\ pc[c] \in {"wait", "blocked"}
        /\ pc' = [pc EXCEPT ![c] = "claimed"]
        /\ job_q_count' \in Nat
        /\ UNCHANGED <<main, lock_job, list, locals>>
    BY <1>1 DEF ClaimToken
  <2>2. TypeOK'
    BY <2>1
  <2>3. Inside'
    BY <2>1
  <2>q. QED
    BY <2>2, <2>3
<1>2. CASE Block(c)
  BY <1>2 DEF Block
<1>3. CASE GiveUp(c)
  BY <1>3 DEF GiveUp
<1>4. CASE ConsumerLocks(c)
  BY <1>4 DEF ConsumerLocks, Lock
<1>5. CASE ReadHead(c)
  BY <1>5 DEF ReadHead
<1>6. CASE Advance(c)
  BY <1>6 DEF Advance
<1>7. CASE ConsumerUnlocks(c)
  BY <1>7 DEF ConsumerUnlocks, Unlock
<1>8. CASE Free(c)
  BY <1>8 DEF Free
<1>q. QED
  BY <1>1, <1>2, <1>3, <1>4, <1>5, <1>6, <1>7, <1>8 DEF Consumer

LEMMA BaseMain ==
  ASSUME TypeOK, Inside, Main
  PROVE  TypeOK' /\ Inside'
<1> USE DEF TypeOK, Inside, Critical, Threads, ProducerStates, ConsumerStates,
            Goto, list, locals, MainKeeps
<1>1. ASSUME NEW c \in Consumers, CreateConsumer(c) PROVE TypeOK' /\ Inside'
  <2>1. TypeOK'
    BY <1>1 DEF CreateConsumer
  <2>2. Inside'
    BY <1>1 DEF CreateConsumer
  <2>q. QED
    BY <2>1, <2>2
<1>2. ASSUME NEW p \in Producers, CreateProducer(p) PROVE TypeOK' /\ Inside'
  <2>1. TypeOK'
    BY <1>2 DEF CreateProducer
  <2>2. Inside'
    BY <1>2 DEF CreateProducer
  <2>q. QED
    BY <2>1, <2>2
<1>3. CASE Sleep \/ JoinProducers \/ JoinConsumers
  BY <1>3 DEF Sleep, JoinProducers, JoinConsumers
<1>q. QED
  BY <1>1, <1>2, <1>3 DEF Main

\* Every variable keeps its type, and the mutex does its work: at most one thread is
\* inside, and nobody else moves the list under it.
THEOREM Base == Spec => [](TypeOK /\ Inside)
<1>1. TypeOK /\ Inside /\ [Next]_vars => (TypeOK /\ Inside)'
  <2> SUFFICES ASSUME TypeOK, Inside, [Next]_vars
               PROVE  TypeOK' /\ Inside'
    OBVIOUS
  <2>1. CASE Exited \/ UNCHANGED vars
    BY <2>1 DEF Exited, vars, TypeOK, Inside, Critical
  <2>q. QED
    BY <2>1, BaseProducer, BaseConsumer, BaseMain DEF Next
<1>q. QED
  BY BaseInit, <1>1, PTL DEF Spec

-----------------------------------------------------------------------------
(* One token per job *)

\* Adding a member to a finite set and removing one change its size by one; the sets
\* of threads are finite.
LEMMA Sizes ==
  ASSUME NEW S, IsFiniteSet(S), NEW x
  PROVE  /\ Cardinality(S) \in Nat
         /\ x \notin S => Cardinality(S \cup {x}) = Cardinality(S) + 1
         /\ x \in S => Cardinality(S \ {x}) = Cardinality(S) - 1
  BY FS_CardinalityType, FS_AddElement, FS_RemoveElement

LEMMA ClaimedPostingFinite == IsFiniteSet(Claimed) /\ IsFiniteSet(Posting)
  BY FS_Subset DEF Claimed, Posting

LEMMA TokenTypes ==
  ASSUME TypeOK
  PROVE  /\ Cardinality(Claimed) \in Nat /\ Cardinality(Posting) \in Nat
         /\ Len(job_queue) \in Nat /\ job_q_count \in Nat
  BY ClaimedPostingFinite, FS_CardinalityType DEF TypeOK

LEMMA TokensInit == Init => TokensMatchJobs
<1> SUFFICES ASSUME Init PROVE TokensMatchJobs
  OBVIOUS
<1>1. Claimed = {} /\ Posting = {}
  BY DEF Init, Claimed, Posting, Threads
<1>q. QED
  BY <1>1, FS_EmptySet DEF Init, TokensMatchJobs

LEMMA TokensProducer ==
  ASSUME TypeOK, Inside, TokensMatchJobs, NEW p \in Producers, Producer(p)
  PROVE  TokensMatchJobs'
<1>1. Claimed' = Claimed
  BY DEF TypeOK, Producer, Allocate, ProducerReturns, ProducerLocks, Link, Publish, Post,
         ProducerUnlocks, Announce, Lock, Unlock, Goto, Claimed, Threads
<1>2. CASE Publish(p)
  <2>1. Posting' = Posting \cup {p} /\ p \notin Posting
    BY <1>2 DEF TypeOK, Publish, Goto, Posting, Threads
  <2>2. Len(job_queue') = Len(job_queue) + 1 /\ job_q_count' = job_q_count
    BY <1>2 DEF TypeOK, Inside, Publish, Goto, locals
  <2>3. Cardinality(Posting') = Cardinality(Posting) + 1
    BY <2>1, ClaimedPostingFinite, Sizes
  <2>q. QED
    BY <1>1, <2>2, <2>3, TokenTypes DEF TokensMatchJobs
<1>3. CASE Post(p)
  <2>1. Posting' = Posting \ {p} /\ p \in Posting
    BY <1>3 DEF TypeOK, Post, Goto, Posting, Threads
  <2>2. job_queue' = job_queue /\ job_q_count' = job_q_count + 1
    BY <1>3 DEF Post, list
  <2>3. Cardinality(Posting') = Cardinality(Posting) - 1
    BY <2>1, ClaimedPostingFinite, Sizes
  <2>q. QED
    BY <1>1, <2>2, <2>3, TokenTypes DEF TokensMatchJobs
<1>4. CASE ~Publish(p) /\ ~Post(p)
  <2>1. Posting' = Posting
    BY <1>4 DEF TypeOK, Producer, Allocate, ProducerReturns, ProducerLocks, Link,
                ProducerUnlocks, Announce, Lock, Unlock, Goto, Posting, Threads
  <2>2. job_queue' = job_queue /\ job_q_count' = job_q_count
    BY <1>4 DEF Producer, Allocate, ProducerReturns, ProducerLocks, Link,
                ProducerUnlocks, Announce, Lock, Unlock, list
  <2>q. QED
    BY <1>1, <2>1, <2>2 DEF TokensMatchJobs
<1>q. QED
  BY <1>2, <1>3, <1>4

LEMMA TokensConsumer ==
  ASSUME TypeOK, Inside, TokensMatchJobs, NEW c \in Consumers, Consumer(c)
  PROVE  TokensMatchJobs'
<1>1. Posting' = Posting
  BY DEF TypeOK, Consumer, ClaimToken, Block, GiveUp, ConsumerLocks, ReadHead, Advance,
         ConsumerUnlocks, Free, Lock, Unlock, Goto, Posting, Threads
<1>2. CASE ClaimToken(c)
  <2>1. Claimed' = Claimed \cup {c} /\ c \notin Claimed
    BY <1>2 DEF TypeOK, ClaimToken, Goto, Claimed, Threads
  <2>2. job_queue' = job_queue /\ job_q_count' = job_q_count - 1
    BY <1>2 DEF ClaimToken, list
  <2>3. Cardinality(Claimed') = Cardinality(Claimed) + 1
    BY <2>1, ClaimedPostingFinite, Sizes
  <2>q. QED
    BY <1>1, <2>2, <2>3, TokenTypes DEF TokensMatchJobs
<1>3. CASE Advance(c)
  <2>1. Claimed' = Claimed \ {c} /\ c \in Claimed
    BY <1>3 DEF TypeOK, Advance, Goto, Claimed, Threads
  <2>2. Len(job_queue') = Len(job_queue) - 1 /\ job_q_count' = job_q_count
    BY <1>3 DEF TypeOK, Advance
  <2>3. Cardinality(Claimed') = Cardinality(Claimed) - 1
    BY <2>1, ClaimedPostingFinite, Sizes
  <2>q. QED
    BY <1>1, <2>2, <2>3, TokenTypes DEF TokensMatchJobs
<1>4. CASE ~ClaimToken(c) /\ ~Advance(c)
  <2>1. Claimed' = Claimed
    BY <1>4 DEF TypeOK, Consumer, Block, GiveUp, ConsumerLocks, ReadHead,
                ConsumerUnlocks, Free, Lock, Unlock, Goto, Claimed, Threads
  <2>2. job_queue' = job_queue /\ job_q_count' = job_q_count
    BY <1>4 DEF Consumer, Block, GiveUp, ConsumerLocks, ReadHead,
                ConsumerUnlocks, Free, Lock, Unlock, list
  <2>q. QED
    BY <1>1, <2>1, <2>2 DEF TokensMatchJobs
<1>q. QED
  BY <1>2, <1>3, <1>4

LEMMA TokensMain ==
  ASSUME TypeOK, TokensMatchJobs, Main
  PROVE  TokensMatchJobs'
<1>1. Claimed' = Claimed /\ Posting' = Posting
  BY DEF TypeOK, Main, CreateConsumer, CreateProducer, Sleep, JoinProducers, JoinConsumers,
         Goto, Claimed, Posting, Threads
<1>2. job_queue' = job_queue /\ job_q_count' = job_q_count
  BY DEF Main, CreateConsumer, CreateProducer, Sleep, JoinProducers, JoinConsumers,
         MainKeeps, list
<1>q. QED
  BY <1>1, <1>2 DEF TokensMatchJobs

\* Every job on the list is backed by exactly one token: in the semaphore, in the hands
\* of a consumer on its way to the list, or about to be posted.
THEOREM Tokens == Spec => []TokensMatchJobs
<1>1. TypeOK /\ Inside /\ TokensMatchJobs /\ [Next]_vars => TokensMatchJobs'
  <2> SUFFICES ASSUME TypeOK, Inside, TokensMatchJobs, [Next]_vars
               PROVE  TokensMatchJobs'
    OBVIOUS
  <2>1. CASE Exited \/ UNCHANGED vars
    BY <2>1 DEF Exited, vars, TokensMatchJobs, Claimed, Posting
  <2>q. QED
    BY <2>1, TokensProducer, TokensConsumer, TokensMain DEF Next
<1>q. QED
  BY Base, TokensInit, <1>1, PTL DEF Spec

\* A consumer that holds a token always finds a job: the counting argument behind
\* lines 74-75.
LEMMA TokenMeansJob ==
  ASSUME TypeOK, TokensMatchJobs, NEW c \in Claimed
  PROVE  job_queue # <<>>
<1>1. Cardinality(Claimed) \in Nat /\ Cardinality(Posting) \in Nat
  BY ClaimedPostingFinite, FS_CardinalityType
<1>2. Cardinality(Claimed) # 0
  BY ClaimedPostingFinite, FS_EmptySet
<1>q. QED
  BY <1>1, <1>2 DEF TypeOK, TokensMatchJobs

\* No consumer ever follows a NULL head, and the head it read is the one it removes.
THEOREM Pops == Spec => []PopFindsJob
<1>1. TypeOK /\ Inside /\ TokensMatchJobs => PopFindsJob
  BY TokenMeansJob DEF Inside, PopFindsJob, Claimed
<1>q. QED
  BY Base, Tokens, <1>1, PTL

-----------------------------------------------------------------------------
(* The order of the list *)

\* What putting a job in front of a list does, and taking the first one away.
LEMMA Push ==
  ASSUME NEW q \in Seq(Nat), NEW n \in Nat
  PROVE  /\ Len(<<n>> \o q) = Len(q) + 1
         /\ (<<n>> \o q)[1] = n
         /\ \A i \in 2 .. Len(q) + 1 : (<<n>> \o q)[i] = q[i - 1]
         /\ Elements(<<n>> \o q) = {n} \cup Elements(q)
<1> DEFINE r == <<n>> \o q
<1>1. /\ Len(r) = Len(q) + 1 /\ DOMAIN r = 1 .. Len(q) + 1 /\ DOMAIN q = 1 .. Len(q)
      /\ Len(q) \in Nat
  OBVIOUS
<1>2. r[1] = n /\ \A i \in 2 .. Len(q) + 1 : r[i] = q[i - 1]
  OBVIOUS
<1>3. \A i \in 1 .. Len(q) : r[i + 1] = q[i]
  OBVIOUS
<1>4. Elements(r) \subseteq {n} \cup Elements(q)
  BY <1>1, <1>2 DEF Elements
<1>5. {n} \cup Elements(q) \subseteq Elements(r)
  <2>1. n \in Elements(r)
    BY <1>1, <1>2 DEF Elements
  <2>2. ASSUME NEW i \in 1 .. Len(q) PROVE q[i] \in Elements(r)
    <3>1. i + 1 \in DOMAIN r
      BY <1>1
    <3>q. QED
      BY <3>1, <1>3 DEF Elements
  <2>q. QED
    BY <1>1, <2>1, <2>2 DEF Elements
<1>q. QED
  BY <1>1, <1>2, <1>4, <1>5

Decreasing(q) == \A i, j \in 1 .. Len(q) : i < j => q[i] > q[j]

LEMMA Pop ==
  ASSUME NEW q \in Seq(Nat), q # <<>>, Decreasing(q)
  PROVE  /\ Len(Tail(q)) = Len(q) - 1
         /\ \A i \in 1 .. Len(q) - 1 : Tail(q)[i] = q[i + 1]
         /\ Head(q) \in Elements(q)
         /\ Elements(Tail(q)) = Elements(q) \ {Head(q)}
<1> DEFINE r == Tail(q)
<1>1. /\ Len(r) = Len(q) - 1 /\ DOMAIN r = 1 .. Len(q) - 1 /\ DOMAIN q = 1 .. Len(q)
      /\ Len(q) \in Nat /\ Len(q) >= 1
  OBVIOUS
<1>2. \A i \in 1 .. Len(q) - 1 : r[i] = q[i + 1]
  OBVIOUS
<1>3. \A i \in 1 .. Len(q) : q[i] \in Nat
  OBVIOUS
<1>4. Head(q) = q[1] /\ q[1] \in Elements(q)
  BY <1>1 DEF Elements
<1>5. \A i \in 2 .. Len(q) : q[i] # q[1]
  BY <1>1, <1>3 DEF Decreasing
<1>6. Elements(r) \subseteq Elements(q) \ {q[1]}
  <2>1. ASSUME NEW i \in 1 .. Len(q) - 1 PROVE r[i] \in Elements(q) \ {q[1]}
    <3>1. i + 1 \in 2 .. Len(q)
      BY <1>1
    <3>q. QED
      BY <3>1, <1>1, <1>2, <1>5 DEF Elements
  <2>q. QED
    BY <2>1, <1>1 DEF Elements
<1>7. Elements(q) \ {q[1]} \subseteq Elements(r)
  <2>1. ASSUME NEW i \in 1 .. Len(q), i # 1 PROVE q[i] \in Elements(r)
    <3>1. i - 1 \in 1 .. Len(q) - 1 /\ (i - 1) + 1 = i
      BY <1>1, <2>1
    <3>2. r[i - 1] = q[i]
      BY <3>1, <1>2
    <3>q. QED
      BY <3>1, <3>2, <1>1 DEF Elements
  <2>q. QED
    BY <2>1, <1>1 DEF Elements
<1>q. QED
  BY <1>1, <1>2, <1>4, <1>6, <1>7

\* The indices on the list go down, and are below the next index to be given out and
\* below that of a job that is about to be published.
Ordered ==
  /\ Decreasing(job_queue)
  /\ \A i \in 1 .. Len(job_queue) : job_queue[i] < job_counter
  /\ \A p \in Producers : pc[p] = "publish" =>
        \A i \in 1 .. Len(job_queue) : job_queue[i] < new_job[p]

LEMMA OrderedInit == Init => Ordered
  BY DEF Init, Ordered, Decreasing, Threads

LEMMA OrderedProducer ==
  ASSUME TypeOK, Inside, Ordered, NEW p \in Producers, Producer(p)
  PROVE  Ordered'
<1>1. CASE Link(p)
  <2>1. /\ \A q \in Producers : pc'[q] = "publish" => q = p
        /\ new_job'[p] = job_counter /\ job_counter' = job_counter + 1
        /\ job_queue' = job_queue
    BY <1>1 DEF TypeOK, Inside, Critical, Link, Goto, Threads
  <2>q. QED
    BY <2>1 DEF TypeOK, Ordered, Decreasing
<1>2. CASE Publish(p)
  <2>1. /\ \A q \in Producers : pc'[q] # "publish"
        /\ job_queue' = <<new_job[p]>> \o job_queue
        /\ new_job[p] \in Nat /\ job_counter' = new_job[p] + 1
        /\ \A i \in 1 .. Len(job_queue) : job_queue[i] < new_job[p]
    BY <1>2 DEF TypeOK, Inside, Ordered, Critical, Publish, Goto, Threads
  <2>2. /\ Len(job_queue') = Len(job_queue) + 1
        /\ job_queue'[1] = new_job[p]
        /\ \A i \in 2 .. Len(job_queue) + 1 : job_queue'[i] = job_queue[i - 1]
    BY <2>1, Push DEF TypeOK
  <2>3. /\ Len(job_queue) \in Nat
        /\ \A i \in 1 .. Len(job_queue) : job_queue[i] \in Nat
    BY DEF TypeOK
  <2>4. \A i \in 2 .. Len(job_queue') :
           /\ i - 1 \in 1 .. Len(job_queue)
           /\ job_queue'[i] \in Nat
           /\ job_queue'[i] < new_job[p]
    BY <2>1, <2>2, <2>3
  <2>5. \A i \in 1 .. Len(job_queue') : job_queue'[i] < job_counter'
    BY <2>1, <2>2, <2>3, <2>4
  <2>6. ASSUME NEW i \in 1 .. Len(job_queue'), NEW j \in 1 .. Len(job_queue'), i < j
        PROVE  job_queue'[i] > job_queue'[j]
    <3>1. j \in 2 .. Len(job_queue')
      BY <2>2, <2>3, <2>6
    <3>2. CASE i = 1
      BY <3>1, <3>2, <2>1, <2>2, <2>4
    <3>3. CASE i # 1
      <4>1. i \in 2 .. Len(job_queue') /\ i - 1 < j - 1
        BY <3>3, <2>2, <2>3, <2>6
      <4>q. QED
        BY <4>1, <3>1, <2>2, <2>4 DEF Ordered, Decreasing
    <3>q. QED
      BY <3>2, <3>3
  <2>q. QED
    BY <2>1, <2>5, <2>6 DEF Ordered, Decreasing
<1>3. CASE ~Link(p) /\ ~Publish(p)
  <2>1. /\ \A q \in Producers : pc'[q] = "publish" => pc[q] = "publish"
        /\ UNCHANGED <<job_queue, job_counter, new_job>>
    BY <1>3 DEF TypeOK, Producer, Allocate, ProducerReturns, ProducerLocks, Post,
                ProducerUnlocks, Announce, Lock, Unlock, Goto, list, locals, Threads
  <2>q. QED
    BY <2>1 DEF Ordered, Decreasing
<1>q. QED
  BY <1>1, <1>2, <1>3

LEMMA OrderedConsumer ==
  ASSUME TypeOK, Inside, Ordered, NEW c \in Consumers, Consumer(c)
  PROVE  Ordered'
<1>1. /\ \A q \in Producers : pc'[q] = "publish" => pc[q] = "publish"
      /\ UNCHANGED <<job_counter, new_job>>
  BY DEF TypeOK, Consumer, ClaimToken, Block, GiveUp, ConsumerLocks, ReadHead, Advance,
         ConsumerUnlocks, Free, Lock, Unlock, Goto, list, locals, Threads
<1>2. CASE Advance(c)
  <2>1. /\ job_queue \in Seq(Nat) /\ job_queue # <<>>
        /\ job_queue' = Tail(job_queue) /\ Decreasing(job_queue)
    BY <1>2 DEF TypeOK, Advance, Ordered
  <2>2. /\ Len(job_queue') = Len(job_queue) - 1
        /\ \A i \in 1 .. Len(job_queue) - 1 : job_queue'[i] = job_queue[i + 1]
    BY <2>1, Pop
  <2>3. \A i \in 1 .. Len(job_queue') :
           i + 1 \in 1 .. Len(job_queue) /\ job_queue'[i] = job_queue[i + 1]
    BY <2>1, <2>2
  <2>4. Decreasing(job_queue')
    BY <2>1, <2>3 DEF Decreasing
  <2>q. QED
    BY <1>1, <2>3, <2>4 DEF Ordered
<1>3. CASE ~Advance(c)
  <2>1. job_queue' = job_queue
    BY <1>3 DEF Consumer, ClaimToken, Block, GiveUp, ConsumerLocks, ReadHead,
                ConsumerUnlocks, Free, Lock, Unlock, list
  <2>q. QED
    BY <1>1, <2>1 DEF Ordered, Decreasing
<1>q. QED
  BY <1>2, <1>3

LEMMA OrderedMain ==
  ASSUME TypeOK, Ordered, Main
  PROVE  Ordered'
<1>1. /\ \A q \in Producers : pc'[q] = "publish" => pc[q] = "publish"
      /\ UNCHANGED <<job_queue, job_counter, new_job>>
  BY DEF TypeOK, Main, CreateConsumer, CreateProducer, Sleep, JoinProducers, JoinConsumers,
         MainKeeps, Goto, list, locals, Threads
<1>q. QED
  BY <1>1 DEF Ordered, Decreasing

\* The list is a stack of jobs whose indices go down.
THEOREM Order == Spec => [](Ordered /\ NewestFirst)
<1>1. TypeOK /\ Inside /\ Ordered /\ [Next]_vars => Ordered'
  <2> SUFFICES ASSUME TypeOK, Inside, Ordered, [Next]_vars
               PROVE  Ordered'
    OBVIOUS
  <2>1. CASE Exited \/ UNCHANGED vars
    BY <2>1 DEF Exited, vars, Ordered, Decreasing
  <2>q. QED
    BY <2>1, OrderedProducer, OrderedConsumer, OrderedMain DEF Next
<1>2. Ordered => NewestFirst
  BY DEF Ordered, Decreasing, NewestFirst
<1>q. QED
  BY Base, OrderedInit, <1>1, <1>2, PTL DEF Spec

-----------------------------------------------------------------------------
(* Where each job is *)

LEMMA PlacesInit == Init => JobsAccountedFor
<1> SUFFICES ASSUME Init PROVE JobsAccountedFor
  OBVIOUS
<1>1. Unpublished = {} /\ Holding = {}
  BY DEF Init, Unpublished, Holding, Threads
<1>2. Elements(job_queue) = {} /\ freed = {} /\ 0 .. job_counter - 1 = {}
  BY DEF Init, Elements
<1>q. QED
  BY <1>1, <1>2 DEF JobsAccountedFor, Held

\* Only the owner of the mutex can be about to publish.
LEMMA OneUnpublished ==
  ASSUME Inside, NEW p \in Producers, Critical(p)
  PROVE  Unpublished = IF pc[p] = "publish" THEN {new_job[p]} ELSE {}
  BY DEF Inside, Critical, Unpublished, Threads

LEMMA PlacesProducer ==
  ASSUME TypeOK, Inside, Ordered, JobsAccountedFor,
         TypeOK', Inside', NEW p \in Producers, Producer(p)
  PROVE  JobsAccountedFor'
<1>1. /\ Holding' = Holding
      /\ UNCHANGED <<this_job, freed>>
  BY DEF TypeOK, Producer, Allocate, ProducerReturns, ProducerLocks, Link, Publish, Post,
         ProducerUnlocks, Announce, Lock, Unlock, Goto, list, locals, Holding, Threads
<1>2. Held' = Held
  BY <1>1 DEF Held
<1>3. CASE Link(p)
  <2>1. Unpublished = {}
    BY <1>3, OneUnpublished DEF Link, Goto, Critical
  <2>2. Unpublished' = {job_counter}
    <3>1. \A q \in Producers : pc'[q] = "publish" <=> q = p
      BY <1>3 DEF TypeOK, Inside, Critical, Link, Goto, Threads
    <3>2. new_job'[p] = job_counter
      BY <1>3 DEF TypeOK, Link
    <3>q. QED
      BY <3>1, <3>2 DEF Unpublished
  <2>3. job_queue' = job_queue /\ job_counter' = job_counter + 1
    BY <1>3 DEF Link
  <2>4. /\ 0 .. job_counter' - 1 = (0 .. job_counter - 1) \cup {job_counter}
        /\ job_counter \notin 0 .. job_counter - 1
    BY <2>3 DEF TypeOK
  <2>5. Elements(job_queue') = Elements(job_queue)
    BY <2>3
  <2>q. QED
    BY <1>1, <1>2, <2>1, <2>2, <2>4, <2>5 DEF JobsAccountedFor
<1>4. CASE Publish(p)
  <2>1. Unpublished = {new_job[p]} /\ Unpublished' = {}
    <3>1. Unpublished = {new_job[p]}
      BY <1>4, OneUnpublished DEF Publish, Goto, Critical
    <3>2. \A q \in Producers : pc'[q] # "publish"
      BY <1>4 DEF TypeOK, Inside, Critical, Publish, Goto, Threads
    <3>q. QED
      BY <3>1, <3>2 DEF Unpublished
  <2>2. Elements(job_queue') = {new_job[p]} \cup Elements(job_queue)
    <3>1. job_queue' = <<new_job[p]>> \o job_queue /\ new_job[p] \in Nat
      BY <1>4 DEF Inside, Publish, Goto
    <3>q. QED
      BY <3>1, Push DEF TypeOK
  <2>3. job_counter' = job_counter
    BY <1>4 DEF Publish
  <2>q. QED
    BY <1>1, <1>2, <2>1, <2>2, <2>3 DEF JobsAccountedFor
<1>5. CASE ~Link(p) /\ ~Publish(p)
  <2>1. /\ \A q \in Producers : pc'[q] = "publish" <=> pc[q] = "publish"
        /\ UNCHANGED <<job_queue, job_counter, new_job>>
    BY <1>5 DEF TypeOK, Producer, Allocate, ProducerReturns, ProducerLocks, Post,
                ProducerUnlocks, Announce, Lock, Unlock, Goto, list, locals, Threads
  <2>2. Unpublished' = Unpublished /\ Elements(job_queue') = Elements(job_queue)
    BY <2>1 DEF Unpublished
  <2>q. QED
    BY <1>1, <1>2, <2>1, <2>2 DEF JobsAccountedFor
<1>q. QED
  BY <1>3, <1>4, <1>5

\* What a pop and a free do to the four places.
LEMMA PopMoves ==
  ASSUME TypeOK, Inside, Ordered, NEW c \in Consumers, Advance(c)
  PROVE  /\ this_job[c] \in Elements(job_queue)
         /\ Elements(job_queue') = Elements(job_queue) \ {this_job[c]}
         /\ Holding' = Holding \cup {c} /\ c \notin Holding
         /\ UNCHANGED <<this_job, freed, job_counter, new_job>>
<1>1. /\ job_queue # <<>> /\ job_queue' = Tail(job_queue)
      /\ this_job[c] = Head(job_queue)
  BY DEF Advance, Inside, Goto
<1>2. Holding' = Holding \cup {c} /\ c \notin Holding
  BY DEF TypeOK, Advance, Goto, Holding, Threads
<1>q. QED
  BY <1>1, <1>2, Pop DEF TypeOK, Ordered, Advance, locals

LEMMA FreeMoves ==
  ASSUME TypeOK, JobsAccountedFor, NEW c \in Consumers, Free(c)
  PROVE  /\ this_job[c] \in Held
         /\ freed' = freed \cup {this_job[c]}
         /\ Held' = Held \ {this_job[c]}
         /\ Holding' = Holding \ {c}
         /\ \A d \in Holding' : this_job'[d] = this_job[d]
         /\ UNCHANGED <<job_queue, job_counter, new_job>>
<1>1. /\ Holding' = Holding \ {c} /\ c \in Holding
      /\ \A d \in Holding' : this_job'[d] = this_job[d]
  BY DEF TypeOK, Free, Goto, Holding, Threads
<1>2. Held' = {this_job[d] : d \in Holding \ {c}}
  BY <1>1 DEF Held
<1>3. \A d \in Holding \ {c} : this_job[d] # this_job[c]
  BY <1>1 DEF JobsAccountedFor
<1>4. Held' = Held \ {this_job[c]} /\ this_job[c] \in Held
  BY <1>1, <1>2, <1>3 DEF Held
<1>q. QED
  BY <1>1, <1>4 DEF Free

LEMMA PlacesConsumer ==
  ASSUME TypeOK, Inside, Ordered, JobsAccountedFor, NEW c \in Consumers, Consumer(c)
  PROVE  JobsAccountedFor'
<1>1. /\ \A q \in Producers : pc'[q] = "publish" <=> pc[q] = "publish"
      /\ UNCHANGED <<job_counter, new_job>>
  BY DEF TypeOK, Consumer, ClaimToken, Block, GiveUp, ConsumerLocks, ReadHead, Advance,
         ConsumerUnlocks, Free, Lock, Unlock, Goto, list, locals, Threads
<1>2. Unpublished' = Unpublished
  BY <1>1 DEF Unpublished
<1>3. CASE Advance(c)
  <2>1. Held' = Held \cup {this_job[c]}
    BY <1>3, PopMoves DEF Held
  <2>2. this_job[c] \notin Held
    BY <1>3, PopMoves DEF JobsAccountedFor
  <2>3. \A d \in Holding : this_job[d] # this_job[c]
    BY <2>2 DEF Held
  <2>4. \A d, e \in Holding' : this_job'[d] = this_job'[e] => d = e
    BY <1>3, <2>3, PopMoves DEF JobsAccountedFor
  <2>q. QED
    BY <1>1, <1>2, <1>3, <2>1, <2>4, PopMoves DEF JobsAccountedFor
<1>4. CASE Free(c)
  <2>1. Elements(job_queue') = Elements(job_queue)
    BY <1>4, FreeMoves
  <2>q. QED
    BY <1>1, <1>2, <1>4, <2>1, FreeMoves DEF JobsAccountedFor
<1>5. CASE ~Advance(c) /\ ~Free(c)
  <2>1. /\ Holding' = Holding
        /\ \A d \in Holding : this_job'[d] = this_job[d]
        /\ UNCHANGED <<job_queue, freed>>
    BY <1>5 DEF TypeOK, Consumer, ClaimToken, Block, GiveUp, ConsumerLocks, ReadHead,
                ConsumerUnlocks, Lock, Unlock, Goto, list, locals, Holding, Threads
  <2>2. Held' = Held /\ Elements(job_queue') = Elements(job_queue)
    BY <2>1 DEF Held
  <2>q. QED
    BY <1>1, <1>2, <2>1, <2>2 DEF JobsAccountedFor
<1>q. QED
  BY <1>3, <1>4, <1>5

LEMMA PlacesUntouched ==
  ASSUME TypeOK, JobsAccountedFor, Main \/ Exited \/ UNCHANGED vars
  PROVE  JobsAccountedFor'
<1>1. /\ \A q \in Producers : pc'[q] = "publish" <=> pc[q] = "publish"
      /\ Holding' = Holding
      /\ UNCHANGED <<job_queue, job_counter, new_job, this_job, freed>>
  BY DEF TypeOK, Main, CreateConsumer, CreateProducer, Sleep, JoinProducers, JoinConsumers,
         Exited, MainKeeps, Goto, list, locals, vars, Holding, Threads
<1>2. /\ Unpublished' = Unpublished /\ Held' = Held
      /\ Elements(job_queue') = Elements(job_queue)
  BY <1>1 DEF Unpublished, Held
<1>q. QED
  BY <1>1, <1>2 DEF JobsAccountedFor

\* No job is lost and none is handed out twice: each index ever given out is about to
\* be published, on the list, in the hands of one consumer, or freed.
THEOREM Places == Spec => []JobsAccountedFor
<1>1. /\ TypeOK /\ Inside /\ TypeOK' /\ Inside' /\ Ordered /\ JobsAccountedFor
      /\ [Next]_vars
      => JobsAccountedFor'
  BY PlacesProducer, PlacesConsumer, PlacesUntouched DEF Next
<1>q. QED
  BY Base, Order, PlacesInit, <1>1, PTL DEF Spec

-----------------------------------------------------------------------------
(* How many jobs there can be *)

\* The jobs that were allocated, as pairs of a producer and its countdown before the
\* allocation, and the producers whose job has no index yet.
Allocated == {m \in Producers \X (1 .. JobsPerProducer) : m[2] > jobs_left[m[1]]}
Unnumbered == {p \in Producers : pc[p] \in {"allocated", "link"}}

\* Every allocated job has an index, or has a producer that will give it one.
Numbered == Cardinality(Allocated) = job_counter + Cardinality(Unnumbered)

LEMMA AllocatedFinite ==
  /\ IsFiniteSet(Allocated) /\ IsFiniteSet(Unnumbered)
  /\ Cardinality(Allocated) \in Nat /\ Cardinality(Unnumbered) \in Nat
  /\ Cardinality(Allocated) =< Cardinality(Producers) * JobsPerProducer
<1>1. /\ IsFiniteSet(1 .. JobsPerProducer)
      /\ Cardinality(1 .. JobsPerProducer) = JobsPerProducer
  BY FS_Interval
<1>2. /\ IsFiniteSet(Producers \X (1 .. JobsPerProducer))
      /\ Cardinality(Producers \X (1 .. JobsPerProducer))
           = Cardinality(Producers) * JobsPerProducer
  <2>1. IsFiniteSet(Producers)
    BY SemaphoreJobsAssumption
  <2>q. QED
    BY ONLY <2>1, <1>1, FS_Product
<1>3. /\ IsFiniteSet(Allocated)
      /\ Cardinality(Allocated) =< Cardinality(Producers) * JobsPerProducer
  <2>1. Allocated \subseteq Producers \X (1 .. JobsPerProducer)
    BY DEF Allocated
  <2>2. /\ IsFiniteSet(Allocated)
        /\ Cardinality(Allocated) =< Cardinality(Producers \X (1 .. JobsPerProducer))
    BY <1>2, <2>1, FS_Subset
  <2>q. QED
    BY <1>2, <2>2
<1>4. IsFiniteSet(Unnumbered)
  BY FS_Subset DEF Unnumbered
<1>q. QED
  BY <1>3, <1>4, FS_CardinalityType

LEMMA NumberedInit == Init => Numbered
<1> SUFFICES ASSUME Init PROVE Numbered
  OBVIOUS
<1>1. Allocated = {} /\ Unnumbered = {}
  BY DEF Init, Allocated, Unnumbered, Threads
<1>q. QED
  BY <1>1, FS_EmptySet DEF Init, Numbered

LEMMA NumberedProducer ==
  ASSUME TypeOK, Numbered, NEW p \in Producers, Producer(p)
  PROVE  Numbered'
<1>1. CASE Allocate(p)
  <2> DEFINE m == <<p, jobs_left[p]>>
  <2>1. /\ jobs_left[p] \in 1 .. JobsPerProducer
        /\ jobs_left' = [jobs_left EXCEPT ![p] = @ - 1]
        /\ \A q \in Producers : jobs_left[q] \in 0 .. JobsPerProducer
    BY <1>1 DEF TypeOK, Allocate
  <2>2. Allocated' = Allocated \cup {m} /\ m \notin Allocated
    <3>1. \A q \in Producers, k \in 1 .. JobsPerProducer :
             k > jobs_left'[q] <=> k > jobs_left[q] \/ <<q, k>> = m
      BY <2>1 DEF TypeOK
    <3>2. m \in Producers \X (1 .. JobsPerProducer) /\ m[2] = jobs_left[m[1]]
      BY <2>1
    <3>3. \A n \in Producers \X (1 .. JobsPerProducer) :
             n[2] > jobs_left'[n[1]] <=> n[2] > jobs_left[n[1]] \/ n = m
      BY <3>1
    <3>q. QED
      BY <2>1, <3>2, <3>3 DEF Allocated
  <2>3. Unnumbered' = Unnumbered \cup {p} /\ p \notin Unnumbered
    BY <1>1 DEF TypeOK, Allocate, Goto, Unnumbered, Threads
  <2>4. Cardinality(Allocated') = Cardinality(Allocated) + 1
    BY <2>2, AllocatedFinite, Sizes
  <2>5. Cardinality(Unnumbered') = Cardinality(Unnumbered) + 1
    BY <2>3, AllocatedFinite, Sizes
  <2>6. job_counter' = job_counter
    BY <1>1 DEF Allocate, list
  <2>q. QED
    BY <2>4, <2>5, <2>6, AllocatedFinite DEF Numbered, TypeOK
<1>2. CASE Link(p)
  <2>1. Unnumbered' = Unnumbered \ {p} /\ p \in Unnumbered
    BY <1>2 DEF TypeOK, Link, Goto, Unnumbered, Threads
  <2>2. Cardinality(Unnumbered') = Cardinality(Unnumbered) - 1
    BY <2>1, AllocatedFinite, Sizes
  <2>3. job_counter' = job_counter + 1 /\ Allocated' = Allocated
    BY <1>2 DEF Link, Allocated
  <2>q. QED
    BY <2>2, <2>3, AllocatedFinite DEF Numbered, TypeOK
<1>3. CASE ~Allocate(p) /\ ~Link(p)
  <2>1. Unnumbered' = Unnumbered
    BY <1>3 DEF TypeOK, Producer, ProducerReturns, ProducerLocks, Publish, Post,
                ProducerUnlocks, Announce, Lock, Unlock, Goto, Unnumbered, Threads
  <2>2. job_counter' = job_counter /\ jobs_left' = jobs_left
    BY <1>3 DEF Producer, ProducerReturns, ProducerLocks, Publish, Post,
                ProducerUnlocks, Announce, Lock, Unlock, list, locals
  <2>q. QED
    BY <2>1, <2>2 DEF Numbered, Allocated
<1>q. QED
  BY <1>1, <1>2, <1>3

LEMMA NumberedOthers ==
  ASSUME TypeOK, Numbered,
         Main \/ (\E c \in Consumers : Consumer(c)) \/ Exited \/ UNCHANGED vars
  PROVE  Numbered'
<1>1. /\ Unnumbered' = Unnumbered
      /\ job_counter' = job_counter /\ jobs_left' = jobs_left
  <2>1. CASE \E c \in Consumers : Consumer(c)
    BY <2>1 DEF TypeOK, Consumer, ClaimToken, Block, GiveUp, ConsumerLocks, ReadHead,
                Advance, ConsumerUnlocks, Free, Lock, Unlock, Goto, list, locals,
                Unnumbered, Threads
  <2>2. CASE Main
    BY <2>2 DEF TypeOK, Main, CreateConsumer, CreateProducer, Sleep, JoinProducers,
                JoinConsumers, MainKeeps, Goto, list, locals, Unnumbered, Threads
  <2>3. CASE Exited \/ UNCHANGED vars
    BY <2>3 DEF Exited, vars, Unnumbered
  <2>q. QED
    BY <2>1, <2>2, <2>3
<1>q. QED
  BY <1>1 DEF Numbered, Allocated

\* An index is never larger than the producers' loops allow.
THEOREM Numbers ==
  Spec => [](Numbered /\ job_counter =< Cardinality(Producers) * JobsPerProducer)
<1>1. TypeOK /\ Numbered /\ [Next]_vars => Numbered'
  BY NumberedProducer, NumberedOthers DEF Next
<1>2. TypeOK /\ Numbered => job_counter =< Cardinality(Producers) * JobsPerProducer
  <2> SUFFICES ASSUME TypeOK, Numbered
               PROVE  job_counter =< Cardinality(Producers) * JobsPerProducer
    OBVIOUS
  <2>1. Cardinality(Producers) * JobsPerProducer \in Nat
    BY FS_CardinalityType
  <2>q. QED
    BY <2>1, AllocatedFinite DEF TypeOK, Numbered
<1>q. QED
  BY Base, NumberedInit, <1>1, <1>2, PTL DEF Spec

-----------------------------------------------------------------------------
(* The job pool *)

PoolHeld == [c \in Consumers |-> IF c \in Holding THEN {this_job[c]} ELSE {}]

\* Every step publishes a job, which the pool sees as submitted; pops one, which it sees
\* as taken; frees one, which it sees as finished; or is a stutter.
LEMMA PoolProducer ==
  ASSUME TypeOK, Inside, JobsAccountedFor,
         job_counter =< Cardinality(Producers) * JobsPerProducer,
         NEW p \in Producers, Producer(p)
  PROVE  [Pool!Next]_Pool!vars
<1>1. /\ Holding' = Holding
      /\ UNCHANGED <<this_job, freed>>
  BY DEF TypeOK, Producer, Allocate, ProducerReturns, ProducerLocks, Link, Publish, Post,
         ProducerUnlocks, Announce, Lock, Unlock, Goto, list, locals, Holding, Threads
<1>2. PoolHeld' = PoolHeld
  BY <1>1 DEF PoolHeld
<1>3. CASE Publish(p)
  <2>1. /\ Unpublished = {new_job[p]} /\ new_job[p] \in Nat
        /\ job_counter = new_job[p] + 1
        /\ job_queue' = <<new_job[p]>> \o job_queue
    BY <1>3, OneUnpublished DEF Publish, Goto, Critical, Inside
  <2>2. Elements(job_queue') = Elements(job_queue) \cup {new_job[p]}
    BY <2>1, Push DEF TypeOK
  <2>3. PICK n \in JobIds : n = new_job[p]
    <3>1. Cardinality(Producers) * JobsPerProducer \in Nat
      BY FS_CardinalityType
    <3>q. QED
      BY <2>1, <3>1 DEF JobIds
  <2>4. n \notin Elements(job_queue) \cup Held \cup freed
    BY <2>1, <2>3 DEF JobsAccountedFor
  <2>5. Pool!Submitted = Elements(job_queue) \cup Held \cup freed
    <3>1. \A c \in Consumers : PoolHeld[c] = IF c \in Holding THEN {this_job[c]} ELSE {}
      BY DEF PoolHeld
    <3>2. UNION {PoolHeld[c] : c \in Consumers} = Held
      <4>1. Holding \subseteq Consumers
        BY DEF Holding
      <4>2. ASSUME NEW x PROVE x \in UNION {PoolHeld[c] : c \in Consumers} <=> x \in Held
        <5>1. x \in UNION {PoolHeld[c] : c \in Consumers}
                <=> \E c \in Consumers : x \in PoolHeld[c]
          OBVIOUS
        <5>2. x \in Held <=> \E c \in Holding : x = this_job[c]
          BY DEF Held
        <5>3. ASSUME NEW c \in Consumers
              PROVE  x \in PoolHeld[c] <=> c \in Holding /\ x = this_job[c]
          BY <3>1
        <5>q. QED
          BY ONLY <4>1, <5>1, <5>2, <5>3
      <4>q. QED
        BY <4>2
    <3>q. QED
      BY <3>2 DEF Pool!Submitted, PoolHeld
  <2>6. Pool!Submit({n})
    <3>1. {n} # {} /\ {n} \cap Pool!Submitted = {}
      BY <2>4, <2>5
    <3>2. Elements(job_queue') = Elements(job_queue) \cup {n}
      BY <2>2, <2>3
    <3>q. QED
      BY <1>1, <1>2, <3>1, <3>2 DEF Pool!Submit, PoolHeld
  <2>q. QED
    BY <2>6 DEF Pool!Next
<1>4. CASE ~Publish(p)
  <2>1. job_queue' = job_queue
    BY <1>4 DEF Producer, Allocate, ProducerReturns, ProducerLocks, Link, Post,
                ProducerUnlocks, Announce, Lock, Unlock, list
  <2>2. Elements(job_queue') = Elements(job_queue)
    BY <2>1
  <2>q. QED
    BY <1>1, <1>2, <2>2 DEF Pool!vars, PoolHeld
<1>q. QED
  BY <1>3, <1>4

LEMMA PoolConsumer ==
  ASSUME TypeOK, Inside, Ordered, JobsAccountedFor,
         job_counter =< Cardinality(Producers) * JobsPerProducer,
         NEW c \in Consumers, Consumer(c)
  PROVE  [Pool!Next]_Pool!vars
<1>1. \A j \in Elements(job_queue) \cup Held : j \in JobIds
  <2>1. Cardinality(Producers) * JobsPerProducer \in Nat
    BY FS_CardinalityType
  <2>2. 0 .. job_counter - 1 \subseteq JobIds
    BY <2>1 DEF JobIds, TypeOK
  <2>q. QED
    BY <2>2 DEF JobsAccountedFor
<1>2. CASE Advance(c)
  <2>1. PICK j \in JobIds : j = this_job[c]
    BY <1>1, <1>2, PopMoves
  <2>2. PoolHeld[c] = {} /\ PoolHeld' = [PoolHeld EXCEPT ![c] = {j}]
    BY <1>2, <2>1, PopMoves DEF PoolHeld
  <2>3. Pool!Take(c, j)
    BY <1>2, <2>1, <2>2, PopMoves DEF Pool!Take, PoolHeld
  <2>q. QED
    BY <2>3 DEF Pool!Next
<1>3. CASE Free(c)
  <2>1. c \in Holding
    BY <1>3 DEF Free, Goto, Holding
  <2>2. PICK j \in JobIds : j = this_job[c]
    BY <1>1, <1>3, FreeMoves
  <2>3. /\ j \in PoolHeld[c]
        /\ PoolHeld' = [PoolHeld EXCEPT ![c] = {}]
    BY <1>3, <2>1, <2>2, FreeMoves DEF PoolHeld
  <2>4. Elements(job_queue') = Elements(job_queue)
    BY <1>3, FreeMoves
  <2>5. Pool!Finish(c, j)
    BY <1>3, <2>2, <2>3, <2>4, FreeMoves DEF Pool!Finish, PoolHeld
  <2>q. QED
    BY <2>5 DEF Pool!Next
<1>4. CASE ~Advance(c) /\ ~Free(c)
  <2>1. /\ Holding' = Holding
        /\ \A d \in Holding : this_job'[d] = this_job[d]
        /\ UNCHANGED <<job_queue, freed>>
    BY <1>4 DEF TypeOK, Consumer, ClaimToken, Block, GiveUp, ConsumerLocks, ReadHead,
                ConsumerUnlocks, Lock, Unlock, Goto, list, locals, Holding, Threads
  <2>2. PoolHeld' = PoolHeld /\ Elements(job_queue') = Elements(job_queue)
    BY <2>1 DEF PoolHeld
  <2>q. QED
    BY <2>1, <2>2 DEF Pool!vars, PoolHeld
<1>q. QED
  BY <1>2, <1>3, <1>4

LEMMA PoolUntouched ==
  ASSUME TypeOK, Main \/ Exited \/ UNCHANGED vars
  PROVE  UNCHANGED Pool!vars
<1>1. Holding' = Holding /\ UNCHANGED <<job_queue, this_job, freed>>
  BY DEF TypeOK, Main, CreateConsumer, CreateProducer, Sleep, JoinProducers, JoinConsumers,
         Exited, MainKeeps, Goto, list, locals, vars, Holding, Threads
<1>2. PoolHeld' = PoolHeld /\ Elements(job_queue') = Elements(job_queue)
  BY <1>1 DEF PoolHeld
<1>q. QED
  BY <1>1, <1>2 DEF Pool!vars, PoolHeld

\* The producers and consumers implement the job pool of JobPool (its safety half): a
\* submitted job is taken by one worker only, which finishes it.
THEOREM Refinement == Spec => Pool!SafeSpec
<1>1. Init => Pool!Init
  <2> SUFFICES ASSUME Init PROVE Pool!Init
    OBVIOUS
  <2>1. Elements(job_queue) = {} /\ freed = {} /\ Holding = {}
    BY DEF Init, Elements, Holding, Threads
  <2>q. QED
    BY <2>1 DEF Pool!Init
<1>2. /\ TypeOK /\ Inside /\ Ordered /\ JobsAccountedFor
      /\ job_counter =< Cardinality(Producers) * JobsPerProducer
      /\ [Next]_vars
      => [Pool!Next]_Pool!vars
  BY PoolProducer, PoolConsumer, PoolUntouched DEF Next
<1>q. QED
  BY Base, Order, Places, Numbers, <1>1, <1>2, PTL DEF Spec, Pool!SafeSpec
=============================================================================
