--------------------------- MODULE SemaphoreJobs ---------------------------
(***************************************************************************)
(* ch04/semaphore-jobs.c: producer threads push jobs on a linked list that *)
(* a mutex protects and post a semaphore once per job; consumer threads    *)
(* take a token from the semaphore (or give up after 3s) and then pop one  *)
(* job.  main() starts the consumers, then the producers, and joins all.   *)
(*                                                                         *)
(* The list is the sequence of the jobs' indices from its head, so a       *)
(* pointer to a job is the list that starts there, and NULL is <<>>.  A    *)
(* job is known by its index; before it gets one, its memory is private to *)
(* the producer.  There is no clock: sem_timedwait may time out whenever   *)
(* it has had to block.                                                    *)
(***************************************************************************)
EXTENDS Integers, Sequences, FiniteSets

CONSTANTS Producers, Consumers,
          JobsPerProducer,    \* 20 in the code
          NoThread,           \* the owner of a mutex nobody holds
          NoJob               \* NULL

Threads == Producers \cup Consumers

ASSUME SemaphoreJobsAssumption ==
  /\ IsFiniteSet(Producers) /\ IsFiniteSet(Consumers)
  /\ Producers \cap Consumers = {}
  /\ NoThread \notin Threads
  /\ JobsPerProducer \in Nat
  /\ NoJob \notin Nat

VARIABLES main,          \* where main() is
          pc,            \* where each thread is
          lock_job,      \* the owner of the mutex
          job_q_count,   \* the value of the semaphore
          job_queue,     \* the list of jobs, from its head
          job_counter,
          jobs_left,     \* jobs_left[p]: jobs producer p has still to make
          new_job,       \* new_job[p]: the job p is making
          next,          \* next[p]: new_job->next of producer p
          this_job,      \* this_job[c]: the job consumer c took
          freed          \* the jobs whose memory was freed

vars == <<main, pc, lock_job, job_q_count, job_queue, job_counter,
          jobs_left, new_job, next, this_job, freed>>

list == <<job_queue, job_counter, freed>>
locals == <<jobs_left, new_job, next, this_job>>

Init == /\ main = "create_consumers"
        /\ pc = [t \in Threads |-> "unborn"]
        /\ lock_job = NoThread
        /\ job_q_count = 0
        /\ job_queue = <<>>
        /\ job_counter = 0
        /\ jobs_left = [p \in Producers |-> JobsPerProducer]
        /\ new_job = [p \in Producers |-> NoJob]
        /\ next = [p \in Producers |-> <<>>]
        /\ this_job = [c \in Consumers |-> NoJob]
        /\ freed = {}

Goto(t, from, to) == pc[t] = from /\ pc' = [pc EXCEPT ![t] = to]

Lock(t, from, to) == /\ Goto(t, from, to)
                     /\ lock_job = NoThread
                     /\ lock_job' = t
                     /\ UNCHANGED <<main, job_q_count, list, locals>>

Unlock(t, from, to) == /\ Goto(t, from, to)
                       /\ lock_job' = NoThread
                       /\ UNCHANGED <<main, job_q_count, list, locals>>

-----------------------------------------------------------------------------
(* producer *)

\* Fault: while (jobs-- >= 0), one job more than was meant.
Allocate_OneMore(p) ==
  /\ Goto(p, "loop", "allocated")
  /\ jobs_left[p] >= 0
  /\ jobs_left' = [jobs_left EXCEPT ![p] = @ - 1]
  /\ UNCHANGED <<main, lock_job, job_q_count, list, new_job, next, this_job>>

\* while (jobs-- > 0) new_job = malloc(...)
Allocate(p) == /\ Goto(p, "loop", "allocated")
               /\ jobs_left[p] > 0
               /\ jobs_left' = [jobs_left EXCEPT ![p] = @ - 1]
               /\ UNCHANGED <<main, lock_job, job_q_count, list, new_job, next, this_job>>

ProducerReturns(p) == /\ Goto(p, "loop", "returned")
                      /\ jobs_left[p] = 0
                      /\ UNCHANGED <<main, lock_job, job_q_count, list, locals>>

ProducerLocks(p) == Lock(p, "allocated", "link")

\* new_job->next = job_queue; new_job->index = job_counter++
Link(p) == /\ Goto(p, "link", "publish")
           /\ next' = [next EXCEPT ![p] = job_queue]
           /\ new_job' = [new_job EXCEPT ![p] = job_counter]
           /\ job_counter' = job_counter + 1
           /\ UNCHANGED <<main, lock_job, job_q_count, job_queue, jobs_left, this_job, freed>>

\* Fault: the link to the old list is forgotten.
Publish_DropsList(p) ==
  /\ Goto(p, "publish", "post")
  /\ job_queue' = <<new_job[p]>>
  /\ UNCHANGED <<main, lock_job, job_q_count, job_counter, locals, freed>>

\* Fault: the job goes to the end of the list.
Publish_AtTail(p) ==
  /\ Goto(p, "publish", "post")
  /\ job_queue' = Append(next[p], new_job[p])
  /\ UNCHANGED <<main, lock_job, job_q_count, job_counter, locals, freed>>

\* job_queue = new_job
Publish(p) == /\ Goto(p, "publish", "post")
              /\ job_queue' = <<new_job[p]>> \o next[p]
              /\ UNCHANGED <<main, lock_job, job_q_count, job_counter, locals, freed>>

Post(p) == /\ Goto(p, "post", "unlock")
           /\ job_q_count' = job_q_count + 1
           /\ UNCHANGED <<main, lock_job, list, locals>>

ProducerUnlocks(p) == Unlock(p, "unlock", "announce")

\* printf("Producer %ld created job %ld ...", prod_num, new_job->index, ...)
Announce(p) == /\ Goto(p, "announce", "loop")
               /\ UNCHANGED <<main, lock_job, job_q_count, list, locals>>

Producer(p) == \/ Allocate(p) \/ ProducerReturns(p) \/ ProducerLocks(p) \/ Link(p)
               \/ Publish(p) \/ Post(p) \/ ProducerUnlocks(p) \/ Announce(p)

-----------------------------------------------------------------------------
(* consumer *)

\* sem_timedwait takes a token: at once, or after it had to block.
ClaimToken(c) == /\ Goto(c, "wait", "claimed") \/ Goto(c, "blocked", "claimed")
                 /\ job_q_count > 0
                 /\ job_q_count' = job_q_count - 1
                 /\ UNCHANGED <<main, lock_job, list, locals>>

Block(c) == /\ Goto(c, "wait", "blocked")
            /\ job_q_count = 0
            /\ UNCHANGED <<main, lock_job, job_q_count, list, locals>>

\* Faults: the consumer goes on to the list after a timeout, or waits again.
GiveUp_GoesOn(c) == /\ Goto(c, "blocked", "claimed")
                    /\ UNCHANGED <<main, lock_job, job_q_count, list, locals>>
GiveUp_Retries(c) == /\ Goto(c, "blocked", "wait")
                     /\ UNCHANGED <<main, lock_job, job_q_count, list, locals>>

\* sem_timedwait fails (ETIMEDOUT or another error), even if a post came just
\* after its deadline: the consumer returns.
GiveUp(c) == /\ Goto(c, "blocked", "returned")
             /\ UNCHANGED <<main, lock_job, job_q_count, list, locals>>

\* Fault: the consumer does not take the mutex.
ConsumerLocks_NoMutex(c) == /\ Goto(c, "claimed", "read_head")
                            /\ UNCHANGED <<main, lock_job, job_q_count, list, locals>>

ConsumerLocks(c) == Lock(c, "claimed", "read_head")

\* this_job = job_queue
ReadHead(c) == /\ Goto(c, "read_head", "advance")
               /\ this_job' = [this_job EXCEPT ![c] =
                                 IF job_queue = <<>> THEN NoJob ELSE Head(job_queue)]
               /\ UNCHANGED <<main, lock_job, job_q_count, list, jobs_left, new_job, next>>

\* Fault: the head is not moved on.
Advance_KeepsHead(c) == /\ Goto(c, "advance", "unlock")
                        /\ UNCHANGED <<main, lock_job, job_q_count, list, locals>>

\* job_queue = job_queue->next, which has no meaning when job_queue is NULL
Advance(c) == /\ Goto(c, "advance", "unlock")
              /\ job_queue # <<>>
              /\ job_queue' = Tail(job_queue)
              /\ UNCHANGED <<main, lock_job, job_q_count, job_counter, locals, freed>>

ConsumerUnlocks(c) == Unlock(c, "unlock", "report")

\* printf(... this_job->index ...); free(this_job)
Free(c) == /\ Goto(c, "report", "wait")
           /\ freed' = freed \cup {this_job[c]}
           /\ this_job' = [this_job EXCEPT ![c] = NoJob]
           /\ UNCHANGED <<main, lock_job, job_q_count, job_queue, job_counter,
                          jobs_left, new_job, next>>

Consumer(c) == \/ ClaimToken(c) \/ Block(c) \/ GiveUp(c) \/ ConsumerLocks(c)
               \/ ReadHead(c) \/ Advance(c) \/ ConsumerUnlocks(c) \/ Free(c)

-----------------------------------------------------------------------------
(* main *)

MainKeeps == UNCHANGED <<lock_job, job_q_count, list, locals>>

CreateConsumer(c) == /\ main = "create_consumers"
                     /\ Goto(c, "unborn", "wait")
                     /\ UNCHANGED main /\ MainKeeps

\* sleep(2)
Sleep == /\ main = "create_consumers"
         /\ \A c \in Consumers : pc[c] # "unborn"
         /\ main' = "create_producers"
         /\ UNCHANGED pc /\ MainKeeps

CreateProducer(p) == /\ main = "create_producers"
                     /\ Goto(p, "unborn", "loop")
                     /\ UNCHANGED main /\ MainKeeps

JoinProducers == /\ main = "create_producers"
                 /\ \A p \in Producers : pc[p] = "returned"
                 /\ main' = "join_consumers"
                 /\ UNCHANGED pc /\ MainKeeps

\* After the last join nothing but main() runs: it destroys the mutex and the
\* semaphore and returns.
JoinConsumers == /\ main = "join_consumers"
                 /\ \A c \in Consumers : pc[c] = "returned"
                 /\ main' = "exit"
                 /\ UNCHANGED pc /\ MainKeeps

Main == \/ \E c \in Consumers : CreateConsumer(c)
        \/ \E p \in Producers : CreateProducer(p)
        \/ Sleep \/ JoinProducers \/ JoinConsumers

Exited == main = "exit" /\ UNCHANGED vars

Next == \/ Main
        \/ \E p \in Producers : Producer(p)
        \/ \E c \in Consumers : Consumer(c)
        \/ Exited

\* The kernel runs every thread that can run, and a deadline does pass.
Fairness == /\ WF_vars(Main)
            /\ \A p \in Producers : WF_vars(Producer(p))
            /\ \A c \in Consumers : WF_vars(Consumer(c))

Spec == Init /\ [][Next]_vars /\ Fairness

-----------------------------------------------------------------------------
(* Properties *)

JobIds == 0 .. Cardinality(Producers) * JobsPerProducer - 1
Elements(q) == {q[i] : i \in DOMAIN q}

ProducerStates == {"unborn", "loop", "allocated", "link", "publish", "post",
                   "unlock", "announce", "returned"}
ConsumerStates == {"unborn", "wait", "blocked", "claimed", "read_head",
                   "advance", "unlock", "report", "returned"}

\* The types of the variables; no producer makes a job more than its loop is for.
TypeOK == /\ main \in {"create_consumers", "create_producers", "join_consumers", "exit"}
          /\ pc \in [Threads -> ProducerStates \cup ConsumerStates]
          /\ \A p \in Producers : pc[p] \in ProducerStates
          /\ \A c \in Consumers : pc[c] \in ConsumerStates
          /\ lock_job \in Threads \cup {NoThread}
          /\ job_q_count \in Nat
          /\ job_queue \in Seq(Nat)
          /\ job_counter \in Nat
          /\ jobs_left \in [Producers -> 0 .. JobsPerProducer]
          /\ new_job \in [Producers -> Nat \cup {NoJob}]
          /\ next \in [Producers -> Seq(Nat)]
          /\ this_job \in [Consumers -> Nat \cup {NoJob}]
          /\ freed \subseteq Nat

\* The consumers that have taken a token and not yet removed a job for it, and the
\* producer that has published a job and not yet posted it.
Claimed == {c \in Consumers : pc[c] \in {"claimed", "read_head", "advance"}}
Posting == {p \in Producers : pc[p] = "post"}

\* Every job on the list is backed by exactly one token, in the semaphore, in the
\* hands of a consumer on its way to the list, or about to be posted.
TokensMatchJobs ==
  Len(job_queue) = job_q_count + Cardinality(Claimed) + Cardinality(Posting)

\* Lines 74-75, "We know JOB_QUEUE is not NULL because the semaphore was >0": a
\* consumer inside the mutex never finds the list empty, and the head it read is
\* still the head when it removes it.
PopFindsJob ==
  \A c \in Consumers :
     /\ pc[c] \in {"read_head", "advance"} => job_queue # <<>>
     /\ pc[c] = "advance" => this_job[c] = Head(job_queue)

\* The job a producer has numbered and not yet published, and the jobs that left the
\* list for a consumer that still has to free them.
Unpublished == {new_job[p] : p \in {q \in Producers : pc[q] = "publish"}}
Holding == {c \in Consumers : pc[c] \in {"unlock", "report"}}
Held == {this_job[c] : c \in Holding}

\* No job is lost and none is handed out twice: each index ever given out is in
\* exactly one place, and no two consumers hold the same job.
JobsAccountedFor ==
  /\ 0 .. job_counter - 1 = Unpublished \cup Elements(job_queue) \cup Held \cup freed
  /\ Unpublished \cap Elements(job_queue) = {}
  /\ Held \cap (Unpublished \cup Elements(job_queue)) = {}
  /\ freed \cap (Unpublished \cup Elements(job_queue) \cup Held) = {}
  /\ \A c, d \in Holding : this_job[c] = this_job[d] => c = d

\* The list is a stack: the newest job is at its head and the indices go down, so no
\* job is on the list twice.
NewestFirst ==
  \A i, j \in 1 .. Len(job_queue) : i < j => job_queue[i] > job_queue[j]

\* What the two kinds of thread do is a job pool: a job is pending while it is on the
\* list, held from its removal to its free, and done from then on.
Pool == INSTANCE JobPool WITH
          Jobs <- JobIds,
          Workers <- Consumers,
          pending <- Elements(job_queue),
          held <- [c \in Consumers |-> IF c \in Holding THEN {this_job[c]} ELSE {}],
          done <- freed
ImplementsJobPool == Pool!Spec

\* main() always gets past its joins: nobody deadlocks on the mutex and every
\* consumer times out in the end.
Termination == <>(main = "exit")

\* Lines 94-96, the producer uses the mutex "to avoid race conditions": the job whose
\* fields it prints (lines 133-134, after the unlock) has not been freed.
AnnouncedJobIsLive ==
  \A p \in Producers : pc[p] = "announce" => new_job[p] \notin freed
=============================================================================
