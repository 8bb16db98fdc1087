# Models of the concurrent programs of advanced-linux-programming

The repository is a collection of small, independent programs written along
the book *Advanced Linux Programming*: one `main()` per file, no tests, no
library. A few are real concurrent programs with shared lists, counters and
flags; others handle signals, children, cancellation, or calls that fail or are
cut short; the rest make a handful of system calls in a row. This project models
the first two groups, checks them with TLC and proves about them with TLAPS.

## Inventory

| Program | State | Operations | What is hard | What makes it correct |
|---|---|---|---|---|
| `ch04/semaphore-jobs.c` | a linked list of jobs, a mutex, a counting semaphore, an index counter | 4 producers push and post, 4 consumers wait (3 s at most) and pop, `main` joins all | pop relies on the semaphore and never tests the list; timeouts race posts; a job is freed by another thread than made it | one token per job; no job lost or taken twice; `main` ends |
| `ch04/job-queue.c` | a linked list, a mutex, a sum per thread | `init_jobs` builds the list, 4 threads empty it, `main` adds the sums up | the last link is never written; the sums are read after the joins | every job processed once, right sum (printed right while it is an int), threads stop at the end |
| `ch04/critical-section.c` | balances, one `int` lock per account, one transaction per thread | three groups of threads: fill accounts, draw transactions, carry them out | test and set of the locks are separate steps; balances are read-modify-write; funds tested before locking | see below: much less than it seems |
| `ch04/condvar.c`, `ch04/spin-condvar.c` | a flag, a mutex, a condition variable, a loop counter | one thread toggles, one works while the flag is set | counter and flag read outside the mutex; the last toggle clears the flag | the worker works only after it saw the flag set; both threads end |
| `ch04/different-mutexes.c`, `ch04/trylock-example.c` | a mutex of each kind | two threads lock five times and are cancelled; four threads poll | blocked threads, cancellation, destruction before the join | who blocks and who gets an error; mutual exclusion while polling |
| `ch04/cleanup.c`, `ch04/thread-signal.c` | a buffer and its handler; a SIGINT handler | cancellation, `pthread_kill` | a cancellation or signal at any step | the buffer is freed once; the right thread dies |
| `ch03/sigusr1.c`, `sigint.c`, `sigchld.c`, `fork-exec.c` | a counter or a status written by a handler | handlers, fork, wait | pending signals merge; fork fails; a stopped child runs the handler too | signals that are not merged end the wait; the status is the child's own after a fork that worked and without a stop, no zombie is overlooked |
| `appb/write-all.c`, `read-file.c`, `hexdump.c`, `ch02/readfile.c`, `temp_file.c` | a file, a descriptor, a buffer | write, read, open, stat | partial writes and reads, failing calls nobody looks at | all bytes in order or an error; everything released on every path |
| `appb/make-directory.c` | a path, `errno`, a descriptor | mkdir, rmdir, open, rename | a retry loop; `errno` read after `perror`; another process at the same path | the loop ends unless the path stays taken; the descriptor is closed |
| `ch04/prime.c` | a candidate, a factor, a counter | the search, the join | the loops' bounds | the Nth prime is printed |
| `ch04/cxx-exit.cpp`, `tsd.c`, `thread-create*.c`, `detached.c`, `thread-pid.c`, `ch02/tmpfile.c` | one flag, a log per thread, nothing | | little is shared | |
| the rest of `ch01`-`ch03`, `appb` | none | print, convert, stat | | |

The programs do not talk to each other. Inside a program the threads interact
through shared variables only, and `main()` through create and join.
`PROJECT.json` lists every program under `components`, with what is modelled,
and the hazards line by line.

## Modules

| Module | Models | Checked by |
|---|---|---|
| `JobPool` | what the two job programs promise: a job is submitted, taken by one worker, finished | as a property of the next two |
| `SemaphoreJobs` | `ch04/semaphore-jobs.c` | `MCSemaphoreJobs` |
| `SemaphoreJobsProofs` | theorems about `SemaphoreJobs` | TLAPS |
| `JobQueue` | `ch04/job-queue.c` | `MCJobQueue` |
| `JobQueueProofs` | theorems about `JobQueue` | TLAPS |
| `CriticalSection` | `ch04/critical-section.c` | `MCCriticalSection` |
| `CriticalSectionProofs` | theorems about `CriticalSection` | TLAPS |
| `FlagThreads` | `ch04/condvar.c` and `ch04/spin-condvar.c` | itself |
| `FlagThreadsProofs` | theorems about `FlagThreads` | TLAPS |
| `DifferentMutexes` | `ch04/different-mutexes.c` | `MCDifferentMutexes` |
| `DifferentMutexesProofs` | theorems about `DifferentMutexes` | TLAPS |
| `FileTools` | `appb/write-all.c`, `ch02/temp_file.c`, `ch02/readfile.c`, `appb/read-file.c`, `appb/hexdump.c` | `MCFileTools` |
| `FileToolsProofs` | theorems about `FileTools` | TLAPS |
| `SignalCount` | `ch03/sigusr1.c`, `ch03/sigint.c` | `MCSmallPrograms` |
| `ThreadSignal` | `ch04/thread-signal.c` | `MCSmallPrograms` |
| `Children` | `ch03/fork-exec.c`, `ch03/sigchld.c` | `MCSmallPrograms` |
| `Cleanup` | `ch04/cleanup.c` | `MCSmallPrograms` |
| `TryLock` | `ch04/trylock-example.c` | `MCSmallPrograms` |
| `MakeDirectory` | `appb/make-directory.c` | `MCSmallPrograms` |
| `Prime` | `ch04/prime.c` | `MCSmallPrograms` |
| `SmallProgramsProofs` | theorems about the seven modules that `MCSmallPrograms` runs | TLAPS |
| `SumTheorems` | facts about the sum of a function, for `JobQueueProofs` and `CriticalSectionProofs` | TLAPS |

A module that covers several programs of one shape has a variable `program`,
chosen in `Init` and never changed: a behaviour is one run of one of them.

Operators named `X_Something` in front of `X` are faults: what `X` would be with
a plausible mistake in it. They are not part of any specification; each shows
that some property notices the mistake.

Common conventions: a thread is where its `pc` says; an action is one statement
that touches shared memory, with the local work around it; `main` says how far
`main()` is. A thread that a program creates several times in a loop may start
as soon as it has been created. Memory is sequentially consistent, and `malloc`
and `pthread_create` succeed (the programs do not test them).

### SemaphoreJobs

The list is the sequence of job indices from `job_queue`, so a pointer to a
job is the list that starts there and NULL is `<<>>`. `job_q_count` is the
semaphore, `lock_job` the owner of the mutex, `next[p]` and `new_job[p]` the
fields of producer `p`'s new job, `this_job[c]` the consumer's local, `freed`
what `free` was called on. The payload (a random number) is left out. Statements
under the mutex stay separate actions (`Link`, `Publish`, `Post`; `ReadHead`,
`Advance`) so that mutual exclusion is something the model needs and not
something it assumes. There is no clock: `sem_timedwait` may give up whenever
it had to block, also when a post comes at the last moment, which covers every
deadline; the 2 s and 100 us sleeps are no synchronisation and are left out but
for their place. `Advance` is enabled only when there is a head to follow:
`PopFindsJob`, checked and proved, says that there always is.

`Pool` maps a state to the job pool: a job is pending while it is on the list,
held from its removal to its `free`, done from then on.

### JobQueue

`job_queue` is the sequence of the jobs left, a job being known by its factor;
`list_end` is the link of the last node, which `init_jobs` never writes. It is
NULL or `Wild`, whatever `malloc` returned: fresh memory holds zeros, recycled
or perturbed memory does not. Reading through `Wild` ends the process
(`FollowWildLink`). `accum` is one cell per thread, so its update is one step.
`num_jobs` may be zero or less; one job is made then. `res` is a `long` (64 bits, as
GCC makes it on Linux; it is not bounded here), and line 111 prints it with `%d`,
which shows its low 32 bits: `printed` is `AsInt(res)`, what is left of it in an
`int` whose largest value is `IntMax`. The sum of n jobs is n(n-1)/2, so the
program prints it right up to 65,536 jobs and wrong above; `TotalMatchesWork` says
exactly that: what is printed is the sum if and only if the sum is at most
`IntMax`.

### CriticalSection

Each read and each write of `locks` and `account_balances` is a step; `held[t]`
is the register between a read and its write. `locks[from] = locks[to] = v`
stores `v` in `locks[to]`; C then lets it store in `locks[from]` either `v` or
what it reads back from `locks[to]`. The directory has no Makefile, and both
builds exist: GCC 12 reads back with `-O0` (what a plain `cc` gives) and does
not with `-O2`. `reads_back` says which build runs. Dollars are integers (the
code's floats round), `setcancelstate` has no effect since nobody cancels, and
the account number `num_accts`, which `rand() == RAND_MAX` would give, is not
drawn: it is outside the arrays and has no outcome to model. `opening` records
the balances that `main()` prints.

### FlagThreads

The two programs share the toggler and the outline of the worker. `mutex` is the
owner of `thread_flag_mutex`. `pthread_cond_wait` is `Waits` (lets go of the
mutex and falls asleep in one step, as POSIX says), then `Signal` or
`WakesUnasked`, then `Relocks`, which goes back to the test of the flag.
`loop_count` and the argument of `set_thread_flag` are read without the mutex;
only the toggler writes them, so such a read is one step, and
`FlagFollowsCount` says that it is harmless. `set_thread_flag(!thread_flag)` is
`Negate` (outside the mutex), `TogglerLocks`, `SetFlag`, `Signal` (`condvar`
only), `TogglerUnlocks`. `initialize_flag` is called by neither program: in C the
static `thread_flag` starts at 0 in `condvar.c`, whose mutex and condition
variable work zeroed, and at 1 in `spin-condvar.c`. The order of the joins
differs between the two.

### DifferentMutexes

One round of `main()` is `InitMutex`, two `Create`s, two `Cancel`s, `Destroy`, two
`Join`s and `NextRound`. A call of `pthread_mutex_lock` is `EnterLock` (it looks
at the mutex) and one of `LockFree`, `LockAgain`, `LockDeadlock`, `LockBlocks`,
or `LockDestroyed` at once when the mutex is no longer valid. The mutex is
modelled from how glibc answers what POSIX leaves open: destroying one in use is
refused with EBUSY (`main()` ignores the answer), locking a destroyed one with
EINVAL. `users` is glibc's count of users, which it raises after it takes the
lock; so a thread whose asynchronous cancellation hits in between leaves a mutex
that is locked but not in use, perhaps without an owner (`Somebody`). The depth of
a recursive lock is `got`: nobody ever unlocks. A thread that dies while it writes
to `stderr` keeps that stream's lock in the C library; output is left out, and
with it that way to hang.

### FileTools

A byte is tagged with where it comes from, so that contents can be compared:
`<<"data", x>>` of the buffer, `<<"size", j>>` of the length that `temp_file.c`
writes first, `<<"stray", j>>` of memory behind `hexdump`'s buffer. Every call that
opens, allocates, reads or writes may fail, and `fstat`; `lseek`
and `close` on a good descriptor do not, and on a bad one they change nothing. A
`write` of some bytes that does not fail writes at least one (`write_all` loops on
what is left); a `read` returns between nothing and what the file has. `temp_file.c`
looks at no result: with a descriptor of -1 its calls do nothing, a length that
cannot be read stays what it was (an uninitialised local of `main()`), one that was
read in part may be anything (`Garbage`), and a `NULL` buffer is returned.
`read_file` looks at no result either: it goes on with the descriptor of a failed
`open` (`OpenAnyway`), a failed `fstat` leaves the kind of file and its length to
what the stack held (`Stat`, then `allocate` or `Refuse`), and from `malloc` on it
makes the same three calls as `temp_file`, which are the same three actions.
So a failed `open` may give a buffer where the comment promises `NULL`
(`read-file.c:9-12`). `readfile` compares what `read` returns with the length asked
for: -1 is never that, not even for a length of 0 (`ReadBuffer`, then `Keep` or
`Release`).
`hexdump` reads pieces of `Chunk` bytes until one comes up short (`DumpChunk`); that
is the end of the file, as its comment says (`hexdump.c:17-19`), only if no read was
cut. A read that fails (`DumpFails`) gives a length of -1 to an unsigned variable, and
the printing loop leaves the buffer: stray bytes come out, `Overrun` of them at most in
the model, until the process is killed, and some of what was printed may be lost
with it. `ReadersGetFile` says nothing of what such a run has printed. `cut` records that the environment did less than
was asked although it could have done it: properties of the undisturbed case are
stated with `~cut`.

### SignalCount

The other actor is whoever sends the signals. `Kill` makes the signal pending, or
finds it pending already and is merged (`merged`); before `sigaction` it kills
the process. `Deliver` interrupts `main()` at any of its places, and `handler`
counts; meanwhile its own signal is blocked and `main()` stands still. Neither
count is volatile. GCC 12 reads it at every use with `-O0`; with `-O2`, `sigusr1`'s
loop has no call in it and the read moves out of it, so that the program never
sees a signal come, and `sigint` reads it again only after it has called
`printf`. `rereads` says which build runs, `seen` is the register of the second.

### ThreadSignal

A SIGINT is pending for one thread (`directed`, from `pthread_kill`) or for the
process (`shared`, from ^C; the kernel gives it to any thread). Until `main()` has
called `sigaction`, after it made the threads, either ends the process. The handler
ends the process in the main thread and else the thread it runs in. What a thread
does between two of these steps is one place, `loop` (and `sleep` before the second
thread's `pthread_kill`): a signal takes it out of a call and of a computation in
the same way, for good. `pthread_kill` of a thread that has ended does nothing
(glibc answers ESRCH or 0, and nobody looks).

### Children

The child may fail in `execvp` (`Abort`), exit with any status, be killed, and be
stopped and continued. `SIGCHLD` is raised at each of these, merges while it is
pending, and matters in `sigchld.c` only. `wait` takes a zombie, blocks while there
is a living child, and without one returns at once: the status stays what it
was, in the handler a local that nobody wrote (`Unwritten`). `fork` may fail, and
neither program looks: `spawn` returns and `wait` finds no child, `sigchld`'s
parent goes on as the child would.

### Cleanup

Cancellation is deferred, and each place of the thread stands for the calls in
which a request may take effect: in `sleep` it does, in a `printf` it does if this
one writes. `pthread_cleanup_pop(1)` unregisters the handler before it calls it.
`stopped_at` records the place, for the property that says where a buffer may
leak.

### TryLock, MakeDirectory, Prime

`TryLock`: a thread tries, sleeps, tries again; `main()` joins all and destroys
the mutex. `MakeDirectory`: `mkdir`, `rmdir`, `open`, `write`, `read`, `unlink` and
`rename` may fail whatever is at the path (`rmdir` on an empty directory too: for the
path `.`, a mount point, or a parent that may not be written), `perror`, `close` and
`printf` do not; another process may put
anything at the path (`Meddle`); what is there is nothing, a file, or a directory
with a set of entries; `perror` may overwrite the `errno` that is tested after
it. The loop looks at what `mkdir` says and not at what `rmdir` says, so it need
not end: `EndsOrSpins` says that it ends, or something stays at the path for good
while `rmdir` is called again and again; an attempt that failed for another reason
is never repeated. `Prime`: the two nested loops, one division or one increment a step.

### MCSmallPrograms

These seven modules have few states each. `MCSmallPrograms` chooses one of the
programs in its `Init`; the variables of the others stay `Unused`. Its next-state
relation and fairness are those of the instances, and each of its properties is
the conjunction of theirs, guarded by the program they are about.

## Runs

| Run | Instance | What it shows |
|---|---|---|
| `semaphore_jobs` | 2 producers of 2 jobs, 2 consumers; 145,033 states | `TypeOK`, `TokensMatchJobs`, `PopFindsJob`, `JobsAccountedFor`, `NewestFirst`; implements `Pool!Spec`; `Termination` |
| `semaphore_jobs_race` | the same | `AnnouncedJobIsLive` fails: the producer reads its job after the unlock |
| `job_queue` | 3 threads, 0, 1, 4 or 5 jobs asked for, both ends of the list; 57,420 states | `JobsAccountedFor`, `TotalMatchesWork`, `ReturnsOnlyWhenEmpty`; implements `Pool!SafeSpec`; `Termination` |
| `job_queue_wild_end` | the same | `StopsAtTheEnd` fails: a thread follows the unwritten link |
| `critical_section` | 3 accounts, 4 possible transactions, both builds; 689,599 states | `LockHasOwner`, `UpdatesLandOnceOrNever`, `AloneMeansExact`, `Termination` |
| `critical_section_exclusion` | the same | `ExclusiveAccess` fails: both threads pass the loop |
| `critical_section_release` | the same | `LocksReleased` fails in the build that reads back: a lock stays set for ever |
| `flag_threads` | both programs, 10 loops; 718 states | `FlagSetPastWait`, `NoLostWakeUp`, `FlagFollowsCount`; `EndsOrOversleeps`: the toggler always returns, `spin-condvar` always ends, `condvar` ends or its worker sleeps for ever |
| `flag_threads_end` | the same | `Termination` fails: the tenth toggle clears the flag, and a worker that sleeps then is never woken |
| `different_mutexes` | the three kinds, 5 locks per thread; 4,025 states | `LockStaysTaken`, `KindDecides`, `MadeAgainUnused`; `Termination`: `main()` gets out of the deadlock it builds |
| `file_tools` | the five programs, up to 3 bytes, lengths and pieces of 2 bytes; 2,649 states | `WriteAllWritesOnce`, `TempFileRoundTrip`, `ReadFileReleases`, `ReadersGetFile`, whatever call fails or is cut short |
| `small_programs` | the nine small programs, each alone; 35,037 states | `EndsWhenRaised`: once enough signals were accepted the program ends; `OnlyTheTargetDies`; `StatusOfChild`; `FreedOnce`; `ReturnsNthPrime`; `ProgramsEnd`: the other programs end, or wait for what the environment withholds |

In `flag_threads_end` no thread is slow or unlucky beyond one race: the worker tests
`loop_count` before the toggler counts its last time, finds the flag clear and
sleeps; the toggler returns without another signal. It happens because the
number of loops is even: with nine the flag would end set, and the same check
passes.

**Bounds.** Two producers and two consumers are enough for every pair of
threads of the same or of different kinds to meet inside and outside the mutex,
and two jobs each let the list hold several jobs while another is in flight and
a consumer times out with jobs still to come. Three threads on four jobs
let one thread end while two others hold jobs; with `IntMax` = 7 the sum of four
jobs, 6, fits the `int` it is printed in, and that of five, 10, does not. Three accounts let two
transactions cross, three meet in one account, one be refused, one go from an
account to itself, and two be independent. All the counters are bounded by the
programs themselves (jobs per producer, jobs made, one transaction per thread),
so no run needs a state constraint. The invariants of `SemaphoreJobs` are proved
for every size. `FlagThreads` and `DifferentMutexes` run with the sizes of the
programs themselves: two threads, ten loops, five locks, three kinds. In
`FileTools` three bytes let `write_all` be cut twice and then go on or fail, a
length of two bytes can be read or written in part, the lengths asked of
`readfile` are shorter than, equal to and longer than the file, and pieces of two
bytes make `hexdump` end on a piece that is short and on one that is empty; three
stray bytes (`Overrun`) show that they come out. In
`small_programs`, `Kills` is 12 because `sigusr1` waits for ten: two may be merged
or come too many; `sigint` waits for none or for two (`Times`). Two ^Cs
(`Interrupts`) can hit two of the three threads while the second thread's signal
is on its way. A child that is stopped twice (`Stops`) runs the handler again after it
stored a status. There are four pollers, as in the program. Two changes of the path
(`Meddles`) put a directory in the way and take it away again. The fifth prime is
11, after 9, the first odd number that the search must reject.

**Fairness.** Weak fairness of each thread and of `main()`: the kernel runs every
thread that can run. It is enough for the mutexes, since every thread locks a
bounded number of times, so that nobody can be overtaken for ever. A consumer's
weak fairness lets it time out: a deadline passes. No fairness is assumed of
which of two enabled alternatives a thread takes. In `CriticalSection` a
spinning thread needs no more either: each lock is set at most once per thread.
`spin-condvar`'s worker takes and releases the mutex over and over until the
toggler is done, so the toggler needs strong fairness of its lock
(`SF_vars(TogglerLocks)`): a thread that is woken when the mutex is free again
and again gets it in the end. The worker then sleeps or spins on nothing else.
Nothing is assumed of wake-ups nobody asked for (`WakesUnasked`): `condvar` must
not depend on them. In `DifferentMutexes` a cancellation that was asked for takes
effect (`Die` is part of the thread). In `MCSmallPrograms` each program's own steps
and the delivery of a pending signal are weakly fair; nobody has to send a signal,
to type ^C, to continue a stopped child or to leave a path alone, and no call has
to succeed. A poller of `TryLock` that finds the mutex taken tries again, and each
thread takes it once, so weak fairness is enough. `FileTools` is checked without
fairness: its programs are sequences of calls, and nothing in them waits.

**What holds in CriticalSection.** The comments promise exclusive access, and the
code does not give it. What remains true is stated as properties: an account
always holds its opening balance plus some subset of the debits and credits
stored in it (updates are lost whole, never doubled or invented); an account that
one thread alone used is exact; where the chained stores do not read back, a set
lock has an owner that will clear it, and so the program ends. In the other
build a lock can be orphaned, and a transaction from such an account to itself
would spin for ever; `Termination` and `LockHasOwner` are stated for the first
build only.

## Proofs

`SemaphoreJobsProofs` proves, for any finite sets of producers and consumers and
any number of jobs per producer (`SemaphoreJobsAssumption` is all that is
assumed), that every behaviour satisfies `TypeOK`, `TokensMatchJobs`,
`PopFindsJob`, `NewestFirst` and `JobsAccountedFor`, and that it implements
`Pool!SafeSpec`. None of these is inductive by itself. The argument goes in
layers, each inductive relative to those before it:

1. `Inside`: a thread is between its lock and its unlock exactly when it owns the
   mutex; hence what it has read of the list stays true until it unlocks (a
   producer's `next` is the list, a consumer's `this_job` is its head).
2. `TokensMatchJobs`: a push and a post, a token and a pop, change the two
   sides by one each; `Sizes` is the counting lemma. With `Inside` it gives
   `PopFindsJob`: a consumer at the list is itself a token, so the list is not
   empty.
3. `Ordered`: a new index is above all those on the list. So no job is on
   the list twice, and a pop removes its job from the set of listed jobs (`Pop`).
4. `JobsAccountedFor`: each step moves at most one job from one place to the next.
5. `Numbered`: allocations are counted as pairs of a producer and its countdown,
   which bounds `job_counter` by the producers' loops.
6. `Refinement`: `Publish` is a submission, `Advance` a take, `Free` a finish, and
   every other step a stutter.

`FlagThreadsProofs` proves `TypeOK`, `FlagSetPastWait`, `NoLostWakeUp` and
`FlagFollowsCount` for every `MAX_LOOPS`. The inductive invariant adds `CountOK`
(which values `loop_count` can have at each place of the toggler). The owner of
the mutex is the only one that can change the flag or fall asleep, which is why
`TypeOK` carries the mutual exclusion. `FlagFollowsCount` then needs the parity
lemma `(n + 1) % 2 = 1 - n % 2`.

`DifferentMutexesProofs` proves `TypeOK`, `LockStaysTaken`, `KindDecides` and
`MadeAgainUnused` for any sequence of kinds and any `num_locks`. The inductive
invariant is `IInv`: `MainOK` (what `main()` has done; in particular a mutex is
only destroyed when both threads have a request), and for each thread
`Progress` (a thread that holds the lock has got it by a call that succeeded,
and then the library knows it is in use, so that it cannot be destroyed) and `Seen`
(what the calls so far returned, by kind, in a mutex that stands or was
destroyed).

`JobQueueProofs` proves `TypeOK`, `ReturnsOnlyWhenEmpty`, `JobsAccountedFor`,
`TotalMatchesWork` and `ImplementsJobPool` for any finite set of threads that is not
empty, any numbers of jobs and both ends of the list (`JobQueueAssumption`; without
a thread nobody would empty the list, and the sum would be 0). `Inside` ties the
mutex to its owner's place and says what each place knows of its job and of the
list; it gives the first two. `Places` says that the list is the end of 0 .. M - 1
(`Ordered`), that no two threads hold one job nor one that is freed (`Apart`), that
what is not listed is held or freed (`Taken`), and counts both (`Counted`).
`InitJobs` is a submission of all jobs, `Advance` a take, `Free` a finish, and every
other step a stutter. For `TotalMatchesWork`, a step that adds a factor to one
thread's sum adds one job to the processed ones (`SumOfUpdate`, `SumOfIdentity`),
and at the joins all jobs are processed, whose factors add up to n(n-1)/2
(`SumOfFirst`). A sum from 0 to `IntMax` is printed as it is (`PrintedAsIs`), and
any other shows as something that is at most `IntMax`. `Stops` is the other side of the run `job_queue_wild_end`: with a
NULL at the end (`AtTheEnd`) no thread goes past it.

`CriticalSectionProofs` proves `TypeOK`, `UpdatesLandOnceOrNever`, `AloneMeansExact`
and, where the chained stores do not read back, `LockHasOwner`, for any number of
accounts and transactions. `Prepared` says what each group of threads has written,
so that the next one finds it; `Knows` what is in a thread's register when it stores
it. A step of a thread then has two effects to look at: on the arrays and its own
register (`StepTypes`), and on the locks (`StepLocks`: it clears those it stops
owning and sets none but its own). The two properties of the balances are not
inductive, since a register waits for its store while others store. `Explained` says
of a register, as of a balance, that it is the opening balance plus some of the
operations stored in the account so far; an operation of the thread itself is not
among them, so its store adds it once. `Undisturbed` says that where one thread
alone has stored in an account, the balance has all its operations, and that
thread's register is the balance. `Released` is the other side of the run
`critical_section_release`: without the reading back, `LocksReleased` holds.

`SumTheorems` has what these two need of a sum over a function, which the community
modules define by recursion on sets. The library's induction theorems take
an operator as a parameter and cannot be used; here the predicate is a set of sets, so
that induction over a finite set is first-order. It proves that the recursive
function exists, that a sum of integers is an integer, and what a changed or an added
summand does to it.

`FileToolsProofs` proves all five invariants of `FileTools` for any inputs, lengths
and sizes. `TypeOK` is inductive. `Progress` has a part per program: what has been
moved so far is the beginning of what is to move, but for a `hexdump` that has
crashed. For `temp_file`, `Whole` says
what the file is if the length at its start is whole, and `LengthRead` that a length
read from there is the data's. The lemmas on `SubSeq` and `IsPrefix` say that
adjacent pieces make one.

`SmallProgramsProofs` proves all five invariants of `small_programs`, from
`SmallProgramsAssumption`: the bounds on the environment are natural numbers of any
size, `which_prime` is positive, and `Nobody` is no thread. Each program has an
invariant of its own, `Inv` is the one of the program that runs, and a step of the
whole is a step of that program.

- `sigusr1`, `sigint`: `Balanced` counts the signals by what became of them;
  `CountsSignals` follows (counted once, and `main()` returns only after enough).
- `thread-signal`: `SignalsAdd` counts a pending ^C with the threads hit, and says
  that the second thread's own signal comes on top only after it has sent it.
  Without a handler nobody is hit (`SignalsPlace`). `OneHit` and `NobodyHit` say how
  the count of threads changes.
- `fork-exec`, `sigchld`: `Sigchld` says that, if the child was never stopped, a
  handler that is about to run has a zombie to take, and no second signal comes
  while it runs. That makes the handler's status the child's; with a stop it is the
  child's or unwritten. After a fork that failed nothing is stored in `sigchld`, and
  `fork-exec` decodes an unwritten status.
- `cleanup`: `BufferAt` says what has become of the buffer at each place of the
  thread.
- `trylock-example`: `TypeOK` carries the mutual exclusion and is inductive.
- `make-directory`: the descriptor is open only before a `write` or a `read`.
- `prime`: `Tested` is the inner loop's invariant (no factor so far divides the
  candidate), `Counted` the outer one's (the primes below the candidate are those
  counted down), `Found` what is returned. `OneMore` says how the count of the
  primes grows with the candidate.

**Only model-checked.** Every invariant and every safety refinement that a passing
run checks is proved. What stays with TLC is liveness, which is beyond this prover:
`Termination`, `EndsOrOversleeps`, `EndsWhenRaised`, `ProgramsEnd`, and the fairness
half of `Pool!Spec` (`SemaphoreJobs` is proved to implement `Pool!SafeSpec`).

## What is not modelled

- `ch03/fork.c`, `zombie.c`, `system.c`, `print-pid.c`: they fork or run a command
  once, print and return; no two steps share a state.
- `ch04/thread-create*.c`, `detached.c`, `thread-pid.c`, `tsd.c`: threads that print,
  or write one line to a log of their own. `cxx-exit.cpp`: one flag, set once by
  `main()` and polled by a thread that does nothing else.
- `ch02/tmpfile.c`: `temp_file.c` again over buffered streams; what a failing
  `fwrite` leaves in the file is up to the C library's buffer.
- `ch02/buffer.c`, `getopt_long.c` and the other programs of `ch01` and `ch02`, the
  other tools of `appb` (`listdir.c`, `lseek-huge.c` and the like), `reciprocal`:
  command lines, output, one library call after the other. They keep no state
  whose evolution could go wrong.
- Output everywhere, unless a property is about it, and the clock: a deadline may
  pass whenever a thread waits for it.

Nine hazards of `PROJECT.json` have no property.

- Accesses outside an array have no outcome to state a property about: `rand()` may
  return `RAND_MAX` (`critical-section.c:71`), an unterminated buffer is printed
  (`temp_file.c:74`), a file name may be longer than its array (`tsd.c:27`). `read` may
  return -1 (`hexdump.c:25`): the model has what follows, and no property relies on
  what is printed then.
- What can go wrong does, and no text forbids it: a balance may fall below zero
  (`critical-section.c:30`); `make-directory` may give up because `perror` changed
  `errno` (`make-directory.c:29`).
- `sigusr1.c:20-22` says that ten kills "would do the trick". They do not when
  signals are merged (`sigusr1.c:11`), nor in the optimised build, which never
  ends (`sigusr1.c:23`). The model has both; `EndsWhenRaised` is about signals that
  are not merged and the build that reads the count again.
- The toggler of `spin-condvar` may starve (`spin-condvar.c:30`): the strong fairness
  that the run assumes takes that out.

Where a comment and the code part, a run shows the counterexample for the five cases
in `PROJECT.json`'s findings. Four more are known, and only described here: the total
of `job-queue.c:110` ("Print the total from all threads") is printed wrong above
65,536 jobs; a short read is not always the end of the file (`hexdump.c:17-19`);
`NULL` is not returned for a file that could not be opened and whose kind the stack
says is regular (`read-file.c:9-12`); and `sigusr1.c:20-22` as above.
