-------------------------- MODULE MCSmallPrograms --------------------------
(* One of seven specifications of small programs is chosen at the start, and *)
(* runs alone: the variables of the others stay Unused.                      *)
EXTENDS Integers

CONSTANTS Times, Kills,                                  \* SignalCount
          Interrupts,                                    \* ThreadSignal
          Success, Failures, Killed, Unwritten, Stops,   \* Children
          Workers, Nobody,                               \* TryLock
          Meddles,                                       \* MakeDirectory
          which_prime,                                   \* Prime
          Unused

ASSUME SmallProgramsAssumption ==
  /\ Times \subseteq Int
  /\ Kills \in Nat /\ Interrupts \in Nat /\ Stops \in Nat /\ Meddles \in Nat
  /\ which_prime \in Nat \ {0}
  /\ Nobody \notin Workers

VARIABLES program, main,
          rereads, num_times, sent, merged, pending, handling, count, seen, main_count,
          process, place, handled, directed, shared, interrupts,
          parent, handler, raised, child, ended, stops, status, child_exit_status,
          thread, requested, buffer, frees, stopped_at,
          pc, lock,
          errno, path, entries, fd, meddled,
          candidate, factor, is_prime, n, returned, prime

signals == <<rereads, num_times, sent, merged, pending, handling, count, seen, main_count>>
threads == <<process, place, handled, directed, shared, interrupts>>
children == <<parent, handler, raised, child, ended, stops, status, child_exit_status>>
cleaning == <<thread, requested, buffer, frees, stopped_at>>
polling == <<pc, lock>>
directory == <<errno, path, entries, fd, meddled>>
search == <<candidate, factor, is_prime, n, returned, prime>>
vars == <<program, main, signals, threads, children, cleaning, polling, directory, search>>

Counting == INSTANCE SignalCount
Signals == INSTANCE ThreadSignal
Processes == INSTANCE Children WITH pending <- raised
Cancelling == INSTANCE Cleanup
Polling == INSTANCE TryLock
Directory == INSTANCE MakeDirectory
Search == INSTANCE Prime

InCounting(A) == /\ program \in {"sigusr1", "sigint"} /\ A
                 /\ UNCHANGED <<threads, children, cleaning, polling, directory, search>>
InSignals(A) == /\ program = "thread-signal" /\ A
                /\ UNCHANGED <<program, main, signals, children, cleaning, polling, directory,
                               search>>
InProcesses(A) == /\ program \in {"fork-exec", "sigchld"} /\ A
                  /\ UNCHANGED <<main, signals, threads, cleaning, polling, directory, search>>
InCancelling(A) == /\ program = "cleanup" /\ A
                   /\ UNCHANGED <<program, signals, threads, children, polling, directory, search>>
InPolling(A) == /\ program = "trylock-example" /\ A
                /\ UNCHANGED <<program, signals, threads, children, cleaning, directory, search>>
InDirectory(A) == /\ program = "make-directory" /\ A
                  /\ UNCHANGED <<program, signals, threads, children, cleaning, polling, search>>
InSearch(A) == /\ program = "prime" /\ A
               /\ UNCHANGED <<program, signals, threads, children, cleaning, polling, directory>>

\* TLC evaluates the liveness properties below in every program: rereads, place and
\* directed have a value of their type in all of them.
NoSignals == /\ rereads = FALSE /\ num_times = Unused /\ sent = Unused /\ merged = Unused
             /\ pending = Unused /\ handling = Unused /\ count = Unused /\ seen = Unused
             /\ main_count = Unused
NoThreads == /\ place = [t \in Signals!Threads |-> "unborn"] /\ directed = {}
             /\ process = Unused /\ handled = Unused
             /\ shared = Unused /\ interrupts = Unused
NoChildren == /\ parent = Unused /\ handler = Unused /\ raised = Unused /\ child = Unused
              /\ ended = Unused /\ stops = Unused /\ status = Unused
              /\ child_exit_status = Unused
NoCleaning == /\ thread = Unused /\ requested = Unused /\ buffer = Unused /\ frees = Unused
              /\ stopped_at = Unused
NoPolling == pc = Unused /\ lock = Unused
NoDirectory == /\ errno = Unused /\ path = Unused /\ entries = Unused /\ fd = Unused
               /\ meddled = Unused
NoSearch == /\ candidate = Unused /\ factor = Unused /\ is_prime = Unused /\ n = Unused
            /\ returned = Unused /\ prime = Unused

Init ==
  \/ /\ Counting!Init
     /\ NoThreads /\ NoChildren /\ NoCleaning /\ NoPolling /\ NoDirectory /\ NoSearch
  \/ /\ program = "thread-signal" /\ main = Unused /\ Signals!Init
     /\ NoSignals /\ NoChildren /\ NoCleaning /\ NoPolling /\ NoDirectory /\ NoSearch
  \/ /\ Processes!Init /\ main = Unused
     /\ NoSignals /\ NoThreads /\ NoCleaning /\ NoPolling /\ NoDirectory /\ NoSearch
  \/ /\ program = "cleanup" /\ Cancelling!Init
     /\ NoSignals /\ NoThreads /\ NoChildren /\ NoPolling /\ NoDirectory /\ NoSearch
  \/ /\ program = "trylock-example" /\ Polling!Init
     /\ NoSignals /\ NoThreads /\ NoChildren /\ NoCleaning /\ NoDirectory /\ NoSearch
  \/ /\ program = "make-directory" /\ Directory!Init
     /\ NoSignals /\ NoThreads /\ NoChildren /\ NoCleaning /\ NoPolling /\ NoSearch
  \/ /\ program = "prime" /\ Search!Init
     /\ NoSignals /\ NoThreads /\ NoChildren /\ NoCleaning /\ NoPolling /\ NoDirectory

Next == \/ InCounting(Counting!Next)
        \/ InSignals(Signals!Next)
        \/ InProcesses(Processes!Next)
        \/ InCancelling(Cancelling!Next)
        \/ InPolling(Polling!Next)
        \/ InDirectory(Directory!Next)
        \/ InSearch(Search!Next)

\* The kernel runs every process and thread that can run, and delivers what is pending.  It
\* is free to fail and to stop a child, and nobody has to send a signal.
Fairness == /\ WF_vars(InCounting(Counting!Main)) /\ WF_vars(InCounting(Counting!Deliver))
            /\ WF_vars(InCounting(Counting!handler))
            /\ WF_vars(InSignals(Signals!Main)) /\ WF_vars(InSignals(Signals!KillOther))
            /\ \A t \in Signals!Threads : WF_vars(InSignals(Signals!Signal(t)))
            /\ WF_vars(InProcesses(Processes!Parent)) /\ WF_vars(InProcesses(Processes!Child))
            /\ WF_vars(InCancelling(Cancelling!Main))
            /\ WF_vars(InCancelling(Cancelling!do_some_work))
            /\ WF_vars(InPolling(Polling!Main))
            /\ \A t \in Workers : WF_vars(InPolling(Polling!task(t)))
            /\ WF_vars(InDirectory(Directory!Main))
            /\ WF_vars(InSearch(Search!compute_prime)) /\ WF_vars(InSearch(Search!Join))

Spec == Init /\ [][Next]_vars /\ Fairness

-----------------------------------------------------------------------------

\* The type invariant of the specification that runs.
TypeOK == /\ program \in {"sigusr1", "sigint"} => Counting!TypeOK
          /\ program = "thread-signal" => Signals!TypeOK
          /\ program \in {"fork-exec", "sigchld"} => Processes!TypeOK
          /\ program = "cleanup" => Cancelling!TypeOK
          /\ program = "trylock-example" => Polling!TypeOK
          /\ program = "make-directory" => Directory!TypeOK
          /\ program = "prime" => Search!TypeOK

\* Signals that are not merged are counted, and end sigusr1 and sigint (SignalCount).
EndsWhenRaised == program \in {"sigusr1", "sigint"} => Counting!EndsWhenRaised

\* A SIGINT takes the thread it is sent to and no other (ThreadSignal).
OnlyTheTargetDies == program = "thread-signal" => Signals!OnlyTheTargetDies

\* The status taken is the child's own, and no zombie is overlooked (Children).
StatusOfChild == program \in {"fork-exec", "sigchld"} => Processes!StatusOfChild

\* The buffer of a cancelled thread is freed once (Cleanup).
FreedOnce == program = "cleanup" => Cancelling!FreedOnce

\* main() prints the prime it asked for (Prime).
ReturnsNthPrime == program = "prime" => Search!ReturnsNthPrime

\* The other programs end, or wait for what the environment withholds (ThreadSignal,
\* Children, Cleanup, TryLock, MakeDirectory, Prime).
ProgramsEnd == /\ program = "thread-signal" => Signals!FirstDies
               /\ program \in {"fork-exec", "sigchld"} => Processes!ParentEnds
               /\ program = "cleanup" => Cancelling!ThreadJoined
               /\ program = "trylock-example" => Polling!AllGetIn
               /\ program = "make-directory" => Directory!EndsOrSpins
               /\ program = "prime" => <>(main = "exit")
=============================================================================
