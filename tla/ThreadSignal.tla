---------------------------- MODULE ThreadSignal ----------------------------
(***************************************************************************)
(* ch04/thread-signal.c: main() makes two threads, the second of which     *)
(* sends a SIGINT to the first, and then installs the handler of SIGINT:   *)
(* it ends the process in the main thread, and else the thread it runs in. *)
(* A user may type ^C at any time; the kernel gives that signal to any     *)
(* thread.  The threads print and loop for ever.                           *)
(***************************************************************************)
EXTENDS Integers, FiniteSets

CONSTANT Interrupts  \* bound: how often the user types ^C

Threads == {"main", "first", "second"}

VARIABLES process,     \* "running", "exited" by itself, or "killed"
          place,       \* where each thread is
          handled,     \* has sigaction() been called?
          directed,    \* the threads with a SIGINT of their own pending
          shared,      \* is a SIGINT pending for the process?
          interrupts   \* the ^Cs so far

vars == <<process, place, handled, directed, shared, interrupts>>

Init == /\ process = "running"
        /\ place = [t \in Threads |-> IF t = "main" THEN "create" ELSE "unborn"]
        /\ handled = FALSE /\ directed = {} /\ shared = FALSE /\ interrupts = 0

Alive(t) == process = "running" /\ place[t] \notin {"unborn", "dead"}
Goto(t, from, to) == process = "running" /\ place[t] = from /\ place' = [place EXCEPT ![t] = to]

-----------------------------------------------------------------------------

\* The two calls of pthread_create()
CreateFirst == /\ process = "running" /\ place["main"] = "create" /\ place["first"] = "unborn"
               /\ place' = [place EXCEPT !["first"] = "loop"]
               /\ UNCHANGED <<process, handled, directed, shared, interrupts>>

CreateSecond == /\ process = "running" /\ place["main"] = "create" /\ place["first"] # "unborn"
                /\ place' = [place EXCEPT !["main"] = "install", !["second"] = "sleep"]
                /\ UNCHANGED <<process, handled, directed, shared, interrupts>>

\* sigaction(), and return -1 if it fails
Install == /\ \/ Goto("main", "install", "loop") /\ handled' = TRUE /\ UNCHANGED process
              \/ Goto("main", "install", "failed") /\ process' = "exited" /\ UNCHANGED handled
           /\ UNCHANGED <<directed, shared, interrupts>>

\* pthread_kill(other, SIGINT), after the sleep
KillOther == /\ Goto("second", "sleep", "loop")
             /\ directed' = IF place["first"] = "dead" THEN directed ELSE directed \cup {"first"}
             /\ UNCHANGED <<process, handled, shared, interrupts>>

Interrupt == /\ process = "running" /\ interrupts < Interrupts
             /\ interrupts' = interrupts + 1 /\ shared' = TRUE
             /\ UNCHANGED <<process, place, handled, directed>>

\* A signal takes a thread out of whatever it does, for good.  Without a handler it ends
\* the process.
Deliver(t) == /\ Alive(t) /\ place[t] # "handler"
              /\ \/ t \in directed /\ directed' = directed \ {t} /\ UNCHANGED shared
                 \/ shared /\ shared' = FALSE /\ UNCHANGED directed
              /\ IF handled
                 THEN place' = [place EXCEPT ![t] = "handler"] /\ UNCHANGED process
                 ELSE process' = "killed" /\ UNCHANGED place
              /\ UNCHANGED <<handled, interrupts>>

\* Fault: the handler does not ask whose it is.
handler_Exits(t) == /\ Goto(t, "handler", "dead")
                    /\ process' = "exited" /\ directed' = directed \ {t}
                    /\ UNCHANGED <<handled, shared, interrupts>>

\* exit(0) in the main thread, pthread_exit(0) in another one
handler(t) == /\ Goto(t, "handler", "dead")
              /\ process' = IF t = "main" THEN "exited" ELSE process
              /\ directed' = directed \ {t}
              /\ UNCHANGED <<handled, shared, interrupts>>

\* while (1), with a heartbeat or without
Loop(t) == Goto(t, "loop", "loop") /\ UNCHANGED vars

Ended == process # "running" /\ UNCHANGED vars

Main == CreateFirst \/ CreateSecond \/ Install
Signal(t) == Deliver(t) \/ handler(t)

Next == \/ Main \/ KillOther \/ Interrupt \/ Ended
        \/ \E t \in Threads : Signal(t) \/ Loop(t)

-----------------------------------------------------------------------------
(* Properties *)

\* The types of the variables.
TypeOK ==
  /\ process \in {"running", "exited", "killed"}
  /\ place \in [Threads -> {"create", "install", "failed", "unborn", "sleep", "loop",
                            "handler", "dead"}]
  /\ handled \in BOOLEAN /\ directed \subseteq {"first"} /\ shared \in BOOLEAN
  /\ interrupts \in 0 .. Interrupts

Hit == {t \in Threads : place[t] \in {"handler", "dead"}}

\* Every SIGINT takes one thread at most: the second thread's none but the first, and who
\* else goes, was hit by a ^C.  The process ends with its main thread alone, or by a SIGINT
\* that came before the handler was there.
OnlyTheTargetDies ==
  /\ Cardinality(Hit \ {"first"}) <= interrupts
  /\ Cardinality(Hit) + Cardinality(directed) <= interrupts + 1
  /\ place["second"] = "sleep" => Cardinality(Hit) <= interrupts /\ directed = {}
  /\ process = "exited" => place["main"] \in {"dead", "failed"}
  /\ process = "killed" => Hit = {} /\ ~handled

\* The second thread's SIGINT is sent, unless a ^C hits that thread first, and it is not
\* lost: the first thread dies of it, or all of them do.
Over == process # "running" \/ place["first"] = "dead"
FirstDies == /\ <>(Over \/ place["second"] \in {"handler", "dead"})
             /\ []("first" \in directed => <>Over)
=============================================================================
