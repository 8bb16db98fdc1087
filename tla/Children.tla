------------------------------ MODULE Children ------------------------------
(***************************************************************************)
(* ch03/fork-exec.c and ch03/sigchld.c: a parent forks a child and takes   *)
(* its status, with a wait() of its own or with one in the handler of      *)
(* SIGCHLD, which the child's stops and continuations raise as well.       *)
(*                                                                         *)
(* fork() may fail: neither program looks.  A wait() without a child       *)
(* returns at once and leaves the status as it was, which is what the      *)
(* stack held.  A child whose parent has ended is reaped by the system.    *)
(***************************************************************************)
EXTENDS Naturals

CONSTANTS Success,    \* the status of a child that exits with 0,
          Failures,   \*   the others that ls may exit with,
          Killed,     \*   and that of a child ended by a signal
          Unwritten,  \* the contents of a local nobody has written
          Stops       \* bound: how often the child is stopped

VARIABLES program,
          parent,   \* where the parent is
          handler,  \* where its handler of SIGCHLD is: "none", "wait" or "store"
          pending,  \* is a SIGCHLD pending?
          child,    \* "none", "fork", "running", "stopped", "zombie" or "reaped"
          ended,    \* how the child ended
          stops,    \* how often it was stopped
          status,   \* child_status, and the handler's status
          child_exit_status

vars == <<program, parent, handler, pending, child, ended, stops, status, child_exit_status>>

Init == /\ program \in {"fork-exec", "sigchld"}
        /\ parent = "fork" /\ handler = "none" /\ pending = FALSE
        /\ child = "none" /\ ended = Unwritten /\ stops = 0
        /\ status = Unwritten /\ child_exit_status = Success

\* What SIGCHLD does in a program that does not handle it: nothing.
RaiseSigchld == pending' = (program = "sigchld" /\ parent # "exit")

-----------------------------------------------------------------------------
(* The child: it executes ls, or sleeps and returns 0; a signal may end it, and stop it  *)
(* for a while.                                                                          *)

Exec == /\ child = "fork" /\ child' = "running"
        /\ UNCHANGED <<program, parent, handler, pending, ended, stops, status,
                       child_exit_status>>

Exits(code) == /\ child' = IF parent = "exit" THEN "reaped" ELSE "zombie"
               /\ ended' = code
               /\ RaiseSigchld
               /\ UNCHANGED <<program, parent, handler, stops, status, child_exit_status>>

\* execvp() fails, and abort() is called
Abort == child = "fork" /\ program = "fork-exec" /\ Exits(Killed)

Exit == /\ child = "running"
        /\ \/ Exits(Success) \/ Exits(Killed)
           \/ program = "fork-exec" /\ \E code \in Failures : Exits(code)

Stop == /\ child = "running" /\ stops < Stops
        /\ child' = "stopped" /\ stops' = stops + 1
        /\ RaiseSigchld
        /\ UNCHANGED <<program, parent, handler, ended, status, child_exit_status>>

Continue == /\ child = "stopped"
            /\ child' = "running"
            /\ RaiseSigchld
            /\ UNCHANGED <<program, parent, handler, ended, stops, status, child_exit_status>>

Child == Exec \/ Abort \/ Exit

-----------------------------------------------------------------------------
(* The parent *)

\* fork(); with -1, spawn() returns to main() all the same, and sigchld's parent takes
\* the child's branch, which sleeps as well
Fork == /\ parent = "fork"
        /\ parent' = IF program = "fork-exec" THEN "wait" ELSE "sleep"
        /\ child' \in {"fork", "none"}
        /\ UNCHANGED <<program, handler, pending, ended, stops, status, child_exit_status>>

\* Fault: wait() does not block while the child runs.
Wait_NoHang == IF child = "zombie" THEN child' = "reaped" /\ status' = ended
                                   ELSE UNCHANGED <<child, status>>

\* wait(&status)
Wait == \/ child = "zombie" /\ child' = "reaped" /\ status' = ended
        \/ child \in {"none", "reaped"} /\ UNCHANGED <<child, status>>

\* fork-exec waits, decodes and prints the status.
WaitForChild == /\ parent = "wait" /\ parent' = "exit"
                /\ Wait
                /\ UNCHANGED <<program, handler, pending, ended, stops, child_exit_status>>

\* clean_up_child_process(), which takes a new local
Deliver == /\ pending /\ handler = "none" /\ parent # "exit"
           /\ pending' = FALSE /\ handler' = "wait" /\ status' = Unwritten
           /\ UNCHANGED <<program, parent, child, ended, stops, child_exit_status>>

WaitInHandler == /\ handler = "wait" /\ handler' = "store"
                 /\ Wait
                 /\ UNCHANGED <<program, parent, pending, ended, stops, child_exit_status>>

Store == /\ handler = "store" /\ handler' = "none"
         /\ child_exit_status' = status
         /\ UNCHANGED <<program, parent, pending, child, ended, stops, status>>

\* The sleep is over, or the handler has interrupted it; the program returns.
Wake == /\ parent = "sleep" /\ handler = "none"
        /\ parent' = "exit" /\ pending' = FALSE
        /\ child' = IF child = "zombie" THEN "reaped" ELSE child
        /\ UNCHANGED <<program, handler, ended, stops, status, child_exit_status>>

Parent == Fork \/ WaitForChild \/ Deliver \/ WaitInHandler \/ Store \/ Wake

Ended == parent = "exit" /\ child \in {"none", "reaped"} /\ UNCHANGED vars

Next == Child \/ Stop \/ Continue \/ Parent \/ Ended

-----------------------------------------------------------------------------
(* Properties *)

Statuses == Failures \cup {Success, Killed, Unwritten}

\* The types of the variables.
TypeOK == /\ parent \in {"fork", "wait", "sleep", "exit"}
          /\ handler \in {"none", "wait", "store"} /\ pending \in BOOLEAN
          /\ child \in {"none", "fork", "running", "stopped", "zombie", "reaped"}
          /\ {ended, status, child_exit_status} \subseteq Statuses
          /\ stops \in 0 .. Stops

\* The status a program has taken is the one its child ended with, with two exceptions, in
\* which it is what the stack held: fork-exec after a fork() that failed, and sigchld when its
\* child was stopped, since the handler runs for a stop too and may find no child left.  Until
\* there is a status to take nothing is stored, and no zombie is overlooked: the handler is
\* about to run, or already waits for it.
StatusOfChild ==
  /\ program = "fork-exec" /\ parent = "exit" =>
       IF child = "none" THEN status = Unwritten ELSE child = "reaped" /\ status = ended
  /\ program = "sigchld" =>
       /\ child = "zombie" => pending \/ handler = "wait"
       /\ handler = "store" => status = ended \/ (stops > 0 /\ status = Unwritten)
       /\ child # "reaped" => child_exit_status = Success
       /\ child_exit_status \in {Success, ended} \/ (stops > 0 /\ child_exit_status = Unwritten)

\* The parent ends, unless it waits for a child that stays stopped.
ParentEnds == <>(parent = "exit") \/ <>[](child = "stopped")
=============================================================================
