---------------------------- MODULE SignalCount ----------------------------
(***************************************************************************)
(* ch03/sigusr1.c and ch03/sigint.c: main() installs a handler that counts *)
(* a signal and spins until the count is high enough; sigint also prints   *)
(* how many are to go.  The other actor is whoever sends the signals.      *)
(*                                                                         *)
(* A signal that is sent while one is pending is merged with it.  The      *)
(* handler's own signal is blocked while it runs.  Neither count is        *)
(* volatile: a build may read it before each use (GCC 12 -O0), or only     *)
(* where main() has just called a function (GCC 12 -O2): rereads says      *)
(* which build runs.                                                       *)
(***************************************************************************)
EXTENDS Integers

CONSTANTS Times,  \* the numbers sigint may get as its argument
          Kills   \* bound: how many signals are sent to a handler

VARIABLES program, rereads,
          main,        \* where main() is; "killed" when the process is gone
          num_times,   \* the signals main() waits for
          sent,        \* the signals sent since the handler was installed, and how
          merged,      \*   many of them found one pending
          pending, handling,
          count,       \* sigusr1_count or sigint_count
          seen,        \* main()'s register
          main_count   \* the count that sigint printed last

vars == <<program, rereads, main, num_times, sent, merged, pending, handling,
          count, seen, main_count>>

Init == /\ program \in {"sigusr1", "sigint"}
        /\ rereads \in BOOLEAN
        /\ main = "install"
        /\ num_times \in IF program = "sigusr1" THEN {10} ELSE Times
        /\ sent = 0 /\ merged = 0 /\ pending = FALSE /\ handling = FALSE
        /\ count = 0 /\ seen = 0 /\ main_count = -1

built == <<program, rereads, num_times>>
signal == <<sent, merged, pending, handling, count>>

-----------------------------------------------------------------------------
(* The signal: until the handler is installed it kills the process. *)

Kill == \/ /\ main = "install" /\ main' = "killed"
           /\ UNCHANGED <<built, signal, seen, main_count>>
        \/ /\ main \notin {"install", "killed", "exit"} /\ sent < Kills
           /\ sent' = sent + 1 /\ pending' = TRUE
           /\ merged' = IF pending THEN merged + 1 ELSE merged
           /\ UNCHANGED <<built, main, handling, count, seen, main_count>>

Deliver == /\ pending /\ ~handling /\ main # "exit"
           /\ pending' = FALSE /\ handling' = TRUE
           /\ UNCHANGED <<built, main, sent, merged, count, seen, main_count>>

handler == /\ handling /\ handling' = FALSE
           /\ count' = count + 1
           /\ UNCHANGED <<built, main, sent, merged, pending, seen, main_count>>

-----------------------------------------------------------------------------
(* main(), which stands still while the handler runs *)

At(from) == main = from /\ ~handling
Value == IF rereads THEN count ELSE seen

\* sigaction()
Install == /\ At("install") /\ main' = "load"
           /\ UNCHANGED <<built, signal, seen, main_count>>

\* The count as main() finds it after a call
Load == /\ At("load") /\ main' = "test"
        /\ seen' = count
        /\ UNCHANGED <<built, signal, main_count>>

\* Fault: the loop waits for exactly num_times signals.
Test_Exactly == /\ At("test")
                /\ main' = IF Value = num_times THEN "exit"
                           ELSE IF program = "sigint" THEN "compare" ELSE "test"
                /\ UNCHANGED <<built, signal, seen, main_count>>

\* while (count < num_times)
Test == /\ At("test")
        /\ main' = IF Value >= num_times THEN "exit"
                   ELSE IF program = "sigint" THEN "compare" ELSE "test"
        /\ UNCHANGED <<built, signal, seen, main_count>>

\* if (main_count != (int) sigint_count)
Compare == /\ At("compare")
           /\ main' = IF main_count # Value THEN "announce" ELSE "test"
           /\ UNCHANGED <<built, signal, seen, main_count>>

\* main_count = (int) sigint_count; printf(...)
Announce == /\ At("announce") /\ main' = "load"
            /\ main_count' = Value
            /\ UNCHANGED <<built, signal, seen>>

Main == Install \/ Load \/ Test \/ Compare \/ Announce

Ended == main \in {"killed", "exit"} /\ UNCHANGED vars

Next == Kill \/ Deliver \/ handler \/ Main \/ Ended

-----------------------------------------------------------------------------
(* Properties *)

\* The types; every signal is counted, under way or merged with another one, and main()
\* prints no count that has not been reached.
TypeOK == /\ main \in {"install", "load", "test", "compare", "announce", "exit", "killed"}
          /\ pending \in BOOLEAN /\ handling \in BOOLEAN
          /\ {sent, merged, count, seen} \subseteq 0 .. Kills
          /\ sent - merged = count + (IF pending THEN 1 ELSE 0) + (IF handling THEN 1 ELSE 0)
          /\ main_count \in -1 .. count /\ seen <= count
          /\ main = "exit" => count >= num_times

\* Lines 20-22 of sigusr1.c, "Wait while 10 SIGUSR1 are raised.  This would do the trick",
\* are true of signals that do not meet another one on their way, and more of them do no
\* harm: once num_times have been accepted the program ends, in a build that rereads.
EndsWhenRaised ==
  [](rereads /\ main # "killed" /\ sent - merged >= num_times => <>(main \in {"exit", "killed"}))
=============================================================================
