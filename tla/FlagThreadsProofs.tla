------------------------- MODULE FlagThreadsProofs -------------------------
(* Proofs about FlagThreads for every MAX_LOOPS. *)
EXTENDS FlagThreads, TLAPS

\* What TypeOK leaves out: no thread runs before main() creates it; the count ends one past
\* MAX_LOOPS only when the toggler returns, and it is not zero while a loop is under way.
CountOK == /\ main = "create_worker" => worker = "none"
           /\ main \in {"create_worker", "create_toggler"} => toggler = "none"
           /\ toggler = "none" \/ toggler = "count" => loop_count <= MAX_LOOPS
           /\ toggler \in {"negate", "lock", "set", "signal", "unlock"} =>
                loop_count \in 1 .. MAX_LOOPS
           /\ toggler = "returned" => loop_count = MAX_LOOPS + 1

\* The inductive invariant: what the owner of the mutex knows of the flag holds because
\* TypeOK lets nobody else write it meanwhile.
IInv == TypeOK /\ CountOK /\ FlagSetPastWait /\ NoLostWakeUp

\* The two values of the flag alternate with the count.
LEMMA Parity == ASSUME NEW n \in Nat
                PROVE  (n + 1) % 2 = 1 - (n % 2) /\ n % 2 \in {0, 1}
  BY SMT

\* Neither program starts with a count, a sleeper or a flag of another value.
LEMMA InitIInv == Init => IInv
  BY FlagThreadsAssumption
  DEF Init, FirstFlag, IInv, TypeOK, CountOK, FlagSetPastWait, NoLostWakeUp

\* Every step keeps the invariant.
LEMMA StepIInv == IInv /\ [Next]_vars => IInv'
<1> SUFFICES ASSUME IInv, [Next]_vars PROVE IInv'
  OBVIOUS
<1> USE FlagThreadsAssumption DEF IInv, TypeOK, CountOK, FlagSetPastWait, NoLostWakeUp
<1>1. CASE Main
  BY <1>1 DEF Main, MainGoes, CreateWorker, CreateToggler, JoinToggler, JoinWorker
<1>2. CASE TestCount
  BY <1>2 DEF TestCount, Works
<1>3. CASE WorkerLocks
  BY <1>3 DEF WorkerLocks, Works
<1>4. CASE WorkerUnlocks
  BY <1>4 DEF WorkerUnlocks, Works
<1>5. CASE SeesFlag \/ ReadsFlag \/ UsesFlag
  BY <1>5 DEF SeesFlag, ReadsFlag, UsesFlag, Works
<1>6. CASE Waits \/ WakesUnasked \/ Relocks
  BY <1>6 DEF Waits, WakesUnasked, Relocks, Works
<1>7. CASE CountLoop
  BY <1>7 DEF CountLoop, Toggles
<1>8. CASE Negate
  BY <1>8 DEF Negate, Toggles
<1>9. CASE TogglerLocks \/ TogglerUnlocks
  BY <1>9 DEF TogglerLocks, TogglerUnlocks, Toggles
<1>10. CASE SetFlag
  BY <1>10 DEF SetFlag, Toggles
<1>11. CASE Signal
  BY <1>11 DEF Signal, Toggles
<1>12. CASE UNCHANGED vars
  BY <1>12 DEF vars
<1> QED
  BY <1>1, <1>2, <1>3, <1>4, <1>5, <1>6, <1>7, <1>8, <1>9, <1>10, <1>11, <1>12
  DEF Next, Worker, Toggler, Exited

\* The types, and mutual exclusion on thread_flag_mutex.
THEOREM Types == Spec => []TypeOK
<1>1. Spec => []IInv
  BY InitIInv, StepIInv, PTL DEF Spec
<1> QED
  BY <1>1, PTL DEF IInv

\* condvar's worker never works on a flag that it has not seen set, whoever woke it.
THEOREM SetPastWait == Spec => []FlagSetPastWait
<1>1. Spec => []IInv
  BY InitIInv, StepIInv, PTL DEF Spec
<1> QED
  BY <1>1, PTL DEF IInv

\* No wake-up is lost.
THEOREM WakeUps == Spec => []NoLostWakeUp
<1>1. Spec => []IInv
  BY InitIInv, StepIInv, PTL DEF Spec
<1> QED
  BY <1>1, PTL DEF IInv

\* The unprotected reads do no harm: the flag alternates with the count.
THEOREM Alternates == Spec => []FlagFollowsCount
<1>1. Init => FlagFollowsCount
  BY DEF Init, FirstFlag, FlagFollowsCount, TogglesDone
<1>2. IInv /\ FlagFollowsCount /\ [Next]_vars => FlagFollowsCount'
  <2> SUFFICES ASSUME IInv, FlagFollowsCount, [Next]_vars PROVE FlagFollowsCount'
    OBVIOUS
  <2> USE FlagThreadsAssumption DEF IInv, TypeOK, CountOK, FlagFollowsCount
  <2>1. FirstFlag \in {0, 1} /\ FirstFlag' = FirstFlag
    BY DEF FirstFlag, Next, Main, MainGoes, CreateWorker, CreateToggler, JoinToggler,
       JoinWorker, Worker, TestCount, WorkerLocks, WorkerUnlocks, SeesFlag, Waits, Relocks,
       ReadsFlag, UsesFlag, WakesUnasked, Toggler, CountLoop, Negate, TogglerLocks,
       SetFlag, Signal, TogglerUnlocks, Exited, vars
  <2>2. TogglesDone \in Nat
    BY DEF TogglesDone
  <2>3. CASE SetFlag
    <3>1. TogglesDone' = TogglesDone + 1
      BY <2>3 DEF SetFlag, Toggles, TogglesDone
    <3>2. thread_flag' = 1 - thread_flag
      BY <2>3 DEF SetFlag, Toggles
    <3>3. (FirstFlag + TogglesDone + 1) % 2 = 1 - ((FirstFlag + TogglesDone) % 2)
      BY <2>1, <2>2, Parity
    <3> QED
      BY <3>1, <3>2, <3>3, <2>1, <2>2, <2>3 DEF SetFlag, Toggles
  <2>4. CASE ~SetFlag
    <3>1. TogglesDone' = TogglesDone /\ thread_flag' = thread_flag
      BY <2>4 DEF TogglesDone, Next, Main, MainGoes, CreateWorker, CreateToggler, JoinToggler,
         JoinWorker, Worker, TestCount, WorkerLocks, WorkerUnlocks, SeesFlag, Waits, Relocks,
         ReadsFlag, UsesFlag, WakesUnasked, Toggler, CountLoop, Negate, TogglerLocks,
         Signal, TogglerUnlocks, Exited, vars, Toggles
    <3>2. toggler' \in {"lock", "set"} => flag_value' = 1 - thread_flag'
      BY <2>4 DEF Next, Main, MainGoes, CreateWorker, CreateToggler, JoinToggler,
         JoinWorker, Worker, TestCount, WorkerLocks, WorkerUnlocks, SeesFlag, Waits, Relocks,
         ReadsFlag, UsesFlag, WakesUnasked, Toggler, CountLoop, Negate, TogglerLocks,
         Signal, TogglerUnlocks, Exited, vars, Toggles
    <3> QED
      BY <3>1, <3>2, <2>1
  <2> QED
    BY <2>3, <2>4
<1>3. Spec => [](IInv /\ FlagFollowsCount)
  BY <1>1, <1>2, InitIInv, StepIInv, PTL DEF Spec
<1> QED
  BY <1>3, PTL
=============================================================================
