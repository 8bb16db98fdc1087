------------------------ MODULE CriticalSectionProofs ------------------------
(***************************************************************************)
(* Theorems about CriticalSection, for any number of accounts, whatever    *)
(* the draws are.  The joins of main() make each group of threads find     *)
(* what the group before it has written (Prepared); a thread that is about *)
(* to store a register knows what is in it (Knows).  A balance is what it  *)
(* was plus some of the operations stored in the account (Explained), and  *)
(* plus all of them where one thread alone stored (Undisturbed).           *)
(***************************************************************************)
EXTENDS CriticalSection, SumTheorems

\* What each group of threads has written, and finds written.
Prepared ==
  /\ main # "transactions" => \A t \in Ids : pc[t] \in {"start", "returned"}
  /\ main = "init_acct" =>
       \A t \in Ids : /\ locks[t] \in {0, Unset}
                      /\ pc[t] = "returned" => locks[t] = 0 /\ account_balances[t] \in Int
  /\ main = "init_trans" => \A t \in Ids : /\ locks[t] = 0
                                           /\ pc[t] = "returned" => trans[t] \in Draws
  /\ main # "init_acct" => \A t \in Ids : locks[t] \in {0, 1} /\ account_balances[t] \in Int
  /\ main \in {"transactions", "exit"} => \A t \in Ids : trans[t] \in Draws

\* What is in a thread's register when it stores it.
Knows(t) ==
  /\ pc[t] \in {"set_from", "clear_from"} => held[t] \in {0, 1}
  /\ pc[t] \in {"store_debit", "store_credit"} => held[t] \in Int
  /\ ~reads_back => /\ pc[t] \notin {"set_reread", "clear_reread"}
                    /\ pc[t] = "set_from" => held[t] = 1
                    /\ pc[t] = "clear_from" => held[t] = 0

Kinds == /\ reads_back \in BOOLEAN
         /\ main \in {"init_acct", "init_trans", "transactions", "exit"}
         /\ pc \in [Ids -> States]
         /\ account_balances \in [Ids -> Int \cup {Unset}]
         /\ locks \in [Ids -> {0, 1, Unset}]
         /\ trans \in [Ids -> Draws \cup {Unset}]
         /\ opening \in [Ids -> Nat \cup {Unset}]
         /\ held \in [Ids -> Int \cup {Unset}]
         /\ ret_val \in [Ids -> {0, 1, Unset}]

Inside == Kinds /\ Prepared /\ (\A t \in Ids : Knows(t)) /\ LockHasOwner

-----------------------------------------------------------------------------
(* One step of a transaction *)

\* What a step of thread t does to the arrays and to its own register.
StepTypes(t) ==
  /\ main = "transactions" /\ main' = main
  /\ UNCHANGED <<reads_back, trans, opening>>
  /\ pc' = [pc EXCEPT ![t] = pc'[t]] /\ pc'[t] \in States
  /\ held' = [held EXCEPT ![t] = held'[t]] /\ held'[t] \in Int \cup {Unset}
  /\ ret_val' \in [Ids -> {0, 1, Unset}]
  /\ locks' \in [Ids -> {0, 1}] /\ account_balances' \in [Ids -> Int]
  /\ Knows(t)'

\* What it does to the locks: one that t stops owning is cleared, one that is set is t's.
StepLocks(t) ==
  ~reads_back => \A a \in Ids : /\ Owns(t, a) => Owns(t, a)' \/ locks'[a] = 0
                                /\ locks'[a] \in {locks[a], 0} \/ Owns(t, a)'

\* Where the thread is in main()'s third group, and the cells it uses.
Premises(t) ==
  /\ main = "transactions"
  /\ pc \in [Ids -> States] /\ held \in [Ids -> Int \cup {Unset}]
  /\ ret_val \in [Ids -> {0, 1, Unset}]
  /\ locks \in [Ids -> {0, 1}] /\ account_balances \in [Ids -> Int]
  /\ from(t) \in Ids /\ to(t) \in Ids /\ dollars(t) \in Nat
  /\ reads_back \in BOOLEAN /\ Knows(t)

LEMMA Premised ==
  ASSUME Inside, NEW t \in Ids, pc[t] \notin {"start", "returned"} \/ main = "transactions"
  PROVE  Premises(t)
<1>1. main = "transactions" /\ Knows(t)
  BY DEF Inside, Prepared
<1>2. trans[t] \in [from : Ids, to : Ids, dollars : Nat]
  BY <1>1, CriticalSectionAssumption DEF Inside, Prepared
<1>3. locks \in [Ids -> {0, 1}] /\ account_balances \in [Ids -> Int]
  BY <1>1 DEF Inside, Kinds, Prepared
<1> QED
  BY <1>1, <1>2, <1>3 DEF Inside, Kinds, Premises, from, to, dollars

\* The steps that leave the arrays alone.
LEMMA Reading ==
  ASSUME NEW t \in Ids, Premises(t),
         CheckFunds(t) \/ TestFrom(t) \/ TestTo(t) \/ SetReread(t) \/ ClearReread(t)
         \/ LoadDebit(t) \/ LoadCredit(t)
  PROVE  StepTypes(t) /\ StepLocks(t)
<1>types. /\ main = "transactions" /\ Knows(t)
          /\ pc \in [Ids -> States] /\ held \in [Ids -> Int \cup {Unset}]
          /\ ret_val \in [Ids -> {0, 1, Unset}]
          /\ locks \in [Ids -> {0, 1}] /\ account_balances \in [Ids -> Int]
          /\ from(t) \in Ids /\ to(t) \in Ids
  BY DEF Premises
<1>1. UNCHANGED <<reads_back, trans, opening, main, account_balances, locks>>
  BY DEF CheckFunds, TestFrom, TestTo, SetReread, ClearReread, ReadBack, LoadDebit,
         LoadCredit, Load, drawn
<1>2. CASE CheckFunds(t) \/ TestFrom(t) \/ TestTo(t)
  <2>1. /\ pc[t] \in {"start", "test_from", "test_to"}
        /\ pc' = [pc EXCEPT ![t] = pc'[t]]
        /\ pc'[t] \in {"returned", "test_from", "test_to", "set_to"}
        /\ held' = held /\ ret_val' \in [Ids -> {0, 1, Unset}]
    BY <1>types, <1>2 DEF CheckFunds, TestFrom, TestTo, Goto
  <2>2. StepTypes(t)
    BY <1>types, <1>1, <2>1 DEF StepTypes, Knows, States
  <2> QED
    BY <1>types, <1>1, <2>1, <2>2 DEF StepLocks, Owns, SetsTo, SetsFrom
<1>3. CASE SetReread(t) \/ ClearReread(t)
  <2>1. /\ pc[t] \in {"set_reread", "clear_reread"}
        /\ pc' = [pc EXCEPT ![t] = pc'[t]] /\ pc'[t] \in {"set_from", "clear_from"}
        /\ held' = [held EXCEPT ![t] = locks[to(t)]] /\ ret_val' = ret_val
    BY <1>types, <1>3 DEF SetReread, ClearReread, ReadBack, Goto
  <2>2. reads_back /\ held'[t] \in {0, 1}
    BY <1>types, <2>1 DEF Knows
  <2> QED
    BY <1>types, <1>1, <2>1, <2>2 DEF StepTypes, StepLocks, Knows, States
<1>4. CASE LoadDebit(t) \/ LoadCredit(t)
  <2>1. /\ pc[t] \in {"load_debit", "load_credit"}
        /\ pc' = [pc EXCEPT ![t] = pc'[t]] /\ pc'[t] \in {"store_debit", "store_credit"}
        /\ held' = [held EXCEPT ![t] = held'[t]] /\ held'[t] \in Int
        /\ ret_val' = ret_val
    BY <1>types, <1>4 DEF LoadDebit, LoadCredit, Load, Goto
  <2>2. StepTypes(t)
    BY <1>types, <1>1, <2>1 DEF StepTypes, Knows, States
  <2> QED
    BY <1>types, <1>1, <2>1, <2>2 DEF StepLocks, Owns, SetsTo, SetsFrom, from, to
<1> QED
  BY <1>2, <1>3, <1>4

\* The chained stores.
LEMMA Locking ==
  ASSUME NEW t \in Ids, Premises(t), SetTo(t) \/ SetFrom(t) \/ ClearTo(t) \/ ClearFrom(t)
  PROVE  StepTypes(t) /\ StepLocks(t)
<1>types. /\ main = "transactions" /\ Knows(t) /\ reads_back \in BOOLEAN
          /\ pc \in [Ids -> States] /\ held \in [Ids -> Int \cup {Unset}]
          /\ ret_val \in [Ids -> {0, 1, Unset}]
          /\ locks \in [Ids -> {0, 1}] /\ account_balances \in [Ids -> Int]
          /\ from(t) \in Ids /\ to(t) \in Ids
  BY DEF Premises
<1>1. /\ UNCHANGED <<reads_back, trans, opening, main, account_balances>>
      /\ from(t)' = from(t) /\ to(t)' = to(t)
  BY DEF SetTo, SetFrom, ClearTo, ClearFrom, StoreTo, StoreFrom, drawn, from, to
<1>2. CASE SetTo(t)
  <2>1. /\ pc[t] = "set_to" /\ pc' = [pc EXCEPT ![t] = pc'[t]]
        /\ pc'[t] = (IF reads_back THEN "set_reread" ELSE "set_from")
        /\ locks' = [locks EXCEPT ![to(t)] = 1] /\ held' = [held EXCEPT ![t] = 1]
        /\ ret_val' = ret_val
    BY <1>types, <1>2 DEF SetTo, StoreTo, Goto
  <2>2. StepTypes(t)
    BY <1>types, <1>1, <2>1 DEF StepTypes, Knows, States
  <2> QED
    BY <1>types, <1>1, <2>1, <2>2 DEF StepLocks, Owns, SetsTo, SetsFrom
<1>3. CASE SetFrom(t)
  <2>1. /\ pc[t] = "set_from" /\ pc' = [pc EXCEPT ![t] = "load_debit"]
        /\ locks' = [locks EXCEPT ![from(t)] = held[t]]
        /\ held' = held /\ ret_val' = ret_val
    BY <1>types, <1>3 DEF SetFrom, StoreFrom, Goto
  <2>2. held[t] \in {0, 1}
    BY <1>types, <2>1 DEF Knows
  <2>3. StepTypes(t)
    BY <1>types, <1>1, <2>1, <2>2 DEF StepTypes, Knows, States
  <2> QED
    BY <1>types, <1>1, <2>1, <2>2, <2>3 DEF StepLocks, Owns, SetsTo, SetsFrom
<1>4. CASE ClearTo(t)
  <2>1. /\ pc[t] = "clear_to" /\ pc' = [pc EXCEPT ![t] = pc'[t]]
        /\ pc'[t] = (IF reads_back THEN "clear_reread" ELSE "clear_from")
        /\ locks' = [locks EXCEPT ![to(t)] = 0] /\ held' = [held EXCEPT ![t] = 0]
        /\ ret_val' = ret_val
    BY <1>types, <1>4 DEF ClearTo, StoreTo, Goto
  <2>2. StepTypes(t)
    BY <1>types, <1>1, <2>1 DEF StepTypes, Knows, States
  <2> QED
    BY <1>types, <1>1, <2>1, <2>2 DEF StepLocks, Owns, SetsTo, SetsFrom
<1>5. CASE ClearFrom(t)
  <2>1. /\ pc[t] = "clear_from" /\ pc' = [pc EXCEPT ![t] = "returned"]
        /\ locks' = [locks EXCEPT ![from(t)] = held[t]]
        /\ held' = held /\ ret_val' = [ret_val EXCEPT ![t] = 0]
    BY <1>types, <1>5 DEF ClearFrom, Goto, drawn
  <2>2. held[t] \in {0, 1} /\ (~reads_back => held[t] = 0)
    BY <1>types, <2>1 DEF Knows
  <2>3. StepTypes(t)
    BY <1>types, <1>1, <2>1, <2>2 DEF StepTypes, Knows, States
  <2> QED
    BY <1>types, <1>1, <2>1, <2>2, <2>3 DEF StepLocks, Owns, SetsTo, SetsFrom
<1> QED
  BY <1>2, <1>3, <1>4, <1>5

\* The debit and the credit.
LEMMA Moving ==
  ASSUME NEW t \in Ids, Premises(t), StoreDebit(t) \/ StoreCredit(t)
  PROVE  StepTypes(t) /\ StepLocks(t)
<1>types. /\ main = "transactions" /\ Knows(t)
          /\ pc \in [Ids -> States] /\ held \in [Ids -> Int \cup {Unset}]
          /\ ret_val \in [Ids -> {0, 1, Unset}]
          /\ locks \in [Ids -> {0, 1}] /\ account_balances \in [Ids -> Int]
          /\ from(t) \in Ids /\ to(t) \in Ids /\ dollars(t) \in Nat
  BY DEF Premises
<1>1. /\ UNCHANGED <<reads_back, trans, opening, main, locks, held, ret_val>>
      /\ from(t)' = from(t) /\ to(t)' = to(t)
  BY DEF StoreDebit, StoreCredit, Store, drawn, from, to
<1>2. /\ pc[t] \in {"store_debit", "store_credit"}
      /\ pc' = [pc EXCEPT ![t] = pc'[t]] /\ pc'[t] \in {"load_credit", "clear_to"}
  BY <1>types DEF StoreDebit, StoreCredit, Store, Goto
<1>3. held[t] \in Int
  BY <1>types, <1>2 DEF Knows
<1>4. account_balances' \in [Ids -> Int]
  BY <1>types, <1>3 DEF StoreDebit, StoreCredit, Store
<1>5. StepTypes(t)
  BY <1>types, <1>1, <1>2, <1>4 DEF StepTypes, Knows, States
<1> QED
  BY <1>types, <1>1, <1>2, <1>5 DEF StepLocks, Owns, SetsTo, SetsFrom

LEMMA Transacts ==
  ASSUME Inside, NEW t \in Ids, process_transaction(t)
  PROVE  Premises(t)
<1>1. pc[t] \notin {"start", "returned"} \/ main = "transactions"
  BY DEF process_transaction, CheckFunds, TestFrom, TestTo, SetTo, SetReread, SetFrom,
         LoadDebit, StoreDebit, LoadCredit, StoreCredit, ClearTo, ClearReread, ClearFrom,
         StoreTo, ReadBack, StoreFrom, Load, Store, Goto
<1> QED
  BY <1>1, Premised

LEMMA Transacting ==
  ASSUME Inside, NEW t \in Ids, process_transaction(t)
  PROVE  StepTypes(t) /\ StepLocks(t)
BY Transacts, Reading, Locking, Moving DEF process_transaction

-----------------------------------------------------------------------------
(* Inside is an invariant *)

LEMMA InsideInit == Init => Inside
<1> SUFFICES ASSUME Init PROVE Inside
  OBVIOUS
<1>1. Kinds
  BY CriticalSectionAssumption DEF Init, Kinds, States
<1>2. Prepared
  BY DEF Init, Prepared
<1>3. \A t \in Ids : Knows(t)
  BY DEF Init, Knows
<1>4. LockHasOwner
  BY DEF Init, LockHasOwner
<1> QED
  BY <1>1, <1>2, <1>3, <1>4 DEF Inside

LEMMA TransactionKeeps ==
  ASSUME Inside, NEW t \in Ids, StepTypes(t), StepLocks(t)
  PROVE  Inside'
<1>1. /\ main = "transactions" /\ main' = main
      /\ UNCHANGED <<reads_back, trans, opening>>
      /\ pc' = [pc EXCEPT ![t] = pc'[t]] /\ pc'[t] \in States
      /\ held' = [held EXCEPT ![t] = held'[t]] /\ held'[t] \in Int \cup {Unset}
      /\ ret_val' \in [Ids -> {0, 1, Unset}]
      /\ locks' \in [Ids -> {0, 1}] /\ account_balances' \in [Ids -> Int]
      /\ Knows(t)'
  BY DEF StepTypes
<1>2. pc \in [Ids -> States] /\ held \in [Ids -> Int \cup {Unset}]
  BY DEF Inside, Kinds
<1>3. Kinds'
  BY <1>1, <1>2 DEF Inside, Kinds
<1>4. Prepared'
  BY <1>1 DEF Inside, Prepared
<1>5. \A u \in Ids : u # t => pc'[u] = pc[u] /\ held'[u] = held[u]
  BY <1>1, <1>2
<1>6. \A u \in Ids : Knows(u)'
  <2>1. ASSUME NEW u \in Ids, u # t PROVE Knows(u)'
    BY <1>1, <1>5, <2>1 DEF Inside, Knows
  <2> QED
    BY <1>1, <2>1
<1>7. LockHasOwner'
  <2> SUFFICES ASSUME ~reads_back, NEW a \in Ids, locks'[a] # 0
               PROVE  \E u \in Ids : Owns(u, a)'
    BY <1>1 DEF LockHasOwner, Owns, from, to
  <2>1. CASE Owns(t, a)'
    BY <2>1
  <2>2. CASE ~Owns(t, a)'
    <3>1. locks[a] # 0 /\ ~Owns(t, a)
      BY <2>2 DEF StepLocks
    <3>2. PICK u \in Ids : Owns(u, a)
      BY <1>1, <3>1 DEF Inside, LockHasOwner
    <3>3. Owns(u, a)'
      BY <1>1, <1>5, <3>1, <3>2 DEF Owns, from, to
    <3> QED
      BY <3>3
  <2> QED
    BY <2>1, <2>2
<1> QED
  BY <1>3, <1>4, <1>6, <1>7 DEF Inside

LEMMA InsideStep == ASSUME Inside, [Next]_vars PROVE Inside'
<1>kinds. Kinds
  BY DEF Inside
<1>1. ASSUME NEW t \in Ids, init_acct(t) PROVE Inside'
  <2>1. PICK b \in Nat : /\ account_balances' = [account_balances EXCEPT ![t] = b]
                          /\ opening' = [opening EXCEPT ![t] = b]
    BY <1>1, CriticalSectionAssumption DEF init_acct
  <2>2. /\ main = "init_acct" /\ pc' = [pc EXCEPT ![t] = "returned"]
        /\ locks' = [locks EXCEPT ![t] = 0]
        /\ UNCHANGED <<reads_back, main, trans, held, ret_val>>
    BY <1>1 DEF init_acct, Goto
  <2>3. Kinds'
    BY <1>kinds, <2>1, <2>2 DEF Kinds, States
  <2>4. Prepared'
    BY <1>kinds, <2>1, <2>2 DEF Inside, Kinds, Prepared
  <2>5. \A u \in Ids : Knows(u)'
    BY <1>kinds, <2>2 DEF Inside, Kinds, Knows
  <2>6. LockHasOwner'
    BY <2>2 DEF LockHasOwner
  <2> QED
    BY <2>3, <2>4, <2>5, <2>6 DEF Inside
<1>2. ASSUME NEW t \in Ids, init_trans(t) PROVE Inside'
  <2>1. PICK d \in Draws : trans' = [trans EXCEPT ![t] = d]
    BY <1>2 DEF init_trans
  <2>2. /\ main = "init_trans" /\ pc' = [pc EXCEPT ![t] = "returned"]
        /\ UNCHANGED <<reads_back, main, account_balances, locks, opening, held, ret_val>>
    BY <1>2 DEF init_trans, Goto
  <2>3. Kinds'
    BY <1>kinds, <2>1, <2>2 DEF Kinds, States
  <2>4. Prepared'
    BY <1>kinds, <2>1, <2>2 DEF Inside, Kinds, Prepared
  <2>5. \A u \in Ids : Knows(u)'
    BY <1>kinds, <2>2 DEF Inside, Kinds, Knows
  <2>6. LockHasOwner'
    BY <2>2 DEF LockHasOwner
  <2> QED
    BY <2>3, <2>4, <2>5, <2>6 DEF Inside
<1>3. ASSUME NEW t \in Ids, process_transaction(t) PROVE Inside'
  BY <1>3, Transacting, TransactionKeeps
<1>4. CASE NextGroup
  <2>1. /\ main # "exit" /\ \A t \in Ids : pc[t] = "returned"
        /\ main = "init_acct" => main' = "init_trans"
        /\ main = "init_trans" => main' = "transactions"
        /\ main = "transactions" => main' = "exit"
        /\ pc' = (IF main = "transactions" THEN pc ELSE [t \in Ids |-> "start"])
        /\ UNCHANGED <<reads_back, trans, opening, account_balances, locks, held, ret_val>>
    BY <1>4 DEF NextGroup, drawn
  <2>2. \A t \in Ids : pc'[t] \in {"start", "returned"}
    BY <2>1
  <2>3. Kinds'
    BY <1>kinds, <2>1 DEF Kinds, States
  <2>4. Prepared'
    BY <1>kinds, <2>1, <2>2 DEF Inside, Kinds, Prepared
  <2>5. \A u \in Ids : Knows(u)'
    BY <2>2 DEF Knows
  <2>6. LockHasOwner'
    <3>1. CASE main = "transactions"
      BY <2>1, <3>1 DEF Inside, LockHasOwner, Owns, from, to
    <3>2. CASE main = "init_trans"
      BY <2>1, <3>2 DEF Inside, Prepared, LockHasOwner
    <3>3. CASE main = "init_acct"
      BY <2>1, <3>3 DEF LockHasOwner
    <3> QED
      BY <1>kinds, <2>1, <3>1, <3>2, <3>3 DEF Kinds
  <2> QED
    BY <2>3, <2>4, <2>5, <2>6 DEF Inside
<1>5. CASE Exited \/ UNCHANGED vars
  <2>1. UNCHANGED <<reads_back, main, pc, account_balances, locks, trans, opening, held, ret_val>>
    BY <1>5 DEF Exited, vars
  <2> QED
    BY <2>1 DEF Inside, Kinds, Prepared, Knows, LockHasOwner, Owns, from, to
<1> QED
  BY <1>1, <1>2, <1>3, <1>4, <1>5 DEF Next, Step

\* The types of the variables; and no group of threads reads a cell that the group before
\* it has not written.
THEOREM Types == Spec => []TypeOK
<1>1. Inside => TypeOK
  <2> SUFFICES ASSUME Inside PROVE TypeOK
    OBVIOUS
  <2>1. Kinds /\ Prepared
    BY DEF Inside
  <2>2. main # "init_acct" => Unset \notin Range(account_balances) \cup Range(locks)
    BY <2>1, CriticalSectionAssumption DEF Kinds, Prepared, Range
  <2>3. main \in {"transactions", "exit"} => Unset \notin Range(trans)
    <3>1. Unset \notin Draws
      BY CriticalSectionAssumption
    <3> QED
      BY <2>1, <3>1 DEF Kinds, Prepared, Range
  <2> QED
    BY <2>1, <2>2, <2>3 DEF Kinds, TypeOK
<1> QED
  BY InsideInit, InsideStep, <1>1, PTL DEF Spec

\* A lock that is set will be cleared: some thread that set it is still inside the
\* section (where the chained stores do not read back).
THEOREM Owned == Spec => []LockHasOwner
<1>1. Inside => LockHasOwner
  BY DEF Inside
<1> QED
  BY InsideInit, InsideStep, <1>1, PTL DEF Spec

\* main() ends when every thread has returned, and no thread moves after that.
LEMMA ExitLast == Spec => [](main = "exit" => \A t \in Ids : pc[t] = "returned")
<1> DEFINE Last == main = "exit" => \A t \in Ids : pc[t] = "returned"
<1>1. Init => Last
  BY DEF Init
<1>2. Inside /\ Last /\ [Next]_vars => Last'
  <2> SUFFICES ASSUME Inside, Last, [Next]_vars PROVE Last'
    OBVIOUS
  <2>1. CASE NextGroup
    <3>1. main' = "exit" => pc' = pc
      BY <2>1 DEF NextGroup, Inside, Kinds
    <3> QED
      BY <2>1, <3>1 DEF NextGroup
  <2>2. ASSUME NEW t \in Ids, Step(t) PROVE main' = main /\ pc[t] # "returned"
    BY <2>2 DEF Step, init_acct, init_trans, process_transaction, CheckFunds, TestFrom, TestTo,
                SetTo, SetReread, SetFrom, LoadDebit, StoreDebit, LoadCredit, StoreCredit,
                ClearTo, ClearReread, ClearFrom, StoreTo, ReadBack, StoreFrom, Load, Store, Goto
  <2>3. CASE Exited \/ UNCHANGED vars
    BY <2>3 DEF Exited, vars
  <2> QED
    BY <2>1, <2>2, <2>3 DEF Next
<1> QED
  BY InsideInit, InsideStep, <1>1, <1>2, PTL DEF Spec

\* Line 44, "Close the critical section and release locks": where the chained stores do not
\* read back, no lock is set when main() has joined the threads.
THEOREM Released == Spec => [](~reads_back => LocksReleased)
<1>1. Inside /\ (main = "exit" => \A t \in Ids : pc[t] = "returned") =>
        (~reads_back => LocksReleased)
  BY DEF Inside, LockHasOwner, LocksReleased, Owns, SetsTo, SetsFrom
<1> QED
  BY InsideInit, InsideStep, ExitLast, <1>1, PTL DEF Spec

-----------------------------------------------------------------------------
(* The balances *)

\* The operations stored, the transactions and the opening balances are parameters here:
\* a step adds an operation and leaves the other two alone.
Ops == Ids \X {-1, 1}
Place(d, op) == IF op[2] = -1 THEN d[op[1]].from ELSE d[op[1]].to
Amount(d, op) == op[2] * d[op[1]].dollars
OpsAt(S, d, a) == {op \in S : Place(d, op) = a}
Sum(d, ops) == SumFunction([op \in ops |-> Amount(d, op)])

Explains(S, d, o, a, v) == \E ops \in SUBSET OpsAt(S, d, a) : v = o[a] + Sum(d, ops)
Exact(S, d, o, a, v) == v = o[a] + Sum(d, OpsAt(S, d, a))
OnlyBy(S, d, a, t) == \A op \in OpsAt(S, d, a) : op[1] = t

\* The balances that the threads of the first group set, until those of the third start.
Opened ==
  /\ main = "init_acct" => \A a \in Ids : pc[a] = "returned" => opening[a] = account_balances[a]
  /\ main = "init_trans" => \A a \in Ids : opening[a] = account_balances[a]
  /\ main # "init_acct" => \A a \in Ids : opening[a] \in Nat

\* What is in an account, or in the register that is about to be stored in it, is explained
\* by operations stored in it before.
Explained ==
  main \in {"transactions", "exit"} =>
    /\ \A a \in Ids : Explains(Stored, trans, opening, a, account_balances[a])
    /\ \A t \in Ids :
         /\ pc[t] = "store_debit" => Explains(Stored, trans, opening, from(t), held[t])
         /\ pc[t] = "store_credit" => Explains(Stored, trans, opening, to(t), held[t])

\* Where one thread alone has stored, the account has all of its operations and the
\* register is up to date.
Undisturbed ==
  main \in {"transactions", "exit"} =>
    \A a, t \in Ids :
       OnlyBy(Stored, trans, a, t) =>
         /\ Exact(Stored, trans, opening, a, account_balances[a])
         /\ pc[t] = "store_debit" /\ from(t) = a => held[t] = account_balances[a]
         /\ pc[t] = "store_credit" /\ to(t) = a => held[t] = account_balances[a]

LEMMA Indices == IsFiniteSet(Ids) /\ \A S \in SUBSET Ops : IsFiniteSet(S)
<1>1. IsFiniteSet(Ids)
  BY CriticalSectionAssumption, FS_Interval DEF Ids
<1>2. IsFiniteSet({-1, 1})
  <2>1. IsFiniteSet({-1}) /\ {-1, 1} = {-1} \cup {1}
    BY FS_Singleton
  <2> QED
    BY <2>1, FS_AddElement
<1>3. IsFiniteSet(Ops)
  BY <1>1, <1>2, FS_Product DEF Ops
<1> QED
  BY <1>1, <1>3, FS_Subset

LEMMA Operation ==
  ASSUME NEW d \in [Ids -> Draws], NEW op \in Ops
  PROVE  Amount(d, op) \in Int /\ Place(d, op) \in Ids
<1>1. op[1] \in Ids /\ op[2] \in {-1, 1}
  BY DEF Ops
<1>2. d[op[1]] \in [from : Ids, to : Ids, dollars : Nat]
  BY <1>1, CriticalSectionAssumption
<1>3. Place(d, op) \in Ids
  BY <1>2 DEF Place
<1>4. d[op[1]].dollars \in Nat
  BY <1>2
<1>5. Amount(d, op) \in Int
  <2> DEFINE n == d[op[1]].dollars
             k == op[2]
  <2>1. k * n \in Int
    <3> HIDE DEF n, k
    <3>1. k \in {-1, 1} /\ n \in Nat
      BY <1>1, <1>4 DEF n, k
    <3> QED
      BY <3>1
  <2> QED
    BY <2>1 DEF Amount
<1> QED
  BY <1>3, <1>5

LEMMA SumOfOps ==
  ASSUME NEW d \in [Ids -> Draws], NEW ops \in SUBSET Ops
  PROVE  Sum(d, ops) \in Int
<1> DEFINE f == [op \in ops |-> Amount(d, op)]
<1>1. f \in [ops -> Int]
  BY Operation
<1>2. IsFiniteSet(ops)
  BY Indices
<1> HIDE DEF f
<1>3. SumFunction(f) \in Int
  BY <1>1, <1>2, SumOfInts
<1> QED
  BY <1>3 DEF Sum, f

LEMMA SumWithOp ==
  ASSUME NEW d \in [Ids -> Draws], NEW ops \in SUBSET Ops, NEW op \in Ops, op \notin ops
  PROVE  Sum(d, ops \cup {op}) = Sum(d, ops) + Amount(d, op)
<1> DEFINE f == [p \in ops \cup {op} |-> Amount(d, p)]
<1>1. f \in [ops \cup {op} -> Int]
  BY Operation
<1>2. IsFiniteSet(ops)
  BY Indices
<1>3. f[op] = Amount(d, op) /\ [p \in ops |-> f[p]] = [p \in ops |-> Amount(d, p)]
  OBVIOUS
<1>4. Sum(d, ops \cup {op}) = SumFunction(f)
  BY DEF Sum
<1> HIDE DEF f
<1>5. SumFunction(f) = SumFunction([p \in ops |-> f[p]]) + f[op]
  BY <1>1, <1>2, SumOfOneMore
<1> QED
  BY <1>3, <1>4, <1>5 DEF Sum

\* Without operations the balance is the opening one.
LEMMA Untouched ==
  ASSUME NEW d, NEW o, NEW a, o[a] \in Int
  PROVE  Explains({}, d, o, a, o[a]) /\ Exact({}, d, o, a, o[a])
<1>1. Sum(d, {}) = 0
  BY SumOfNone DEF Sum
<1>2. OpsAt({}, d, a) = {}
  BY DEF OpsAt
<1> QED
  BY <1>1, <1>2 DEF Explains, Exact

LEMMA MoreExplain ==
  ASSUME NEW S, NEW T, S \subseteq T, NEW d, NEW o, NEW a, NEW v, Explains(S, d, o, a, v)
  PROVE  Explains(T, d, o, a, v)
BY DEF Explains, OpsAt

\* An operation stored on top of a value that is explained, or exact, without it.
LEMMA StoreExplained ==
  ASSUME NEW S \in SUBSET Ops, NEW d \in [Ids -> Draws], NEW o, NEW op \in Ops, op \notin S,
         NEW a, a = Place(d, op), o[a] \in Int, NEW v, Explains(S, d, o, a, v)
  PROVE  Explains(S \cup {op}, d, o, a, v + Amount(d, op))
<1>1. PICK ops \in SUBSET OpsAt(S, d, a) : v = o[a] + Sum(d, ops)
  BY DEF Explains
<1>2. ops \in SUBSET Ops /\ op \notin ops
  BY DEF OpsAt
<1>3. Sum(d, ops) \in Int /\ Amount(d, op) \in Int
  BY <1>2, SumOfOps, Operation
<1>4. v + Amount(d, op) = o[a] + Sum(d, ops \cup {op})
  BY <1>1, <1>2, <1>3, SumWithOp
<1>5. ops \cup {op} \in SUBSET OpsAt(S \cup {op}, d, a)
  BY DEF OpsAt
<1> QED
  BY <1>4, <1>5 DEF Explains

LEMMA StoreExact ==
  ASSUME NEW S \in SUBSET Ops, NEW d \in [Ids -> Draws], NEW o, NEW op \in Ops, op \notin S,
         NEW a, a = Place(d, op), o[a] \in Int, NEW v, Exact(S, d, o, a, v)
  PROVE  Exact(S \cup {op}, d, o, a, v + Amount(d, op))
<1> DEFINE ops == OpsAt(S, d, a)
<1>1. ops \in SUBSET Ops /\ op \notin ops /\ OpsAt(S \cup {op}, d, a) = ops \cup {op}
  BY DEF OpsAt
<1>2. v = o[a] + Sum(d, ops)
  BY DEF Exact
<1> HIDE DEF ops
<1>3. Sum(d, ops) \in Int /\ Amount(d, op) \in Int
  BY <1>1, SumOfOps, Operation
<1>4. Sum(d, ops \cup {op}) = Sum(d, ops) + Amount(d, op)
  BY <1>1, SumWithOp
<1>5. v + Amount(d, op) = o[a] + Sum(d, ops \cup {op})
  BY <1>2, <1>3, <1>4
<1> QED
  BY <1>1, <1>5 DEF Exact

-----------------------------------------------------------------------------
(* What a step does to the balances *)

\* A step that stores nothing; a register that is loaded is up to date.
Looks(t) ==
  /\ main = "transactions" /\ main' = main
  /\ UNCHANGED <<trans, opening, account_balances>> /\ Stored' = Stored
  /\ \A u \in Ids \ {t} : pc'[u] = pc[u] /\ held'[u] = held[u]
  /\ pc'[t] = "store_debit" => held'[t] = account_balances[from(t)]
  /\ pc'[t] = "store_credit" => held'[t] = account_balances[to(t)]

\* A step that stores an operation of t.
Stores(t, op) ==
  /\ main = "transactions" /\ main' = main
  /\ UNCHANGED <<trans, opening, held>> /\ Stored' = Stored \cup {op}
  /\ op[1] = t /\ op \in Ops /\ op \notin Stored
  /\ \A u \in Ids \ {t} : pc'[u] = pc[u]
  /\ IF op[2] = -1 THEN pc[t] = "store_debit" ELSE pc[t] = "store_credit"
  /\ pc'[t] \notin {"store_debit", "store_credit"}
  /\ account_balances' = [account_balances EXCEPT ![Place(trans, op)] = held[t] + Amount(trans, op)]

Debited(t) == \/ pc[t] = "returned" /\ ret_val[t] = 0
              \/ pc[t] \in {"load_credit", "store_credit", "clear_to", "clear_reread", "clear_from"}
Credited(t) == \/ pc[t] = "returned" /\ ret_val[t] = 0
               \/ pc[t] \in {"clear_to", "clear_reread", "clear_from"}

StoredAre == Stored = {op \in Ops : IF op[2] = -1 THEN Debited(op[1]) ELSE Credited(op[1])}

LEMMA StoredDone == StoredAre /\ StoredAre'
<1>1. StoredAre
  <2>1. ASSUME NEW op \in Ops
        PROVE  op \in Stored <=> IF op[2] = -1 THEN Debited(op[1]) ELSE Credited(op[1])
    BY DEF Ops, Stored, Debited, Credited
  <2>2. Stored \subseteq Ops
    BY DEF Stored, Ops
  <2> QED
    BY <2>1, <2>2 DEF StoredAre
<1> QED
  BY <1>1, PTL

LEMMA Looking ==
  ASSUME NEW t \in Ids, Premises(t), process_transaction(t), ~StoreDebit(t), ~StoreCredit(t)
  PROVE  Looks(t)
<1>types. /\ main = "transactions" /\ pc \in [Ids -> States]
          /\ held \in [Ids -> Int \cup {Unset}] /\ ret_val \in [Ids -> {0, 1, Unset}]
  BY DEF Premises
<1>1. /\ UNCHANGED <<main, trans, opening, account_balances>>
      /\ \A u \in Ids \ {t} : pc'[u] = pc[u] /\ held'[u] = held[u] /\ ret_val'[u] = ret_val[u]
  BY <1>types DEF process_transaction, CheckFunds, TestFrom, TestTo, SetTo, SetReread, SetFrom,
         LoadDebit, LoadCredit, ClearTo, ClearReread, ClearFrom,
         StoreTo, ReadBack, StoreFrom, Load, Goto, drawn
<1>2. /\ pc'[t] = "store_debit" => held'[t] = account_balances[from(t)]
      /\ pc'[t] = "store_credit" => held'[t] = account_balances[to(t)]
  BY <1>types DEF process_transaction, CheckFunds, TestFrom, TestTo, SetTo, SetReread, SetFrom,
         LoadDebit, LoadCredit, ClearTo, ClearReread, ClearFrom,
         StoreTo, ReadBack, StoreFrom, Load, Goto
<1>3. (Debited(t)' <=> Debited(t)) /\ (Credited(t)' <=> Credited(t))
  BY <1>types, CriticalSectionAssumption
     DEF process_transaction, CheckFunds, TestFrom, TestTo, SetTo, SetReread, SetFrom,
         LoadDebit, LoadCredit, ClearTo, ClearReread, ClearFrom,
         StoreTo, ReadBack, StoreFrom, Load, Goto, Debited, Credited
<1>4. \A u \in Ids : (Debited(u)' <=> Debited(u)) /\ (Credited(u)' <=> Credited(u))
  BY <1>1, <1>3 DEF Debited, Credited
<1>5. Stored' = Stored
  BY <1>4, StoredDone DEF StoredAre, Ops
<1> QED
  BY <1>types, <1>1, <1>2, <1>5 DEF Looks

LEMMA Storing ==
  ASSUME NEW t \in Ids, Premises(t), StoreDebit(t) \/ StoreCredit(t)
  PROVE  \E op \in Ops : Stores(t, op)
<1>types. /\ main = "transactions" /\ pc \in [Ids -> States]
          /\ from(t) \in Ids /\ to(t) \in Ids /\ dollars(t) \in Nat
  BY DEF Premises
<1>1. /\ UNCHANGED <<main, trans, opening, held, ret_val>>
      /\ \A u \in Ids \ {t} : pc'[u] = pc[u]
  BY <1>types DEF StoreDebit, StoreCredit, Store, Goto, drawn
<1>2. CASE StoreDebit(t)
  <2> DEFINE op == <<t, -1>>
  <2>1. /\ op \in Ops /\ op[1] = t /\ op[2] = -1
        /\ Place(trans, op) = from(t) /\ Amount(trans, op) = -dollars(t)
    BY <1>types DEF Ops, Place, Amount, from, dollars
  <2>2. /\ pc[t] = "store_debit" /\ pc'[t] = "load_credit"
        /\ account_balances' = [account_balances EXCEPT ![from(t)] = held[t] + (-dollars(t))]
    BY <1>types, <1>2 DEF StoreDebit, Store, Goto
  <2>3. ~Debited(t) /\ Debited(t)' /\ ~Credited(t) /\ ~Credited(t)'
    BY <2>2 DEF Debited, Credited
  <2>4. \A u \in Ids \ {t} : (Debited(u)' <=> Debited(u)) /\ (Credited(u)' <=> Credited(u))
    BY <1>1 DEF Debited, Credited
  <2>5. op \notin Stored /\ Stored' = Stored \cup {op}
    BY <2>1, <2>3, <2>4, StoredDone DEF StoredAre, Ops
  <2> HIDE DEF op
  <2>6. Stores(t, op)
    BY <1>types, <1>1, <2>1, <2>2, <2>5 DEF Stores
  <2> QED
    BY <2>1, <2>6
<1>3. CASE StoreCredit(t)
  <2> DEFINE op == <<t, 1>>
  <2>1. /\ op \in Ops /\ op[1] = t /\ op[2] = 1
        /\ Place(trans, op) = to(t) /\ Amount(trans, op) = dollars(t)
    BY <1>types DEF Ops, Place, Amount, to, dollars
  <2>2. /\ pc[t] = "store_credit" /\ pc'[t] = "clear_to"
        /\ account_balances' = [account_balances EXCEPT ![to(t)] = held[t] + dollars(t)]
    BY <1>types, <1>3 DEF StoreCredit, Store, Goto
  <2>3. Debited(t) /\ Debited(t)' /\ ~Credited(t) /\ Credited(t)'
    BY <2>2 DEF Debited, Credited
  <2>4. \A u \in Ids \ {t} : (Debited(u)' <=> Debited(u)) /\ (Credited(u)' <=> Credited(u))
    BY <1>1 DEF Debited, Credited
  <2>5. op \notin Stored /\ Stored' = Stored \cup {op}
    BY <2>1, <2>3, <2>4, StoredDone DEF StoredAre, Ops
  <2> HIDE DEF op
  <2>6. Stores(t, op)
    BY <1>types, <1>1, <2>1, <2>2, <2>5 DEF Stores
  <2> QED
    BY <2>1, <2>6
<1> QED
  BY <1>2, <1>3

-----------------------------------------------------------------------------
(* The balances are explained, and exact where nobody interferes *)

Accounted == Opened /\ Explained /\ Undisturbed

\* The arrays the transactions work on.
LEMMA Drawn ==
  ASSUME Inside, Opened, main = "transactions"
  PROVE  /\ trans \in [Ids -> Draws] /\ account_balances \in [Ids -> Int]
         /\ \A a \in Ids : opening[a] \in Int
         /\ Stored \in SUBSET Ops
         /\ \A t \in Ids : from(t) \in Ids /\ to(t) \in Ids
<1>1. trans \in [Ids -> Draws] /\ account_balances \in [Ids -> Int]
  BY DEF Inside, Kinds, Prepared
<1>2. \A a \in Ids : opening[a] \in Int
  BY DEF Opened
<1>3. Stored \in SUBSET Ops
  BY DEF Stored, Ops
<1>4. \A t \in Ids : trans[t] \in [from : Ids, to : Ids, dollars : Nat]
  BY <1>1, CriticalSectionAssumption
<1> QED
  BY <1>1, <1>2, <1>3, <1>4 DEF from, to

LEMMA LookingKeeps ==
  ASSUME Inside, Accounted, NEW t \in Ids, Looks(t)
  PROVE  Accounted'
<1>1. /\ main = "transactions" /\ main' = main
      /\ UNCHANGED <<trans, opening, account_balances>> /\ Stored' = Stored
      /\ \A u \in Ids \ {t} : pc'[u] = pc[u] /\ held'[u] = held[u]
      /\ pc'[t] = "store_debit" => held'[t] = account_balances[from(t)]
      /\ pc'[t] = "store_credit" => held'[t] = account_balances[to(t)]
  BY DEF Looks
<1>2. Opened /\ Explained /\ Undisturbed /\ \A u \in Ids : from(u) \in Ids /\ to(u) \in Ids
  BY <1>1, Drawn DEF Accounted
<1>3. Opened'
  BY <1>1, <1>2 DEF Opened
<1>4. \A u \in Ids : from(u)' = from(u) /\ to(u)' = to(u)
  BY <1>1 DEF from, to
<1>5. Explained'
  BY <1>1, <1>2, <1>4 DEF Explained
<1>6. Undisturbed'
  <2> SUFFICES ASSUME NEW a \in Ids, NEW u \in Ids, OnlyBy(Stored', trans', a, u)
               PROVE  /\ Exact(Stored', trans', opening', a, account_balances'[a])
                      /\ pc'[u] = "store_debit" /\ from(u)' = a => held'[u] = account_balances'[a]
                      /\ pc'[u] = "store_credit" /\ to(u)' = a => held'[u] = account_balances'[a]
    BY DEF Undisturbed
  <2>1. /\ Exact(Stored, trans, opening, a, account_balances[a])
        /\ pc[u] = "store_debit" /\ from(u) = a => held[u] = account_balances[a]
        /\ pc[u] = "store_credit" /\ to(u) = a => held[u] = account_balances[a]
    BY <1>1, <1>2 DEF Undisturbed
  <2> QED
    BY <1>1, <1>4, <2>1
<1> QED
  BY <1>3, <1>5, <1>6 DEF Accounted

LEMMA StoringKeeps ==
  ASSUME Inside, Accounted, NEW t \in Ids, NEW op \in Ops, Stores(t, op)
  PROVE  Accounted'
<1> DEFINE b == Place(trans, op)
           amount == Amount(trans, op)
<1>1. /\ main = "transactions" /\ main' = main
      /\ UNCHANGED <<trans, opening, held>> /\ Stored' = Stored \cup {op}
      /\ op[1] = t /\ op \notin Stored
      /\ \A u \in Ids \ {t} : pc'[u] = pc[u]
      /\ IF op[2] = -1 THEN pc[t] = "store_debit" ELSE pc[t] = "store_credit"
      /\ pc'[t] \notin {"store_debit", "store_credit"}
      /\ account_balances' = [account_balances EXCEPT ![b] = held[t] + amount]
  BY DEF Stores
<1>2. Opened /\ Explained /\ Undisturbed
  BY DEF Accounted
<1>3. /\ trans \in [Ids -> Draws] /\ account_balances \in [Ids -> Int]
      /\ \A a \in Ids : opening[a] \in Int
      /\ Stored \in SUBSET Ops
      /\ \A u \in Ids : from(u) \in Ids /\ to(u) \in Ids
  BY <1>1, <1>2, Drawn
<1>4. b \in Ids /\ b = IF op[2] = -1 THEN from(t) ELSE to(t)
  BY <1>1, <1>3, Operation DEF Place, from, to
<1>5. \A u \in Ids : from(u)' = from(u) /\ to(u)' = to(u)
  BY <1>1 DEF from, to
<1> HIDE DEF b, amount
<1>6. /\ account_balances'[b] = held[t] + amount
      /\ \A a \in Ids \ {b} : account_balances'[a] = account_balances[a]
  BY <1>1, <1>3, <1>4
<1>7. Opened'
  BY <1>1, <1>2 DEF Opened
<1>8. Explained'
  <2>1. ASSUME NEW a \in Ids, NEW v, Explains(Stored, trans, opening, a, v)
        PROVE  Explains(Stored', trans', opening', a, v)
    <3>1. Explains(Stored \cup {op}, trans, opening, a, v)
      BY <2>1, MoreExplain
    <3> QED
      BY <1>1, <3>1
  <2>2. Explains(Stored, trans, opening, b, held[t])
    BY <1>1, <1>2, <1>4 DEF Explained
  <2>3. Explains(Stored \cup {op}, trans, opening, b, held[t] + amount)
    BY <1>1, <1>3, <1>4, <2>2, StoreExplained DEF b, amount
  <2>4. ASSUME NEW a \in Ids PROVE Explains(Stored', trans', opening', a, account_balances'[a])
    <3>1. CASE a = b
      BY <1>1, <1>6, <2>3, <3>1
    <3>2. CASE a # b
      BY <1>1, <1>2, <1>6, <2>1, <3>2 DEF Explained
    <3> QED
      BY <3>1, <3>2
  <2>5. ASSUME NEW u \in Ids
        PROVE  /\ pc'[u] = "store_debit" => Explains(Stored', trans', opening', from(u)', held'[u])
               /\ pc'[u] = "store_credit" => Explains(Stored', trans', opening', to(u)', held'[u])
    BY <1>1, <1>2, <1>3, <1>5, <2>1 DEF Explained
  <2> QED
    BY <2>4, <2>5 DEF Explained
<1>9. Undisturbed'
  <2> SUFFICES ASSUME NEW a \in Ids, NEW u \in Ids, OnlyBy(Stored', trans', a, u)
               PROVE  /\ Exact(Stored', trans', opening', a, account_balances'[a])
                      /\ pc'[u] = "store_debit" /\ from(u)' = a => held'[u] = account_balances'[a]
                      /\ pc'[u] = "store_credit" /\ to(u)' = a => held'[u] = account_balances'[a]
    BY DEF Undisturbed
  <2>1. OnlyBy(Stored, trans, a, u)
    BY <1>1 DEF OnlyBy, OpsAt
  <2>2. /\ Exact(Stored, trans, opening, a, account_balances[a])
        /\ pc[u] = "store_debit" /\ from(u) = a => held[u] = account_balances[a]
        /\ pc[u] = "store_credit" /\ to(u) = a => held[u] = account_balances[a]
    BY <1>1, <1>2, <2>1 DEF Undisturbed
  <2>3. CASE a = b
    <3>1. u = t
      BY <1>1, <2>3 DEF OnlyBy, OpsAt, b
    <3>2. held[t] = account_balances[b]
      BY <1>1, <1>4, <2>2, <2>3, <3>1
    <3>3. Exact(Stored, trans, opening, b, held[t])
      BY <2>2, <2>3, <3>2
    <3>4. Exact(Stored \cup {op}, trans, opening, b, held[t] + amount)
      BY <1>1, <1>3, <1>4, <3>3, StoreExact DEF b, amount
    <3> QED
      BY <1>1, <1>6, <2>3, <3>1, <3>4
  <2>4. CASE a # b
    <3>1. OpsAt(Stored', trans', a) = OpsAt(Stored, trans, a)
      BY <1>1, <2>4 DEF OpsAt, b
    <3>2. Exact(Stored', trans', opening', a, account_balances'[a])
      BY <1>1, <1>6, <2>2, <2>4, <3>1 DEF Exact
    <3> QED
      BY <1>1, <1>5, <1>6, <2>2, <2>4, <3>2
  <2> QED
    BY <2>3, <2>4
<1> QED
  BY <1>7, <1>8, <1>9 DEF Accounted

LEMMA AccountedInit == Init => Accounted
<1> SUFFICES ASSUME Init PROVE Accounted
  OBVIOUS
<1> QED
  BY DEF Init, Accounted, Opened, Explained, Undisturbed

\* main() starts the transactions with nothing stored, and leaves with what they stored.
LEMMA GroupKeeps ==
  ASSUME Inside, Accounted, NextGroup
  PROVE  Accounted'
<1>1. /\ main # "exit" /\ \A t \in Ids : pc[t] = "returned"
      /\ main = "init_acct" => main' = "init_trans"
      /\ main = "init_trans" => main' = "transactions"
      /\ main = "transactions" => main' = "exit"
      /\ pc' = (IF main = "transactions" THEN pc ELSE [t \in Ids |-> "start"])
      /\ UNCHANGED <<trans, opening, account_balances, held, ret_val>>
  BY DEF NextGroup, drawn
<1>2. main \in {"init_acct", "init_trans", "transactions"}
  BY <1>1 DEF Inside, Kinds
<1>3. CASE main = "transactions"
  <2>1. Stored' = Stored
    BY <1>1, <1>3 DEF Stored
  <2>2. \A t \in Ids : from(t)' = from(t) /\ to(t)' = to(t)
    BY <1>1 DEF from, to
  <2> QED
    BY <1>1, <1>3, <2>1, <2>2 DEF Accounted, Opened, Explained, Undisturbed
<1>4. CASE main = "init_trans"
  <2>1. /\ main' = "transactions" /\ \A t \in Ids : pc'[t] = "start"
        /\ UNCHANGED <<trans, opening, account_balances>>
    BY <1>1, <1>4
  <2>2. Stored' = {}
    BY <2>1 DEF Stored
  <2>3. \A a \in Ids : opening'[a] \in Nat /\ account_balances'[a] = opening'[a]
    BY <1>4, <2>1 DEF Accounted, Opened
  <2>4. \A a \in Ids : /\ Explains(Stored', trans', opening', a, account_balances'[a])
                       /\ Exact(Stored', trans', opening', a, account_balances'[a])
    BY <2>2, <2>3, Untouched
  <2> QED
    BY <2>1, <2>3, <2>4 DEF Accounted, Opened, Explained, Undisturbed
<1>5. CASE main = "init_acct"
  <2>1. \A a \in Ids : opening[a] = account_balances[a] /\ account_balances[a] \in Int
    BY <1>1, <1>5 DEF Accounted, Opened, Inside, Prepared
  <2>2. \A a \in Ids : opening[a] \in Nat
    BY <2>1, CriticalSectionAssumption DEF Inside, Kinds
  <2> QED
    BY <1>1, <1>5, <2>1, <2>2 DEF Accounted, Opened, Explained, Undisturbed
<1> QED
  BY <1>2, <1>3, <1>4, <1>5

LEMMA AccountedStep == ASSUME Inside, Accounted, [Next]_vars PROVE Accounted'
<1>1. ASSUME NEW t \in Ids, init_acct(t) PROVE Accounted'
  <2>1. PICK n \in Openings : /\ account_balances' = [account_balances EXCEPT ![t] = n]
                              /\ opening' = [opening EXCEPT ![t] = n]
    BY <1>1 DEF init_acct
  <2>2. main = "init_acct" /\ main' = main /\ pc' = [pc EXCEPT ![t] = "returned"]
    BY <1>1 DEF init_acct, Goto
  <2> QED
    BY <2>1, <2>2 DEF Inside, Kinds, Accounted, Opened, Explained, Undisturbed
<1>2. ASSUME NEW t \in Ids, init_trans(t) PROVE Accounted'
  BY <1>2 DEF init_trans, Accounted, Opened, Explained, Undisturbed
<1>3. ASSUME NEW t \in Ids, process_transaction(t) PROVE Accounted'
  <2>1. Premises(t)
    BY <1>3, Transacts
  <2> QED
    BY <1>3, <2>1, Looking, LookingKeeps, Storing, StoringKeeps
<1>4. CASE NextGroup
  BY <1>4, GroupKeeps
<1>5. CASE Exited \/ UNCHANGED vars
  <2>1. UNCHANGED <<main, pc, account_balances, trans, opening, held, ret_val>>
    BY <1>5 DEF Exited, vars
  <2>2. Stored' = Stored /\ \A t \in Ids : from(t)' = from(t) /\ to(t)' = to(t)
    BY <2>1 DEF Stored, from, to
  <2> QED
    BY <2>1, <2>2 DEF Accounted, Opened, Explained, Undisturbed
<1> QED
  BY <1>1, <1>2, <1>3, <1>4, <1>5 DEF Next, Step

LEMMA AccountedInvariant == Spec => [](Inside /\ Accounted)
  BY InsideInit, InsideStep, AccountedInit, AccountedStep, PTL DEF Spec

\* An account always holds its opening balance plus some of the debits and credits stored
\* in it, each at most once: an update can be lost whole, and money is never doubled or
\* made up, however the threads trample on each other's sections.
THEOREM OnceOrNever == Spec => []UpdatesLandOnceOrNever
<1>1. Accounted => UpdatesLandOnceOrNever
  <2> SUFFICES ASSUME Accounted, main \in {"transactions", "exit"}, NEW a \in Ids
               PROVE  \E ops \in SUBSET {op \in Stored : Account(op) = a} :
                         account_balances[a] = opening[a] + Total(ops)
    BY DEF UpdatesLandOnceOrNever
  <2>1. PICK ops \in SUBSET OpsAt(Stored, trans, a) :
               account_balances[a] = opening[a] + Sum(trans, ops)
    BY DEF Accounted, Explained, Explains
  <2>2. OpsAt(Stored, trans, a) = {op \in Stored : Account(op) = a}
    BY DEF OpsAt, Place, Account, from, to
  <2>3. Sum(trans, ops) = Total(ops)
    BY DEF Sum, Amount, Total, dollars
  <2> QED
    BY <2>1, <2>2, <2>3
<1> QED
  BY AccountedInvariant, <1>1, PTL

\* An account that one thread alone has used ends with exactly that thread's debits and
\* credits.
THEOREM Alone == Spec => []AloneMeansExact
<1>1. Accounted => AloneMeansExact
  <2> SUFFICES ASSUME Accounted, main = "exit", NEW a \in Ids,
                      Cardinality({op[1] : op \in {p \in Stored : Account(p) = a}}) = 1
               PROVE  account_balances[a] = opening[a] + Total({op \in Stored : Account(op) = a})
    BY DEF AloneMeansExact
  <2> DEFINE ops == {op \in Stored : Account(op) = a}
             users == {op[1] : op \in ops}
  <2>1. ops = OpsAt(Stored, trans, a) /\ Sum(trans, ops) = Total(ops)
    BY DEF OpsAt, Place, Account, from, to, Sum, Amount, Total, dollars
  <2>2. users \subseteq Ids
    BY DEF Stored
  <2>3. PICK t : users = {t}
    <3>1. IsFiniteSet(users)
      BY <2>2, Indices, FS_Subset
    <3> QED
      BY <3>1, FS_Singleton
  <2>4. t \in Ids /\ OnlyBy(Stored, trans, a, t)
    BY <2>1, <2>2, <2>3 DEF OnlyBy
  <2>5. Exact(Stored, trans, opening, a, account_balances[a])
    BY <2>4 DEF Accounted, Undisturbed
  <2> QED
    BY <2>1, <2>5 DEF Exact
<1> QED
  BY AccountedInvariant, <1>1, PTL
=============================================================================
