-------------------------- MODULE CriticalSection --------------------------
(***************************************************************************)
(* ch04/critical-section.c: num_accts threads fill in the accounts, as     *)
(* many draw one transaction each, and as many carry the transactions out  *)
(* at the same time, with a home-made lock per account.  main() joins each *)
(* group of threads before it starts the next.                             *)
(*                                                                         *)
(* Every read and write of a shared array is a step of its own.  The       *)
(* chained assignments locks[from] = locks[to] = v store v in locks[to]    *)
(* and then, as the C standard lets them, store in locks[from] either v    *)
(* or what they read back from locks[to] (GCC does the former with -O2 and *)
(* the latter with -O0): reads_back says which build runs.  Dollars are    *)
(* integers here, and nobody cancels a thread, so that                     *)
(* pthread_setcancelstate does nothing.                                    *)
(***************************************************************************)
EXTENDS Integers, FiniteSets, Functions

CONSTANTS num_accts,  \* accounts, transactions and threads
          Openings,   \* the balances rand() may give an account
          Draws,      \* the transactions rand() may give
          Builds,     \* the builds: sets of values of reads_back
          Unset       \* the contents of memory nobody has written

Ids == 0 .. num_accts - 1

ASSUME CriticalSectionAssumption ==
  /\ num_accts \in Nat
  /\ Openings \subseteq Nat
  /\ Draws \subseteq [from : Ids, to : Ids, dollars : Nat]
  /\ Builds \subseteq BOOLEAN
  /\ Unset \notin Int \cup Draws

VARIABLES reads_back,
          main,       \* the group of threads that main() has running
          pc,         \* where each thread of that group is
          account_balances, locks, trans,
          opening,    \* the balances main() prints before the transactions
          held,       \* held[t]: the value thread t has in a register
          ret_val

vars == <<reads_back, main, pc, account_balances, locks, trans, opening, held, ret_val>>

drawn == <<reads_back, trans, opening>>

Init == /\ reads_back \in Builds
        /\ main = "init_acct"
        /\ pc = [t \in Ids |-> "start"]
        /\ account_balances = [a \in Ids |-> Unset]
        /\ locks = [a \in Ids |-> Unset]
        /\ trans = [t \in Ids |-> Unset]
        /\ opening = [a \in Ids |-> Unset]
        /\ held = [t \in Ids |-> Unset]
        /\ ret_val = [t \in Ids |-> Unset]

Goto(t, from, to) == pc[t] = from /\ pc' = [pc EXCEPT ![t] = to]

-----------------------------------------------------------------------------
(* The two groups of threads that set the arrays up: each thread writes the  *)
(* cells of its own index only.                                              *)

init_acct(t) == /\ main = "init_acct"
                /\ Goto(t, "start", "returned")
                /\ \E b \in Openings :
                      /\ account_balances' = [account_balances EXCEPT ![t] = b]
                      /\ opening' = [opening EXCEPT ![t] = b]
                /\ locks' = [locks EXCEPT ![t] = 0]
                /\ UNCHANGED <<reads_back, main, trans, held, ret_val>>

init_trans(t) == /\ main = "init_trans"
                 /\ Goto(t, "start", "returned")
                 /\ \E d \in Draws : trans' = [trans EXCEPT ![t] = d]
                 /\ UNCHANGED <<reads_back, main, account_balances, locks, opening, held, ret_val>>

-----------------------------------------------------------------------------
(* process_transaction *)

from(t) == trans[t].from
to(t) == trans[t].to
dollars(t) == trans[t].dollars

\* if (account_balances[from_acct] < dollars) return 1
CheckFunds(t) ==
  /\ main = "transactions"
  /\ IF account_balances[from(t)] < dollars(t)
     THEN Goto(t, "start", "returned") /\ ret_val' = [ret_val EXCEPT ![t] = 1]
     ELSE Goto(t, "start", "test_from") /\ UNCHANGED ret_val
  /\ UNCHANGED <<drawn, main, account_balances, locks, held>>

\* while (locks[from_acct] != 0 && locks[to_acct] != 0)
TestFrom(t) == /\ Goto(t, "test_from", IF locks[from(t)] # 0 THEN "test_to" ELSE "set_to")
               /\ UNCHANGED <<drawn, main, account_balances, locks, held, ret_val>>

TestTo(t) == /\ Goto(t, "test_to", IF locks[to(t)] # 0 THEN "test_from" ELSE "set_to")
             /\ UNCHANGED <<drawn, main, account_balances, locks, held, ret_val>>

\* locks[from_acct] = locks[to_acct] = v, in two or three steps
StoreTo(t, at, v, reread, next) ==
  /\ Goto(t, at, IF reads_back THEN reread ELSE next)
  /\ locks' = [locks EXCEPT ![to(t)] = v]
  /\ held' = [held EXCEPT ![t] = v]
  /\ UNCHANGED <<drawn, main, account_balances, ret_val>>

ReadBack(t, at, next) ==
  /\ Goto(t, at, next)
  /\ held' = [held EXCEPT ![t] = locks[to(t)]]
  /\ UNCHANGED <<drawn, main, account_balances, locks, ret_val>>

StoreFrom(t, at, next) ==
  /\ Goto(t, at, next)
  /\ locks' = [locks EXCEPT ![from(t)] = held[t]]
  /\ UNCHANGED <<drawn, main, account_balances, held, ret_val>>

\* Fault: the lock counts the threads that set it.
SetTo_Counts(t) == StoreTo(t, "set_to", locks[to(t)] + 1, "set_reread", "set_from")

SetTo(t) == StoreTo(t, "set_to", 1, "set_reread", "set_from")
SetReread(t) == ReadBack(t, "set_reread", "set_from")
SetFrom(t) == StoreFrom(t, "set_from", "load_debit")

\* account_balances[a] += amount, in two steps
Load(t, at, a, next) ==
  /\ Goto(t, at, next)
  /\ held' = [held EXCEPT ![t] = account_balances[a]]
  /\ UNCHANGED <<drawn, main, account_balances, locks, ret_val>>

Store(t, at, a, amount, next) ==
  /\ Goto(t, at, next)
  /\ account_balances' = [account_balances EXCEPT ![a] = held[t] + amount]
  /\ UNCHANGED <<drawn, main, locks, held, ret_val>>

\* Faults: the sign of the debit; the credit starts from the other account's balance.
StoreDebit_Adds(t) == Store(t, "store_debit", from(t), dollars(t), "load_credit")
LoadCredit_From(t) == Load(t, "load_credit", from(t), "store_credit")

LoadDebit(t) == Load(t, "load_debit", from(t), "store_debit")
StoreDebit(t) == Store(t, "store_debit", from(t), -dollars(t), "load_credit")
LoadCredit(t) == Load(t, "load_credit", to(t), "store_credit")
StoreCredit(t) == Store(t, "store_credit", to(t), dollars(t), "clear_to")

ClearTo(t) == StoreTo(t, "clear_to", 0, "clear_reread", "clear_from")
ClearReread(t) == ReadBack(t, "clear_reread", "clear_from")

\* Fault: only the lock of the destination is released.
ClearFrom_Forgotten(t) == /\ Goto(t, "clear_from", "returned")
                          /\ ret_val' = [ret_val EXCEPT ![t] = 0]
                          /\ UNCHANGED <<drawn, main, account_balances, locks, held>>

\* ... and return 0
ClearFrom(t) == /\ Goto(t, "clear_from", "returned")
                /\ locks' = [locks EXCEPT ![from(t)] = held[t]]
                /\ ret_val' = [ret_val EXCEPT ![t] = 0]
                /\ UNCHANGED <<drawn, main, account_balances, held>>

process_transaction(t) ==
  \/ CheckFunds(t) \/ TestFrom(t) \/ TestTo(t)
  \/ SetTo(t) \/ SetReread(t) \/ SetFrom(t)
  \/ LoadDebit(t) \/ StoreDebit(t) \/ LoadCredit(t) \/ StoreCredit(t)
  \/ ClearTo(t) \/ ClearReread(t) \/ ClearFrom(t)

-----------------------------------------------------------------------------
(* main *)

\* All the threads of a group are joined, and those of the next are created.
NextGroup == /\ main # "exit"
             /\ \A t \in Ids : pc[t] = "returned"
             /\ main' = CASE main = "init_acct" -> "init_trans"
                          [] main = "init_trans" -> "transactions"
                          [] main = "transactions" -> "exit"
             /\ pc' = IF main = "transactions" THEN pc ELSE [t \in Ids |-> "start"]
             /\ UNCHANGED <<drawn, account_balances, locks, held, ret_val>>

Step(t) == init_acct(t) \/ init_trans(t) \/ process_transaction(t)

Exited == main = "exit" /\ UNCHANGED vars

Next == \/ NextGroup
        \/ \E t \in Ids : Step(t)
        \/ Exited

\* The kernel runs every thread that can run.
Fairness == /\ WF_vars(NextGroup)
            /\ \A t \in Ids : WF_vars(Step(t))

Spec == Init /\ [][Next]_vars /\ Fairness

-----------------------------------------------------------------------------
(* Properties *)

States == {"start", "test_from", "test_to", "set_to", "set_reread", "set_from",
           "load_debit", "store_debit", "load_credit", "store_credit",
           "clear_to", "clear_reread", "clear_from", "returned"}

\* The types of the variables; main() starts a group on arrays that are all set.
TypeOK ==
  /\ reads_back \in BOOLEAN
  /\ main \in {"init_acct", "init_trans", "transactions", "exit"}
  /\ pc \in [Ids -> States]
  /\ account_balances \in [Ids -> Int \cup {Unset}]
  /\ locks \in [Ids -> {0, 1, Unset}]
  /\ trans \in [Ids -> Draws \cup {Unset}]
  /\ opening \in [Ids -> Nat \cup {Unset}]
  /\ held \in [Ids -> Int \cup {Unset}]
  /\ ret_val \in [Ids -> {0, 1, Unset}]
  /\ main # "init_acct" => Unset \notin Range(account_balances) \cup Range(locks)
  /\ main \in {"transactions", "exit"} => Unset \notin Range(trans)

\* Where a thread has set a lock that it has still to clear.
SetsTo == {"set_reread", "set_from", "load_debit", "store_debit", "load_credit",
           "store_credit", "clear_to"}
SetsFrom == {"load_debit", "store_debit", "load_credit", "store_credit", "clear_to",
             "clear_reread", "clear_from"}

Owns(t, a) == \/ pc[t] \in SetsTo /\ to(t) = a
              \/ pc[t] \in SetsFrom /\ from(t) = a

\* A lock that is set will be cleared: some thread that set it is still inside the
\* section.  (Where the chained stores do not read back.)
LockHasOwner ==
  ~reads_back /\ main \in {"transactions", "exit"} =>
    \A a \in Ids : locks[a] # 0 => \E t \in Ids : Owns(t, a)

\* The debits and credits that have been stored, <<thread, -1>> or <<thread, 1>>, and
\* the account and the amount of each.
Stored ==
  {op \in Ids \X {-1, 1} :
     LET t == op[1] IN
     \/ pc[t] = "returned" /\ ret_val[t] = 0
     \/ pc[t] \in {"clear_to", "clear_reread", "clear_from"}
     \/ op[2] = -1 /\ pc[t] \in {"load_credit", "store_credit"}}
Account(op) == IF op[2] = -1 THEN from(op[1]) ELSE to(op[1])
Total(ops) == SumFunction([op \in ops |-> op[2] * dollars(op[1])])

\* The threads trample on each other's sections, but only so far: an account always
\* holds its opening balance plus some of the debits and credits stored in it, each at
\* most once.  An update can be lost whole; money is never doubled or made up.
UpdatesLandOnceOrNever ==
  main \in {"transactions", "exit"} =>
    \A a \in Ids :
       \E ops \in SUBSET {op \in Stored : Account(op) = a} :
          account_balances[a] = opening[a] + Total(ops)

\* Nothing is lost where nobody interferes: an account that one thread alone has used
\* ends with exactly that thread's debits and credits, also when it moves money from an
\* account to itself.
AloneMeansExact ==
  main = "exit" =>
    \A a \in Ids :
       LET ops == {op \in Stored : Account(op) = a} IN
       Cardinality({op[1] : op \in ops}) = 1 => account_balances[a] = opening[a] + Total(ops)

\* Nobody waits for ever: main() gets past its joins.  (Where the chained stores do not
\* read back: else a lock may stay set with nobody left to clear it.)
Termination == [](~reads_back => <>(main = "exit"))

\* Line 8, "Use locks to prevent simultaneous access to the arrays": two threads that
\* use the same account are never both between setting and clearing the locks.
Using(t) == pc[t] \in {"load_debit", "store_debit", "load_credit", "store_credit"}
ExclusiveAccess ==
  \A t, u \in Ids : t # u /\ Using(t) /\ Using(u) =>
                      {from(t), to(t)} \cap {from(u), to(u)} = {}

\* Line 44, "Close the critical section and release locks": when every thread has
\* returned no lock is set.
LocksReleased == main = "exit" => \A a \in Ids : locks[a] = 0
=============================================================================
