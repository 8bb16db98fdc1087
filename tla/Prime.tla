------------------------------- MODULE Prime -------------------------------
(***************************************************************************)
(* ch04/prime.c: a thread looks for the which_prime-th prime by dividing   *)
(* each number by all the smaller ones; main() joins it and prints.        *)
(***************************************************************************)
EXTENDS Integers, FiniteSets

CONSTANT which_prime

VARIABLES main,       \* "join" or "exit"
          candidate, factor, is_prime, n,
          returned,   \* what the thread returns, 0 till then
          prime

vars == <<main, candidate, factor, is_prime, n, returned, prime>>

Init == /\ main = "join" /\ prime = 0 /\ returned = 0
        /\ candidate = 2 /\ factor = 2 /\ is_prime = 1 /\ n = which_prime

\* Fault: no factor above the root is tried, nor the root.
Searching_BelowRoot == returned = 0 /\ is_prime = 1 /\ factor * factor < candidate

\* for (factor = 2; factor < candidate; factor++)
Searching == returned = 0 /\ is_prime = 1 /\ factor < candidate

Divides == /\ Searching /\ candidate % factor = 0
           /\ is_prime' = 0
           /\ UNCHANGED <<main, candidate, factor, n, returned, prime>>

NextFactor == /\ Searching /\ candidate % factor # 0
              /\ factor' = factor + 1
              /\ UNCHANGED <<main, candidate, is_prime, n, returned, prime>>

\* The loop is over: was this the last prime asked for?
Decided == returned = 0 /\ ~Searching

Return == /\ Decided /\ is_prime = 1 /\ n = 1
          /\ n' = 0 /\ returned' = candidate
          /\ UNCHANGED <<main, candidate, factor, is_prime, prime>>

NextCandidate == /\ Decided /\ ~(is_prime = 1 /\ n = 1)
                 /\ n' = IF is_prime = 1 THEN n - 1 ELSE n
                 /\ candidate' = candidate + 1 /\ factor' = 2 /\ is_prime' = 1
                 /\ UNCHANGED <<main, returned, prime>>

compute_prime == Divides \/ NextFactor \/ Return \/ NextCandidate

Join == /\ main = "join" /\ returned # 0
        /\ main' = "exit" /\ prime' = returned
        /\ UNCHANGED <<candidate, factor, is_prime, n, returned>>

Ended == main = "exit" /\ UNCHANGED vars

Next == compute_prime \/ Join \/ Ended

Spec == Init /\ [][Next]_vars

-----------------------------------------------------------------------------
(* Properties *)

IsPrime(p) == p > 1 /\ \A d \in 2 .. p - 1 : p % d # 0
PrimesUpTo(m) == {p \in 2 .. m : IsPrime(p)}

\* The types of the variables.
TypeOK == /\ main \in {"join", "exit"} /\ is_prime \in {0, 1}
          /\ candidate \in Nat \ {0, 1} /\ factor \in 2 .. candidate
          /\ {n, returned, prime} \subseteq Nat

\* Lines 4-5, "Return the Nth prime number": main() prints a prime, and which_prime primes
\* are not above it.
ReturnsNthPrime ==
  main = "exit" => IsPrime(prime) /\ Cardinality(PrimesUpTo(prime)) = which_prime
=============================================================================
