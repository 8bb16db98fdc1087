----------------------------- MODULE SumTheorems -----------------------------
(***************************************************************************)
(* Facts about SumFunctionOnSet and SumFunction of the community modules:  *)
(* type, one more or one other summand, the sum of the first numbers.      *)
(*                                                                         *)
(* The induction is first-order: a set of sets that has the empty set, and *)
(* with each set the ones with an element more, has all the finite sets    *)
(* (Induction); the strict subsets of a finite set are well-founded        *)
(* (Smaller).  The sum is a recursive function on the subsets of the set   *)
(* of indices; that there is such a function is Exists.                    *)
(***************************************************************************)
EXTENDS Integers, Functions, FiniteSetTheorems, TLAPS

-----------------------------------------------------------------------------
(* Induction on finite sets *)

LEMMA Smallest ==
  ASSUME NEW S, IsFiniteSet(S), NEW Bad \in SUBSET SUBSET S, Bad # {}
  PROVE  \E T \in Bad : \A U \in Bad : ~(U \subseteq T /\ U # T)
<1>1. IsWellFoundedOn(StrictSubsetOrdering(S), SUBSET S)
  BY FS_StrictSubsetOrderingWellFounded, FS_FiniteSubsetsOfFinite
<1>2. PICK T \in Bad : \A U \in Bad : ~(<<U, T>> \in StrictSubsetOrdering(S))
  BY <1>1, WFMin
<1> QED
  BY <1>2 DEF StrictSubsetOrdering

\* What is true of a subset when it is true of all the smaller ones is true of all.
LEMMA StrongInduction ==
  ASSUME NEW S, IsFiniteSet(S), NEW Good \in SUBSET SUBSET S,
         \A T \in SUBSET S : (\A U \in SUBSET T : U # T => U \in Good) => T \in Good
  PROVE  Good = SUBSET S
<1> DEFINE Bad == (SUBSET S) \ Good
<1> SUFFICES ASSUME Bad # {} PROVE FALSE
  OBVIOUS
<1>1. Bad \in SUBSET SUBSET S
  OBVIOUS
<1>2. \E T \in Bad : \A U \in Bad : ~(U \subseteq T /\ U # T)
  <2> HIDE DEF Bad
  <2> QED
    BY <1>1, Smallest
<1>3. PICK T \in Bad : \A U \in SUBSET T : U # T => U \in Good
  BY <1>2
<1> QED
  BY <1>3

LEMMA Induction ==
  ASSUME NEW S, IsFiniteSet(S), NEW Good \in SUBSET SUBSET S, {} \in Good,
         \A T \in Good : \A x \in S \ T : T \cup {x} \in Good
  PROVE  Good = SUBSET S
<1>1. ASSUME NEW T \in SUBSET S, \A U \in SUBSET T : U # T => U \in Good
      PROVE  T \in Good
  <2>1. CASE T = {}
    BY <2>1
  <2>2. CASE T # {}
    <3>1. PICK x : x \in T
      BY <2>2
    <3>2. T \ {x} \in Good
      BY <1>1, <3>1
    <3>3. T = (T \ {x}) \cup {x} /\ x \in S \ (T \ {x})
      BY <3>1
    <3> QED
      BY <3>2, <3>3
  <2> QED
    BY <2>1, <2>2
<1> QED
  BY <1>1, StrongInduction

-----------------------------------------------------------------------------
(* The sum as a function on the subsets of S *)

First(s) == CHOOSE x \in s : TRUE

IsSum(iter, f, S) ==
  iter = [s \in SUBSET S |-> IF s = {} THEN 0 ELSE f[First(s)] + iter[s \ {First(s)}]]

LEMMA Unfolded ==
  ASSUME NEW f, NEW S
  PROVE  SumFunctionOnSet(f, S) = (CHOOSE iter : IsSum(iter, f, S))[S]
BY DEF SumFunctionOnSet, FoldFunctionOnSet, MapThenFoldSet, IsSum, First

LEMMA InFirst == ASSUME NEW s, s # {} PROVE First(s) \in s
BY DEF First

\* Two such functions agree where both are defined.
LEMMA Agree ==
  ASSUME NEW f, NEW S, NEW T, NEW g, NEW h, IsFiniteSet(S), IsSum(g, f, S), IsSum(h, f, T)
  PROVE  \A s \in SUBSET S : s \in SUBSET T => g[s] = h[s]
<1> DEFINE Good == {s \in SUBSET S : s \in SUBSET T => g[s] = h[s]}
<1>1. {} \in Good
  BY DEF IsSum
<1>2. ASSUME NEW s \in SUBSET S, \A u \in SUBSET s : u # s => u \in Good
      PROVE  s \in Good
  <2> SUFFICES ASSUME s \in SUBSET T, s # {} PROVE g[s] = h[s]
    BY <1>1
  <2> DEFINE x == First(s)
  <2>1. x \in s
    BY InFirst
  <2>2. s \ {x} \in SUBSET S /\ s \ {x} \in SUBSET T /\ s \ {x} # s
    BY <2>1
  <2>3. g[s \ {x}] = h[s \ {x}]
    BY <1>2, <2>2
  <2>4. g[s] = f[x] + g[s \ {x}]
    BY DEF IsSum
  <2>5. h[s] = f[x] + h[s \ {x}]
    BY DEF IsSum
  <2> QED
    BY <2>3, <2>4, <2>5
<1>3. Good = SUBSET S
  <2> HIDE DEF Good
  <2>1. Good \in SUBSET SUBSET S
    BY DEF Good
  <2> QED
    BY <1>2, <2>1, StrongInduction
<1> QED
  BY <1>3

LEMMA Exists == ASSUME NEW f, NEW S, IsFiniteSet(S) PROVE \E iter : IsSum(iter, f, S)
<1> DEFINE Good == {s \in SUBSET S : \E g : IsSum(g, f, s)}
<1>1. ASSUME NEW s \in SUBSET S, \A u \in SUBSET s : u # s => u \in Good
      PROVE  s \in Good
  <2> DEFINE G(u) == CHOOSE g : IsSum(g, f, u)
             below == [u \in SUBSET s |-> G(u)[u]]
             top == IF s = {} THEN 0 ELSE f[First(s)] + below[s \ {First(s)}]
             h == [u \in SUBSET s |-> IF u = s THEN top ELSE below[u]]
  <2>1. \A u \in SUBSET s : u # s => IsSum(G(u), f, u)
    BY <1>1
  <2>2. ASSUME NEW u \in SUBSET s
        PROVE  h[u] = IF u = {} THEN 0 ELSE f[First(u)] + h[u \ {First(u)}]
    <3>1. u # {} => First(u) \in u
      BY InFirst
    <3>2. CASE u = s
      <4>1. u # {} => u \ {First(u)} \in SUBSET s /\ u \ {First(u)} # s
        BY <3>1, <3>2
      <4> QED
        BY <3>2, <4>1
    <3>3. CASE u # s /\ u = {}
      <4>1. IsSum(G(u), f, u) /\ h[u] = G(u)[u]
        BY <2>1, <3>3
      <4> HIDE DEF G, h
      <4> QED
        BY <3>3, <4>1 DEF IsSum
    <3>4. CASE u # s /\ u # {}
      <4> DEFINE v == u \ {First(u)}
      <4>1. v \in SUBSET u /\ v # s /\ v \in SUBSET s
        BY <3>1, <3>4
      <4>2. IsSum(G(u), f, u) /\ IsSum(G(v), f, v) /\ h[u] = G(u)[u] /\ h[v] = G(v)[v]
        BY <2>1, <3>4, <4>1
      <4>3. IsFiniteSet(u)
        BY FS_Subset
      <4> HIDE DEF G, h, v
      <4>4. G(u)[v] = G(v)[v]
        BY <4>1, <4>2, <4>3, Agree
      <4>5. G(u)[u] = f[First(u)] + G(u)[v]
        BY <3>4, <4>2 DEF IsSum, v
      <4> QED
        BY <3>4, <4>2, <4>4, <4>5 DEF v
    <3> QED
      BY <3>2, <3>3, <3>4
  <2>3. h = [u \in SUBSET s |-> h[u]]
    OBVIOUS
  <2> HIDE DEF h
  <2>4. IsSum(h, f, s)
    BY <2>2, <2>3 DEF IsSum
  <2> QED
    BY <2>4
<1>2. Good = SUBSET S
  <2> HIDE DEF Good
  <2>1. Good \in SUBSET SUBSET S
    BY DEF Good
  <2> QED
    BY <1>1, <2>1, StrongInduction
<1> QED
  BY <1>2

-----------------------------------------------------------------------------
(* What the sum is *)

LEMMA SumEquation ==
  ASSUME NEW f, NEW S, IsFiniteSet(S)
  PROVE  SumFunctionOnSet(f, S) =
           IF S = {} THEN 0 ELSE f[First(S)] + SumFunctionOnSet(f, S \ {First(S)})
<1> DEFINE iter(T) == CHOOSE g : IsSum(g, f, T)
           R == S \ {First(S)}
<1>1. IsFiniteSet(R)
  BY FS_RemoveElement
<1>2. IsSum(iter(S), f, S) /\ IsSum(iter(R), f, R)
  BY <1>1, Exists
<1>3. SumFunctionOnSet(f, S) = iter(S)[S] /\ SumFunctionOnSet(f, R) = iter(R)[R]
  BY Unfolded
<1> HIDE DEF iter
<1>4. iter(S)[R] = iter(R)[R]
  BY <1>1, <1>2, Agree
<1>5. iter(S)[S] = IF S = {} THEN 0 ELSE f[First(S)] + iter(S)[R]
  BY <1>2 DEF IsSum
<1> QED
  BY <1>3, <1>4, <1>5

LEMMA SumEmpty == ASSUME NEW f PROVE SumFunctionOnSet(f, {}) = 0
BY SumEquation, FS_EmptySet

LEMMA SumType ==
  ASSUME NEW f, NEW S, IsFiniteSet(S), \A x \in S : f[x] \in Int
  PROVE  SumFunctionOnSet(f, S) \in Int
<1> DEFINE Good == {T \in SUBSET S : SumFunctionOnSet(f, T) \in Int}
<1>1. ASSUME NEW T \in SUBSET S, \A U \in SUBSET T : U # T => U \in Good
      PROVE  T \in Good
  <2>1. CASE T = {}
    BY <2>1, SumEmpty
  <2>2. CASE T # {}
    <3>1. First(T) \in T
      BY <2>2, InFirst
    <3>2. SumFunctionOnSet(f, T \ {First(T)}) \in Int
      BY <1>1, <3>1
    <3>3. SumFunctionOnSet(f, T) = f[First(T)] + SumFunctionOnSet(f, T \ {First(T)})
      BY <2>2, SumEquation, FS_Subset
    <3> QED
      BY <3>1, <3>2, <3>3
  <2> QED
    BY <2>1, <2>2
<1>2. Good \in SUBSET SUBSET S
  OBVIOUS
<1> HIDE DEF Good
<1>3. Good = SUBSET S
  BY <1>1, <1>2, StrongInduction
<1> QED
  BY <1>3 DEF Good

\* Any element may be taken out first.
LEMMA SumTakeOut ==
  ASSUME NEW f, NEW S, IsFiniteSet(S), \A x \in S : f[x] \in Int, NEW a \in S
  PROVE  SumFunctionOnSet(f, S) = f[a] + SumFunctionOnSet(f, S \ {a})
<1> DEFINE Sum(T) == SumFunctionOnSet(f, T)
           Good == {T \in SUBSET S : \A x \in T : Sum(T) = f[x] + Sum(T \ {x})}
<1>int. ASSUME NEW T \in SUBSET S PROVE Sum(T) \in Int
  BY FS_Subset, SumType
<1>1. ASSUME NEW T \in SUBSET S, \A U \in SUBSET T : U # T => U \in Good
      PROVE  T \in Good
  <2> SUFFICES ASSUME NEW x \in T PROVE Sum(T) = f[x] + Sum(T \ {x})
    OBVIOUS
  <2> DEFINE y == First(T)
  <2>1. y \in T
    BY InFirst
  <2>2. Sum(T) = f[y] + Sum(T \ {y})
    BY SumEquation, FS_Subset
  <2>3. CASE x = y
    BY <2>2, <2>3
  <2>4. CASE x # y
    <3>1. T \ {x} \in Good /\ T \ {y} \in Good
      BY <1>1, <2>1
    <3>2. Sum(T \ {y}) = f[x] + Sum((T \ {y}) \ {x}) /\ Sum(T \ {x}) = f[y] + Sum((T \ {x}) \ {y})
      BY <2>1, <2>4, <3>1
    <3>3. Sum((T \ {y}) \ {x}) = Sum((T \ {x}) \ {y})
      <4>1. (T \ {y}) \ {x} = (T \ {x}) \ {y}
        OBVIOUS
      <4> HIDE DEF y, Sum
      <4> QED
        BY <4>1
    <3>4. f[x] \in Int /\ f[y] \in Int /\ Sum((T \ {x}) \ {y}) \in Int
      BY <1>int, <2>1
    <3> HIDE DEF Sum, y
    <3> QED
      BY <2>2, <3>2, <3>3, <3>4
  <2> QED
    BY <2>3, <2>4
<1>2. Good \in SUBSET SUBSET S
  OBVIOUS
<1> HIDE DEF Good
<1>3. Good = SUBSET S
  BY <1>1, <1>2, StrongInduction
<1> QED
  BY <1>3 DEF Good

LEMMA SumAddOne ==
  ASSUME NEW f, NEW S, IsFiniteSet(S), NEW a, a \notin S, \A x \in S \cup {a} : f[x] \in Int
  PROVE  SumFunctionOnSet(f, S \cup {a}) = SumFunctionOnSet(f, S) + f[a]
<1>1. IsFiniteSet(S \cup {a}) /\ (S \cup {a}) \ {a} = S
  BY FS_AddElement
<1>2. SumFunctionOnSet(f, S \cup {a}) = f[a] + SumFunctionOnSet(f, S)
  BY <1>1, SumTakeOut
<1> QED
  BY <1>2, SumType

\* The sum depends on the summands alone.
LEMMA SumSame ==
  ASSUME NEW f, NEW g, NEW S, IsFiniteSet(S), \A x \in S : f[x] = g[x]
  PROVE  SumFunctionOnSet(f, S) = SumFunctionOnSet(g, S)
<1> DEFINE Good == {T \in SUBSET S : SumFunctionOnSet(f, T) = SumFunctionOnSet(g, T)}
<1>1. ASSUME NEW T \in SUBSET S, \A U \in SUBSET T : U # T => U \in Good
      PROVE  T \in Good
  <2>1. CASE T = {}
    BY <2>1, SumEmpty
  <2>2. CASE T # {}
    <3>1. First(T) \in T
      BY <2>2, InFirst
    <3>2. SumFunctionOnSet(f, T \ {First(T)}) = SumFunctionOnSet(g, T \ {First(T)})
      BY <1>1, <3>1
    <3>3. IsFiniteSet(T)
      BY FS_Subset
    <3>4. /\ SumFunctionOnSet(f, T) = f[First(T)] + SumFunctionOnSet(f, T \ {First(T)})
          /\ SumFunctionOnSet(g, T) = g[First(T)] + SumFunctionOnSet(g, T \ {First(T)})
      BY <2>2, <3>3, SumEquation
    <3> QED
      BY <3>1, <3>2, <3>4
  <2> QED
    BY <2>1, <2>2
<1>2. Good \in SUBSET SUBSET S
  OBVIOUS
<1> HIDE DEF Good
<1>3. Good = SUBSET S
  BY <1>1, <1>2, StrongInduction
<1> QED
  BY <1>3 DEF Good

-----------------------------------------------------------------------------
(* What the models need *)

\* The sum of a function is an integer.
LEMMA SumOfInts ==
  ASSUME NEW S, IsFiniteSet(S), NEW f \in [S -> Int]
  PROVE  SumFunction(f) \in Int
BY SumType DEF SumFunction

\* The sum of no numbers.
LEMMA SumOfNone == ASSUME NEW f, DOMAIN f = {} PROVE SumFunction(f) = 0
BY SumEmpty DEF SumFunction

\* The sum of zeros.
LEMMA SumOfZeros ==
  ASSUME NEW S, IsFiniteSet(S)
  PROVE  SumFunction([x \in S |-> 0]) = 0
<1> DEFINE f == [x \in S |-> 0]
           Good == {T \in SUBSET S : SumFunctionOnSet(f, T) = 0}
<1>1. {} \in Good
  BY SumEmpty
<1>2. ASSUME NEW T \in Good, NEW x \in S \ T PROVE T \cup {x} \in Good
  <2>1. IsFiniteSet(T)
    BY FS_Subset
  <2>2. \A y \in T \cup {x} : f[y] \in Int
    OBVIOUS
  <2>3. SumFunctionOnSet(f, T \cup {x}) = SumFunctionOnSet(f, T) + f[x]
    BY <2>1, <2>2, SumAddOne
  <2> QED
    BY <2>3
<1>3. Good \in SUBSET SUBSET S
  OBVIOUS
<1> HIDE DEF Good
<1>4. Good = SUBSET S
  BY <1>1, <1>2, <1>3, Induction
<1> QED
  BY <1>4 DEF Good, SumFunction

\* A summand that changes takes the sum along.
LEMMA SumOfUpdate ==
  ASSUME NEW S, IsFiniteSet(S), NEW f \in [S -> Int], NEW a \in S, NEW v \in Int
  PROVE  SumFunction([f EXCEPT ![a] = v]) = SumFunction(f) - f[a] + v
<1> DEFINE g == [f EXCEPT ![a] = v]
<1>1. IsFiniteSet(S \ {a})
  BY FS_RemoveElement
<1>2. SumFunctionOnSet(f, S) = f[a] + SumFunctionOnSet(f, S \ {a})
  BY SumTakeOut
<1>3. SumFunctionOnSet(g, S) = v + SumFunctionOnSet(g, S \ {a})
  BY SumTakeOut
<1>4. SumFunctionOnSet(f, S \ {a}) = SumFunctionOnSet(g, S \ {a})
  BY <1>1, SumSame
<1>5. SumFunctionOnSet(f, S \ {a}) \in Int
  BY <1>1, SumType
<1>6. DOMAIN f = S /\ DOMAIN g = S /\ f[a] \in Int
  OBVIOUS
<1> HIDE DEF g
<1> QED
  BY <1>2, <1>3, <1>4, <1>5, <1>6 DEF SumFunction, g

\* One summand more.
LEMMA SumOfOneMore ==
  ASSUME NEW S, IsFiniteSet(S), NEW a, a \notin S, NEW f \in [S \cup {a} -> Int]
  PROVE  SumFunction(f) = SumFunction([x \in S |-> f[x]]) + f[a]
<1> DEFINE g == [x \in S |-> f[x]]
<1>1. SumFunctionOnSet(f, S \cup {a}) = SumFunctionOnSet(f, S) + f[a]
  BY SumAddOne
<1>2. \A x \in S : f[x] = g[x]
  OBVIOUS
<1>3. SumFunction(g) = SumFunctionOnSet(g, S) /\ SumFunction(f) = SumFunctionOnSet(f, S \cup {a})
  BY DEF SumFunction
<1> HIDE DEF g
<1>4. SumFunctionOnSet(f, S) = SumFunctionOnSet(g, S)
  BY <1>2, SumSame
<1>5. SumFunction(f) = SumFunction(g) + f[a]
  BY <1>1, <1>3, <1>4
<1> QED
  BY <1>5 DEF g

\* One number more in a sum of different numbers.
COROLLARY SumOfIdentity ==
  ASSUME NEW S, IsFiniteSet(S), S \subseteq Int, NEW a \in Int, a \notin S
  PROVE  SumFunction([j \in S \cup {a} |-> j]) = SumFunction([j \in S |-> j]) + a
<1> DEFINE f == [j \in S \cup {a} |-> j]
<1>1. f \in [S \cup {a} -> Int]
  OBVIOUS
<1>2. f[a] = a /\ [x \in S |-> f[x]] = [j \in S |-> j]
  OBVIOUS
<1> SUFFICES SumFunction(f) = SumFunction([j \in S |-> j]) + a
  OBVIOUS
<1> HIDE DEF f
<1>3. SumFunction(f) = SumFunction([x \in S |-> f[x]]) + f[a]
  BY <1>1, SumOfOneMore
<1> QED
  BY <1>2, <1>3

\* 0 + 1 + ... + (n - 1), twice.
LEMMA SumOfFirst ==
  ASSUME NEW n \in Nat
  PROVE  2 * SumFunction([j \in 0 .. n - 1 |-> j]) = n * (n - 1)
<1> DEFINE S == 0 .. n - 1
           Upto(m) == 0 .. m - 1
           F(m) == [j \in Upto(m) |-> j]
           Sum(m) == SumFunction(F(m))
           Good == {T \in SUBSET S : \A m \in 0 .. n : T = Upto(m) => 2 * Sum(m) = m * (m - 1)}
<1>1. IsFiniteSet(S)
  BY FS_Interval
<1>2. ASSUME NEW T \in SUBSET S, \A U \in SUBSET T : U # T => U \in Good
      PROVE  T \in Good
  <2> SUFFICES ASSUME NEW m \in 0 .. n, T = Upto(m) PROVE 2 * Sum(m) = m * (m - 1)
    OBVIOUS
  <2>1. CASE m = 0
    <3>1. Sum(m) = 0
      BY <2>1, SumOfNone
    <3> QED
      BY <2>1, <3>1
  <2>2. CASE m # 0
    <3> DEFINE k == m - 1
    <3>1. k \in 0 .. n /\ m = k + 1 /\ k \in Nat
      BY <2>2
    <3>2. Upto(m) = Upto(k) \cup {k} /\ k \notin Upto(k)
      BY <3>1
    <3>3. 2 * Sum(k) = k * (k - 1)
      <4>1. Upto(k) \in SUBSET T /\ Upto(k) # T
        BY <3>1, <3>2
      <4>2. Upto(k) \in Good
        BY <1>2, <4>1
      <4> QED
        BY <3>1, <4>2
    <3>4. IsFiniteSet(Upto(k))
      BY <3>1, FS_Interval
    <3>5. F(k) \in [Upto(k) -> Int] /\ Upto(k) \subseteq Int
      BY <3>1, <3>2
    <3>6. Sum(m) = Sum(k) + k
      <4>1. k \in Int /\ k \notin Upto(k)
        BY <3>1, <3>2
      <4> HIDE DEF k, Upto
      <4>2. SumFunction([j \in Upto(k) \cup {k} |-> j]) = SumFunction([j \in Upto(k) |-> j]) + k
        BY <3>4, <3>5, <4>1, SumOfIdentity, Zenon
      <4> QED
        BY <3>2, <4>2
    <3>7. Sum(k) \in Int
      BY <3>4, <3>5, SumOfInts
    <3> HIDE DEF Sum, k
    <3>8. m * (m - 1) = k * (k - 1) + 2 * k
      BY <3>1
    <3> QED
      BY <3>1, <3>3, <3>6, <3>7, <3>8
  <2> QED
    BY <2>1, <2>2
<1>3. Good \in SUBSET SUBSET S
  OBVIOUS
<1> HIDE DEF Good
<1>4. Good = SUBSET S
  BY <1>1, <1>2, <1>3, StrongInduction
<1>5. S \in Good /\ n \in 0 .. n /\ S = Upto(n)
  BY <1>4
<1> QED
  BY <1>5 DEF Good
=============================================================================
