---------------------------- MODULE SequenceLemmas ----------------------------
(***************************************************************************)
(* Induction over the natural numbers for sets instead of predicates, and  *)
(* what follows from it: least and greatest numbers, and that a function   *)
(* defined by recursion over 0..N satisfies its defining equation.  The    *)
(* library states induction for an operator P(_), which no backend at hand *)
(* can instantiate; stated for the set of the numbers of which the claim   *)
(* holds it is first-order, and rests on the library's WFMin.              *)
(***************************************************************************)
EXTENDS Integers, WellFoundedInduction, TLAPS

\* A set that holds zero and with each number the next one holds them all.
THEOREM SetInduction ==
  ASSUME NEW S, 0 \in S, \A n \in Nat : n \in S => n + 1 \in S
  PROVE  Nat \subseteq S
<1> DEFINE T == Nat \ S
           R == OpToRel(<, Nat)
<1> SUFFICES ASSUME T # {} PROVE FALSE
  OBVIOUS
<1>1. IsWellFoundedOn(R, Nat)
  BY NatLessThanWellFounded, Zenon DEF R
<1>2. T \subseteq Nat
  OBVIOUS
<1> HIDE DEF T, R
<1>3. \E x \in T : \A y \in T : ~ (<<y, x>> \in R)
  BY <1>1, <1>2, WFMin
<1>4. PICK x \in T : \A y \in T : ~ (<<y, x>> \in R)
  BY <1>3
<1>5. x \in Nat /\ x \notin S /\ x # 0
  BY DEF T
<1>6. x - 1 \in T
  BY <1>5 DEF T
<1>7. <<x - 1, x>> \in R
  BY <1>5, SMT DEF R, OpToRel
<1> QED
  BY <1>4, <1>6, <1>7

\* A set that holds a number of 1..N if it holds the smaller ones holds them all.
THEOREM StrongInduction ==
  ASSUME NEW N \in Nat, NEW S,
         \A i \in 1..N : (\A j \in 1..(i - 1) : j \in S) => i \in S
  PROVE  \A i \in 1..N : i \in S
<1> DEFINE T == {n \in Nat : \A i \in 1..N : i <= n => i \in S}
<1>1. 0 \in T
  OBVIOUS
<1>2. ASSUME NEW n \in Nat, n \in T PROVE n + 1 \in T
  <2> SUFFICES ASSUME n + 1 \in 1..N PROVE n + 1 \in S
    BY <1>2
  <2>1. \A j \in 1..((n + 1) - 1) : j \in S
    BY <1>2
  <2> QED
    BY <2>1
<1>3. Nat \subseteq T
  <2> HIDE DEF T
  <2> QED BY <1>1, <1>2, SetInduction
<1>4. N \in T
  BY <1>3
<1> QED
  BY <1>4

\* A set of natural numbers that is not empty has a least element.
LEMMA LeastExists ==
  ASSUME NEW T, T \subseteq Nat, T # {}
  PROVE  \E x \in T : \A y \in T : x <= y
<1> DEFINE S == {n \in Nat : \A m \in 0..n : m \notin T}
<1> SUFFICES ASSUME \A x \in T : \E y \in T : y < x PROVE FALSE
  OBVIOUS
<1>1. 0 \in S
  OBVIOUS
<1>2. \A n \in Nat : n \in S => n + 1 \in S
  OBVIOUS
<1>3. Nat \subseteq S
  <2> HIDE DEF S
  <2> QED BY <1>1, <1>2, SetInduction
<1>4. PICK x \in T : TRUE
  OBVIOUS
<1>5. x \in S /\ x \in 0..x
  BY <1>3, <1>4
<1> QED
  BY <1>4, <1>5

\* One that has an upper bound has a greatest.
LEMMA GreatestExists ==
  ASSUME NEW T, NEW N \in Nat, T \subseteq 0..N, T # {}
  PROVE  \E x \in T : \A y \in T : x >= y
<1> DEFINE U == {n \in 0..N : N - n \in T}
<1>1. U \subseteq Nat /\ U # {}
  <2>1. PICK t \in T : TRUE
    OBVIOUS
  <2>2. N - t \in U
    BY <2>1
  <2> QED
    BY <2>2
<1>2. PICK u \in U : \A y \in U : u <= y
  <2> HIDE DEF U
  <2> QED BY <1>1, LeastExists
<1>3. \A y \in T : N - y \in U
  OBVIOUS
<1> QED
  BY <1>2, <1>3

\* A recursion over 0..N: the value at each number is a step from the value at
\* a smaller one, prev; and a function that solves it.
Recursion(N, V, c, prev, step) ==
  /\ N \in Nat /\ c \in V
  /\ prev \in [1..N -> Nat] /\ \A i \in 1..N : prev[i] < i
  /\ step \in [V \X (1..N) -> V]

Solves(f, N, V, c, prev, step) ==
  /\ f \in [0..N -> V]
  /\ f[0] = c
  /\ \A i \in 1..N : f[i] = step[<<f[prev[i]], i>>]

\* Every such recursion has a solution, so that the CHOOSE by which TLA+ defines
\* a recursive function finds one.
THEOREM RecursionExists ==
  ASSUME NEW N, NEW V, NEW c, NEW prev, NEW step, Recursion(N, V, c, prev, step)
  PROVE  \E f : Solves(f, N, V, c, prev, step)
<1> USE DEF Recursion
<1> DEFINE Ok(n, f) == f[0] = c /\ \A i \in 1..n : f[i] = step[<<f[prev[i]], i>>]
           S == {n \in Nat : n <= N => \E f \in [0..n -> V] : Ok(n, f)}
<1>1. 0 \in S
  <2> DEFINE f0 == [i \in 0..0 |-> c]
  <2>1. f0 \in [0..0 -> V] /\ Ok(0, f0)
    OBVIOUS
  <2> QED
    BY <2>1
<1>2. ASSUME NEW n \in Nat, n \in S PROVE n + 1 \in S
  <2> SUFFICES ASSUME n + 1 <= N PROVE \E f \in [0..(n + 1) -> V] : Ok(n + 1, f)
    OBVIOUS
  <2>1. PICK f \in [0..n -> V] : Ok(n, f)
    BY <1>2
  <2>2. prev[n + 1] \in 0..n
    OBVIOUS
  <2>3. step[<<f[prev[n + 1]], n + 1>>] \in V
    BY <2>2
  <2> DEFINE g == [i \in 0..(n + 1) |-> IF i = n + 1 THEN step[<<f[prev[n + 1]], n + 1>>]
                                        ELSE f[i]]
  <2>4. g \in [0..(n + 1) -> V]
    BY <2>3
  <2>5. g[0] = c
    BY <2>1
  <2>6. ASSUME NEW i \in 1..(n + 1) PROVE g[i] = step[<<g[prev[i]], i>>]
    <3>1. prev[i] \in 0..n /\ g[prev[i]] = f[prev[i]]
      BY <2>6
    <3> QED
      BY <3>1, <2>1
  <2> HIDE DEF g
  <2> QED
    BY <2>4, <2>5, <2>6
<1>3. Nat \subseteq S
  <2> HIDE DEF S
  <2> QED BY <1>1, <1>2, SetInduction
<1>4. N \in S
  BY <1>3
<1> QED
  BY <1>4 DEF Solves
==============================================================================
