--------------------------- MODULE DataInduction ---------------------------
(***************************************************************************)
(* Induction over numbers and sequences, as facts about sets: to prove P   *)
(* of every number is to prove that {n \in Nat : P(n)} has 0 and, with n,  *)
(* n + 1.  No fact then has an operator for a parameter, and what a        *)
(* recursive function computes can be proved for every argument.           *)
(***************************************************************************)
EXTENDS Integers, Sequences, WellFoundedInduction, TLAPS

\* A set of numbers that is not empty has a least.
LEMMA LeastNumber ==
    ASSUME NEW S, S \subseteq Nat, S # {}
    PROVE  \E m \in S : \A n \in S : m <= n
  <1> DEFINE Less == {pair \in Nat \X Nat : pair[1] < pair[2]}
  <1>1. IsWellFoundedOn(Less, Nat)
    BY NatLessThanWellFounded DEF OpToRel
  <1>2. PICK m \in S : \A n \in S : ~(<<n, m>> \in Less)
    <2> HIDE DEF Less
    <2> QED  BY <1>1, WFMin
  <1>3. \A n \in S : n \in Nat /\ m \in Nat /\ ~(n < m)
    BY <1>2
  <1> QED  BY <1>3

\* A set of numbers with 0 and, with each number, the next is all of Nat: a
\* least number outside would have one before it inside.
LEMMA NumberInduction ==
    ASSUME NEW T, 0 \in T, \A n \in Nat : n \in T => n + 1 \in T
    PROVE  Nat \subseteq T
  <1> DEFINE rest == Nat \ T
  <1> SUFFICES ASSUME rest # {} PROVE FALSE
    OBVIOUS
  <1>1. PICK m \in rest : \A n \in rest : m <= n
    <2>1. rest \subseteq Nat
      OBVIOUS
    <2> HIDE DEF rest
    <2> QED  BY <2>1, LeastNumber
  <1>2. m - 1 \in rest
    OBVIOUS
  <1> QED  BY <1>1, <1>2

\* The same up to a number.
LEMMA IntervalInduction ==
    ASSUME NEW k \in Nat, NEW T, 0 \in T,
           \A n \in 0 .. k - 1 : n \in T => n + 1 \in T
    PROVE  0 .. k \subseteq T
  <1> DEFINE all == {n \in Nat : n <= k => n \in T}
  <1>1. 0 \in all
    OBVIOUS
  <1>2. ASSUME NEW n \in Nat, n \in all PROVE n + 1 \in all
    BY <1>2
  <1> HIDE DEF all
  <1>3. Nat \subseteq all
    BY <1>1, <1>2, NumberInduction
  <1> QED  BY <1>3 DEF all

\* And for sequences, which are built by Append.
LEMMA AppendInduction ==
    ASSUME NEW S, NEW Q, <<>> \in Q,
           \A s \in Seq(S) : s \in Q => \A x \in S : Append(s, x) \in Q
    PROVE  Seq(S) \subseteq Q
  <1> DEFINE all == {n \in Nat : \A s \in Seq(S) : Len(s) = n => s \in Q}
  <1>1. 0 \in all
    OBVIOUS
  <1>2. ASSUME NEW n \in Nat, n \in all PROVE n + 1 \in all
    <2> SUFFICES ASSUME NEW s \in Seq(S), Len(s) = n + 1 PROVE s \in Q
      OBVIOUS
    <2> DEFINE front == SubSeq(s, 1, n)
    <2>1. front \in Seq(S) /\ Len(front) = n /\ s[n + 1] \in S
      OBVIOUS
    <2>2. s = Append(front, s[n + 1])
      OBVIOUS
    <2>3. front \in Q
      BY <1>2, <2>1
    <2> HIDE DEF front
    <2> QED  BY <2>1, <2>2, <2>3
  <1> HIDE DEF all
  <1>3. Nat \subseteq all
    BY <1>1, <1>2, NumberInduction
  <1> QED  BY <1>3 DEF all

\* f is defined by recursion up to k: its value at n is step[n] of its value
\* at n - 1.
Recursive(f, k, first, step) ==
    f[0] = first /\ \A n \in 1 .. k : f[n] = step[n][f[n - 1]]

Stays(A, k, step) == \A n \in 1 .. k : \A a \in A : step[n][a] \in A

UpTo(k, A) == [0 .. k -> A]

\* Such a function exists.
LEMMA RecursionTo ==
    ASSUME NEW k \in Nat, NEW A, NEW first \in A,
           NEW step, Stays(A, k, step)
    PROVE  \E f \in UpTo(k, A) : Recursive(f, k, first, step)
  <1> USE DEF Recursive, Stays, UpTo
  <1> DEFINE some == {n \in 0 .. k : \E f \in [0 .. n -> A] :
                                         Recursive(f, n, first, step)}
  <1>1. 0 \in some
    <2> DEFINE g == [i \in 0 .. 0 |-> first]
    <2>1. g \in [0 .. 0 -> A] /\ Recursive(g, 0, first, step)
      OBVIOUS
    <2> HIDE DEF g
    <2> QED  BY <2>1
  <1>2. ASSUME NEW n \in 0 .. k - 1, n \in some PROVE n + 1 \in some
    <2>1. PICK f \in [0 .. n -> A] : Recursive(f, n, first, step)
      BY <1>2
    <2> DEFINE next == step[n + 1][f[n]]
               g == [i \in 0 .. n + 1 |-> IF i = n + 1 THEN next ELSE f[i]]
    <2>2. n + 1 \in 1 .. k /\ n \in 0 .. n
      OBVIOUS
    <2>3. next \in A
      BY <2>2
    <2>4. g \in [0 .. n + 1 -> A]
      <3> HIDE DEF next
      <3> QED  BY <2>3
    <2>5. g[0] = first
      BY <2>1
    <2>6. ASSUME NEW i \in 1 .. n + 1 PROVE g[i] = step[i][g[i - 1]]
      <3>1. CASE i = n + 1
        BY <2>2, <3>1
      <3>2. CASE i # n + 1
        <4>1. i \in 1 .. n /\ i \in 0 .. n + 1 /\ i - 1 \in 0 .. n + 1
              /\ i - 1 # n + 1
          BY <3>2
        <4>2. f[i] = step[i][f[i - 1]]
          BY <2>1, <4>1
        <4> HIDE DEF next
        <4> QED  BY <3>2, <4>1, <4>2
      <3> QED  BY <3>1, <3>2
    <2> HIDE DEF g
    <2> QED  BY <2>2, <2>4, <2>5, <2>6
  <1>3. 0 .. k \subseteq some
    <2> HIDE DEF some
    <2> QED  BY <1>1, <1>2, IntervalInduction
  <1> QED  BY <1>3
=============================================================================
