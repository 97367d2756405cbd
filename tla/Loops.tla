-------------------------------- MODULE Loops --------------------------------
(***************************************************************************)
(* What the proofs about a loop over a list need.  A loop is written as a  *)
(* recursive function: after[0] is the value before it, after[n] the value *)
(* after the n-th turn.  That such a function exists and what holds of it  *)
(* are inductions on n; these lemmas make them from the least number of a  *)
(* set of numbers, with no operator as a parameter.                        *)
(***************************************************************************)
EXTENDS Integers, TLAPS, WellFoundedInduction

\* A set of numbers with 0 in it, closed under + 1 up to N, has 0..N in it.
LEMMA UpTo ==
  ASSUME NEW N \in Nat, NEW T, 0 \in T, \A n \in 0..(N - 1) : n \in T => n + 1 \in T
  PROVE  0..N \subseteq T
<1> DEFINE Out == {n \in Nat : n <= N /\ n \notin T}
           R == OpToRel(<, Nat)
<1>1. SUFFICES ASSUME Out # {} PROVE FALSE
  OBVIOUS
<1>2. PICK x \in Out : \A y \in Out : ~(<<y, x>> \in R)
  <2>1. IsWellFoundedOn(R, Nat)
    BY NatLessThanWellFounded
  <2>2. Out \subseteq Nat
    OBVIOUS
  <2> HIDE DEF Out, R
  <2> QED BY <1>1, <2>1, <2>2, WFMin
<1>3. x # 0 /\ x \in Nat /\ x <= N /\ x \notin T
  OBVIOUS
<1>4. x - 1 \in Nat /\ x - 1 \notin Out
  <2>1. x - 1 \in Nat /\ x - 1 < x
    BY <1>3
  <2>2. <<x - 1, x>> \in R
    BY <1>3, <2>1 DEF OpToRel
  <2> QED BY <1>2, <2>1, <2>2
<1>5. x - 1 \in T /\ x - 1 \in 0..(N - 1)
  BY <1>3, <1>4
<1> QED BY <1>3, <1>5

\* The loops that start with init and make N turns, the n-th of which makes
\* Turn[<<v, n>>] of the value v.
LoopsOf(N, S, init, Turn) ==
  {f \in [0..N -> S] : f[0] = init /\ \A n \in 1..N : f[n] = Turn[<<f[n - 1], n>>]}

\* There is one.
LEMMA LoopRuns ==
  ASSUME NEW N \in Nat, NEW S, NEW init \in S, NEW Turn \in [S \X (1..N) -> S]
  PROVE  LoopsOf(N, S, init, Turn) # {}
<1> DEFINE Runs(n) == \E f \in [0..n -> S] :
             f[0] = init /\ \A m \in 1..n : f[m] = Turn[<<f[m - 1], m>>]
           T == {n \in 0..N : Runs(n)}
<1>1. 0 \in T
  <2> DEFINE f == [m \in 0..0 |-> init]
  <2>1. f \in [0..0 -> S] /\ f[0] = init /\ \A m \in 1..0 : f[m] = Turn[<<f[m - 1], m>>]
    OBVIOUS
  <2>2. Runs(0)
    <3> HIDE DEF f
    <3> QED BY <2>1
  <2> QED BY <2>2
<1>2. ASSUME NEW n \in 0..(N - 1), n \in T PROVE n + 1 \in T
  <2>1. PICK f \in [0..n -> S] :
          f[0] = init /\ \A m \in 1..n : f[m] = Turn[<<f[m - 1], m>>]
    BY <1>2
  <2> DEFINE g == [m \in 0..(n + 1) |-> IF m = n + 1 THEN Turn[<<f[n], n + 1>>] ELSE f[m]]
  <2>2. Turn[<<f[n], n + 1>>] \in S
    OBVIOUS
  <2>3. g \in [0..(n + 1) -> S]
    BY <2>2
  <2>4. g[0] = init
    BY <2>1
  <2>5. ASSUME NEW m \in 1..(n + 1) PROVE g[m] = Turn[<<g[m - 1], m>>]
    <3>1. CASE m = n + 1
      <4>1. m - 1 = n /\ g[n] = f[n] /\ g[n + 1] = Turn[<<f[n], n + 1>>]
        BY <3>1
      <4> HIDE DEF g
      <4> QED BY <3>1, <4>1
    <3>2. CASE m # n + 1
      <4>1. m \in 1..n /\ g[m] = f[m] /\ g[m - 1] = f[m - 1]
        BY <3>2
      <4> HIDE DEF g
      <4> QED BY <2>1, <4>1
    <3> QED BY <3>1, <3>2
  <2> HIDE DEF g
  <2> QED BY <2>3, <2>4, <2>5
<1>3. 0..N \subseteq T
  <2> HIDE DEF T
  <2> QED BY <1>1, <1>2, UpTo
<1> QED
  <2>1. N \in T
    <3> HIDE DEF T
    <3> QED BY <1>3
  <2> QED BY <2>1 DEF LoopsOf
=============================================================================
