---------------------------- MODULE LoopTheorems ----------------------------
(***************************************************************************)
(* Loops and recursive functions.  The library's induction theorems take   *)
(* an operator; the same principles over sets and functions are            *)
(* first-order.                                                            *)
(***************************************************************************)
EXTENDS WellFoundedInduction, TLAPS

\* A set of natural numbers that is not empty has a least element.
LEMMA LeastNatural ==
  ASSUME NEW T, T \subseteq Nat, T # {}
  PROVE  \E x \in T : \A y \in T : ~(y < x)
<1> DEFINE R == OpToRel(<, Nat)
<1>1. IsWellFoundedOn(R, Nat)
  BY NatLessThanWellFounded
<1>2. \A x, y \in Nat : x < y => <<x, y>> \in R
  BY DEF OpToRel
<1> HIDE DEF R
<1>3. PICK x \in T : \A y \in T : ~ (<<y, x>> \in R)
  BY <1>1, WFMin
<1> QED
  BY <1>2, <1>3

\* Induction up to n, over the set of the numbers that have the property.
LEMMA InductionUpTo ==
  ASSUME NEW n \in Nat, NEW S, 0 \in S,
         \A m \in 0..(n - 1) : m \in S => m + 1 \in S
  PROVE  0..n \subseteq S
<1> SUFFICES ASSUME (0..n) \ S # {} PROVE FALSE
  OBVIOUS
<1> DEFINE T == (0..n) \ S
<1>0. T \subseteq Nat /\ T # {}
  OBVIOUS
<1>1. PICK x \in T : \A y \in T : ~(y < x)
  BY <1>0, LeastNatural
<1>2. x \in 1..n /\ x - 1 \in 0..(n - 1) /\ x - 1 \in 0..n /\ x - 1 < x
      /\ x = (x - 1) + 1
  BY <1>1
<1>3. x - 1 \in S
  BY <1>1, <1>2
<1>4. (x - 1) + 1 \in S
  BY <1>2, <1>3
<1> QED
  BY <1>1, <1>2, <1>4

\* Induction from n down to 0.
LEMMA InductionDownTo ==
  ASSUME NEW n \in Nat, NEW S, n \in S,
         \A m \in 1..n : m \in S => m - 1 \in S
  PROVE  0..n \subseteq S
<1> DEFINE T == {m \in 0..n : n - m \in S}
<1>1. 0 \in T
  OBVIOUS
<1>2. ASSUME NEW m \in 0..(n - 1), m \in T PROVE m + 1 \in T
  <2>1. n - m \in 1..n /\ n - m \in S
    BY <1>2
  <2>2. (n - m) - 1 \in S /\ (n - m) - 1 = n - (m + 1)
    BY <2>1
  <2> QED
    BY <2>2
<1> HIDE DEF T
<1>3. 0..n \subseteq T
  BY <1>1, <1>2, InductionUpTo
<1>4. \A m \in 0..n : n - m \in 0..n /\ n - (n - m) = m
  OBVIOUS
<1> QED
  BY <1>3, <1>4 DEF T

\* f[i] is what a recursive function computes that stops in the places of stop
\* with the value val[i] and elsewhere goes on with place jump[i].
Computes(f, n, stop, val, step, jump) ==
  \A i \in 0..n : f[i] = IF i \in stop THEN val[i] ELSE step[i][f[jump[i]]]

\* A recursive function that goes on with smaller numbers computes something.
LEMMA RecursionDown ==
  ASSUME NEW n \in Nat, NEW V, NEW stop, NEW val, NEW step, NEW jump,
         \A i \in 0..n : i \in stop => val[i] \in V,
         \A i \in 0..n : i \notin stop =>
           step[i] \in [V -> V] /\ jump[i] \in 0..(i - 1)
  PROVE  \E f \in [0..n -> V] : Computes(f, n, stop, val, step, jump)
<1> DEFINE S == {m \in 0..n : \E f \in [0..m -> V] :
                                Computes(f, m, stop, val, step, jump)}
<1>1. 0 \in S
  <2> DEFINE f == [i \in 0..0 |-> val[0]]
  <2>1. 0 \in 0..n /\ 0 \in stop /\ val[0] \in V
    OBVIOUS
  <2>2. f \in [0..0 -> V] /\ Computes(f, 0, stop, val, step, jump)
    BY <2>1 DEF Computes
  <2> HIDE DEF f
  <2> QED
    BY <2>1, <2>2
<1>2. ASSUME NEW m \in 0..(n - 1), m \in S PROVE m + 1 \in S
  <2>1. PICK f \in [0..m -> V] : Computes(f, m, stop, val, step, jump)
    BY <1>2
  <2> DEFINE new == IF m + 1 \in stop THEN val[m + 1]
                    ELSE step[m + 1][f[jump[m + 1]]]
             g == [i \in 0..(m + 1) |-> IF i = m + 1 THEN new ELSE f[i]]
  <2>2. m + 1 \in 0..n /\ m \in Nat
    OBVIOUS
  <2>3. m + 1 \notin stop =>
          step[m + 1] \in [V -> V] /\ jump[m + 1] \in 0..m
    BY <2>2
  <2>4. new \in V
    BY <2>2, <2>3
  <2> HIDE DEF new
  <2>5. g \in [0..(m + 1) -> V]
    BY <2>2, <2>4
  <2>6. (\A i \in 0..m : g[i] = f[i]) /\ g[m + 1] = new
    BY <2>2
  <2> HIDE DEF g
  <2>7. ASSUME NEW i \in 0..(m + 1)
        PROVE  g[i] = IF i \in stop THEN val[i] ELSE step[i][g[jump[i]]]
    <3>1. CASE i = m + 1
      BY <2>3, <2>6, <3>1 DEF new
    <3>2. CASE i \in 0..m
      <4>1. i \in 0..n
        BY <2>2, <3>2
      <4>2. i \notin stop => jump[i] \in 0..m
        BY <3>2, <4>1
      <4>3. f[i] = IF i \in stop THEN val[i] ELSE step[i][f[jump[i]]]
        BY <2>1, <3>2 DEF Computes
      <4> QED
        BY <2>6, <3>2, <4>2, <4>3
    <3> QED
      BY <2>2, <3>1, <3>2
  <2>8. Computes(g, m + 1, stop, val, step, jump)
    BY <2>7 DEF Computes
  <2> QED
    BY <2>2, <2>5, <2>8
<1> HIDE DEF S
<1>3. n \in S
  <2>1. 0..n \subseteq S
    BY <1>1, <1>2, InductionUpTo
  <2> QED
    BY <2>1
<1> QED
  BY <1>3 DEF S

\* So does one that goes on with greater numbers.
LEMMA RecursionUp ==
  ASSUME NEW n \in Nat, NEW V, NEW stop, NEW val, NEW step, NEW jump,
         \A i \in 0..n : i \in stop => val[i] \in V,
         \A i \in 0..n : i \notin stop =>
           step[i] \in [V -> V] /\ jump[i] \in (i + 1)..n
  PROVE  \E f \in [0..n -> V] : Computes(f, n, stop, val, step, jump)
<1> DEFINE stop2 == {i \in 0..n : n - i \in stop}
           val2 == [i \in 0..n |-> val[n - i]]
           step2 == [i \in 0..n |-> step[n - i]]
           jump2 == [i \in 0..n |-> n - jump[n - i]]
<1>1. \A i \in 0..n : n - i \in 0..n /\ n - (n - i) = i
  OBVIOUS
<1>2. \A i \in 0..n : i \in stop2 => val2[i] \in V
  BY <1>1
<1>3. ASSUME NEW i \in 0..n, i \notin stop2
      PROVE  step2[i] \in [V -> V] /\ jump2[i] \in 0..(i - 1)
  <2>1. n - i \in 0..n /\ n - i \notin stop
    BY <1>1, <1>3
  <2>2. step[n - i] \in [V -> V] /\ jump[n - i] \in ((n - i) + 1)..n
    BY <2>1
  <2> QED
    BY <2>2
<1>4. /\ \A i \in 0..n : n - i \in stop2 <=> i \in stop
      /\ \A i \in 0..n : val2[n - i] = val[i]
      /\ \A i \in 0..n : step2[n - i] = step[i]
      /\ \A i \in 0..n : jump2[n - i] = n - jump[i]
  BY <1>1
<1> HIDE DEF stop2, val2, step2, jump2
<1>5. PICK g \in [0..n -> V] : Computes(g, n, stop2, val2, step2, jump2)
  BY <1>2, <1>3, RecursionDown
<1> DEFINE f == [i \in 0..n |-> g[n - i]]
<1>6. f \in [0..n -> V] /\ \A i \in 0..n : f[i] = g[n - i]
  BY <1>1
<1> HIDE DEF f
<1>7. ASSUME NEW i \in 0..n
      PROVE  f[i] = IF i \in stop THEN val[i] ELSE step[i][f[jump[i]]]
  <2>1. g[n - i] = IF n - i \in stop2 THEN val2[n - i]
                   ELSE step2[n - i][g[jump2[n - i]]]
    BY <1>1, <1>5 DEF Computes
  <2>2. g[n - i] = IF i \in stop THEN val[i] ELSE step[i][g[n - jump[i]]]
    BY <1>4, <2>1
  <2>3. i \notin stop => jump[i] \in 0..n
    OBVIOUS
  <2> QED
    BY <1>6, <2>2, <2>3
<1>8. Computes(f, n, stop, val, step, jump)
  BY <1>7 DEF Computes
<1> QED
  BY <1>6, <1>8
=============================================================================
