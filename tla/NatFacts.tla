------------------------------- MODULE NatFacts -------------------------------
(***************************************************************************)
(* Facts about natural numbers that the proofs of this project use: the    *)
(* least element of a set and an induction over sets, in place of rules    *)
(* over predicates, and the existence of functions defined by recursion.   *)
(***************************************************************************)
EXTENDS Integers, WellFoundedInduction, TLAPS

LEMMA LessOnNat == OpToRel(<, Nat) = {ss \in Nat \X Nat : ss[1] < ss[2]}
  BY DEF OpToRel

\* A non-empty set of naturals has a least element.
LEMMA LeastElement ==
  ASSUME NEW T \in SUBSET Nat, T # {}
  PROVE  \E m \in T : \A n \in T : m <= n
<1> DEFINE R == {ss \in Nat \X Nat : ss[1] < ss[2]}
<1>1. IsWellFoundedOn(R, Nat)
  BY NatLessThanWellFounded, LessOnNat
<1>2. PICK m \in T : \A n \in T : ~(<<n, m>> \in R)
  BY <1>1, WFMin, Zenon
<1>3. ASSUME NEW n \in T PROVE m <= n
  <2>1. m \in Nat /\ n \in Nat
    OBVIOUS
  <2>2. <<n, m>> \notin R
    BY <1>2
  <2>3. ~(n < m)
    BY <2>1, <2>2
  <2> QED
    BY <2>1, <2>3
<1> QED
  BY <1>3

\* A set that holds 0 and the successors of its naturals holds them all.
LEMMA SetInduction ==
  ASSUME NEW S, 0 \in S, \A n \in Nat : n \in S => n + 1 \in S
  PROVE  Nat \subseteq S
<1> DEFINE T == Nat \ S
<1>1. SUFFICES ASSUME T # {} PROVE FALSE
  OBVIOUS
<1>2. PICK m \in T : \A n \in T : m <= n
  BY <1>1, LeastElement
<1>3. m # 0 /\ m \in Nat
  OBVIOUS
<1>4. m - 1 \in Nat /\ m - 1 \notin T
  BY <1>2, <1>3
<1>5. (m - 1) + 1 \in S
  BY <1>4
<1> QED
  BY <1>3, <1>5

\* A function defined by recursion on the numbers up to n exists.
Recursive(f, n, base, step) ==
  f[0] = base /\ \A i \in 1..n : f[i] = step[<<i, f[i - 1]>>]

LEMMA Recursion ==
  ASSUME NEW T, NEW n \in Nat, NEW base \in T, NEW step \in [(1..n) \X T -> T]
  PROVE  \E f \in [0..n -> T] : Recursive(f, n, base, step)
<1> DEFINE Good(k, f) == Recursive(f, k, base, step)
           S == {k \in Nat : k <= n => \E f \in [0..k -> T] : Good(k, f)}
<1>1. 0 \in S
  <2>1. [i \in 0..0 |-> base] \in [0..0 -> T] /\ Good(0, [i \in 0..0 |-> base])
    BY DEF Recursive
  <2> QED BY <2>1
<1>2. ASSUME NEW k \in Nat, k \in S PROVE k + 1 \in S
  <2> SUFFICES ASSUME k + 1 <= n PROVE \E f \in [0..k + 1 -> T] : Good(k + 1, f)
    OBVIOUS
  <2>1. PICK f \in [0..k -> T] : Good(k, f)
    BY <1>2
  <2> DEFINE g == [i \in 0..k + 1 |-> IF i = k + 1 THEN step[<<k + 1, f[k]>>] ELSE f[i]]
  <2>2. step[<<k + 1, f[k]>>] \in T
    <3>1. <<k + 1, f[k]>> \in (1..n) \X T
      OBVIOUS
    <3> QED BY <3>1
  <2>3. g \in [0..k + 1 -> T]
    BY <2>2
  <2>4. g[k + 1] = step[<<k + 1, f[k]>>] /\ \A i \in 0..k : g[i] = f[i] /\ i # k + 1
    OBVIOUS
  <2> HIDE DEF g
  <2>5. Good(k + 1, g)
    <3>1. g[0] = base
      BY <2>1, <2>4 DEF Recursive
    <3>2. ASSUME NEW i \in 1..k + 1 PROVE g[i] = step[<<i, g[i - 1]>>]
      <4>1. i - 1 \in 0..k /\ g[i - 1] = f[i - 1]
        BY <2>4
      <4>2. CASE i = k + 1
        <5>1. i - 1 = k
          BY <4>2
        <5> QED BY <2>4, <4>1, <4>2, <5>1, Zenon
      <4>3. CASE i # k + 1
        <5>1. i \in 1..k /\ i \in 0..k
          BY <4>3
        <5>2. f[i] = step[<<i, f[i - 1]>>]
          BY <2>1, <5>1 DEF Recursive
        <5> QED BY <2>4, <4>1, <5>1, <5>2, Zenon
      <4> QED BY <4>2, <4>3
    <3> QED BY <3>1, <3>2 DEF Recursive
  <2> QED BY <2>3, <2>5
<1> HIDE DEF S
<1>3. n \in S
  BY <1>1, <1>2, SetInduction
<1> QED BY <1>3 DEF S

\* What every step of a chain keeps holds at its end.
LEMMA ChainKeeps ==
  ASSUME NEW lo \in Int, NEW hi \in Int, NEW g, NEW Q, g[lo] \in Q[lo],
         \A i \in lo + 1..hi : g[i - 1] \in Q[i - 1] => g[i] \in Q[i]
  PROVE  \A i \in lo..hi : g[i] \in Q[i]
<1> DEFINE S == {k \in Nat : lo + k <= hi => g[lo + k] \in Q[lo + k]}
<1>1. 0 \in S
  OBVIOUS
<1>2. ASSUME NEW k \in Nat, k \in S PROVE k + 1 \in S
  <2> SUFFICES ASSUME lo + (k + 1) <= hi PROVE g[lo + (k + 1)] \in Q[lo + (k + 1)]
    OBVIOUS
  <2>1. lo + k <= hi /\ lo + (k + 1) \in lo + 1..hi /\ (lo + (k + 1)) - 1 = lo + k
    OBVIOUS
  <2>2. g[lo + k] \in Q[lo + k]
    BY <1>2, <2>1
  <2> QED BY <2>1, <2>2
<1>3. Nat \subseteq S
  <2> HIDE DEF S
  <2> QED BY <1>1, <1>2, SetInduction
<1>4. ASSUME NEW i \in lo..hi PROVE g[i] \in Q[i]
  <2>1. i - lo \in Nat /\ lo + (i - lo) = i /\ i <= hi
    OBVIOUS
  <2>2. i - lo \in S
    BY <1>3, <2>1
  <2> QED BY <2>1, <2>2
<1> QED BY <1>4

\* A function defined by recursion on the numbers from lo to hi exists when
\* every step leads from the values that are possible to such values.
Chain(f, lo, hi, Q, base, step) ==
  /\ f = [i \in lo..hi |-> IF i = lo THEN base ELSE step[<<i, f[i - 1]>>]]
  /\ \A i \in lo..hi : f[i] \in Q[i]
Steps(lo, hi, Q, step) ==
  \A i \in lo + 1..hi : \A x \in Q[i - 1] : step[<<i, x>>] \in Q[i]

LEMMA ChainExists ==
  ASSUME NEW lo \in Int, NEW hi \in Int, lo <= hi, NEW Q, NEW base, base \in Q[lo],
         NEW step, Steps(lo, hi, Q, step)
  PROVE  \E f : Chain(f, lo, hi, Q, base, step)
<1> DEFINE n == hi - lo
           T == UNION {Q[i] : i \in lo..hi}
           next == [ix \in (1..n) \X T |->
                      IF ix[2] \in Q[lo + ix[1] - 1] THEN step[<<lo + ix[1], ix[2]>>] ELSE base]
<1>1. n \in Nat /\ base \in T
  OBVIOUS
<1>2. next \in [(1..n) \X T -> T]
  <2> SUFFICES ASSUME NEW i \in 1..n, NEW x \in T
               PROVE  (IF x \in Q[lo + i - 1] THEN step[<<lo + i, x>>] ELSE base) \in T
    OBVIOUS
  <2>1. lo + i \in lo + 1..hi /\ lo + i \in lo..hi /\ (lo + i) - 1 = lo + i - 1
    OBVIOUS
  <2>2. CASE x \in Q[lo + i - 1]
    <3>1. step[<<lo + i, x>>] \in Q[lo + i]
      BY <2>1, <2>2 DEF Steps
    <3> QED BY <2>1, <2>2, <3>1
  <2>3. CASE x \notin Q[lo + i - 1]
    BY <1>1, <2>3
  <2> QED BY <2>2, <2>3
<1>3. PICK h \in [0..n -> T] : Recursive(h, n, base, next)
  <2> HIDE DEF T, next, n
  <2> QED BY <1>1, <1>2, Recursion, Zenon
<1> DEFINE f == [i \in lo..hi |-> h[i - lo]]
           P == [k \in 0..n |-> Q[lo + k]]
<1>4. \A i \in 1..n : h[i - 1] \in Q[lo + i - 1] => h[i] = step[<<lo + i, h[i - 1]>>]
  <2> SUFFICES ASSUME NEW i \in 1..n, h[i - 1] \in Q[lo + i - 1]
               PROVE  h[i] = step[<<lo + i, h[i - 1]>>]
    OBVIOUS
  <2>1. i - 1 \in 0..n /\ h[i - 1] \in T
    <3> HIDE DEF T
    <3> QED BY <1>1
  <2>2. h[i] = next[<<i, h[i - 1]>>]
    BY <1>3 DEF Recursive
  <2> HIDE DEF T
  <2> QED BY <2>1, <2>2
<1>5. \A k \in 0..n : h[k] \in P[k]
  <2>1. h[0] \in P[0]
    <3>1. h[0] = base /\ P[0] = Q[lo + 0] /\ lo + 0 = lo
      BY <1>1, <1>3 DEF Recursive
    <3> QED BY <3>1
  <2>2. ASSUME NEW i \in 0 + 1..n, h[i - 1] \in P[i - 1] PROVE h[i] \in P[i]
    <3>1. /\ i - 1 \in 0..n /\ i \in 0..n /\ i \in 1..n /\ lo + (i - 1) = lo + i - 1
          /\ lo + i \in lo + 1..hi /\ (lo + i) - 1 = lo + i - 1
      OBVIOUS
    <3>2. h[i - 1] \in Q[lo + i - 1]
      BY <2>2, <3>1
    <3>3. step[<<lo + i, h[i - 1]>>] \in Q[lo + i]
      BY <3>1, <3>2 DEF Steps
    <3> QED BY <1>4, <3>1, <3>2, <3>3
  <2> HIDE DEF P
  <2>3. 0 \in Int /\ n \in Int
    BY <1>1
  <2> HIDE DEF n
  <2> QED BY <2>1, <2>2, <2>3, ChainKeeps
<1>6. ASSUME NEW i \in lo..hi PROVE f[i] \in Q[i]
  <2>1. i - lo \in 0..n /\ lo + (i - lo) = i
    OBVIOUS
  <2>2. f[i] = h[i - lo] /\ P[i - lo] = Q[i]
    BY <2>1
  <2> HIDE DEF f, P
  <2> QED BY <1>5, <2>1, <2>2
<1>7. ASSUME NEW i \in lo..hi
      PROVE  f[i] = IF i = lo THEN base ELSE step[<<i, f[i - 1]>>]
  <2>1. CASE i = lo
    <3>1. f[i] = h[0]
      BY <2>1
    <3> HIDE DEF f
    <3> QED BY <1>3, <2>1, <3>1 DEF Recursive
  <2>2. CASE i # lo
    <3>1. i - lo \in 1..n /\ i - 1 \in lo..hi /\ (i - lo) - 1 = (i - 1) - lo /\ lo + (i - lo) = i
          /\ lo + (i - lo) - 1 = i - 1
      BY <2>2
    <3>2. f[i] = h[i - lo] /\ f[i - 1] = h[(i - lo) - 1]
      BY <3>1
    <3>3. f[i - 1] \in Q[i - 1]
      BY <1>6, <3>1
    <3> HIDE DEF f
    <3>4. h[i - lo] = step[<<lo + (i - lo), h[(i - lo) - 1]>>]
      BY <1>4, <3>1, <3>2, <3>3
    <3> QED BY <2>2, <3>1, <3>2, <3>4
  <2> QED BY <2>1, <2>2
<1>8. f = [i \in lo..hi |-> IF i = lo THEN base ELSE step[<<i, f[i - 1]>>]]
  <2> DEFINE r == [i \in lo..hi |-> IF i = lo THEN base ELSE step[<<i, f[i - 1]>>]]
  <2>1. \A i \in lo..hi : f[i] = r[i]
    <3> HIDE DEF f
    <3> QED BY <1>7
  <2>2. f = [i \in lo..hi |-> f[i]] /\ r = [i \in lo..hi |-> r[i]]
    OBVIOUS
  <2> HIDE DEF f, r
  <2> QED BY <2>1, <2>2 DEF r
<1> HIDE DEF f
<1> QED BY <1>6, <1>8 DEF Chain

\* A function defined by recursion on all naturals exists.
OnNat(f, base, step) ==
  f = [i \in Nat |-> IF i = 0 THEN base ELSE step[<<i, f[i - 1]>>]]
LEMMA RecursionOnNat ==
  ASSUME NEW T, NEW base \in T, NEW step \in [Nat \X T -> T]
  PROVE  \E f \in [Nat -> T] : OnNat(f, base, step)
<1> DEFINE Is(f, n) == f \in [0..n -> T] /\ Recursive(f, n, base, step)
           g == [n \in Nat |-> CHOOSE f : Is(f, n)]
           F == [n \in Nat |-> g[n][n]]
<1>1. ASSUME NEW n \in Nat PROVE Is(g[n], n)
  <2> DEFINE r == [ix \in (1..n) \X T |-> step[ix]]
  <2>1. r \in [(1..n) \X T -> T]
    OBVIOUS
  <2>2. PICK f \in [0..n -> T] : Recursive(f, n, base, r)
    <3> HIDE DEF r
    <3> QED BY <2>1, Recursion, Zenon
  <2>3. \A i \in 1..n : f[i] = step[<<i, f[i - 1]>>]
    <3> SUFFICES ASSUME NEW i \in 1..n PROVE f[i] = step[<<i, f[i - 1]>>]
      OBVIOUS
    <3>1. i - 1 \in 0..n
      OBVIOUS
    <3>2. f[i] = r[<<i, f[i - 1]>>]
      <4> HIDE DEF r
      <4> QED BY <2>2 DEF Recursive
    <3>3. <<i, f[i - 1]>> \in (1..n) \X T
      BY <3>1
    <3> QED BY <3>2, <3>3
  <2>4. Is(f, n)
    BY <2>2, <2>3 DEF Recursive
  <2> HIDE DEF Is
  <2> QED BY <2>4
<1> HIDE DEF g
<1>2. F \in [Nat -> T]
  <2> SUFFICES ASSUME NEW n \in Nat PROVE g[n][n] \in T
    OBVIOUS
  <2> QED BY <1>1
<1>3. ASSUME NEW n \in Nat PROVE g[n + 1][n] = g[n][n]
  <2> DEFINE a == g[n + 1]
             b == g[n]
             Q == [i \in 0..n |-> {b[i]}]
  <2>1. Is(a, n + 1) /\ Is(b, n)
    BY <1>1
  <2>2. /\ a[0] = base /\ b[0] = base
        /\ \A i \in 1..n : a[i] = step[<<i, a[i - 1]>>] /\ b[i] = step[<<i, b[i - 1]>>]
    <3> HIDE DEF a, b
    <3> QED BY <2>1 DEF Recursive
  <2> HIDE DEF a, b
  <2>3. a[0] \in Q[0]
    BY <2>2
  <2>4. ASSUME NEW i \in 0 + 1..n, a[i - 1] \in Q[i - 1] PROVE a[i] \in Q[i]
    <3>1. i \in 1..n /\ i - 1 \in 0..n /\ i \in 0..n
      OBVIOUS
    <3>2. a[i - 1] = b[i - 1]
      BY <2>4, <3>1
    <3> QED BY <2>2, <3>1, <3>2
  <2>5. \A i \in 0..n : a[i] \in Q[i]
    <3>1. 0 \in Int /\ n \in Int
      OBVIOUS
    <3> HIDE DEF Q
    <3> QED BY <2>3, <2>4, <3>1, ChainKeeps, Zenon
  <2>6. n \in 0..n
    OBVIOUS
  <2>7. a[n] = b[n]
    BY <2>5, <2>6
  <2> QED BY <2>7 DEF a, b
<1>4. ASSUME NEW i \in Nat PROVE F[i] = IF i = 0 THEN base ELSE step[<<i, F[i - 1]>>]
  <2>1. Is(g[i], i)
    BY <1>1
  <2>2. CASE i = 0
    BY <2>1, <2>2 DEF Recursive
  <2>3. CASE i # 0
    <3>1. i - 1 \in Nat /\ (i - 1) + 1 = i /\ i \in 1..i
      BY <2>3
    <3>2. g[i][i] = step[<<i, g[i][i - 1]>>]
      BY <2>1, <3>1 DEF Recursive
    <3>3. g[i][i - 1] = g[i - 1][i - 1]
      BY <1>3, <3>1
    <3>4. F[i] = g[i][i] /\ F[i - 1] = g[i - 1][i - 1]
      BY <3>1
    <3> QED BY <2>3, <3>2, <3>3, <3>4, Zenon
  <2> QED BY <2>2, <2>3
<1>5. F = [i \in Nat |-> IF i = 0 THEN base ELSE step[<<i, F[i - 1]>>]]
  <2> DEFINE r == [i \in Nat |-> IF i = 0 THEN base ELSE step[<<i, F[i - 1]>>]]
  <2>1. \A i \in Nat : F[i] = r[i]
    <3> HIDE DEF F
    <3> QED BY <1>4
  <2>2. F = [i \in Nat |-> F[i]] /\ r = [i \in Nat |-> r[i]]
    OBVIOUS
  <2> HIDE DEF F, r
  <2> QED BY <2>1, <2>2 DEF r
<1> HIDE DEF F
<1> QED BY <1>2, <1>5 DEF OnNat

=============================================================================
