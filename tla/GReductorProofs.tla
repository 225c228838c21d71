-------------------------- MODULE GReductorProofs --------------------------
(***************************************************************************)
(* Proofs about GReductor, for every ordering, every input list, every     *)
(* number of indeterminates and every outcome of the reductions.  Beside   *)
(* the types, four invariants are inductive:                               *)
(*                                                                         *)
(*   TruncInv        the truncation degree once the loop has ended;        *)
(*   ReducedInv      which leading terms divide which;                     *)
(*   DegreeByDegree  with FrontIsLeast, as it stands;                      *)
(*   AccountInv      EveryPairAccounted, for pairs in both orders.         *)
(*                                                                         *)
(* The last is the theorem behind the criteria.  When the basis grows, an  *)
(* old edge (a, b) may be lost to the B-criterion and a new one (k, n) to  *)
(* myGMInsert or because k makes no more pairs.  GrowthKeepsJoins replaces *)
(* the one by (a, n) and (n, b), whose lcms have a smaller degree since    *)
(* the criterion is strict, and the other by a path through an element     *)
(* kept; the induction is on the degree of the lcm.                        *)
(***************************************************************************)
EXTENDS GReductor, NatFacts, TLAPS

(***************************************************************************)
(* Power products as vectors, and the degree as a sum.                     *)
(***************************************************************************)
Vectors == [Indets -> Nat]

LEMMA VectorFacts ==
  /\ Monomials \subseteq Vectors
  /\ \E n \in Nat : Indets = 1..n
<1> DEFINE c == CHOOSE m \in Monomials : TRUE
<1>1. c \in Monomials /\ c \in Seq(Nat) /\ Indets = 1..Len(c)
  BY MonomialsAreVectors DEF Indets
<1>2. Len(c) \in Nat
  BY <1>1
<1>3. ASSUME NEW m \in Monomials PROVE m \in Vectors
  <2>1. m \in Seq(Nat) /\ Len(m) = Len(c)
    BY <1>1, MonomialsAreVectors
  <2> HIDE DEF c
  <2> QED BY <1>1, <2>1 DEF Vectors
<1> QED BY <1>1, <1>2, <1>3

\* The degree is the sum of the exponents.
LEMMA DegIsSum ==
  ASSUME NEW m \in Vectors
  PROVE  \E sum \in [0..Len(m) -> Nat] :
           /\ sum[0] = 0 /\ Deg(m) = sum[Len(m)]
           /\ \A i \in 1..Len(m) : sum[i] = sum[i - 1] + m[i]
<1> DEFINE n == Len(m)
           step == [ix \in (1..n) \X Nat |-> ix[2] + m[ix[1]]]
           Is(f) == f = [i \in 0..n |-> IF i = 0 THEN 0 ELSE f[i - 1] + m[i]]
<1>1. n \in Nat /\ Indets = 1..n /\ \A i \in 1..n : m[i] \in Nat
  BY VectorFacts DEF Vectors
<1>7. Deg(m) = (CHOOSE g : Is(g))[n]
  BY DEF Deg
<1> HIDE DEF n
<1>2. step \in [(1..n) \X Nat -> Nat]
  BY <1>1
<1>3. PICK f \in [0..n -> Nat] : Recursive(f, n, 0, step)
  <2> HIDE DEF step
  <2>1. 0 \in Nat
    OBVIOUS
  <2>2. n \in Nat
    BY <1>1
  <2> QED BY <1>2, <2>1, <2>2, Recursion, Zenon
<1>4. \A i \in 1..n : f[i] = f[i - 1] + m[i]
  <2> SUFFICES ASSUME NEW i \in 1..n PROVE f[i] = f[i - 1] + m[i]
    OBVIOUS
  <2>1. <<i, f[i - 1]>> \in (1..n) \X Nat
    BY <1>1
  <2> QED BY <1>3, <2>1 DEF Recursive
<1>5. Is(f)
  BY <1>1, <1>3, <1>4 DEF Recursive
<1> DEFINE s == CHOOSE g : Is(g)
<1>6. Is(s)
  <2> HIDE DEF Is
  <2> QED BY <1>5
<1> HIDE DEF s
<1>8. s[0] = 0 /\ \A i \in 1..n : s[i] = s[i - 1] + m[i]
  BY <1>1, <1>6
<1>9. s \in [0..n -> Nat]
  <2> DEFINE S == {i \in Nat : i <= n => s[i] \in Nat}
  <2>1. 0 \in S
    BY <1>8
  <2>2. ASSUME NEW i \in Nat, i \in S PROVE i + 1 \in S
    <3> SUFFICES ASSUME i + 1 <= n PROVE s[i + 1] \in Nat
      OBVIOUS
    <3>1. i + 1 \in 1..n /\ (i + 1) - 1 = i /\ s[i] \in Nat
      BY <2>2, <1>1
    <3>2. m[i + 1] \in Nat /\ s[i + 1] = s[i] + m[i + 1]
      BY <1>1, <1>8, <3>1
    <3> QED BY <3>1, <3>2
  <2> HIDE DEF S
  <2>3. Nat \subseteq S
    BY <2>1, <2>2, SetInduction
  <2>4. \A i \in 0..n : s[i] \in Nat
    BY <1>1, <2>3 DEF S
  <2> QED BY <1>6, <2>4
<1> HIDE DEF Is
<1>10. Deg(m) = s[n]
  BY <1>7 DEF s
<1> QED BY <1>8, <1>9, <1>10 DEF n

\* Dividing lowers the degree, strictly unless the two are the same.
LEMMA DegDivides ==
  ASSUME NEW a \in Vectors, NEW b \in Vectors, Divides(a, b)
  PROVE  /\ Deg(a) \in Nat /\ Deg(b) \in Nat /\ Deg(a) <= Deg(b)
         /\ Deg(a) = Deg(b) => a = b
<1>1. PICK n \in Nat : Indets = 1..n
  BY VectorFacts
<1>2. Len(a) = n /\ Len(b) = n
  BY <1>1 DEF Vectors
<1>3. PICK f \in [0..n -> Nat] : f[0] = 0 /\ Deg(a) = f[n]
                                 /\ \A i \in 1..n : f[i] = f[i - 1] + a[i]
  <2>1. \E f \in [0..Len(a) -> Nat] :
          /\ f[0] = 0 /\ Deg(a) = f[Len(a)]
          /\ \A i \in 1..Len(a) : f[i] = f[i - 1] + a[i]
    BY DegIsSum, Zenon
  <2> QED BY <1>2, <2>1
<1>4. PICK g \in [0..n -> Nat] : g[0] = 0 /\ Deg(b) = g[n]
                                 /\ \A i \in 1..n : g[i] = g[i - 1] + b[i]
  <2>1. \E g \in [0..Len(b) -> Nat] :
          /\ g[0] = 0 /\ Deg(b) = g[Len(b)]
          /\ \A i \in 1..Len(b) : g[i] = g[i - 1] + b[i]
    BY DegIsSum, Zenon
  <2> QED BY <1>2, <2>1
<1>5. \A i \in 1..n : a[i] \in Nat /\ b[i] \in Nat /\ a[i] <= b[i]
  BY <1>1 DEF Vectors, Divides
<1> DEFINE S == {k \in Nat : k <= n => /\ f[k] <= g[k]
                                       /\ f[k] = g[k] => \A i \in 1..k : a[i] = b[i]}
<1>6. 0 \in S
  BY <1>3, <1>4
<1>7. ASSUME NEW k \in Nat, k \in S PROVE k + 1 \in S
  <2> SUFFICES ASSUME k + 1 <= n
               PROVE  /\ f[k + 1] <= g[k + 1]
                      /\ f[k + 1] = g[k + 1] => \A i \in 1..k + 1 : a[i] = b[i]
    OBVIOUS
  <2>1. f[k] \in Nat /\ g[k] \in Nat /\ f[k] <= g[k]
    BY <1>7
  <2>2. k + 1 \in 1..n /\ (k + 1) - 1 = k
    OBVIOUS
  <2>3. f[k + 1] = f[k] + a[k + 1] /\ g[k + 1] = g[k] + b[k + 1]
    BY <1>3, <1>4, <2>2
  <2>4. a[k + 1] \in Nat /\ b[k + 1] \in Nat /\ a[k + 1] <= b[k + 1]
    BY <1>5, <2>2
  <2>5. ASSUME f[k + 1] = g[k + 1], NEW i \in 1..k + 1 PROVE a[i] = b[i]
    <3>1. f[k] = g[k] /\ a[k + 1] = b[k + 1]
      BY <2>1, <2>3, <2>4, <2>5
    <3>2. i = k + 1 \/ i \in 1..k
      OBVIOUS
    <3> QED BY <1>7, <3>1, <3>2
  <2> QED BY <2>1, <2>3, <2>4, <2>5
<1> HIDE DEF S
<1>8. n \in S
  BY <1>6, <1>7, SetInduction
<1>9. Deg(a) \in Nat /\ Deg(b) \in Nat
  BY <1>3, <1>4
<1>10. (\A i \in 1..n : a[i] = b[i]) => a = b
  BY <1>1 DEF Vectors
<1> QED BY <1>3, <1>4, <1>8, <1>9, <1>10 DEF S
\* What divisibility and least common multiples are used for.
LEMMA DividesFacts ==
  ASSUME NEW a \in Vectors, NEW b \in Vectors, NEW c \in Vectors
  PROVE  /\ Divides(a, a)
         /\ Divides(a, b) /\ Divides(b, c) => Divides(a, c)
         /\ Divides(a, b) /\ Divides(b, a) => a = b
<1>1. Divides(a, a)
  BY DEF Vectors, Divides
<1>2. Divides(a, b) /\ Divides(b, c) => Divides(a, c)
  <2> SUFFICES ASSUME Divides(a, b), Divides(b, c), NEW i \in Indets PROVE a[i] <= c[i]
    BY DEF Divides
  <2>1. a[i] \in Nat /\ b[i] \in Nat /\ c[i] \in Nat
    BY DEF Vectors
  <2> QED BY <2>1 DEF Divides
<1>3. Divides(a, b) /\ Divides(b, a) => a = b
  <2> SUFFICES ASSUME Divides(a, b), Divides(b, a) PROVE a = b
    OBVIOUS
  <2>1. \A i \in Indets : a[i] \in Nat /\ b[i] \in Nat /\ a[i] <= b[i] /\ b[i] <= a[i]
    BY DEF Divides, Vectors
  <2>2. \A i \in Indets : a[i] = b[i]
    BY <2>1
  <2> QED BY <2>2 DEF Vectors
<1> QED BY <1>1, <1>2, <1>3

LEMMA LcmFacts ==
  ASSUME NEW a \in Vectors, NEW b \in Vectors
  PROVE  /\ Lcm(a, b) \in Vectors /\ Lcm(a, b) = Lcm(b, a)
         /\ Divides(a, Lcm(a, b)) /\ Divides(b, Lcm(a, b))
         /\ \A c \in Vectors : Divides(a, c) /\ Divides(b, c) => Divides(Lcm(a, b), c)
<1>1. \A i \in Indets : a[i] \in Nat /\ b[i] \in Nat
  BY DEF Vectors
<1>2. Lcm(a, b) \in Vectors
  BY <1>1 DEF Lcm, Vectors
<1>3. Lcm(a, b) = Lcm(b, a)
  BY <1>1 DEF Lcm
<1>4. Divides(a, Lcm(a, b)) /\ Divides(b, Lcm(a, b))
  BY <1>1 DEF Lcm, Divides
<1>5. \A c \in Vectors : Divides(a, c) /\ Divides(b, c) => Divides(Lcm(a, b), c)
  BY DEF Lcm, Divides
<1> QED BY <1>2, <1>3, <1>4, <1>5

\* A pair whose elements both divide t stands for an S-polynomial below t.
LEMMA LcmBelow ==
  ASSUME NEW a \in Vectors, NEW b \in Vectors, NEW t \in Vectors
  PROVE  /\ Divides(Lcm(a, b), t) <=> Divides(a, t) /\ Divides(b, t)
<1>1. Lcm(a, b) \in Vectors /\ Divides(a, Lcm(a, b)) /\ Divides(b, Lcm(a, b))
  BY LcmFacts
<1>2. Divides(Lcm(a, b), t) => Divides(a, t) /\ Divides(b, t)
  BY <1>1, DividesFacts, Zenon
<1> QED BY <1>2, LcmFacts

(***************************************************************************)
(* New pairs.  Of the active partners of the last element, those kept have *)
(* between them a divisor of every lcm.                                    *)
(***************************************************************************)
Elements == [pp : Vectors, comp : Components \union {0}, active : BOOLEAN, minimal : BOOLEAN]

\* Among the pairs with the last element, M has a divisor of each in L.
Covers(gb, M, L) ==
  \A k \in L : \E m \in M : Divides(NewLcm(gb, m), NewLcm(gb, k))

LEMMA InsertFacts ==
  ASSUME NEW gb, NEW L, NEW i, \A k \in L \union {i} : NewLcm(gb, k) \in Vectors
  PROVE  /\ GMInsert(gb, L, i) \subseteq L \union {i}
         /\ Covers(gb, GMInsert(gb, L, i), L \union {i})
<1> DEFINE V(k) == NewLcm(gb, k)
           dividing == {k \in L : Divides(V(k), V(i))}
           equal    == {k \in dividing : V(k) = V(i)}
           M        == GMInsert(gb, L, i)
<1>1. M = CASE dividing = {} -> {k \in L : ~Divides(V(i), V(k))} \union {i}
            [] equal # {} /\ NewCoprime(gb, i) -> (L \ equal) \union {i}
            [] OTHER -> L
  BY DEF GMInsert
<1> HIDE DEF V, M
<1>2. \A k \in L \union {i} : V(k) \in Vectors /\ Divides(V(k), V(k))
  BY DividesFacts DEF V
<1>3. M \subseteq L \union {i} /\ \A k \in L \union {i} : \E m \in M : Divides(V(m), V(k))
  <2>1. CASE dividing = {}
    <3>1. M = {k \in L : ~Divides(V(i), V(k))} \union {i}
      BY <1>1, <2>1
    <3> HIDE DEF dividing, equal
    <3> QED BY <1>2, <3>1
  <2>2. CASE dividing # {} /\ equal # {} /\ NewCoprime(gb, i)
    <3>1. M = (L \ equal) \union {i}
      BY <1>1, <2>2
    <3>2. \A k \in equal : V(k) = V(i)
      OBVIOUS
    <3> HIDE DEF dividing, equal
    <3>3. M \subseteq L \union {i}
      BY <3>1
    <3>4. ASSUME NEW k \in L \union {i} PROVE \E m \in M : Divides(V(m), V(k))
      <4>1. CASE k \in equal
        BY <1>2, <3>1, <3>2, <4>1
      <4>2. CASE k \notin equal
        BY <1>2, <3>1, <4>2
      <4> QED BY <4>1, <4>2
    <3> QED BY <3>3, <3>4
  <2>3. CASE dividing # {} /\ ~(equal # {} /\ NewCoprime(gb, i))
    <3>1. M = L
      BY <1>1, <2>3
    <3>2. PICK d \in L : Divides(V(d), V(i))
      BY <2>3
    <3> HIDE DEF dividing, equal
    <3> QED BY <1>2, <3>1, <3>2
  <2> QED BY <2>1, <2>2, <2>3
<1> QED BY <1>3 DEF M, V, Covers

LEMMA NewPairs ==
  ASSUME NEW n \in Nat \ {0}, NEW gb \in [1..n -> Elements], Len(gb) = n
  PROVE  \E K \in SUBSET (1..n - 1) :
           /\ \A i \in K : gb[i].active /\ gb[i].comp = gb[n].comp
           /\ Covers(gb, K, {i \in 1..n - 1 : gb[i].active /\ gb[i].comp = gb[n].comp})
           /\ BuildNewPairs(gb) =
                {GPair(i, n) : i \in {k \in K : ~(myCoprime /\ NewCoprime(gb, k))}}
<1> DEFINE T       == SUBSET (1..n - 1)
           ok(i)   == gb[i].active /\ gb[i].comp = gb[n].comp
           step    == [iL \in (1..n - 1) \X T |->
                         IF ok(iL[1]) THEN GMInsert(gb, iL[2], iL[1]) ELSE iL[2]]
           Is(f)   == f = [i \in 0..n - 1 |->
                             IF i = 0 THEN {}
                             ELSE IF gb[i].active /\ gb[i].comp = gb[n].comp
                                  THEN GMInsert(gb, f[i - 1], i)
                             ELSE f[i - 1]]
           s       == CHOOSE f : Is(f)
           V(k)    == NewLcm(gb, k)
<1>1. BuildNewPairs(gb) = {GPair(i, n) : i \in {k \in s[n - 1] : ~(myCoprime /\ NewCoprime(gb, k))}}
  BY DEF BuildNewPairs
<1>2. n - 1 \in Nat
  OBVIOUS
<1>3. \A k \in 1..n - 1 : V(k) \in Vectors
  <2> SUFFICES ASSUME NEW k \in 1..n - 1 PROVE Lcm(gb[k].pp, gb[n].pp) \in Vectors
    BY DEF NewLcm, Last
  <2>1. gb[k] \in Elements /\ gb[n] \in Elements
    OBVIOUS
  <2>2. gb[k].pp \in Vectors /\ gb[n].pp \in Vectors
    BY <2>1 DEF Elements
  <2> QED BY <2>2, LcmFacts
<1> HIDE DEF V
<1>4. ASSUME NEW L \in T, NEW i \in 1..n - 1
      PROVE  /\ GMInsert(gb, L, i) \subseteq L \union {i}
             /\ \A k \in L \union {i} : \E m \in GMInsert(gb, L, i) : Divides(V(m), V(k))
  <2>1. \A k \in L \union {i} : V(k) \in Vectors
    BY <1>3
  <2>2. Covers(gb, GMInsert(gb, L, i), L \union {i}) /\ GMInsert(gb, L, i) \subseteq L \union {i}
    BY <2>1, InsertFacts, Zenon DEF V
  <2> QED BY <2>2 DEF V, Covers
<1>5. step \in [(1..n - 1) \X T -> T]
  <2>1. ASSUME NEW iL \in (1..n - 1) \X T
        PROVE  (IF ok(iL[1]) THEN GMInsert(gb, iL[2], iL[1]) ELSE iL[2]) \in T
    <3>1. iL[1] \in 1..n - 1 /\ iL[2] \in T
      OBVIOUS
    <3>2. GMInsert(gb, iL[2], iL[1]) \subseteq iL[2] \union {iL[1]}
      BY <1>4, <3>1
    <3> HIDE DEF ok
    <3> QED BY <3>1, <3>2
  <2> HIDE DEF T, ok
  <2> QED BY <2>1
<1>6. PICK f \in [0..n - 1 -> T] : Recursive(f, n - 1, {}, step)
  <2>1. {} \in T
    OBVIOUS
  <2> HIDE DEF T, step
  <2> QED BY <1>2, <1>5, <2>1, Recursion, Zenon
<1>7. Is(f)
  <2>1. f[0] = {}
    BY <1>6 DEF Recursive
  <2>2. ASSUME NEW i \in 1..n - 1
        PROVE  f[i] = IF ok(i) THEN GMInsert(gb, f[i - 1], i) ELSE f[i - 1]
    <3>1. f[i] = step[<<i, f[i - 1]>>]
      BY <1>6 DEF Recursive
    <3>2. i - 1 \in 0..n - 1
      OBVIOUS
    <3>3. f[i - 1] \in T
      BY <3>2
    <3>4. <<i, f[i - 1]>> \in (1..n - 1) \X T
      BY <3>3
    <3> HIDE DEF ok, T
    <3> QED BY <3>1, <3>4
  <2> HIDE DEF T, step
  <2> QED BY <2>1, <2>2
<1>8. Is(s)
  <2> HIDE DEF Is
  <2> QED BY <1>7
<1> HIDE DEF s, step
<1> DEFINE Q(i) == /\ s[i] \in SUBSET (1..i)
                   /\ \A k \in s[i] : ok(k)
                   /\ \A k \in 1..i : ok(k) => \E m \in s[i] : Divides(V(m), V(k))
           S == {i \in Nat : i <= n - 1 => Q(i)}
<1>9. 0 \in S
  BY <1>8
<1>10. ASSUME NEW i \in Nat, i \in S PROVE i + 1 \in S
  <2> SUFFICES ASSUME i + 1 <= n - 1 PROVE Q(i + 1)
    OBVIOUS
  <2>1. Q(i)
    BY <1>10
  <2>2. i + 1 \in 1..n - 1 /\ (i + 1) - 1 = i /\ 1..i + 1 = (1..i) \union {i + 1}
    OBVIOUS
  <2>3. s[i] \in T
    BY <2>1
  <2> HIDE DEF ok, T
  <2>4. s[i + 1] = IF ok(i + 1) THEN GMInsert(gb, s[i], i + 1) ELSE s[i]
    <3>1. i + 1 \in 0..n - 1 /\ i + 1 # 0
      OBVIOUS
    <3>2. s[i + 1] = IF gb[i + 1].active /\ gb[i + 1].comp = gb[n].comp
                     THEN GMInsert(gb, s[(i + 1) - 1], i + 1)
                     ELSE s[(i + 1) - 1]
      BY <1>8, <3>1, Zenon
    <3> QED BY <2>2, <3>2 DEF ok
  <2>5. CASE ok(i + 1)
    <3>1. s[i + 1] = GMInsert(gb, s[i], i + 1)
      BY <2>4, <2>5
    <3>2. /\ s[i + 1] \subseteq s[i] \union {i + 1}
          /\ \A k \in s[i] \union {i + 1} : \E m \in s[i + 1] : Divides(V(m), V(k))
      BY <1>4, <2>2, <2>3, <3>1
    <3>3. s[i + 1] \in SUBSET (1..i + 1) /\ \A k \in s[i + 1] : ok(k)
      BY <2>1, <2>2, <2>5, <3>2
    <3>4. ASSUME NEW k \in 1..i + 1, ok(k) PROVE \E m \in s[i + 1] : Divides(V(m), V(k))
      <4>1. CASE k = i + 1
        BY <3>2, <4>1
      <4>2. CASE k \in 1..i
        <5>1. PICK m \in s[i] : Divides(V(m), V(k))
          BY <2>1, <3>4, <4>2
        <5>2. PICK l \in s[i + 1] : Divides(V(l), V(m))
          BY <3>2
        <5>3. k \in 1..n - 1 /\ m \in 1..n - 1 /\ l \in 1..n - 1
          BY <2>1, <2>2, <3>3, <4>2
        <5>4. Divides(V(l), V(k))
          BY <1>3, <5>1, <5>2, <5>3, DividesFacts
        <5> QED BY <5>4
      <4> QED BY <2>2, <4>1, <4>2
    <3> QED BY <3>3, <3>4
  <2>6. CASE ~ok(i + 1)
    <3>1. s[i + 1] = s[i]
      BY <2>4, <2>6
    <3> QED BY <2>1, <2>2, <2>6, <3>1
  <2> QED BY <2>5, <2>6
<1> HIDE DEF S, Q
<1>11. n - 1 \in S
  BY <1>2, <1>9, <1>10, SetInduction
<1>12. Q(n - 1)
  BY <1>2, <1>11 DEF S
<1> QED BY <1>1, <1>12 DEF Q, V, Covers

(***************************************************************************)
(* Types.  A pair is an input or two elements of a component, the earlier  *)
(* one first.                                                              *)
(***************************************************************************)
TermRecords == [pp : Vectors, comp : Components \union {0}]

PairOK(p) ==
  \/ \E i \in DOMAIN inputs : p = InputPair(i)
  \/ \E i, j \in DOMAIN myGB : i < j /\ myGB[i].comp = myGB[j].comp /\ p = GPair(i, j)

\* The kinds of values the variables of GReductor take; an answer comes with its phase.
TypeInv ==
  /\ mode \in Modes /\ inputs \in InputLists
  /\ myGB \in Seq(Elements)
  /\ \A p \in myPairs : PairOK(p)
  /\ myTruncDeg \in Nat \union {-1}
  /\ phase \in {"loop", "final", "found", "done"}
  /\ phase # "found" => answer = <<>>
  /\ \A i \in DOMAIN answer : answer[i].pp \in Vectors

LEMMA InputsAreVectors ==
  ASSUME TypeInv
  PROVE  /\ inputs \in Seq(TermRecords) /\ Len(inputs) \in Nat
         /\ \A i \in DOMAIN inputs : i \in Nat \ {0} /\ inputs[i] \in TermRecords
<1>1. inputs \in Seq([pp : Monomials, comp : Components \union {0}])
  BY InputsAreTerms DEF TypeInv
<1>2. [pp : Monomials, comp : Components \union {0}] \subseteq TermRecords
  BY VectorFacts DEF TermRecords
<1>3. \A i \in DOMAIN inputs : i \in Nat \ {0} /\ inputs[i] \in TermRecords
  <2> SUFFICES ASSUME NEW i \in DOMAIN inputs PROVE i \in Nat \ {0} /\ inputs[i] \in TermRecords
    OBVIOUS
  <2> DEFINE R == [pp : Monomials, comp : Components \union {0}]
  <2> HIDE DEF R
  <2>2. inputs \in Seq(R)
    BY <1>1 DEF R
  <2>1. inputs[i] \in R /\ i \in 1..Len(inputs)
    BY <2>2
  <2> USE DEF R
  <2> QED BY <1>1, <1>2, <2>1
<1>4. inputs \in Seq(TermRecords)
  <2> HIDE DEF TermRecords
  <2> QED BY <1>1, <1>3
<1> QED BY <1>1, <1>3, <1>4

LEMMA ElementFields ==
  ASSUME NEW e \in Elements
  PROVE  /\ e.pp \in Vectors /\ e.comp \in Components \union {0}
         /\ e.active \in BOOLEAN /\ e.minimal \in BOOLEAN
  BY DEF Elements

\* The elements of a basis that has grown by one.
Extends(gb, new, g, n) ==
  /\ n \in Nat \ {0} /\ DOMAIN gb = 1..n - 1 /\ n \notin DOMAIN gb
  /\ g \in Seq(Elements) /\ DOMAIN g = DOMAIN gb \union {n} /\ g[n] = new /\ Len(g) = n
  /\ \A i \in DOMAIN gb :
       /\ gb[i] \in Elements /\ i \in Nat \ {0} /\ i < n
       /\ g[i].pp = gb[i].pp /\ g[i].comp = gb[i].comp /\ g[i].minimal = gb[i].minimal
       /\ g[i].active <=> gb[i].active /\ ~Reduces(new, gb[i])

LEMMA GrownFacts ==
  ASSUME NEW gb \in Seq(Elements), NEW new \in Elements
  PROVE  Extends(gb, new, Append(Deactivated(gb, new), new), Len(gb) + 1)
<1> DEFINE n == Len(gb) + 1
           d == Deactivated(gb, new)
           g == Append(d, new)
<1>1. Len(gb) \in Nat /\ DOMAIN gb = 1..n - 1 /\ \A i \in 1..n - 1 : gb[i] \in Elements
  OBVIOUS
<1>2. d = [i \in 1..n - 1 |-> [gb[i] EXCEPT !.active = @ /\ ~Reduces(new, gb[i])]]
  BY <1>1 DEF Deactivated
<1>3. ASSUME NEW i \in 1..n - 1
      PROVE  /\ d[i] \in Elements
             /\ d[i].pp = gb[i].pp /\ d[i].comp = gb[i].comp /\ d[i].minimal = gb[i].minimal
             /\ d[i].active <=> gb[i].active /\ ~Reduces(new, gb[i])
  <2>1. d[i] = [gb[i] EXCEPT !.active = @ /\ ~Reduces(new, gb[i])] /\ gb[i] \in Elements
    BY <1>1, <1>2
  <2> DEFINE r == Reduces(new, gb[i])
  <2>2. r \in BOOLEAN
    BY DEF Reduces
  <2> HIDE DEF r, d
  <2> QED BY <2>1, <2>2 DEF Elements, r
<1> HIDE DEF d
<1>4. d \in Seq(Elements) /\ Len(d) = n - 1
  <2>1. d \in [1..n - 1 -> Elements]
    BY <1>2, <1>3
  <2> QED BY <1>1, <2>1
<1>5. /\ g \in Seq(Elements) /\ Len(g) = n /\ g[n] = new /\ DOMAIN g = 1..n
      /\ \A i \in 1..n - 1 : g[i] = d[i]
  BY <1>1, <1>4 DEF d
<1> HIDE DEF n, g
<1>6. n \in Nat \ {0} /\ n \notin DOMAIN gb /\ \A i \in DOMAIN gb : i \in Nat \ {0} /\ i < n
  BY <1>1 DEF n
<1>7. Extends(gb, new, g, n)
  BY <1>1, <1>3, <1>5, <1>6 DEF Extends
<1> QED BY <1>7 DEF g, n, d

LEMMA PairFacts ==
  ASSUME TypeInv, NEW p, PairOK(p)
  PROVE  /\ LCM(p) \in Vectors /\ WDeg(p) \in Nat
         /\ Start(p) \in TermRecords /\ Start(p).pp = LCM(p)
<1>1. CASE \E i \in DOMAIN inputs : p = InputPair(i)
  <2>1. PICK i \in DOMAIN inputs : p = InputPair(i)
    BY <1>1
  <2>2. IsInputPoly(p) /\ p.first = i
    BY <2>1 DEF IsInputPoly, InputPair
  <2>3. inputs[i] \in TermRecords
    BY InputsAreVectors
  <2>4. LCM(p) \in Vectors /\ Start(p) = inputs[i] /\ Start(p).pp = LCM(p)
    BY <2>2, <2>3 DEF LCM, Start, TermRecords
  <2> QED BY <2>3, <2>4, DegDivides, DividesFacts DEF WDeg
<1>2. CASE \E i, j \in DOMAIN myGB : i < j /\ myGB[i].comp = myGB[j].comp /\ p = GPair(i, j)
  <2>1. PICK i \in DOMAIN myGB, j \in DOMAIN myGB : i < j /\ p = GPair(i, j)
    BY <1>2
  <2>2. i \in Nat \ {0} /\ j \in Nat \ {0} /\ myGB[i] \in Elements /\ myGB[j] \in Elements
    BY DEF TypeInv
  <2>3. ~IsInputPoly(p) /\ p.first = i /\ p.second = j
    BY <2>1, <2>2 DEF IsInputPoly, GPair
  <2>4. myGB[i].pp \in Vectors /\ myGB[j].pp \in Vectors /\ myGB[i].comp \in Components \union {0}
    BY <2>2, ElementFields
  <2>5. LCM(p) \in Vectors
    BY <2>3, <2>4, LcmFacts DEF LCM
  <2>6. Start(p) = [pp |-> LCM(p), comp |-> myGB[i].comp]
    BY <2>3 DEF Start
  <2>7. WDeg(p) \in Nat
    BY <2>5, DegDivides, DividesFacts DEF WDeg
  <2> QED BY <2>4, <2>5, <2>6, <2>7 DEF TermRecords
<1> QED BY <1>1, <1>2 DEF PairOK

\* What a pair is reduced to, and what the variants of the algorithm make of it.
LEMMA ResultFacts ==
  ASSUME TypeInv, NEW p \in myPairs, NEW t \in Reductions(p), NEW u \in Improved(t)
  PROVE  /\ t \in TermRecords /\ u \in TermRecords /\ Irreducible(u)
         /\ ByDegree => Deg(t.pp) = WDeg(p) /\ u = t
<1>1. PairOK(p)
  BY DEF TypeInv
<1>2. Start(p) \in TermRecords /\ Start(p).pp = LCM(p)
  BY <1>1, PairFacts
<1>3. t \in TermRecords /\ Irreducible(t)
  <2>1. CASE IsInputPoly(p) /\ Irreducible(Start(p))
    <3>1. t = Start(p)
      BY <2>1 DEF Reductions
    <3> QED BY <1>2, <2>1, <3>1
  <2>2. CASE ~(IsInputPoly(p) /\ Irreducible(Start(p)))
    <3>1. t \in Terms /\ Irreducible(t)
      BY <2>2 DEF Reductions
    <3>2. Terms \subseteq TermRecords
      BY VectorFacts DEF Terms, TermRecords
    <3> QED BY <3>1, <3>2
  <2> QED BY <2>1, <2>2
<1>4. ByDegree => Deg(t.pp) = WDeg(p)
  <2> SUFFICES ASSUME ByDegree PROVE Deg(t.pp) = WDeg(p)
    OBVIOUS
  <2>1. mode.homog
    BY DEF ByDegree
  <2>2. Deg(t.pp) = Deg(Start(p).pp)
    BY <2>1 DEF Reductions
  <2> QED BY <1>2, <2>2 DEF WDeg
<1>5. u \in TermRecords /\ u.comp = t.comp /\ Divides(u.pp, t.pp)
  <2>1. t.pp \in Vectors /\ t.comp \in Components \union {0}
    BY <1>3 DEF TermRecords
  <2>2. CASE mode.alg = "saturating"
    <3>1. PICK k \in 0..t.pp[H] : u = [t EXCEPT !.pp[H] = k]
      BY <2>2 DEF Improved
    <3>2. u = [t EXCEPT !.pp = [t.pp EXCEPT ![H] = k]]
      BY <3>1
    <3> DEFINE w == [t.pp EXCEPT ![H] = k]
    <3>3. w \in Vectors /\ Divides(w, t.pp)
      <4> DEFINE v == t.pp
      <4>1. v \in [Indets -> Nat] /\ k \in 0..v[H]
        BY <2>1, <3>1 DEF Vectors
      <4> HIDE DEF v
      <4>2. w = [i \in Indets |-> IF i = H THEN k ELSE v[i]]
        BY <4>1 DEF v
      <4>3. ASSUME NEW i \in Indets PROVE w[i] \in Nat /\ w[i] <= v[i]
        <5>1. v[i] \in Nat /\ w[i] = IF i = H THEN k ELSE v[i]
          BY <4>1, <4>2
        <5> HIDE DEF w
        <5> QED BY <4>1, <5>1
      <4> HIDE DEF w
      <4> QED BY <4>2, <4>3 DEF Vectors, Divides, v
    <3> HIDE DEF w
    <3> QED BY <1>3, <3>2, <3>3 DEF TermRecords, w
  <2>3. CASE mode.alg = "radical"
    <3>1. PICK d \in Monomials : Divides(d, t.pp) /\ u = [t EXCEPT !.pp = d]
      BY <2>3 DEF Improved
    <3> QED BY <1>3, <3>1, VectorFacts DEF TermRecords
  <2>4. CASE mode.alg # "saturating" /\ mode.alg # "radical"
    <3>1. u = t
      BY <2>4 DEF Improved
    <3> QED BY <1>3, <2>1, <3>1, DividesFacts
  <2> QED BY <2>2, <2>3, <2>4
<1>6. Irreducible(u)
  <2> SUFFICES ASSUME NEW i \in DOMAIN myGB, Reduces(myGB[i], u) PROVE FALSE
    BY DEF Irreducible
  <2>1. myGB[i] \in Elements
    BY DEF TypeInv
  <2>2. myGB[i].pp \in Vectors /\ u.pp \in Vectors /\ t.pp \in Vectors
    BY <1>3, <1>5, <2>1, ElementFields DEF TermRecords
  <2>3. Divides(myGB[i].pp, t.pp)
    BY <1>5, <2>2, DividesFacts DEF Reduces
  <2> QED BY <1>3, <1>5, <2>3 DEF Irreducible, Reduces
<1>7. ByDegree => u = t
  BY DEF ByDegree, Improved
<1> QED BY <1>3, <1>4, <1>5, <1>6, <1>7

LEMMA ElementOf ==
  ASSUME NEW u \in TermRecords, NEW b \in BOOLEAN
  PROVE  /\ Element(u, b) \in Elements
         /\ Element(u, b).pp = u.pp /\ Element(u, b).comp = u.comp
         /\ Element(u, b).active = TRUE /\ Element(u, b).minimal = b
  BY DEF TermRecords, Elements, Element

(***************************************************************************)
(* Steps.  A new element either makes the basis start again, as the unit   *)
(* ideal, or extends it; what both have in common is stated here once.     *)
(***************************************************************************)
Restarted(new) ==
  /\ new \in Elements /\ new.active
  /\ myGB' = <<new>> /\ myPairs' = {} /\ treated' = {}

Grown(p, new) ==
  /\ new \in Elements /\ new.active /\ Irreducible(new)
  /\ new.minimal <=> IsInputPoly(p)
  /\ ByDegree => Deg(new.pp) = WDeg(p)
  /\ myGB' = Append(Deactivated(myGB, new), new)
  /\ myPairs' = {q \in myPairs \ {p} : ~BCriterionKills(new, q)}
                  \union BuildNewPairs(Append(myGB, new))
  /\ treated' = WithTreated(p)

LEMMA NewPolyCases ==
  ASSUME TypeInv, NEW p \in myPairs, NewPolyInGB(p)
  PROVE  /\ \E new : Restarted(new) \/ Grown(p, new)
         /\ UNCHANGED answer /\ EndOfLoop
<1>1. PICK t \in Reductions(p) : \E u \in Improved(t) : UpdateBasisAndPairs(p, u)
  BY DEF NewPolyInGB
<1>2. PICK u \in Improved(t) : UpdateBasisAndPairs(p, u)
  BY <1>1
<1>3. u \in TermRecords /\ Irreducible(u) /\ (ByDegree => Deg(u.pp) = WDeg(p))
  BY ResultFacts
<1> DEFINE new == Element(u, IsInputPoly(p))
<1>4. /\ new \in Elements /\ new.pp = u.pp /\ new.comp = u.comp
      /\ new.active /\ new.minimal = IsInputPoly(p)
  <2>1. IsInputPoly(p) \in BOOLEAN
    BY DEF IsInputPoly
  <2> QED BY <1>3, <2>1, ElementOf
<1>5. Irreducible(new)
  BY <1>3, <1>4 DEF Irreducible, Reduces
<1>6. CASE u.pp = One /\ ~IamModule
  <2>1. myGB' = <<new>> /\ myPairs' = {} /\ treated' = {}
    BY <1>2, <1>6 DEF UpdateBasisAndPairs
  <2> HIDE DEF new
  <2> QED BY <1>4, <2>1 DEF Restarted, NewPolyInGB
<1>7. CASE ~(u.pp = One /\ ~IamModule)
  <2>1. /\ myGB' = Append(Deactivated(myGB, new), new)
        /\ myPairs' = {q \in myPairs \ {p} : ~BCriterionKills(new, q)}
                        \union BuildNewPairs(Append(myGB, new))
        /\ treated' = WithTreated(p)
    BY <1>2, <1>7, Zenon DEF UpdateBasisAndPairs
  <2>2. new.minimal <=> IsInputPoly(p)
    BY <1>4
  <2>3. ByDegree => Deg(new.pp) = WDeg(p)
    BY <1>3, <1>4
  <2> HIDE DEF new
  <2>4. Grown(p, new)
    BY <1>4, <1>5, <2>1, <2>2, <2>3, Zenon DEF Grown
  <2> QED BY <2>4 DEF NewPolyInGB
<1> QED BY <1>6, <1>7

\* K: the partners whose pairs with new, the n-th element, are kept; those not
\* coprime to it are queued.
PairsKept(gb, new, n, K) ==
  /\ \A i \in K : gb[i].active /\ gb[i].comp = new.comp
  /\ \A i \in DOMAIN gb : gb[i].active /\ gb[i].comp = new.comp =>
       \E k \in K : Divides(Lcm(gb[k].pp, new.pp), Lcm(gb[i].pp, new.pp))
  /\ BuildNewPairs(Append(gb, new)) =
       {GPair(i, n) : i \in {k \in K : ~(myCoprime /\ IsCoprime(gb[k].pp, new.pp))}}

LEMMA NewPairsOfGrown ==
  ASSUME NEW gb \in Seq(Elements), NEW new \in Elements, NEW n, n = Len(gb) + 1
  PROVE  \E K \in SUBSET DOMAIN gb : PairsKept(gb, new, n, K)
<1> DEFINE g == Append(gb, new)
<1>1. /\ n \in Nat \ {0} /\ g \in [1..n -> Elements] /\ Len(g) = n
      /\ DOMAIN gb = 1..n - 1 /\ g[n] = new /\ \A i \in 1..n - 1 : g[i] = gb[i]
  <2>1. Len(gb) \in Nat /\ DOMAIN gb = 1..n - 1 /\ g \in Seq(Elements) /\ Len(g) = n
    OBVIOUS
  <2>2. g[n] = new /\ \A i \in 1..n - 1 : g[i] = gb[i]
    BY <2>1
  <2> HIDE DEF g
  <2> QED BY <2>1, <2>2
<1> HIDE DEF g
<1>2. Last(g) = new
  BY <1>1 DEF Last
<1>3. \A i \in 1..n - 1 : /\ NewLcm(g, i) = Lcm(gb[i].pp, new.pp)
                          /\ NewCoprime(g, i) = IsCoprime(gb[i].pp, new.pp)
  BY <1>1, <1>2 DEF NewLcm, NewCoprime
<1>4. PICK K \in SUBSET (1..n - 1) :
        /\ \A i \in K : g[i].active /\ g[i].comp = g[n].comp
        /\ Covers(g, K, {i \in 1..n - 1 : g[i].active /\ g[i].comp = g[n].comp})
        /\ BuildNewPairs(g) = {GPair(i, n) : i \in {k \in K : ~(myCoprime /\ NewCoprime(g, k))}}
  BY <1>1, NewPairs
<1>5. \A i \in K : gb[i].active /\ gb[i].comp = new.comp
  BY <1>1, <1>4
<1>6. ASSUME NEW i \in DOMAIN gb, gb[i].active, gb[i].comp = new.comp
      PROVE  \E k \in K : Divides(Lcm(gb[k].pp, new.pp), Lcm(gb[i].pp, new.pp))
  <2>1. i \in {j \in 1..n - 1 : g[j].active /\ g[j].comp = g[n].comp}
    BY <1>1, <1>6
  <2>2. PICK k \in K : Divides(NewLcm(g, k), NewLcm(g, i))
    BY <1>4, <2>1 DEF Covers
  <2> QED BY <1>1, <1>3, <2>2
<1>7. {k \in K : ~(myCoprime /\ NewCoprime(g, k))}
        = {k \in K : ~(myCoprime /\ IsCoprime(gb[k].pp, new.pp))}
  BY <1>3
<1>8. BuildNewPairs(g) = {GPair(i, n) : i \in {k \in K : ~(myCoprime /\ IsCoprime(gb[k].pp, new.pp))}}
  BY <1>4, <1>7, Zenon
<1> QED BY <1>1, <1>5, <1>6, <1>8 DEF g, PairsKept

\* The pairs after the basis has grown: those that stay and new ones with the last element.
LEMMA GrownPairs ==
  ASSUME TypeInv, NEW p \in myPairs, NEW new, Grown(p, new), NEW q \in myPairs'
  PROVE  \/ q \in myPairs \ {p} /\ ~BCriterionKills(new, q)
         \/ \E k \in DOMAIN myGB : myGB[k].comp = new.comp /\ q = GPair(k, Len(myGB) + 1)
<1> SUFFICES ASSUME q \in BuildNewPairs(Append(myGB, new))
             PROVE  \E k \in DOMAIN myGB : myGB[k].comp = new.comp /\ q = GPair(k, Len(myGB) + 1)
  BY DEF Grown
<1>1. myGB \in Seq(Elements) /\ new \in Elements
  BY DEF TypeInv, Grown
<1>2. PICK K \in SUBSET DOMAIN myGB : PairsKept(myGB, new, Len(myGB) + 1, K)
  BY <1>1, NewPairsOfGrown
<1> QED BY <1>2 DEF PairsKept

LEMMA EndOfLoopType ==
  ASSUME TypeInv, EndOfLoop
  PROVE  phase' \in {"loop", "final"} /\ myTruncDeg' \in Nat \union {-1}
  BY DEF TypeInv, EndOfLoop, ourNoTruncValue

LEMMA InitTypeInv == Init => TypeInv
<1> SUFFICES ASSUME Init PROVE TypeInv
  OBVIOUS
<1>1. myGB \in Seq(Elements)
  <2> HIDE DEF Elements
  <2> QED BY DEF Init
<1>2. \A p \in myPairs : PairOK(p)
  BY DEF Init, PairOK
<1>3. myTruncDeg \in Nat \union {-1}
  <2>1. TruncDegs \subseteq Nat \union {-1}
    BY TruncDegsAreDegrees
  <2> QED BY <2>1 DEF Init, ourNoTruncValue
<1> QED BY <1>1, <1>2, <1>3 DEF Init, TypeInv

LEMMA NextTypeInv == TypeInv /\ [Next]_vars => TypeInv'
<1> SUFFICES ASSUME TypeInv, [Next]_vars PROVE TypeInv'
  OBVIOUS
<1>1. CASE UNCHANGED vars
  BY <1>1 DEF vars, TypeInv, PairOK
<1>2. CASE UNCHANGED <<mode, inputs>> /\ FinalizeGBasis
  <2>1. /\ UNCHANGED <<mode, inputs, myPairs, myTruncDeg, answer>>
        /\ phase = "final" /\ phase' = "done"
    BY <1>2 DEF FinalizeGBasis
  <2>2. myGB' \in Seq(Elements) /\ DOMAIN myGB' = DOMAIN myGB
        /\ \A i \in DOMAIN myGB : myGB'[i].comp = myGB[i].comp
    <3>1. CASE myGB' = myGB
      BY <3>1 DEF TypeInv
    <3>2. CASE myGB' = [i \in DOMAIN myGB |-> [myGB[i] EXCEPT !.active = @ /\ i \notin Erased]]
      <4>1. Len(myGB) \in Nat /\ DOMAIN myGB = 1..Len(myGB)
            /\ \A i \in DOMAIN myGB : myGB[i] \in Elements
        BY DEF TypeInv
      <4>2. ASSUME NEW i \in DOMAIN myGB
            PROVE  myGB'[i] \in Elements /\ myGB'[i].comp = myGB[i].comp
        <5>1. myGB'[i] = [myGB[i] EXCEPT !.active = @ /\ i \notin Erased]
          BY <3>2
        <5> DEFINE r == i \in Erased
        <5>2. r \in BOOLEAN
          OBVIOUS
        <5> HIDE DEF r
        <5> QED BY <4>1, <5>1, <5>2 DEF Elements, r
      <4>3. myGB' \in [1..Len(myGB) -> Elements]
        BY <3>2, <4>1, <4>2
      <4> QED BY <4>1, <4>2, <4>3
    <3> QED BY <1>2, <3>1, <3>2 DEF FinalizeGBasis
  <2>3. \A p \in myPairs' : PairOK(p)'
    BY <2>1, <2>2 DEF TypeInv, PairOK
  <2> QED BY <2>1, <2>2, <2>3 DEF TypeInv
<1>3. ASSUME UNCHANGED <<mode, inputs>>, phase = "loop", NEW p \in myPairs, ReduceToZero(p)
      PROVE TypeInv'
  <2>1. phase' \in {"loop", "final"} /\ myTruncDeg' \in Nat \union {-1}
    BY <1>3, EndOfLoopType DEF ReduceToZero
  <2>2. UNCHANGED <<myGB, answer>> /\ myPairs' \subseteq myPairs
    BY <1>3 DEF ReduceToZero
  <2>3. \A q \in myPairs' : PairOK(q)'
    BY <1>3, <2>2 DEF TypeInv, PairOK
  <2> QED BY <1>3, <2>1, <2>2, <2>3 DEF TypeInv
<1>4. ASSUME UNCHANGED <<mode, inputs>>, phase = "loop", NEW p \in myPairs, NewPolyInGB(p)
      PROVE TypeInv'
  <2>1. UNCHANGED answer /\ EndOfLoop
    BY <1>4, NewPolyCases
  <2>2. phase' \in {"loop", "final"} /\ myTruncDeg' \in Nat \union {-1}
    BY <2>1, EndOfLoopType
  <2>3. PICK new : Restarted(new) \/ Grown(p, new)
    BY <1>4, NewPolyCases
  <2>4. myGB' \in Seq(Elements) /\ \A q \in myPairs' : PairOK(q)'
    <3>1. CASE Restarted(new)
      <4>1. new \in Elements /\ myGB' = <<new>> /\ myPairs' = {}
        BY <3>1 DEF Restarted
      <4> HIDE DEF Elements
      <4> QED BY <4>1
    <3>2. CASE Grown(p, new)
      <4> DEFINE n == Len(myGB) + 1
      <4>1. myGB \in Seq(Elements) /\ new \in Elements /\ myGB' = Append(Deactivated(myGB, new), new)
        BY <3>2 DEF TypeInv, Grown
      <4>2. /\ myGB' \in Seq(Elements) /\ DOMAIN myGB' = DOMAIN myGB \union {n} /\ myGB'[n] = new
            /\ \A i \in DOMAIN myGB : i < n /\ myGB'[i].comp = myGB[i].comp
        <5>1. Extends(myGB, new, myGB', n)
          BY <4>1, GrownFacts, Zenon
        <5> QED BY <5>1 DEF Extends
      <4>3. ASSUME NEW q \in myPairs' PROVE PairOK(q)'
        <5> HIDE DEF n
        <5>1. CASE q \in myPairs
          <6>1. PairOK(q)
            BY <5>1 DEF TypeInv
          <6>2. CASE \E i \in DOMAIN inputs : q = InputPair(i)
            BY <1>4, <6>2 DEF PairOK
          <6>3. CASE \E i, j \in DOMAIN myGB : i < j /\ myGB[i].comp = myGB[j].comp /\ q = GPair(i, j)
            <7>1. PICK i \in DOMAIN myGB, j \in DOMAIN myGB :
                    i < j /\ myGB[i].comp = myGB[j].comp /\ q = GPair(i, j)
              BY <6>3
            <7>2. i \in DOMAIN myGB' /\ j \in DOMAIN myGB' /\ myGB'[i].comp = myGB'[j].comp
              BY <4>2, <7>1
            <7> QED BY <7>1, <7>2 DEF PairOK
          <6> QED BY <6>1, <6>2, <6>3 DEF PairOK
        <5>2. CASE \E k \in DOMAIN myGB : myGB[k].comp = new.comp /\ q = GPair(k, n)
          <6>1. PICK k \in DOMAIN myGB : myGB[k].comp = new.comp /\ q = GPair(k, n)
            BY <5>2
          <6>2. k \in DOMAIN myGB' /\ n \in DOMAIN myGB' /\ k < n /\ myGB'[k].comp = myGB'[n].comp
            BY <4>2, <6>1
          <6> QED BY <6>1, <6>2 DEF PairOK
        <5> QED BY <3>2, <5>1, <5>2, GrownPairs DEF n
      <4> QED BY <4>2, <4>3
    <3> QED BY <2>3, <3>1, <3>2
  <2> QED BY <1>4, <2>1, <2>2, <2>4 DEF TypeInv
<1>5. ASSUME UNCHANGED <<mode, inputs>>, phase = "loop", NEW p \in myPairs, FirstElimPolyFound(p)
      PROVE TypeInv'
  <2>1. /\ UNCHANGED <<myGB, myTruncDeg>> /\ myPairs' \subseteq myPairs /\ phase' = "found"
        /\ \E t \in Reductions(p) : answer' = <<t>>
    BY <1>5 DEF FirstElimPolyFound
  <2>2. PICK t \in Reductions(p) : answer' = <<t>>
    BY <2>1
  <2>3. t \in TermRecords
    <3>1. mode.alg = "elimFirst"
      BY <1>5 DEF FirstElimPolyFound
    <3>2. Improved(t) = {t}
      BY <3>1 DEF Improved
    <3>3. t \in Improved(t)
      BY <3>2
    <3> QED BY <3>3, ResultFacts
  <2>4. \A i \in DOMAIN answer' : answer'[i].pp \in Vectors
    <3>1. t.pp \in Vectors
      BY <2>3 DEF TermRecords
    <3> QED BY <2>2, <3>1
  <2>5. \A q \in myPairs' : PairOK(q)'
    BY <1>5, <2>1 DEF TypeInv, PairOK
  <2> QED BY <1>5, <2>1, <2>4, <2>5 DEF TypeInv
<1> QED BY <1>1, <1>2, <1>3, <1>4, <1>5 DEF Next, ReduceCurrentSPoly

\* The variables keep to their types, whatever the ordering, the input and the mode.
THEOREM TypesAreKept == Spec => []TypeInv
  BY InitTypeInv, NextTypeInv, PTL DEF Spec

(***************************************************************************)
(* Truncation.  From the end of the loop on, the truncation degree tells   *)
(* whether pairs are left, and lies below theirs.                          *)
(***************************************************************************)
TruncInv ==
  phase \in {"final", "done"} =>
    /\ myTruncDeg = ourNoTruncValue <=> myPairs = {}
    /\ \A p \in myPairs : WDeg(p) > myTruncDeg

LEMMA IncomingIsLeast ==
  TypeInv /\ myPairs # {} =>
    /\ IncomingWDeg \in Nat
    /\ \A p \in myPairs : WDeg(p) \in Nat /\ IncomingWDeg <= WDeg(p)
<1> SUFFICES ASSUME TypeInv, myPairs # {}
             PROVE  /\ IncomingWDeg \in Nat
                    /\ \A p \in myPairs : WDeg(p) \in Nat /\ IncomingWDeg <= WDeg(p)
  OBVIOUS
<1>1. \A p \in myPairs : WDeg(p) \in Nat
  BY PairFacts DEF TypeInv
<1> DEFINE D == {WDeg(p) : p \in myPairs}
           Least(d) == \A p \in myPairs : d <= WDeg(p)
<1>2. D \subseteq Nat /\ D # {}
  BY <1>1
<1>3. PICK d \in D : \A e \in D : d <= e
  BY <1>2, LeastElement
<1>4. Least(d)
  BY <1>3
<1>5. IncomingWDeg = CHOOSE e \in D : Least(e)
  BY DEF IncomingWDeg
<1> HIDE DEF D, Least
<1>6. IncomingWDeg \in D /\ Least(IncomingWDeg)
  BY <1>4, <1>5
<1> QED BY <1>1, <1>2, <1>6 DEF Least

LEMMA EndOfLoopTrunc ==
  ASSUME TypeInv, TypeInv', EndOfLoop PROVE TruncInv'
<1>1. CASE myPairs' = {}
  BY <1>1 DEF EndOfLoop, TruncInv
<1>2. CASE myPairs' # {}
  <2>1. phase' = IF Truncated' THEN "final" ELSE "loop"
    BY <1>2 DEF EndOfLoop
  <2>2. SUFFICES ASSUME Truncated' PROVE TruncInv'
    BY <2>1 DEF TruncInv
  <2>3. /\ IncomingWDeg' \in Nat
        /\ \A p \in myPairs' : WDeg(p)' \in Nat /\ IncomingWDeg' <= WDeg(p)'
    <3>1. (TypeInv /\ myPairs # {} =>
             /\ IncomingWDeg \in Nat
             /\ \A p \in myPairs : WDeg(p) \in Nat /\ IncomingWDeg <= WDeg(p))'
      BY IncomingIsLeast, PTL
    <3> QED BY <1>2, <3>1
  <2>4. myTruncDeg' # ourNoTruncValue /\ myTruncDeg' < IncomingWDeg' /\ myTruncDeg' \in Nat \union {-1}
    BY <2>2 DEF Truncated, ourNoTruncValue, TypeInv
  <2>5. \A p \in myPairs' : WDeg(p)' > myTruncDeg'
    BY <2>3, <2>4
  <2> QED BY <1>2, <2>4, <2>5 DEF TruncInv
<1> QED BY <1>1, <1>2

\* myFinalizeGBasis leaves the leading terms alone.
LEMMA Finalized ==
  ASSUME TypeInv, FinalizeGBasis
  PROVE  /\ DOMAIN myGB' = DOMAIN myGB
         /\ \A i \in DOMAIN myGB : /\ myGB'[i].pp = myGB[i].pp /\ myGB'[i].comp = myGB[i].comp
                                   /\ myGB'[i].minimal = myGB[i].minimal
<1>1. CASE myGB' = myGB
  BY <1>1
<1>2. CASE myGB' = [i \in DOMAIN myGB |-> [myGB[i] EXCEPT !.active = @ /\ i \notin Erased]]
  <2>1. ASSUME NEW i \in DOMAIN myGB
        PROVE  /\ myGB'[i].pp = myGB[i].pp /\ myGB'[i].comp = myGB[i].comp
               /\ myGB'[i].minimal = myGB[i].minimal
    <3>1. myGB'[i] = [myGB[i] EXCEPT !.active = @ /\ i \notin Erased] /\ myGB[i] \in Elements
      BY <1>2 DEF TypeInv
    <3> DEFINE r == i \notin Erased
    <3> HIDE DEF r
    <3> QED BY <3>1 DEF Elements, r
  <2> QED BY <1>2, <2>1
<1> QED BY <1>1, <1>2 DEF FinalizeGBasis

\* A pair keeps its lcm as long as its elements keep their leading terms.
LEMMA SameLcm ==
  ASSUME TypeInv, UNCHANGED inputs, NEW p, PairOK(p),
         \A i \in DOMAIN myGB : myGB'[i].pp = myGB[i].pp
  PROVE  LCM(p)' = LCM(p) /\ WDeg(p)' = WDeg(p)
<1>1. CASE \E i \in DOMAIN inputs : p = InputPair(i)
  BY <1>1 DEF InputPair, IsInputPoly, LCM, WDeg
<1>2. CASE \E i, j \in DOMAIN myGB : p = GPair(i, j)
  <2>1. p.first \in DOMAIN myGB /\ p.second \in DOMAIN myGB
    BY <1>2 DEF GPair
  <2> QED BY <2>1 DEF IsInputPoly, LCM, WDeg
<1> QED BY <1>1, <1>2 DEF PairOK

\* The steps of the loop, one disjunct for each outcome of a pair.
LEMMA LoopCases ==
  ASSUME TypeInv, [Next]_vars
  PROVE  \/ UNCHANGED vars
         \/ UNCHANGED <<mode, inputs>> /\ FinalizeGBasis
         \/ /\ UNCHANGED <<mode, inputs>> /\ phase = "loop"
            /\ \E p \in myPairs : MayBeFront(p) /\
                 (ReduceToZero(p) \/ NewPolyInGB(p) \/ FirstElimPolyFound(p))
  BY DEF Next, ReduceCurrentSPoly

LEMMA NextTruncInv == TypeInv /\ TypeInv' /\ TruncInv /\ [Next]_vars => TruncInv'
<1> SUFFICES ASSUME TypeInv, TypeInv', TruncInv, [Next]_vars PROVE TruncInv'
  OBVIOUS
<1>1. CASE UNCHANGED vars
  BY <1>1 DEF vars, TruncInv, WDeg, LCM
<1>2. CASE UNCHANGED <<mode, inputs>> /\ FinalizeGBasis
  <2>1. UNCHANGED <<myPairs, myTruncDeg>> /\ phase = "final"
    BY <1>2 DEF FinalizeGBasis
  <2>2. \A p \in myPairs : WDeg(p)' = WDeg(p)
    BY <1>2, Finalized, SameLcm DEF TypeInv
  <2> QED BY <2>1, <2>2 DEF TruncInv
<1>3. ASSUME NEW p \in myPairs, ReduceToZero(p) \/ NewPolyInGB(p) PROVE TruncInv'
  <2>1. EndOfLoop
    BY <1>3, NewPolyCases DEF ReduceToZero
  <2> QED BY <2>1, EndOfLoopTrunc
<1>4. ASSUME NEW p \in myPairs, FirstElimPolyFound(p) PROVE TruncInv'
  BY <1>4 DEF FirstElimPolyFound, TruncInv
<1> QED BY <1>1, <1>2, <1>3, <1>4, LoopCases

\* The truncation degree at the end: "none" exactly when no pair is left, otherwise
\* below the degrees of all that are left, so that what ComputeGBasisTrunc exports
\* is complete up to it, minimal generators included.
THEOREM TruncationIsAlwaysReported == Spec => []TruncationIsReported
<1>1. Init => TruncInv
  BY DEF Init, TruncInv
<1>2. TypeInv /\ TruncInv => TruncationIsReported
  <2> SUFFICES ASSUME TypeInv, TruncInv, phase = "done" PROVE
         /\ myTruncDeg = ourNoTruncValue <=> myPairs = {}
         /\ \A p \in myPairs : WDeg(p) > myTruncDeg
         /\ myPairs # {} /\ MinGensExported => \A p \in myPairs : ~IsInputPoly(p)
    BY DEF TruncationIsReported
  <2>1. /\ myTruncDeg = ourNoTruncValue <=> myPairs = {}
        /\ \A p \in myPairs : WDeg(p) > myTruncDeg
    BY DEF TruncInv
  <2>2. ASSUME MinGensExported, NEW p \in myPairs PROVE ~IsInputPoly(p)
    <3> SUFFICES ASSUME IsInputPoly(p) PROVE FALSE
      OBVIOUS
    <3>1. PairOK(p) /\ myTruncDeg \in Nat \union {-1}
      BY DEF TypeInv
    <3>2. ASSUME NEW i \in DOMAIN myGB, NEW j \in DOMAIN myGB, p = GPair(i, j) PROVE FALSE
      <4>1. j \in Nat \ {0}
        BY DEF TypeInv
      <4> QED BY <3>2, <4>1 DEF GPair, IsInputPoly
    <3>3. PICK i \in DOMAIN inputs : p = InputPair(i)
      BY <3>1, <3>2 DEF PairOK
    <3>4. WDeg(p) = Deg(inputs[i].pp) /\ WDeg(p) \in Nat
      BY <3>1, <3>3, PairFacts DEF WDeg, LCM, InputPair, IsInputPoly
    <3>5. Deg(inputs[i].pp) <= myTruncDeg /\ WDeg(p) > myTruncDeg
      BY <2>1, <2>2 DEF MinGensExported
    <3> QED BY <3>1, <3>4, <3>5
  <2> QED BY <2>1, <2>2
<1> QED BY <1>1, <1>2, TypesAreKept, NextTruncInv, PTL DEF Spec

(***************************************************************************)
(* Reduced bases.  No element that is still used for pairs is reduced by   *)
(* another, and every element is reduced by one of those, so that the      *)
(* final erasure finds nothing to erase among them.                        *)
(***************************************************************************)
ReducedInv ==
  /\ \A i, j \in DOMAIN myGB : i # j /\ myGB[j].active => ~Reduces(myGB[i], myGB[j])
  /\ \A k \in DOMAIN myGB : \E i \in DOMAIN myGB : myGB[i].active /\ Reduces(myGB[i], myGB[k])

LEMMA ReducesFacts ==
  ASSUME NEW a \in Elements, NEW b \in Elements, NEW c \in Elements
  PROVE  Reduces(a, a) /\ (Reduces(a, b) /\ Reduces(b, c) => Reduces(a, c))
<1>1. a.pp \in Vectors /\ b.pp \in Vectors /\ c.pp \in Vectors
  BY ElementFields
<1> QED BY <1>1, DividesFacts DEF Reduces

LEMMA ErasedAreReduced ==
  ASSUME TypeInv, NEW i \in Erased
  PROVE  i \in DOMAIN myGB /\ \E k \in DOMAIN myGB : k # i /\ Reduces(myGB[k], myGB[i])
<1> DEFINE n == Len(myGB)
           superfluous(L, j) == \E k \in DOMAIN myGB \ (L \union {j}) : Reduces(myGB[k], myGB[j])
           T == SUBSET DOMAIN myGB
           step == [jL \in (1..n) \X T |->
                      IF superfluous(jL[2], jL[1]) THEN jL[2] \union {jL[1]} ELSE jL[2]]
           Is(f) == f = [j \in 0..n |->
                           IF j = 0 THEN {}
                           ELSE IF \E k \in DOMAIN myGB \ (f[j - 1] \union {j}) :
                                     Reduces(myGB[k], myGB[j])
                           THEN f[j - 1] \union {j}
                           ELSE f[j - 1]]
           s == CHOOSE f : Is(f)
<1>1. Erased = s[n]
  BY DEF Erased
<1>2. n \in Nat /\ DOMAIN myGB = 1..n
  BY DEF TypeInv
<1> HIDE DEF n
<1>3. step \in [(1..n) \X T -> T]
  <2> HIDE DEF superfluous
  <2> QED BY <1>2
<1>4. PICK f \in [0..n -> T] : Recursive(f, n, {}, step)
  <2>1. {} \in T
    OBVIOUS
  <2> HIDE DEF T, step
  <2> QED BY <1>2, <1>3, <2>1, Recursion, Zenon
<1>5. Is(f)
  <2>1. f[0] = {}
    BY <1>4 DEF Recursive
  <2>2. ASSUME NEW j \in 1..n
        PROVE  f[j] = IF superfluous(f[j - 1], j) THEN f[j - 1] \union {j} ELSE f[j - 1]
    <3>1. f[j] = step[<<j, f[j - 1]>>]
      BY <1>4 DEF Recursive
    <3>2. j - 1 \in 0..n
      BY <1>2
    <3>3. f[j - 1] \in T
      BY <3>2
    <3>4. <<j, f[j - 1]>> \in (1..n) \X T
      BY <3>3
    <3> HIDE DEF superfluous, T
    <3> QED BY <3>1, <3>4
  <2> HIDE DEF T, step, superfluous
  <2> DEFINE R(j) == IF j = 0 THEN {}
                     ELSE IF superfluous(f[j - 1], j) THEN f[j - 1] \union {j}
                     ELSE f[j - 1]
  <2>3. ASSUME NEW j \in 0..n PROVE f[j] = R(j)
    <3>1. CASE j = 0
      BY <2>1, <3>1
    <3>2. CASE j \in 1..n
      <4>1. j # 0
        BY <1>2, <3>2
      <4>2. f[j] = IF superfluous(f[j - 1], j) THEN f[j - 1] \union {j} ELSE f[j - 1]
        BY <2>2, <3>2, Zenon
      <4> QED BY <4>1, <4>2, Zenon
    <3> QED BY <1>2, <3>1, <3>2
  <2> HIDE DEF R
  <2>4. f = [j \in 0..n |-> R(j)]
    BY <2>3
  <2> QED BY <2>4, Zenon DEF superfluous, R
<1>6. Is(s)
  <2> HIDE DEF Is
  <2> QED BY <1>5
<1> HIDE DEF s, step
<1> DEFINE Q(j) == \A e \in s[j] : e \in 1..j /\ \E k \in DOMAIN myGB : k # e /\ Reduces(myGB[k], myGB[e])
           S == {j \in Nat : j <= n => Q(j)}
<1>7. 0 \in S
  BY <1>2, <1>6
<1>8. ASSUME NEW j \in Nat, j \in S PROVE j + 1 \in S
  <2> SUFFICES ASSUME j + 1 <= n PROVE Q(j + 1)
    OBVIOUS
  <2>1. Q(j)
    BY <1>2, <1>8
  <2>2. j + 1 \in 0..n /\ j + 1 # 0 /\ (j + 1) - 1 = j
    BY <1>2
  <2>3. s[j + 1] = IF superfluous(s[(j + 1) - 1], j + 1)
                   THEN s[(j + 1) - 1] \union {j + 1} ELSE s[(j + 1) - 1]
    BY <1>6, <2>2, Zenon
  <2>4. s[j + 1] = IF superfluous(s[j], j + 1) THEN s[j] \union {j + 1} ELSE s[j]
    BY <2>2, <2>3
  <2>5. ASSUME NEW e \in s[j + 1]
        PROVE  e \in 1..j + 1 /\ \E k \in DOMAIN myGB : k # e /\ Reduces(myGB[k], myGB[e])
    <3>1. CASE e \in s[j]
      BY <2>1, <3>1
    <3>2. CASE e = j + 1 /\ superfluous(s[j], j + 1)
      BY <3>2
    <3> QED BY <2>4, <2>5, <3>1, <3>2
  <2> QED BY <2>5
<1> HIDE DEF S, Q
<1>9. n \in S
  BY <1>2, <1>7, <1>8, SetInduction
<1>10. Q(n)
  BY <1>2, <1>9 DEF S
<1> QED BY <1>1, <1>2, <1>10 DEF Q

\* The erasure at the end deactivates nothing: it repeats what BuildNewPairs had done.
LEMMA FinalizedActive ==
  ASSUME TypeInv, ReducedInv, FinalizeGBasis
  PROVE  \A i \in DOMAIN myGB : myGB'[i].active = myGB[i].active
<1>1. CASE myGB' = myGB
  BY <1>1
<1>2. CASE myGB' = [i \in DOMAIN myGB |-> [myGB[i] EXCEPT !.active = @ /\ i \notin Erased]]
  <2> SUFFICES ASSUME NEW i \in DOMAIN myGB PROVE myGB'[i].active = myGB[i].active
    OBVIOUS
  <2>1. myGB'[i] = [myGB[i] EXCEPT !.active = @ /\ i \notin Erased] /\ myGB[i] \in Elements
    BY <1>2 DEF TypeInv
  <2> DEFINE r == i \notin Erased
  <2>2. myGB[i].active => r
    BY ErasedAreReduced DEF ReducedInv
  <2> HIDE DEF r
  <2> QED BY <2>1, <2>2 DEF Elements, r
<1> QED BY <1>1, <1>2 DEF FinalizeGBasis

LEMMA GrownExtends ==
  ASSUME TypeInv, NEW p, NEW new, Grown(p, new)
  PROVE  Extends(myGB, new, myGB', Len(myGB) + 1)
<1>1. myGB \in Seq(Elements) /\ new \in Elements /\ myGB' = Append(Deactivated(myGB, new), new)
  BY DEF TypeInv, Grown
<1> QED BY <1>1, GrownFacts, Zenon

LEMMA NextReducedInv == TypeInv /\ ReducedInv /\ [Next]_vars => ReducedInv'
<1> SUFFICES ASSUME TypeInv, ReducedInv, [Next]_vars PROVE ReducedInv'
  OBVIOUS
<1>1. CASE UNCHANGED myGB
  BY <1>1 DEF ReducedInv
<1>2. CASE FinalizeGBasis
  <2>1. DOMAIN myGB' = DOMAIN myGB
        /\ \A i, j \in DOMAIN myGB : Reduces(myGB[i]', myGB[j]') <=> Reduces(myGB[i], myGB[j])
    BY <1>2, Finalized DEF Reduces
  <2>2. \A i \in DOMAIN myGB : myGB'[i].active = myGB[i].active
    BY <1>2, FinalizedActive
  <2> QED BY <2>1, <2>2 DEF ReducedInv
<1>3. ASSUME NEW p \in myPairs, NewPolyInGB(p) PROVE ReducedInv'
  <2>1. PICK new : Restarted(new) \/ Grown(p, new)
    BY <1>3, NewPolyCases
  <2>2. CASE Restarted(new)
    <3>1. new \in Elements /\ new.active /\ myGB' = <<new>> /\ DOMAIN myGB' = {1} /\ myGB'[1] = new
      BY <2>2 DEF Restarted
    <3>2. Reduces(new, new)
      BY <3>1, ReducesFacts
    <3> QED BY <3>1, <3>2 DEF ReducedInv
  <2>3. CASE Grown(p, new)
    <3> DEFINE n == Len(myGB) + 1
    <3> HIDE DEF n
    <3>1. Extends(myGB, new, myGB', n) /\ new \in Elements /\ new.active /\ Irreducible(new)
      BY <2>3, GrownExtends DEF Grown, n
    <3>2. /\ DOMAIN myGB' = DOMAIN myGB \union {n} /\ n \notin DOMAIN myGB /\ myGB'[n] = new
          /\ \A i \in DOMAIN myGB :
               /\ myGB[i] \in Elements
               /\ myGB'[i].active <=> myGB[i].active /\ ~Reduces(new, myGB[i])
      BY <3>1 DEF Extends
    <3>3. /\ \A i, j \in DOMAIN myGB : Reduces(myGB'[i], myGB'[j]) <=> Reduces(myGB[i], myGB[j])
          /\ \A i \in DOMAIN myGB : /\ Reduces(myGB'[i], new) <=> Reduces(myGB[i], new)
                                    /\ Reduces(new, myGB'[i]) <=> Reduces(new, myGB[i])
      BY <3>1 DEF Extends, Reduces
    <3>4. ASSUME NEW i \in DOMAIN myGB', NEW j \in DOMAIN myGB', i # j, myGB'[j].active
          PROVE  ~Reduces(myGB'[i], myGB'[j])
      <4>1. CASE j = n
        BY <3>1, <3>2, <3>3, <3>4, <4>1 DEF Irreducible
      <4>2. CASE j # n /\ i = n
        BY <3>2, <3>3, <3>4, <4>2
      <4>3. CASE j # n /\ i # n
        BY <3>2, <3>3, <3>4, <4>3 DEF ReducedInv
      <4> QED BY <4>1, <4>2, <4>3
    <3>5. ASSUME NEW k \in DOMAIN myGB'
          PROVE  \E i \in DOMAIN myGB' : myGB'[i].active /\ Reduces(myGB'[i], myGB'[k])
      <4>1. CASE k = n
        BY <3>1, <3>2, <4>1, ReducesFacts
      <4>2. CASE k \in DOMAIN myGB
        <5>1. PICK i \in DOMAIN myGB : myGB[i].active /\ Reduces(myGB[i], myGB[k])
          BY <4>2 DEF ReducedInv
        <5>2. CASE ~Reduces(new, myGB[i])
          BY <3>2, <3>3, <4>2, <5>1, <5>2
        <5>3. CASE Reduces(new, myGB[i])
          <6>1. Reduces(new, myGB[k])
            BY <3>1, <3>2, <4>2, <5>1, <5>3, ReducesFacts
          <6> QED BY <3>1, <3>2, <3>3, <4>2, <6>1
        <5> QED BY <5>2, <5>3
      <4> QED BY <3>2, <4>1, <4>2
    <3> QED BY <3>4, <3>5 DEF ReducedInv
  <2> QED BY <2>1, <2>2, <2>3
<1> QED BY <1>1, <1>2, <1>3, LoopCases DEF vars, ReduceToZero, FirstElimPolyFound

\* What the algorithm exports has the leading terms of a reduced basis, with or
\* without the final erasure, and they generate all that were ever found.
THEOREM ExportIsAlwaysReduced == Spec => []ExportIsReduced
<1>1. Init => ReducedInv
  BY DEF Init, ReducedInv
<1>2. ReducedInv => ExportIsReduced
  BY DEF ReducedInv, ExportIsReduced, Exported
<1> QED BY <1>1, <1>2, TypesAreKept, NextReducedInv, PTL DEF Spec

(***************************************************************************)
(* Degrees.  The pair in front has the least degree, an S-pair before an   *)
(* input; a new pair's degree is above that of the new element, which no   *)
(* other element divides.                                                  *)
(***************************************************************************)
LEMMA FrontIsLeast ==
  ASSUME TypeInv, ByDegree, NEW p \in myPairs, MayBeFront(p), NEW q \in myPairs
  PROVE  /\ WDeg(p) \in Nat /\ WDeg(q) \in Nat /\ WDeg(q) >= WDeg(p)
         /\ IsInputPoly(p) /\ ~IsInputPoly(q) => WDeg(q) > WDeg(p)
<1>1. WDeg(p) \in Nat /\ WDeg(q) \in Nat
  BY PairFacts DEF TypeInv
<1>2. ~Less(q, p)
  BY DEF MayBeFront
<1>3. /\ ~(WDeg(q) < WDeg(p))
      /\ ~(WDeg(q) = WDeg(p) /\ ~IsInputPoly(q) /\ IsInputPoly(p))
  BY <1>2 DEF Less
<1> QED BY <1>1, <1>3

LEMMA NewPairDegree ==
  ASSUME NEW a \in Vectors, NEW b \in Vectors, ~Divides(a, b)
  PROVE  Deg(Lcm(a, b)) \in Nat /\ Deg(b) \in Nat /\ Deg(Lcm(a, b)) > Deg(b)
<1>1. Lcm(a, b) \in Vectors /\ Divides(a, Lcm(a, b)) /\ Divides(b, Lcm(a, b))
  BY LcmFacts
<1>2. Lcm(a, b) # b
  BY <1>1
<1>3. /\ Deg(b) \in Nat /\ Deg(Lcm(a, b)) \in Nat /\ Deg(b) <= Deg(Lcm(a, b))
      /\ Deg(b) # Deg(Lcm(a, b))
  BY <1>1, <1>2, DegDivides
<1> QED BY <1>3

LEMMA NextDegreeByDegree ==
  TypeInv /\ DegreeByDegree /\ [Next]_vars => DegreeByDegree'
<1> SUFFICES ASSUME TypeInv, DegreeByDegree, [Next]_vars, ByDegree',
                    NEW q \in myPairs'
             PROVE  /\ \A i \in DOMAIN myGB' :
                         /\ WDeg(q)' >= Deg(myGB'[i].pp)
                         /\ myGB'[i].minimal /\ ~IsInputPoly(q) => WDeg(q)' > Deg(myGB'[i].pp)
                    /\ \A i \in DOMAIN answer' : WDeg(q)' >= Deg(answer'[i].pp)
  BY DEF DegreeByDegree, IsInputPoly
<1>a. mode' = mode /\ inputs' = inputs
  BY DEF Next, vars
<1>b. ByDegree
  BY <1>a DEF ByDegree
<1>c. ASSUME NEW r \in myPairs
      PROVE  /\ PairOK(r)
             /\ \A i \in DOMAIN myGB :
                  /\ WDeg(r) >= Deg(myGB[i].pp)
                  /\ myGB[i].minimal /\ ~IsInputPoly(r) => WDeg(r) > Deg(myGB[i].pp)
             /\ \A i \in DOMAIN answer : WDeg(r) >= Deg(answer[i].pp)
  BY <1>b DEF DegreeByDegree, TypeInv
<1>1. CASE UNCHANGED vars
  BY <1>1, <1>c DEF vars, WDeg, LCM
<1>2. CASE FinalizeGBasis
  <2>1. q \in myPairs /\ answer' = answer
    BY <1>2 DEF FinalizeGBasis
  <2>2. /\ DOMAIN myGB' = DOMAIN myGB
        /\ \A i \in DOMAIN myGB : myGB'[i].pp = myGB[i].pp /\ myGB'[i].minimal = myGB[i].minimal
    BY <1>2, Finalized
  <2>3. WDeg(q)' = WDeg(q)
    BY <1>a, <1>c, <2>1, <2>2, SameLcm
  <2> QED BY <1>c, <2>1, <2>2, <2>3
<1>3. ASSUME NEW p \in myPairs, ReduceToZero(p)
      PROVE  /\ \A i \in DOMAIN myGB' :
                  /\ WDeg(q)' >= Deg(myGB'[i].pp)
                  /\ myGB'[i].minimal /\ ~IsInputPoly(q) => WDeg(q)' > Deg(myGB'[i].pp)
             /\ \A i \in DOMAIN answer' : WDeg(q)' >= Deg(answer'[i].pp)
  <2>1. q \in myPairs /\ UNCHANGED <<myGB, answer>>
    BY <1>3 DEF ReduceToZero
  <2>2. WDeg(q)' = WDeg(q)
    BY <1>a, <2>1 DEF WDeg, LCM
  <2> QED BY <1>c, <2>1, <2>2
<1>4. ASSUME NEW p \in myPairs, MayBeFront(p), FirstElimPolyFound(p)
      PROVE  /\ \A i \in DOMAIN myGB' :
                  /\ WDeg(q)' >= Deg(myGB'[i].pp)
                  /\ myGB'[i].minimal /\ ~IsInputPoly(q) => WDeg(q)' > Deg(myGB'[i].pp)
             /\ \A i \in DOMAIN answer' : WDeg(q)' >= Deg(answer'[i].pp)
  <2>1. q \in myPairs /\ UNCHANGED myGB /\ mode.alg = "elimFirst"
    BY <1>4 DEF FirstElimPolyFound
  <2>2. WDeg(q)' = WDeg(q)
    BY <1>a, <2>1 DEF WDeg, LCM
  <2>3. PICK t \in Reductions(p) : answer' = <<t>>
    BY <1>4 DEF FirstElimPolyFound
  <2>4. t \in Improved(t)
    BY <2>1 DEF Improved
  <2>5. Deg(t.pp) = WDeg(p)
    BY <1>b, <2>4, ResultFacts
  <2>6. WDeg(q) >= WDeg(p)
    BY <1>b, <1>4, <2>1, FrontIsLeast
  <2>7. \A i \in DOMAIN answer' : answer'[i] = t
    BY <2>3
  <2> QED BY <1>c, <2>1, <2>2, <2>5, <2>6, <2>7
<1>5. ASSUME NEW p \in myPairs, MayBeFront(p), NewPolyInGB(p), phase = "loop"
      PROVE  /\ \A i \in DOMAIN myGB' :
                  /\ WDeg(q)' >= Deg(myGB'[i].pp)
                  /\ myGB'[i].minimal /\ ~IsInputPoly(q) => WDeg(q)' > Deg(myGB'[i].pp)
             /\ \A i \in DOMAIN answer' : WDeg(q)' >= Deg(answer'[i].pp)
  <2>1. DOMAIN answer' = {}
    BY <1>5, NewPolyCases DEF TypeInv
  <2>2. PICK new : Restarted(new) \/ Grown(p, new)
    BY <1>5, NewPolyCases
  <2>3. Grown(p, new)
    BY <2>2 DEF Restarted
  <2> DEFINE n == Len(myGB) + 1
  <2> HIDE DEF n
  <2>4. Extends(myGB, new, myGB', n) /\ new \in Elements /\ Irreducible(new)
        /\ (new.minimal <=> IsInputPoly(p)) /\ Deg(new.pp) = WDeg(p)
    BY <1>b, <2>3, GrownExtends DEF Grown, n
  <2>5. /\ DOMAIN myGB' = DOMAIN myGB \union {n} /\ n \in Nat \ {0} /\ n \notin DOMAIN myGB
        /\ myGB'[n] = new
        /\ \A i \in DOMAIN myGB :
             /\ i \in Nat \ {0} /\ myGB[i] \in Elements
             /\ myGB'[i].pp = myGB[i].pp /\ myGB'[i].minimal = myGB[i].minimal
    BY <2>4 DEF Extends
  <2>6. CASE q \in myPairs
    <3>1. WDeg(q)' = WDeg(q)
      BY <1>a, <1>c, <2>5, <2>6, SameLcm
    <3>2. /\ WDeg(q) >= WDeg(p) /\ WDeg(p) \in Nat /\ WDeg(q) \in Nat
          /\ IsInputPoly(p) /\ ~IsInputPoly(q) => WDeg(q) > WDeg(p)
      BY <1>b, <1>5, <2>6, FrontIsLeast
    <3> QED BY <1>c, <2>1, <2>4, <2>5, <2>6, <3>1, <3>2
  <2>7. CASE \E k \in DOMAIN myGB : myGB[k].comp = new.comp /\ q = GPair(k, n)
    <3>1. PICK k \in DOMAIN myGB : myGB[k].comp = new.comp /\ q = GPair(k, n)
      BY <2>7
    <3>2. ~IsInputPoly(q) /\ q.first = k /\ q.second = n
      BY <2>5, <3>1 DEF IsInputPoly, GPair
    <3>3. WDeg(q)' = Deg(Lcm(myGB[k].pp, new.pp))
      BY <2>5, <3>2 DEF WDeg, LCM, IsInputPoly
    <3>4. myGB[k].pp \in Vectors /\ new.pp \in Vectors
      BY <2>4, <2>5, ElementFields
    <3>5. ~Divides(myGB[k].pp, new.pp)
      BY <2>4, <3>1 DEF Irreducible, Reduces
    <3>6. WDeg(q)' > WDeg(p) /\ WDeg(q)' \in Nat /\ WDeg(p) \in Nat
      BY <2>4, <3>3, <3>4, <3>5, NewPairDegree
    <3>7. ASSUME NEW i \in DOMAIN myGB' PROVE WDeg(p) >= Deg(myGB'[i].pp) /\ Deg(myGB'[i].pp) \in Nat
      <4>1. CASE i = n
        BY <2>4, <2>5, <3>6, <4>1
      <4>2. CASE i \in DOMAIN myGB
        <5>1. Deg(myGB[i].pp) \in Nat
          BY <2>5, <4>2, ElementFields, DegDivides, DividesFacts
        <5> QED BY <1>c, <2>5, <4>2, <5>1
      <4> QED BY <2>5, <4>1, <4>2
    <3> QED BY <2>1, <3>6, <3>7
  <2> QED BY <1>5, <2>3, <2>6, <2>7, GrownPairs DEF n
<1> QED BY <1>1, <1>2, <1>3, <1>4, <1>5, LoopCases

\* Homogeneous input is worked off degree by degree, for every ordering of the
\* pairs of one degree that GPair's operator< allows and every result of a reduction.
THEOREM DegreesAreWorkedOffInOrder == Spec => []DegreeByDegree
<1>1. Init => DegreeByDegree
  BY DEF Init, DegreeByDegree
<1> QED BY <1>1, TypesAreKept, NextDegreeByDegree, PTL DEF Spec

(***************************************************************************)
(* The criteria.  Chains through a set B of elements, along a set E of     *)
(* edges, stated by cuts as in Joined.                                     *)
(***************************************************************************)
Below(gb, c, t) == {k \in DOMAIN gb : gb[k].comp = c /\ Divides(gb[k].pp, t)}
Joins(B, E, i, j) ==
  \A S \in SUBSET B : i \in S /\ j \notin S => \E a \in S, b \in B \ S : {a, b} \in E

LEMMA JoinsFacts ==
  ASSUME NEW B, NEW E, NEW i \in B, NEW j \in B, NEW k \in B
  PROVE  /\ Joins(B, E, i, i)
         /\ {i, j} \in E => Joins(B, E, i, j)
         /\ Joins(B, E, i, j) => Joins(B, E, j, i)
         /\ Joins(B, E, i, j) /\ Joins(B, E, j, k) => Joins(B, E, i, k)
<1>1. Joins(B, E, i, i) /\ ({i, j} \in E => Joins(B, E, i, j))
  BY DEF Joins
<1>2. ASSUME Joins(B, E, i, j) PROVE Joins(B, E, j, i)
  <2> SUFFICES ASSUME NEW S \in SUBSET B, j \in S, i \notin S
               PROVE  \E a \in S, b \in B \ S : {a, b} \in E
    BY DEF Joins
  <2>1. PICK a \in B \ S, b \in B \ (B \ S) : {a, b} \in E
    <3>1. B \ S \in SUBSET B /\ i \in B \ S /\ j \notin B \ S
      OBVIOUS
    <3> QED BY <1>2, <3>1, Zenon DEF Joins
  <2>2. {b, a} = {a, b} /\ b \in S
    OBVIOUS
  <2> QED BY <2>1, <2>2
<1>3. ASSUME Joins(B, E, i, j), Joins(B, E, j, k) PROVE Joins(B, E, i, k)
  <2> SUFFICES ASSUME NEW S \in SUBSET B, i \in S, k \notin S
               PROVE  \E a \in S, b \in B \ S : {a, b} \in E
    BY DEF Joins
  <2> QED BY <1>3, Zenon DEF Joins
<1> QED BY <1>1, <1>2, <1>3

\* A chain is still one among more elements and more edges.
LEMMA JoinsMore ==
  ASSUME NEW B, NEW E, NEW i \in B, NEW j \in B, Joins(B, E, i, j),
         NEW C, NEW F, B \subseteq C,
         \A a, b \in B : {a, b} \in E => {a, b} \in F
  PROVE  Joins(C, F, i, j)
<1> SUFFICES ASSUME NEW S \in SUBSET C, i \in S, j \notin S
             PROVE  \E a \in S, b \in C \ S : {a, b} \in F
  BY DEF Joins
<1>1. PICK a \in S \cap B, b \in B \ (S \cap B) : {a, b} \in E
  <2>1. S \cap B \in SUBSET B /\ i \in S \cap B /\ j \notin S \cap B
    OBVIOUS
  <2> QED BY <2>1, Zenon DEF Joins
<1> QED BY <1>1

LEMMA BelowFacts ==
  ASSUME NEW gb \in Seq(Elements), NEW c, NEW t \in Vectors, NEW u \in Vectors, Divides(t, u)
  PROVE  Below(gb, c, t) \subseteq Below(gb, c, u)
<1> SUFFICES ASSUME NEW k \in DOMAIN gb, Divides(gb[k].pp, t) PROVE Divides(gb[k].pp, u)
  BY DEF Below
<1>1. gb[k].pp \in Vectors
  <2>1. gb[k] \in Elements
    OBVIOUS
  <2> QED BY <2>1, ElementFields
<1> QED BY <1>1, DividesFacts

\* All elements of a component are joined, two at a time, below their lcm.
AllJoined(gb, E) ==
  \A i, j \in DOMAIN gb : gb[i].comp = gb[j].comp =>
    Joins(Below(gb, gb[i].comp, Lcm(gb[i].pp, gb[j].pp)), E, i, j)

\* The B-criterion lets a new element stand between two others.
Between(new, x, y) ==
  /\ x.comp = new.comp /\ y.comp = new.comp
  /\ Divides(new.pp, Lcm(x.pp, y.pp))
  /\ Lcm(x.pp, new.pp) # Lcm(x.pp, y.pp) /\ Lcm(y.pp, new.pp) # Lcm(x.pp, y.pp)

LEMMA BetweenIsBelow ==
  ASSUME NEW new \in Elements, NEW x \in Elements, NEW y \in Elements, Between(new, x, y),
         NEW t \in Vectors, Divides(Lcm(x.pp, y.pp), t)
  PROVE  /\ Lcm(x.pp, new.pp) \in Vectors /\ Divides(Lcm(x.pp, new.pp), t)
         /\ Deg(Lcm(x.pp, new.pp)) < Deg(t)
<1> DEFINE l == Lcm(x.pp, y.pp)
           m == Lcm(x.pp, new.pp)
<1>1. x.pp \in Vectors /\ y.pp \in Vectors /\ new.pp \in Vectors
  BY ElementFields
<1>2. l \in Vectors /\ m \in Vectors /\ Divides(x.pp, l) /\ Divides(m, l) /\ m # l
  BY <1>1, LcmFacts DEF Between
<1> HIDE DEF l, m
<1>3. Deg(m) \in Nat /\ Deg(l) \in Nat /\ Deg(m) < Deg(l)
  BY <1>2, DegDivides
<1>4. Divides(l, t)
  BY DEF l
<1>5. Deg(t) \in Nat /\ Deg(l) <= Deg(t) /\ Divides(m, t)
  BY <1>2, <1>4, DegDivides, DividesFacts
<1> QED BY <1>2, <1>3, <1>5 DEF m

Survives(gb, new, E, F) ==
  \A a, b \in DOMAIN gb : gb[a].comp = gb[b].comp /\ {a, b} \in E =>
    {a, b} \in F \/ Between(new, gb[a], gb[b])
Reached(gb, new, n, F) ==
  \A k \in DOMAIN gb : gb[k].comp = new.comp =>
    \E i \in DOMAIN gb : /\ gb[i].comp = new.comp /\ {i, n} \in F
                         /\ Divides(Lcm(gb[i].pp, new.pp), Lcm(gb[k].pp, new.pp))

\* When the basis grows, an old edge may go only where the new element stands
\* strictly between, and each new lcm is a multiple of that of a new edge.
LEMMA GrowthKeepsJoins ==
  ASSUME NEW gb \in Seq(Elements), NEW new \in Elements, NEW g, NEW n, Extends(gb, new, g, n),
         NEW E, NEW F, AllJoined(gb, E), Survives(gb, new, E, F), Reached(gb, new, n, F)
  PROVE  AllJoined(g, F)
<1> DEFINE l(k) == Lcm(gb[k].pp, new.pp)
           c == new.comp
           D(d) == \A k \in DOMAIN gb : gb[k].comp = c /\ Deg(l(k)) < d =>
                     Joins(Below(g, c, l(k)), F, k, n)
           S == {d \in Nat : D(d)}
<1>1. /\ g \in Seq(Elements) /\ DOMAIN g = DOMAIN gb \union {n} /\ g[n] = new /\ n \notin DOMAIN gb
      /\ \A k \in DOMAIN gb : gb[k] \in Elements /\ g[k].pp = gb[k].pp /\ g[k].comp = gb[k].comp
  BY DEF Extends
<1>2. new.pp \in Vectors /\ \A k \in DOMAIN gb : gb[k].pp \in Vectors
  BY <1>1, ElementFields
<1>3. ASSUME NEW k \in DOMAIN gb
      PROVE  /\ l(k) \in Vectors /\ Divides(gb[k].pp, l(k)) /\ Divides(new.pp, l(k))
             /\ Deg(l(k)) \in Nat
             /\ gb[k].comp = c => k \in Below(g, c, l(k)) /\ n \in Below(g, c, l(k))
  <2>1. l(k) \in Vectors /\ Divides(gb[k].pp, l(k)) /\ Divides(new.pp, l(k))
    BY <1>2, LcmFacts
  <2> HIDE DEF l
  <2>2. Deg(l(k)) \in Nat
    BY <2>1, DegDivides, DividesFacts
  <2> QED BY <1>1, <2>1, <2>2 DEF Below
<1> HIDE DEF l
\* Old elements are joined again if the new ones below are joined to the last.
<1>4. ASSUME NEW d \in Nat, D(d), NEW i \in DOMAIN gb, NEW j \in DOMAIN gb,
             gb[i].comp = gb[j].comp, Deg(Lcm(gb[i].pp, gb[j].pp)) <= d
      PROVE  Joins(Below(g, gb[i].comp, Lcm(gb[i].pp, gb[j].pp)), F, i, j)
  <2> DEFINE t == Lcm(gb[i].pp, gb[j].pp)
             e == gb[i].comp
             B == Below(gb, e, t)
             C == Below(g, e, t)
  <2>1. t \in Vectors
    BY <1>2, LcmFacts
  <2>2. Joins(B, E, i, j)
    BY <1>4 DEF AllJoined
  <2>3. j \in B /\ i \in B
    BY <1>2, <1>4, LcmFacts DEF Below
  <2> HIDE DEF t
  <2>4. B \subseteq C /\ B = C \cap DOMAIN gb /\ B \subseteq DOMAIN gb
    BY <1>1 DEF Below
  <2>4a. \A a \in B : gb[a].comp = e /\ Divides(gb[a].pp, t) /\ a \in DOMAIN gb
    BY DEF Below
  <2>5. SUFFICES ASSUME NEW Q \in SUBSET C, i \in Q, j \notin Q
                 PROVE  \E a \in Q, b \in C \ Q : {a, b} \in F
    BY DEF Joins, t
  <2> HIDE DEF B, C, e
  <2>6. PICK a \in Q \cap B, b \in B \ (Q \cap B) : {a, b} \in E
    <3>1. Q \cap B \in SUBSET B /\ i \in Q \cap B /\ j \notin Q \cap B
      BY <2>3, <2>5
    <3> QED BY <2>2, <3>1, Zenon DEF Joins
  <2>7. CASE {a, b} \in F
    BY <2>4, <2>6, <2>7
  <2>8. CASE Between(new, gb[a], gb[b])
    <3>1. /\ a \in DOMAIN gb /\ b \in DOMAIN gb /\ gb[a].comp = e /\ gb[b].comp = e /\ e = c
          /\ gb[a] \in Elements /\ gb[b] \in Elements
      BY <1>1, <2>4a, <2>8 DEF Between
    <3>2. Divides(Lcm(gb[a].pp, gb[b].pp), t)
      BY <1>2, <2>1, <2>4a, LcmBelow
    <3>3. Divides(l(a), t) /\ Deg(l(a)) < Deg(t) /\ l(a) \in Vectors
      BY <2>1, <2>8, <3>1, <3>2, BetweenIsBelow DEF l
    <3>4. Between(new, gb[b], gb[a]) /\ Divides(Lcm(gb[b].pp, gb[a].pp), t)
      <4>1. Lcm(gb[b].pp, gb[a].pp) = Lcm(gb[a].pp, gb[b].pp)
        BY <1>2, <3>1, LcmFacts
      <4> QED BY <2>8, <3>2, <4>1 DEF Between
    <3>5. Divides(l(b), t) /\ Deg(l(b)) < Deg(t) /\ l(b) \in Vectors
      BY <2>1, <3>1, <3>4, BetweenIsBelow DEF l
    <3>6. Deg(t) <= d /\ Deg(t) \in Nat
      BY <1>4, <2>1, DegDivides, DividesFacts DEF t
    <3>7. Joins(Below(g, c, l(a)), F, a, n) /\ Joins(Below(g, c, l(b)), F, b, n)
      <4>1. Deg(l(a)) < d /\ Deg(l(b)) < d
        BY <1>3, <3>1, <3>3, <3>5, <3>6
      <4> QED BY <1>4, <3>1, <4>1
    <3>8. Below(g, c, l(a)) \subseteq C /\ Below(g, c, l(b)) \subseteq C
      BY <1>1, <2>1, <3>1, <3>3, <3>5, BelowFacts DEF C
    <3>9. /\ n \in C /\ a \in C /\ b \in C
          /\ n \in Below(g, c, l(a)) /\ n \in Below(g, c, l(b))
          /\ a \in Below(g, c, l(a)) /\ b \in Below(g, c, l(b))
      BY <1>3, <3>1, <3>8
    <3>10. Joins(C, F, a, n) /\ Joins(C, F, b, n)
      BY <3>7, <3>8, <3>9, JoinsMore
    <3>11. Joins(C, F, a, b)
      BY <3>9, <3>10, JoinsFacts
    <3> QED BY <2>6, <3>9, <3>11 DEF Joins
  <2> QED BY <1>1, <2>4a, <2>6, <2>7, <2>8 DEF Survives
<1>5. 0 \in S
  BY <1>3
<1>6. ASSUME NEW d \in Nat, d \in S PROVE d + 1 \in S
  <2> SUFFICES ASSUME NEW k \in DOMAIN gb, gb[k].comp = c, Deg(l(k)) < d + 1
               PROVE  Joins(Below(g, c, l(k)), F, k, n)
    OBVIOUS
  <2>1. PICK i \in DOMAIN gb : gb[i].comp = c /\ {i, n} \in F /\ Divides(l(i), l(k))
    BY DEF l, Reached
  <2> DEFINE t == l(k)
             m == Lcm(gb[i].pp, gb[k].pp)
             C == Below(g, c, t)
  <2>2. t \in Vectors /\ Divides(gb[k].pp, t) /\ Deg(t) \in Nat /\ Deg(t) <= d
        /\ k \in C /\ n \in C
    BY <1>3, <1>6
  <2>3. l(i) \in Vectors /\ Divides(gb[i].pp, l(i))
    BY <1>3
  <2>4. Divides(gb[i].pp, t)
    BY <1>2, <2>1, <2>2, <2>3, DividesFacts
  <2>5. i \in C
    BY <1>1, <2>1, <2>4 DEF Below
  <2>6. m \in Vectors /\ Divides(m, t) /\ i \in Below(g, c, m) /\ k \in Below(g, c, m)
    <3>1. m \in Vectors /\ Divides(m, t)
      BY <1>2, <2>2, <2>4, LcmFacts
    <3>2. Divides(gb[i].pp, m) /\ Divides(gb[k].pp, m)
      BY <1>2, LcmFacts
    <3> QED BY <1>1, <2>1, <3>1, <3>2 DEF Below
  <2> HIDE DEF t
  <2>7. Deg(m) \in Nat /\ Deg(m) <= d
    <3>1. Deg(m) \in Nat /\ Deg(m) <= Deg(t)
      BY <2>2, <2>6, DegDivides
    <3> HIDE DEF m
    <3> QED BY <2>2, <3>1
  <2>8. Joins(Below(g, c, m), F, i, k)
    <3>1. D(d)
      BY <1>6
    <3> HIDE DEF D
    <3> QED BY <1>4, <2>1, <2>7, <3>1
  <2> HIDE DEF m, C, D
  <2>9. Below(g, c, m) \subseteq C
    BY <1>1, <2>2, <2>6, BelowFacts DEF C
  <2>10. Joins(C, F, i, k)
    BY <2>6, <2>8, <2>9, JoinsMore
  <2>11. Joins(C, F, i, n) /\ Joins(C, F, k, i)
    BY <2>1, <2>2, <2>5, <2>10, JoinsFacts
  <2>12. Joins(C, F, k, n)
    BY <2>2, <2>5, <2>11, JoinsFacts
  <2> QED BY <2>12 DEF C, t
<1> HIDE DEF S
<1>7. Nat \subseteq S
  BY <1>5, <1>6, SetInduction
<1>8. \A d \in Nat : D(d)
  BY <1>7 DEF S
<1> HIDE DEF D
<1>9. ASSUME NEW k \in DOMAIN gb, gb[k].comp = c
      PROVE  Joins(Below(g, c, l(k)), F, k, n) /\ Joins(Below(g, c, l(k)), F, n, k)
  <2>1. D(Deg(l(k)) + 1) /\ Deg(l(k)) < Deg(l(k)) + 1
    BY <1>3, <1>8
  <2>2. Joins(Below(g, c, l(k)), F, k, n)
    BY <1>9, <2>1 DEF D
  <2> QED BY <1>3, <1>9, <2>2, JoinsFacts
<1>10. ASSUME NEW i \in DOMAIN g, NEW j \in DOMAIN g, g[i].comp = g[j].comp
       PROVE  Joins(Below(g, g[i].comp, Lcm(g[i].pp, g[j].pp)), F, i, j)
  <2>1. CASE i = n /\ j = n
    BY <2>1 DEF Joins
  <2>2. CASE i = n /\ j \in DOMAIN gb
    <3>1. Lcm(g[i].pp, g[j].pp) = l(j) /\ g[i].comp = c /\ gb[j].comp = c
      BY <1>1, <1>2, <1>10, <2>2, LcmFacts DEF l
    <3> QED BY <1>9, <2>2, <3>1
  <2>3. CASE i \in DOMAIN gb /\ j = n
    <3>1. Lcm(g[i].pp, g[j].pp) = l(i) /\ g[i].comp = c /\ gb[i].comp = c
      BY <1>1, <1>10, <2>3 DEF l
    <3> QED BY <1>9, <2>3, <3>1
  <2>4. CASE i \in DOMAIN gb /\ j \in DOMAIN gb
    <3> DEFINE d == Deg(Lcm(gb[i].pp, gb[j].pp))
    <3>1. d \in Nat
      BY <1>2, <2>4, LcmFacts, DegDivides, DividesFacts
    <3>2. /\ Lcm(g[i].pp, g[j].pp) = Lcm(gb[i].pp, gb[j].pp)
          /\ g[i].comp = gb[i].comp /\ gb[i].comp = gb[j].comp
      BY <1>1, <1>10, <2>4
    <3>3. D(d) /\ d <= d
      BY <1>8, <3>1
    <3> QED BY <1>4, <2>4, <3>1, <3>2, <3>3
  <2> QED BY <1>1, <2>1, <2>2, <2>3, <2>4
<1> QED BY <1>10 DEF AllJoined

(***************************************************************************)
(* The edges of a state: pairs treated, coprime or queued.                 *)
(***************************************************************************)
Edge(a, b) ==
  \/ {a, b} \in treated
  \/ myCoprime /\ IsCoprime(myGB[a].pp, myGB[b].pp)
  \/ \E p \in myPairs : ~IsInputPoly(p) /\ {p.first, p.second} = {a, b}
Edges == {e \in SUBSET DOMAIN myGB : \E a, b \in DOMAIN myGB : e = {a, b} /\ Edge(a, b)}

AccountInv == phase # "found" => AllJoined(myGB, Edges)

LEMMA EdgesAreEdges == \A a, b \in DOMAIN myGB : {a, b} \in Edges <=> Edge(a, b)
<1> SUFFICES ASSUME NEW a \in DOMAIN myGB, NEW b \in DOMAIN myGB
             PROVE  {a, b} \in Edges <=> Edge(a, b)
  OBVIOUS
<1>1. Edge(a, b) => {a, b} \in Edges
  BY DEF Edges
<1>2. ASSUME {a, b} \in Edges PROVE Edge(a, b)
  <2>1. PICK c \in DOMAIN myGB, d \in DOMAIN myGB : {a, b} = {c, d} /\ Edge(c, d)
    BY <1>2 DEF Edges
  <2>2. (c = a /\ d = b) \/ (c = b /\ d = a)
    BY <2>1
  <2>3. Edge(b, a) => Edge(a, b)
    <3>1. {a, b} = {b, a}
      OBVIOUS
    <3>2. IsCoprime(myGB[b].pp, myGB[a].pp) => IsCoprime(myGB[a].pp, myGB[b].pp)
      BY DEF IsCoprime
    <3> QED BY <3>1, <3>2 DEF Edge
  <2> QED BY <2>1, <2>2, <2>3
<1> QED BY <1>1, <1>2

\* The same leading terms and no fewer edges.
SameTerms(gb, g) ==
  /\ DOMAIN g = DOMAIN gb
  /\ \A i \in DOMAIN gb : g[i].pp = gb[i].pp /\ g[i].comp = gb[i].comp
KeepsEdges(gb, E, F) == \A a, b \in DOMAIN gb : {a, b} \in E => {a, b} \in F

LEMMA SameBasisJoined ==
  ASSUME NEW gb \in Seq(Elements), NEW E, AllJoined(gb, E), NEW g, NEW F,
         SameTerms(gb, g), KeepsEdges(gb, E, F)
  PROVE  AllJoined(g, F)
<1> SUFFICES ASSUME NEW i \in DOMAIN gb, NEW j \in DOMAIN gb, gb[i].comp = gb[j].comp
             PROVE  Joins(Below(g, gb[i].comp, Lcm(gb[i].pp, gb[j].pp)), F, i, j)
  BY DEF AllJoined, SameTerms
<1> DEFINE B == Below(gb, gb[i].comp, Lcm(gb[i].pp, gb[j].pp))
<1>1. Below(g, gb[i].comp, Lcm(gb[i].pp, gb[j].pp)) = B
  BY DEF Below, SameTerms
<1>2. Joins(B, E, i, j)
  BY DEF AllJoined
<1>3. i \in B /\ j \in B /\ B \subseteq DOMAIN gb
  <2>1. gb[i] \in Elements /\ gb[j] \in Elements
    OBVIOUS
  <2>2. gb[i].pp \in Vectors /\ gb[j].pp \in Vectors
    BY <2>1, ElementFields
  <2> QED BY <2>2, LcmFacts DEF Below
<1> HIDE DEF B
<1>4. Joins(B, F, i, j)
  <2>1. \A a, b \in B : {a, b} \in E => {a, b} \in F
    BY <1>3, Zenon DEF KeepsEdges
  <2> QED BY <1>2, <1>3, <2>1, JoinsMore
<1> QED BY <1>1, <1>4

LEMMA GrownJoined ==
  ASSUME TypeInv, TypeInv', ReducedInv, AllJoined(myGB, Edges), UNCHANGED inputs,
         NEW p \in myPairs, NEW new, Grown(p, new), NEW n, n = Len(myGB) + 1
  PROVE  AllJoined(myGB', Edges')
<1>a. Extends(myGB, new, myGB', n) /\ new \in Elements
  BY GrownExtends DEF Grown
<1>b. n \in Nat \ {0}
  BY <1>a DEF Extends
<1>c. /\ DOMAIN myGB' = DOMAIN myGB \union {n} /\ myGB'[n] = new
      /\ \A i \in DOMAIN myGB :
           myGB[i] \in Elements /\ myGB'[i].pp = myGB[i].pp /\ myGB'[i].comp = myGB[i].comp
  BY <1>a DEF Extends
<1>d. myCoprime' <=> myCoprime
  BY DEF myCoprime, IamModule
<1>e. /\ myPairs' = {q \in myPairs \ {p} : ~BCriterionKills(new, q)}
                      \union BuildNewPairs(Append(myGB, new))
      /\ treated' = WithTreated(p)
  BY DEF Grown
<1>f. \A a, b \in DOMAIN myGB' : {a, b} \in Edges' <=> Edge(a, b)'
  <2>1. (\A a, b \in DOMAIN myGB : {a, b} \in Edges <=> Edge(a, b))'
    BY EdgesAreEdges, PTL
  <2> QED BY <2>1
<1>g. myGB \in Seq(Elements)
  BY DEF TypeInv
\* What becomes of an old edge.
<1>1. ASSUME NEW a \in DOMAIN myGB, NEW b \in DOMAIN myGB,
             myGB[a].comp = myGB[b].comp, {a, b} \in Edges
      PROVE  {a, b} \in Edges' \/ Between(new, myGB[a], myGB[b])
  <2> SUFFICES ASSUME ~Between(new, myGB[a], myGB[b]) PROVE Edge(a, b)'
    BY <1>c, <1>f
  <2>1. Edge(a, b)
    BY <1>1, EdgesAreEdges
  <2>2. CASE {a, b} \in treated
    BY <1>e, <2>2 DEF Edge, WithTreated
  <2>3. CASE myCoprime /\ IsCoprime(myGB[a].pp, myGB[b].pp)
    BY <1>c, <1>d, <2>3 DEF Edge
  <2>4. CASE \E q \in myPairs : ~IsInputPoly(q) /\ {q.first, q.second} = {a, b}
    <3>1. PICK q \in myPairs : ~IsInputPoly(q) /\ {q.first, q.second} = {a, b}
      BY <2>4
    <3>2. CASE q = p
      BY <1>e, <3>1, <3>2 DEF Edge, WithTreated
    <3>3. ~BCriterionKills(new, q)
      <4> SUFFICES ASSUME BCriterionKills(new, q) PROVE FALSE
        OBVIOUS
      <4>1. myGB[a].pp \in Vectors /\ myGB[b].pp \in Vectors
        BY <1>c, ElementFields
      <4>2. (q.first = a /\ q.second = b) \/ (q.first = b /\ q.second = a)
        BY <3>1
      <4>3. LCM(q) = Lcm(myGB[a].pp, myGB[b].pp)
        BY <3>1, <4>1, <4>2, LcmFacts DEF LCM
      <4>4. /\ myGB[q.first].comp = new.comp /\ Divides(new.pp, LCM(q))
            /\ Lcm(myGB[q.second].pp, new.pp) # LCM(q)
            /\ Lcm(myGB[q.first].pp, new.pp) # LCM(q)
        BY DEF BCriterionKills
      <4>5. Between(new, myGB[a], myGB[b])
        BY <1>1, <4>2, <4>3, <4>4 DEF Between
      <4> QED BY <4>5
    <3>4. CASE q # p
      <4>1. q \in myPairs'
        BY <1>e, <3>1, <3>3, <3>4
      <4> QED BY <3>1, <4>1 DEF Edge, IsInputPoly
    <3> QED BY <3>2, <3>4
  <2> QED BY <2>1, <2>2, <2>3, <2>4 DEF Edge
\* A new edge below each new lcm.
<1>2. ASSUME NEW k \in DOMAIN myGB, myGB[k].comp = new.comp
      PROVE  \E i \in DOMAIN myGB :
                /\ myGB[i].comp = new.comp /\ {i, n} \in Edges'
                /\ Divides(Lcm(myGB[i].pp, new.pp), Lcm(myGB[k].pp, new.pp))
  <2>1. PICK m \in DOMAIN myGB : myGB[m].active /\ Reduces(myGB[m], myGB[k])
    BY DEF ReducedInv
  <2>2. PICK K \in SUBSET DOMAIN myGB : PairsKept(myGB, new, n, K)
    BY <1>a, <1>g, NewPairsOfGrown
  <2>3. myGB[m].comp = new.comp
    BY <1>2, <2>1 DEF Reduces
  <2>4. PICK i \in K : Divides(Lcm(myGB[i].pp, new.pp), Lcm(myGB[m].pp, new.pp))
    BY <2>1, <2>2, <2>3 DEF PairsKept
  <2>5. i \in DOMAIN myGB /\ myGB[i].comp = new.comp
    BY <2>2 DEF PairsKept
  <2>6. Divides(Lcm(myGB[i].pp, new.pp), Lcm(myGB[k].pp, new.pp))
    <3> DEFINE mi == Lcm(myGB[i].pp, new.pp)
               mm == Lcm(myGB[m].pp, new.pp)
               mk == Lcm(myGB[k].pp, new.pp)
    <3>1. /\ myGB[i].pp \in Vectors /\ myGB[m].pp \in Vectors /\ myGB[k].pp \in Vectors
          /\ new.pp \in Vectors /\ Divides(myGB[m].pp, myGB[k].pp)
      BY <1>a, <1>c, <2>1, <2>5, ElementFields DEF Reduces
    <3>2. mi \in Vectors /\ mm \in Vectors /\ mk \in Vectors
          /\ Divides(myGB[k].pp, mk) /\ Divides(new.pp, mk)
      BY <3>1, LcmFacts
    <3>3. Divides(myGB[m].pp, mk)
      BY <3>1, <3>2, DividesFacts
    <3>4. Divides(mm, mk)
      BY <3>1, <3>2, <3>3, LcmFacts
    <3> QED BY <2>4, <3>2, <3>4, DividesFacts
  <2>7. {i, n} \in Edges'
    <3> SUFFICES Edge(i, n)'
      BY <1>c, <1>f, <2>5
    <3>1. CASE myCoprime /\ IsCoprime(myGB[i].pp, new.pp)
      BY <1>c, <1>d, <2>5, <3>1 DEF Edge
    <3>2. CASE ~(myCoprime /\ IsCoprime(myGB[i].pp, new.pp))
      <4>1. GPair(i, n) \in myPairs'
        BY <1>e, <2>2, <3>2 DEF PairsKept
      <4>2. /\ ~IsInputPoly(GPair(i, n))
            /\ {GPair(i, n).first, GPair(i, n).second} = {i, n}
        BY <1>b DEF IsInputPoly, GPair
      <4> QED BY <4>1, <4>2 DEF Edge, IsInputPoly
    <3> QED BY <3>1, <3>2
  <2> QED BY <2>5, <2>6, <2>7
<1>3. Survives(myGB, new, Edges, Edges')
  BY <1>1, Zenon DEF Survives
<1>4. Reached(myGB, new, n, Edges')
  BY <1>2, Zenon DEF Reached
<1> QED BY <1>a, <1>g, <1>3, <1>4, GrowthKeepsJoins, Zenon

LEMMA NextAccountInv ==
  TypeInv /\ TypeInv' /\ ReducedInv /\ AccountInv /\ [Next]_vars => AccountInv'
<1> SUFFICES ASSUME TypeInv, TypeInv', ReducedInv, AccountInv, [Next]_vars, phase' # "found"
             PROVE  AllJoined(myGB', Edges')
  BY DEF AccountInv
<1>a. \A a, b \in DOMAIN myGB' : {a, b} \in Edges' <=> Edge(a, b)'
  <2>1. (\A a, b \in DOMAIN myGB : {a, b} \in Edges <=> Edge(a, b))'
    BY EdgesAreEdges, PTL
  <2> QED BY <2>1
<1>b. UNCHANGED inputs /\ (myCoprime' <=> myCoprime) /\ myGB \in Seq(Elements)
  BY DEF Next, vars, myCoprime, IamModule, TypeInv
<1>1. CASE UNCHANGED vars
  <2>1. Edges' = Edges
    BY <1>1 DEF vars, Edges, Edge, myCoprime, IamModule
  <2> QED BY <1>1, <2>1 DEF vars, AccountInv
<1>2. CASE FinalizeGBasis
  <2>1. UNCHANGED <<myPairs, treated>> /\ AllJoined(myGB, Edges)
    BY <1>2 DEF FinalizeGBasis, AccountInv
  <2>2. /\ DOMAIN myGB' = DOMAIN myGB
        /\ \A i \in DOMAIN myGB : myGB'[i].pp = myGB[i].pp /\ myGB'[i].comp = myGB[i].comp
    BY <1>2, Finalized
  <2>3. ASSUME NEW a \in DOMAIN myGB, NEW b \in DOMAIN myGB, {a, b} \in Edges
        PROVE  {a, b} \in Edges'
    <3>1. Edge(a, b)
      BY <2>3, EdgesAreEdges
    <3>2. Edge(a, b)'
      BY <1>b, <2>1, <2>2, <3>1 DEF Edge
    <3> QED BY <1>a, <2>2, <3>2
  <2>4. SameTerms(myGB, myGB') /\ KeepsEdges(myGB, Edges, Edges')
    BY <2>2, <2>3, Zenon DEF SameTerms, KeepsEdges
  <2> QED BY <1>b, <2>1, <2>4, SameBasisJoined, Zenon
<1>3. ASSUME NEW p \in myPairs, ReduceToZero(p), phase = "loop" PROVE AllJoined(myGB', Edges')
  <2>1. /\ UNCHANGED myGB /\ myPairs' = myPairs \ {p} /\ treated' = WithTreated(p)
        /\ AllJoined(myGB, Edges)
    BY <1>3 DEF ReduceToZero, AccountInv
  <2>2. ASSUME NEW a \in DOMAIN myGB, NEW b \in DOMAIN myGB, {a, b} \in Edges
        PROVE  {a, b} \in Edges'
    <3>1. Edge(a, b)
      BY <2>2, EdgesAreEdges
    <3>2. CASE \E q \in myPairs : ~IsInputPoly(q) /\ {q.first, q.second} = {a, b}
      <4>1. PICK q \in myPairs : ~IsInputPoly(q) /\ {q.first, q.second} = {a, b}
        BY <3>2
      <4>2. CASE q = p
        BY <1>a, <2>1, <4>1, <4>2 DEF Edge, WithTreated
      <4>3. CASE q # p
        <5>1. Edge(a, b)'
          BY <2>1, <4>1, <4>3 DEF Edge, IsInputPoly
        <5> QED BY <1>a, <2>1, <5>1
      <4> QED BY <4>2, <4>3
    <3>3. CASE {a, b} \in treated \/ (myCoprime /\ IsCoprime(myGB[a].pp, myGB[b].pp))
      <4>1. Edge(a, b)'
        BY <1>b, <2>1, <3>3 DEF Edge, WithTreated
      <4> QED BY <1>a, <2>1, <4>1
    <3> QED BY <3>1, <3>2, <3>3, Zenon DEF Edge
  <2>3. KeepsEdges(myGB, Edges, Edges') /\ SameTerms(myGB, myGB')
    BY <2>1, <2>2, Zenon DEF KeepsEdges, SameTerms
  <2> QED BY <1>b, <2>1, <2>3, SameBasisJoined, Zenon
<1>4. ASSUME NEW p \in myPairs, NewPolyInGB(p), phase = "loop" PROVE AllJoined(myGB', Edges')
  <2>1. PICK new : Restarted(new) \/ Grown(p, new)
    BY <1>4, NewPolyCases
  <2>2. CASE Restarted(new)
    <3>1. DOMAIN myGB' = {1}
      BY <2>2 DEF Restarted
    <3> QED BY <3>1 DEF AllJoined, Joins
  <2>3. CASE Grown(p, new)
    <3>1. AllJoined(myGB, Edges)
      BY <1>4 DEF AccountInv
    <3>2. \E n : n = Len(myGB) + 1
      OBVIOUS
    <3> QED BY <1>b, <2>3, <3>1, <3>2, GrownJoined
  <2> QED BY <2>1, <2>2, <2>3
<1>5. ASSUME NEW p \in myPairs, FirstElimPolyFound(p) PROVE FALSE
  BY <1>5 DEF FirstElimPolyFound
<1> QED BY <1>1, <1>2, <1>3, <1>4, <1>5, LoopCases

LEMMA AccountInvAccounts == TypeInv /\ AccountInv => EveryPairAccounted
<1> SUFFICES ASSUME TypeInv, AccountInv, phase # "found", NEW i \in DOMAIN myGB,
                    NEW j \in DOMAIN myGB, myGB[i].comp = myGB[j].comp
             PROVE  Joined(i, j)
  BY DEF EveryPairAccounted
<1> DEFINE t == Lcm(myGB[i].pp, myGB[j].pp)
           B == Below(myGB, myGB[i].comp, t)
<1>1. Joins(B, Edges, i, j)
  BY DEF AccountInv, AllJoined
<1>2. \A k \in DOMAIN myGB : myGB[k].pp \in Vectors
  <2>1. \A k \in DOMAIN myGB : myGB[k] \in Elements
    BY DEF TypeInv
  <2> QED BY <2>1, ElementFields
<1>3. ASSUME NEW a \in B, NEW b \in B, {a, b} \in Edges PROVE Linked(a, b, t)
  <2>1. /\ a \in DOMAIN myGB /\ b \in DOMAIN myGB
        /\ Divides(myGB[a].pp, t) /\ Divides(myGB[b].pp, t)
    BY DEF Below
  <2>2. Divides(Lcm(myGB[a].pp, myGB[b].pp), t)
    BY <1>2, <2>1, LcmFacts
  <2>3. Edge(a, b)
    BY <1>3, <2>1, EdgesAreEdges
  <2> QED BY <2>2, <2>3 DEF Linked, Edge
<1>4. B = {k \in DOMAIN myGB : myGB[k].comp = myGB[i].comp /\ Divides(myGB[k].pp, t)}
  BY DEF Below
<1> HIDE DEF B
<1>5. \A S \in SUBSET B : i \in S /\ j \notin S => \E a \in S, b \in B \ S : Linked(a, b, t)
  BY <1>1, <1>3 DEF Joins
<1> HIDE DEF t
<1> QED BY <1>4, <1>5, Zenon DEF Joined, t

\* Buchberger's criterion, whatever pairs myGMInsert, the B-criterion, the coprime
\* criterion and the deactivation of elements have dropped: with no pair left, every
\* S-polynomial is a consequence of those that were reduced to zero or that vanish.
THEOREM EveryPairIsAccounted == Spec => []EveryPairAccounted
<1>1. Init => ReducedInv /\ AccountInv
  BY DEF Init, ReducedInv, AccountInv, AllJoined
<1> QED BY <1>1, TypesAreKept, NextReducedInv, NextAccountInv, AccountInvAccounts, PTL DEF Spec

=============================================================================
