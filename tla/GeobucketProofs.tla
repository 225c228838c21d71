--------------------------- MODULE GeobucketProofs ---------------------------
EXTENDS Geobucket, NatFacts, FiniteSetTheorems, TLAPS

-----------------------------------------------------------------------------
(* Arithmetic modulo p.                                                      *)

LEMMA Prime == p \in Nat \ {0, 1} /\ 0 \in P!Coeffs /\ 1 \in 1..p - 1
  BY FieldAssumption DEF P!Coeffs

LEMMA Residue == \A a \in Int : a % p \in P!Coeffs
<1> SUFFICES ASSUME NEW a \in Int PROVE a % p \in 0..p - 1
  BY DEF P!Coeffs
<1> QED BY Prime

LEMMA SmallResidue == \A a \in P!Coeffs : a \in Int /\ a % p = a
<1> SUFFICES ASSUME NEW a \in P!Coeffs PROVE a \in Int /\ a % p = a
  OBVIOUS
<1>1. a \in Nat /\ a < p /\ p \in Nat
  BY Prime DEF P!Coeffs
<1> QED BY <1>1

LEMMA Division ==
  \A a \in Int : \E q \in Int : a = p * q + (a % p)
<1> SUFFICES ASSUME NEW a \in Int PROVE \E q \in Int : a = p * q + (a % p)
  OBVIOUS
<1>1. a \div p \in Int /\ a = p * (a \div p) + (a % p)
  BY Prime
<1> QED BY <1>1

LEMMA UniqueResidue ==
  ASSUME NEW q \in Int, NEW r \in P!Coeffs
  PROVE  (p * q + r) % p = r
<1>1. r \in Nat /\ r < p /\ p \in Nat \ {0}
  BY Prime DEF P!Coeffs
<1> QED BY <1>1

\* A prime divides no product of smaller numbers.
LEMMA NoZeroDivisor ==
  ASSUME NEW a \in 1..p - 1, NEW b \in 1..p - 1
  PROVE  (a * b) % p \in 1..p - 1
<1> SUFFICES ASSUME (a * b) % p = 0 PROVE FALSE
  <2>1. a * b \in Int
    BY Prime
  <2>2. (a * b) % p \in 0..p - 1
    BY <2>1, Residue DEF P!Coeffs
  <2> QED BY <2>2, Prime
<1>1. a \in Int /\ b \in Int /\ a * b \in Int
  BY Prime
<1>2. PICK q \in Int : a * b = p * q + 0
  <2>1. (a * b) % p = 0
    OBVIOUS
  <2> QED BY <1>1, <2>1, Division, Zenon
<1>3. PICK d \in 1..p - 1 : (b * d) % p = 1
  BY FieldAssumption
<1>4. d \in Int /\ b * d \in Int
  BY <1>1, Prime
<1>5. PICK r \in Int : b * d = p * r + 1
  BY <1>3, <1>4, Division, Zenon
<1>6. a * (b * d) = (a * b) * d
  BY <1>1, <1>4
<1>7. a * (p * r + 1) = (p * q) * d
  BY <1>2, <1>5, <1>6, Prime
<1>8. a = p * (q * d - a * r)
  <2>1. a * (p * r + 1) = p * (a * r) + a /\ (p * q) * d = p * (q * d)
    BY <1>1, <1>4, Prime
  <2>2. p * (q * d - a * r) = p * (q * d) - p * (a * r)
    BY <1>1, <1>4, Prime
  <2>3. p * (a * r) \in Int /\ p * (q * d) \in Int
    BY <1>1, <1>4, Prime
  <2> QED BY <1>1, <1>7, <2>1, <2>2, <2>3
<1>9. (p * (q * d - a * r) + 0) % p = 0 /\ a % p = a
  <2>1. q * d - a * r \in Int
    BY <1>1, <1>4
  <2>2. a \in P!Coeffs
    BY Prime DEF P!Coeffs
  <2> QED BY <2>1, <2>2, Prime, UniqueResidue, SmallResidue
<1>10. p * (q * d - a * r) + 0 = a
  BY <1>1, <1>8
<1> QED BY <1>9, <1>10

LEMMA InverseExists ==
  ASSUME NEW c \in 1..p - 1
  PROVE  P!Inverse(c) \in 1..p - 1 /\ (c * P!Inverse(c)) % p = 1
<1>1. PICK d \in 1..p - 1 : (c * d) % p = 1
  BY FieldAssumption
<1>2. d \in P!Coeffs
  BY Prime DEF P!Coeffs
<1>3. P!Inverse(c) \in P!Coeffs /\ (c * P!Inverse(c)) % p = 1
  BY <1>1, <1>2 DEF P!Inverse
<1>4. P!Inverse(c) # 0
  <2> SUFFICES ASSUME P!Inverse(c) = 0 PROVE FALSE
    OBVIOUS
  <2>1. c * 0 = 0
    BY Prime
  <2>2. 0 % p = 1
    BY <1>3, <2>1
  <2> QED BY <2>2, Prime, SmallResidue
<1>5. \A x \in P!Coeffs : x # 0 => x \in 1..p - 1
  BY Prime DEF P!Coeffs
<1> QED BY <1>3, <1>4, <1>5, Zenon

-----------------------------------------------------------------------------
(* Polynomials.                                                              *)

LEMMA Degrees == MaxDeg \in Nat /\ P!Exponents = 0..MaxDeg /\ IsFiniteSet(P!Exponents)
<1>1. MaxDeg \in Nat /\ P!Exponents = 0..MaxDeg
  BY GeobucketAssumption DEF P!Exponents
<1>2. IsFiniteSet(0..MaxDeg)
  BY <1>1, FS_Interval
<1> QED BY <1>1, <1>2

LEMMA TermCount ==
  ASSUME NEW f PROVE P!NumTerms(f) = Cardinality(P!Support(f))
<1>1. ASSUME NEW S PROVE P!Cardinality(S) = Cardinality(S)
  BY Zenon DEF P!Cardinality, Cardinality
<1> QED BY <1>1, Zenon DEF P!NumTerms

LEMMA SupportFacts ==
  ASSUME NEW f \in P!Poly
  PROVE  /\ P!Support(f) \subseteq P!Exponents /\ IsFiniteSet(P!Support(f))
         /\ P!NumTerms(f) \in Nat
         /\ f = P!ZeroPoly <=> P!Support(f) = {}
<1>1. P!Support(f) \subseteq P!Exponents /\ IsFiniteSet(P!Support(f))
  BY Degrees, FS_Subset DEF P!Support
<1>2. P!NumTerms(f) \in Nat
  BY <1>1, FS_CardinalityType, TermCount, Zenon
<1>3. f = P!ZeroPoly <=> P!Support(f) = {}
  BY DEF P!Poly, P!ZeroPoly, P!Support
<1> QED BY <1>1, <1>2, <1>3

LEMMA ZeroFacts ==
  /\ P!ZeroPoly \in P!Poly /\ P!Support(P!ZeroPoly) = {}
  /\ P!NumTerms(P!ZeroPoly) = 0 /\ P!LPP(P!ZeroPoly) = -1
<1>1. P!ZeroPoly \in P!Poly
  BY Prime DEF P!ZeroPoly, P!Poly
<1>2. P!Support(P!ZeroPoly) = {}
  BY <1>1, SupportFacts
<1>3. P!NumTerms(P!ZeroPoly) = 0
  BY <1>2, FS_EmptySet, TermCount, Zenon
<1> QED BY <1>1, <1>2, <1>3 DEF P!LPP

\* The leading exponent.
LEMMA Leading ==
  ASSUME NEW f \in P!Poly, f # P!ZeroPoly
  PROVE  /\ P!LPP(f) \in P!Support(f) /\ P!LPP(f) \in P!Exponents /\ P!LPP(f) \in Nat
         /\ \A d \in P!Support(f) : d <= P!LPP(f)
         /\ f[P!LPP(f)] \in 1..p - 1
<1> DEFINE S == P!Support(f)
           T == {MaxDeg - e : e \in S}
<1>1. S # {} /\ S \subseteq 0..MaxDeg /\ MaxDeg \in Nat
  BY SupportFacts, Degrees
<1> HIDE DEF S
<1>2. T # {} /\ T \in SUBSET Nat
  BY <1>1
<1>3. PICK m \in T : \A n \in T : m <= n
  <2> HIDE DEF T
  <2> QED BY <1>2, LeastElement
<1>4. PICK e \in S : m = MaxDeg - e
  OBVIOUS
<1>5. ASSUME NEW d \in S PROVE d <= e
  <2>1. m <= MaxDeg - d
    BY <1>3
  <2> QED BY <1>1, <1>4, <2>1
<1>6. P!LPP(f) = CHOOSE x \in S : \A d \in S : d <= x
  BY DEF P!LPP, S
<1>7. P!LPP(f) \in S /\ \A d \in S : d <= P!LPP(f)
  BY <1>4, <1>5, <1>6
<1>8. f[P!LPP(f)] \in 1..p - 1
  <2>1. P!LPP(f) \in P!Exponents /\ f[P!LPP(f)] # 0
    BY <1>7 DEF S, P!Support
  <2>2. f[P!LPP(f)] \in 0..p - 1
    BY <2>1 DEF P!Poly, P!Coeffs
  <2> QED BY <2>1, <2>2, Prime
<1>9. P!LPP(f) \in P!Exponents /\ P!LPP(f) \in Nat
  <2>1. S \subseteq P!Exponents /\ \A n \in P!Exponents : n \in Nat
    BY <1>1, Degrees
  <2> QED BY <1>7, <2>1, Zenon
<1> QED BY <1>7, <1>8, <1>9 DEF S

LEMMA LPPType ==
  ASSUME NEW f \in P!Poly
  PROVE  P!LPP(f) \in Int /\ P!LPP(f) >= -1 /\ (P!LPP(f) = -1 <=> f = P!ZeroPoly)
<1>1. CASE f = P!ZeroPoly
  BY <1>1, ZeroFacts
<1>2. CASE f # P!ZeroPoly
  BY <1>2, Leading
<1> QED BY <1>1, <1>2

LEMMA LeadingIs ==
  ASSUME NEW f \in P!Poly, NEW e \in P!Support(f), \A d \in P!Support(f) : d <= e
  PROVE  P!LPP(f) = e /\ f # P!ZeroPoly
<1>1. f # P!ZeroPoly
  BY SupportFacts
<1>2. P!LPP(f) \in P!Support(f) /\ \A d \in P!Support(f) : d <= P!LPP(f)
  BY <1>1, Leading
<1>3. P!LPP(f) <= e /\ e <= P!LPP(f)
  BY <1>2
<1>4. e \in Int /\ P!LPP(f) \in Int
  BY LPPType, Degrees, SupportFacts
<1> QED BY <1>1, <1>3, <1>4

\* A smaller support has no higher leading exponent.
LEMMA LeadingBelow ==
  ASSUME NEW f \in P!Poly, NEW m \in Int, m >= 0,
         \A d \in P!Support(f) : d < m
  PROVE  P!LPP(f) < m
<1>1. CASE f = P!ZeroPoly
  BY <1>1, ZeroFacts
<1>2. CASE f # P!ZeroPoly
  BY <1>2, Leading
<1> QED BY <1>1, <1>2

LEMMA SameSupport ==
  ASSUME NEW f \in P!Poly, NEW g \in P!Poly, P!Support(f) = P!Support(g)
  PROVE  P!NumTerms(f) = P!NumTerms(g) /\ P!LPP(f) = P!LPP(g) /\ (f = P!ZeroPoly <=> g = P!ZeroPoly)
<1>1. P!NumTerms(f) = P!NumTerms(g)
  BY DEF P!NumTerms
<1>2. f = P!ZeroPoly <=> g = P!ZeroPoly
  BY SupportFacts
<1>3. P!LPP(f) = P!LPP(g)
  BY <1>2 DEF P!LPP
<1> QED BY <1>1, <1>2, <1>3

LEMMA PlusFacts ==
  ASSUME NEW f \in P!Poly, NEW g \in P!Poly
  PROVE  /\ P!Plus(f, g) \in P!Poly
         /\ P!Support(P!Plus(f, g)) \subseteq P!Support(f) \cup P!Support(g)
         /\ P!NumTerms(P!Plus(f, g)) <= P!NumTerms(f) + P!NumTerms(g)
         /\ \A e \in P!Exponents : /\ g[e] = 0 => P!Plus(f, g)[e] = f[e]
                                   /\ f[e] = 0 => P!Plus(f, g)[e] = g[e]
<1>0. \A e \in P!Exponents : f[e] \in P!Coeffs /\ g[e] \in P!Coeffs
  BY DEF P!Poly
<1>1. P!Plus(f, g) \in P!Poly
  <2> SUFFICES ASSUME NEW e \in P!Exponents PROVE (f[e] + g[e]) % p \in P!Coeffs
    BY DEF P!Plus, P!Poly
  <2>1. f[e] \in Int /\ g[e] \in Int
    BY <1>0, SmallResidue
  <2> QED BY <2>1, Residue
<1>2. ASSUME NEW e \in P!Exponents
      PROVE  /\ g[e] = 0 => P!Plus(f, g)[e] = f[e]
             /\ f[e] = 0 => P!Plus(f, g)[e] = g[e]
  <2>1. P!Plus(f, g)[e] = (f[e] + g[e]) % p
    BY DEF P!Plus
  <2>2. f[e] \in Int /\ g[e] \in Int /\ f[e] % p = f[e] /\ g[e] % p = g[e]
    BY <1>0, SmallResidue
  <2>3. g[e] = 0 => f[e] + g[e] = f[e]
    BY <2>2
  <2>4. f[e] = 0 => f[e] + g[e] = g[e]
    BY <2>2
  <2> QED BY <2>1, <2>2, <2>3, <2>4, Zenon
<1>3. P!Support(P!Plus(f, g)) \subseteq P!Support(f) \cup P!Support(g)
  BY <1>2 DEF P!Support
<1>4. P!NumTerms(P!Plus(f, g)) <= P!NumTerms(f) + P!NumTerms(g)
  <2> DEFINE S == P!Support(f)
             T == P!Support(g)
             U == P!Support(P!Plus(f, g))
  <2>1. IsFiniteSet(S) /\ IsFiniteSet(T)
    BY SupportFacts
  <2>2. U \subseteq S \cup T
    BY <1>3
  <2> HIDE DEF S, T, U
  <2>3. /\ IsFiniteSet(S \cup T) /\ IsFiniteSet(S \cap T)
        /\ Cardinality(S \cup T) = Cardinality(S) + Cardinality(T) - Cardinality(S \cap T)
    BY <2>1, FS_Union, FS_Intersection
  <2>4. Cardinality(U) <= Cardinality(S \cup T) /\ Cardinality(U) \in Nat
    BY <2>2, <2>3, FS_Subset, FS_CardinalityType
  <2>5. /\ Cardinality(S) \in Nat /\ Cardinality(T) \in Nat
        /\ Cardinality(S \cap T) \in Nat /\ Cardinality(S \cup T) \in Nat
    BY <2>1, <2>3, FS_CardinalityType
  <2>6. Cardinality(U) <= Cardinality(S) + Cardinality(T)
    BY <2>3, <2>4, <2>5
  <2> QED BY <2>6, TermCount, Zenon DEF S, T, U
<1> QED BY <1>1, <1>2, <1>3, <1>4

LEMMA TimesFacts ==
  ASSUME NEW c \in 1..p - 1, NEW f \in P!Poly
  PROVE  /\ P!Times(c, f) \in P!Poly
         /\ P!Support(P!Times(c, f)) = P!Support(f)
<1>1. ASSUME NEW e \in P!Exponents
      PROVE  /\ P!Times(c, f)[e] \in P!Coeffs
             /\ P!Times(c, f)[e] = 0 <=> f[e] = 0
  <2>1. P!Times(c, f)[e] = (c * f[e]) % p
    BY DEF P!Times
  <2>2. f[e] \in P!Coeffs /\ c \in Int /\ f[e] \in Int
    BY Prime, SmallResidue DEF P!Poly
  <2>3. c * f[e] \in Int
    BY <2>2
  <2>4. CASE f[e] = 0
    <3>1. c * f[e] = 0
      BY <2>2, <2>4
    <3> QED BY <2>1, <2>4, <3>1, Prime, SmallResidue, Zenon
  <2>5. CASE f[e] # 0
    <3>1. f[e] \in 1..p - 1
      BY <2>2, <2>5, Prime DEF P!Coeffs
    <3>2. (c * f[e]) % p \in 1..p - 1
      BY <3>1, NoZeroDivisor
    <3>3. \A x \in 1..p - 1 : x \in P!Coeffs /\ x # 0
      BY Prime DEF P!Coeffs
    <3> QED BY <2>1, <2>5, <3>2, <3>3, Zenon
  <2> QED BY <2>4, <2>5
<1>2. P!Times(c, f) \in P!Poly
  <2>1. P!Times(c, f) = [e \in P!Exponents |-> P!Times(c, f)[e]]
    BY DEF P!Times
  <2> QED BY <1>1, <2>1 DEF P!Poly
<1> QED BY <1>1, <1>2 DEF P!Support

\* The leading term, and what is left without it.
LEMMA LMTail ==
  ASSUME NEW f \in P!Poly, f # P!ZeroPoly
  PROVE  /\ P!LM(f) \in P!Poly /\ P!Tail(f) \in P!Poly
         /\ P!Support(P!LM(f)) = {P!LPP(f)}
         /\ P!Support(P!Tail(f)) = P!Support(f) \ {P!LPP(f)}
         /\ P!NumTerms(P!LM(f)) = 1
         /\ P!NumTerms(P!Tail(f)) = P!NumTerms(f) - 1
         /\ P!LPP(P!LM(f)) = P!LPP(f)
         /\ P!LPP(P!Tail(f)) < P!LPP(f)
<1>1. P!LM(f) \in P!Poly /\ P!Tail(f) \in P!Poly
  BY Prime DEF P!LM, P!Tail, P!Poly
<1>2. P!LPP(f) \in P!Support(f) /\ P!LPP(f) \in P!Exponents
  BY Leading
<1>3. P!Support(P!LM(f)) = {P!LPP(f)}
  BY <1>2 DEF P!Support, P!LM
<1>4. P!Support(P!Tail(f)) = P!Support(f) \ {P!LPP(f)}
  BY <1>2 DEF P!Support, P!Tail
<1>5. P!NumTerms(P!LM(f)) = 1
  BY <1>3, FS_Singleton, TermCount, Zenon
<1>6. P!NumTerms(P!Tail(f)) = P!NumTerms(f) - 1
  BY <1>2, <1>4, SupportFacts, FS_RemoveElement, TermCount, Zenon
<1>7. P!LPP(f) \in Nat /\ \A d \in P!Support(f) : d <= P!LPP(f) /\ d \in Int
  BY Leading, SupportFacts, Degrees
<1>8. P!LPP(P!LM(f)) = P!LPP(f)
  BY <1>1, <1>3, <1>7, LeadingIs
<1>9. P!LPP(P!Tail(f)) < P!LPP(f)
  <2>1. \A d \in P!Support(P!Tail(f)) : d < P!LPP(f)
    BY <1>4, <1>7
  <2> QED BY <1>1, <1>7, <2>1, LeadingBelow
<1> QED BY <1>1, <1>3, <1>4, <1>5, <1>6, <1>8, <1>9

\* A polynomial with a higher leading term decides that of the sum.
LEMMA HigherLeads ==
  ASSUME NEW f \in P!Poly, NEW g \in P!Poly, P!LPP(f) < P!LPP(g)
  PROVE  P!LPP(P!Plus(f, g)) = P!LPP(g)
<1>1. g # P!ZeroPoly
  BY LPPType
<1> DEFINE e == P!LPP(g)
<1>2. e \in P!Exponents /\ e \in Nat /\ g[e] # 0 /\ \A d \in P!Support(g) : d <= e
  BY <1>1, Leading DEF P!Support
<1>3. \A d \in P!Support(f) : d <= P!LPP(f) /\ d \in Int
  <2>1. CASE f = P!ZeroPoly
    BY <2>1, SupportFacts
  <2>2. CASE f # P!ZeroPoly
    BY <2>2, Leading, SupportFacts, Degrees
  <2> QED BY <2>1, <2>2
<1>4. \A d \in P!Support(f) : d < e
  BY <1>2, <1>3, LPPType
<1>5. f[e] = 0
  BY <1>2, <1>4 DEF P!Support
<1>6. P!Plus(f, g)[e] = g[e]
  BY <1>2, <1>5, PlusFacts
<1>7. e \in P!Support(P!Plus(f, g))
  BY <1>2, <1>6 DEF P!Support
<1>8. \A d \in P!Support(P!Plus(f, g)) : d <= e
  BY <1>2, <1>3, <1>4, PlusFacts
<1> HIDE DEF e
<1> QED BY <1>7, <1>8, PlusFacts, LeadingIs DEF e

\* The leading term of g is added to a polynomial with the same leading exponent.
LEMMA LeadingTermsAdd ==
  ASSUME NEW f \in P!Poly, NEW g \in P!Poly, f # P!ZeroPoly, P!LPP(f) = P!LPP(g)
  PROVE  LET h == P!Plus(f, P!LM(g))
             vanish == P!Plus(P!LM(f), P!LM(g)) = P!ZeroPoly
         IN  /\ h \in P!Poly
             /\ P!Support(h) \subseteq P!Support(f)
             /\ vanish => P!NumTerms(h) = P!NumTerms(f) - 1
             /\ ~vanish => P!Support(h) = P!Support(f)
<1> DEFINE h == P!Plus(f, P!LM(g))
           m == P!LPP(f)
           v == (f[m] + g[m]) % p
<1>1. g # P!ZeroPoly
  BY LPPType
<1>2. m \in P!Exponents /\ m \in P!Support(f)
  BY Leading
<1>3. P!LM(g) \in P!Poly /\ P!LM(f) \in P!Poly
  BY <1>1, LMTail
<1>4. h \in P!Poly
  BY <1>3, PlusFacts
<1>5. h[m] = v
  BY <1>2 DEF P!Plus, P!LM
<1>6. \A e \in P!Exponents \ {m} : h[e] = f[e]
  <2> SUFFICES ASSUME NEW e \in P!Exponents \ {m} PROVE h[e] = f[e]
    OBVIOUS
  <2>1. P!LM(g)[e] = 0
    BY DEF P!LM
  <2> QED BY <1>3, <2>1, PlusFacts
<1>7. P!Plus(P!LM(f), P!LM(g))[m] = v
  BY <1>2 DEF P!Plus, P!LM
<1>8. \A e \in P!Exponents \ {m} : P!Plus(P!LM(f), P!LM(g))[e] = 0
  <2> SUFFICES ASSUME NEW e \in P!Exponents \ {m} PROVE P!Plus(P!LM(f), P!LM(g))[e] = 0
    OBVIOUS
  <2>1. P!LM(g)[e] = 0 /\ P!LM(f)[e] = 0
    BY DEF P!LM
  <2> QED BY <1>3, <2>1, PlusFacts
<1>9. P!Plus(P!LM(f), P!LM(g)) = P!ZeroPoly <=> v = 0
  <2> DEFINE x == P!Plus(P!LM(f), P!LM(g))
  <2>1. x \in P!Poly
    BY <1>3, PlusFacts
  <2>2. x = P!ZeroPoly <=> x[m] = 0
    <3> HIDE DEF x, m, v
    <3> QED BY <1>2, <1>8, <2>1 DEF x, P!ZeroPoly, P!Poly
  <2> QED BY <1>7, <2>2
<1>10. P!Support(h) = IF v = 0 THEN P!Support(f) \ {m} ELSE P!Support(f)
  <2> HIDE DEF h, m, v
  <2> QED BY <1>2, <1>5, <1>6 DEF P!Support
<1>11. v = 0 => P!NumTerms(h) = P!NumTerms(f) - 1
  <2> HIDE DEF h, m, v
  <2> SUFFICES ASSUME v = 0 PROVE P!NumTerms(h) = P!NumTerms(f) - 1
    OBVIOUS
  <2>1. P!Support(h) = P!Support(f) \ {m}
    BY <1>10
  <2> QED BY <1>2, <2>1, SupportFacts, FS_RemoveElement, TermCount, Zenon
<1> QED BY <1>4, <1>9, <1>10, <1>11

\* A multiple has no more terms.
LEMMA ShiftFacts ==
  ASSUME NEW c \in Int, NEW d \in Nat, NEW f \in P!Poly
  PROVE  /\ P!Shift(c, d, f) \in P!Poly
         /\ P!NumTerms(P!Shift(c, d, f)) <= P!NumTerms(f)
<1> DEFINE h == P!Shift(c, d, f)
<1>1. ASSUME NEW e \in P!Exponents
      PROVE  h[e] \in P!Coeffs /\ (h[e] # 0 => e - d \in P!Support(f))
  <2>1. CASE e < d
    BY <2>1, Prime DEF P!Shift
  <2>2. CASE ~(e < d)
    <3>1. e - d \in P!Exponents
      BY <2>2, Degrees
    <3>2. f[e - d] \in P!Coeffs
      BY <3>1 DEF P!Poly
    <3>3. f[e - d] \in Int /\ c * f[e - d] \in Int
      BY <3>2, SmallResidue
    <3>4. h[e] = (c * f[e - d]) % p
      BY <2>2 DEF P!Shift
    <3>5. f[e - d] = 0 => c * f[e - d] = 0
      BY <3>3
    <3>6. f[e - d] = 0 => h[e] = 0
      BY <3>4, <3>5, Prime, SmallResidue, Zenon
    <3>7. h[e] \in P!Coeffs
      BY <3>3, <3>4, Residue, Zenon
    <3> QED BY <3>1, <3>6, <3>7 DEF P!Support
  <2> QED BY <2>1, <2>2
<1>2. h \in P!Poly
  <2>1. h = [e \in P!Exponents |-> h[e]]
    BY DEF P!Shift
  <2> HIDE DEF h
  <2> QED BY <1>1, <2>1 DEF P!Poly
<1> DEFINE S == P!Support(h)
           T == P!Support(f)
           inj == [e \in S |-> e - d]
<1>3. inj \in Injection(S, T)
  <2>1. \A e \in S : e \in Int /\ e - d \in T
    <3> HIDE DEF h
    <3> QED BY <1>1, Degrees DEF P!Support
  <2> HIDE DEF S, T
  <2> QED BY <2>1 DEF Injection, IsInjective
<1>4. IsFiniteSet(S) /\ IsFiniteSet(T)
  <2> HIDE DEF h
  <2> QED BY <1>2, SupportFacts
<1>5. Cardinality(S) <= Cardinality(T)
  <2> HIDE DEF S, T, inj
  <2> QED BY <1>3, <1>4, FS_Injection
<1> QED BY <1>2, <1>5, TermCount, Zenon

\* Sums and multiples of polynomials obey the laws of a vector space.
LEMMA Congruent ==
  ASSUME NEW a \in Int, NEW b \in Int, NEW q \in Int, a = p * q + b
  PROVE  a % p = b % p
<1>1. PICK r \in Int : b = p * r + (b % p)
  BY Division
<1>2. b % p \in P!Coeffs
  BY Residue
<1> PICK c : c = b % p
  OBVIOUS
<1>3. c \in P!Coeffs /\ c \in Int /\ p \in Int /\ b = p * r + c
  BY <1>1, <1>2, Prime, SmallResidue
<1>4. q + r \in Int /\ a = p * (q + r) + c
  BY <1>3
<1>5. (p * (q + r) + c) % p = c
  BY <1>3, <1>4, UniqueResidue, Zenon
<1> QED BY <1>4, <1>5

LEMMA ModPlus ==
  ASSUME NEW a \in Int, NEW b \in Int
  PROVE  ((a % p) + b) % p = (a + b) % p
<1>1. PICK q \in Int : a = p * q + (a % p)
  BY Division
<1> PICK c : c = a % p
  OBVIOUS
<1>2. c \in Int /\ p \in Int
  BY Prime, Residue, SmallResidue
<1>3. a + b = p * q + (c + b) /\ a + b \in Int /\ c + b \in Int
  BY <1>1, <1>2
<1>4. (a + b) % p = (c + b) % p
  BY <1>3, Congruent, Zenon
<1> QED BY <1>4

LEMMA ModTimes ==
  ASSUME NEW a \in Int, NEW b \in Int
  PROVE  (a * (b % p)) % p = (a * b) % p
<1>1. PICK q \in Int : b = p * q + (b % p)
  BY Division
<1> PICK c : c = b % p
  OBVIOUS
<1>2. c \in Int /\ p \in Int
  BY Prime, Residue, SmallResidue
<1>3. a * b = p * (a * q) + a * c
  <2>1. a * b = a * (p * q + c)
    BY <1>1
  <2>2. a * (p * q + c) = a * (p * q) + a * c
    BY <1>2
  <2>3. a * (p * q) = p * (a * q)
    BY <1>2
  <2> QED BY <2>1, <2>2, <2>3
<1>4. a * b \in Int /\ a * c \in Int /\ a * q \in Int
  BY <1>2
<1>5. (a * b) % p = (a * c) % p
  BY <1>3, <1>4, Congruent, Zenon
<1> QED BY <1>5

LEMMA At ==
  ASSUME NEW f \in P!Poly, NEW e \in P!Exponents
  PROVE  f[e] \in P!Coeffs /\ f[e] \in Int /\ f[e] % p = f[e]
<1>1. f[e] \in P!Coeffs
  BY DEF P!Poly
<1> QED BY <1>1, SmallResidue

LEMMA PolyEqual ==
  ASSUME NEW f \in P!Poly, NEW g \in P!Poly, \A e \in P!Exponents : f[e] = g[e]
  PROVE  f = g
  BY DEF P!Poly

LEMMA PlusAt ==
  ASSUME NEW f, NEW g, NEW e \in P!Exponents
  PROVE  P!Plus(f, g)[e] = (f[e] + g[e]) % p
  BY DEF P!Plus

LEMMA TimesAt ==
  ASSUME NEW c, NEW f, NEW e \in P!Exponents
  PROVE  P!Times(c, f)[e] = (c * f[e]) % p
  BY DEF P!Times

LEMMA PlusComm ==
  ASSUME NEW f \in P!Poly, NEW g \in P!Poly
  PROVE  P!Plus(f, g) = P!Plus(g, f)
<1>1. P!Plus(f, g) \in P!Poly /\ P!Plus(g, f) \in P!Poly
  BY PlusFacts
<1>2. ASSUME NEW e \in P!Exponents PROVE P!Plus(f, g)[e] = P!Plus(g, f)[e]
  <2>1. f[e] \in Int /\ g[e] \in Int
    BY At
  <2>2. f[e] + g[e] = g[e] + f[e]
    BY <2>1
  <2> QED BY <2>2, PlusAt
<1> QED BY <1>1, <1>2, PolyEqual

LEMMA PlusAssoc ==
  ASSUME NEW f \in P!Poly, NEW g \in P!Poly, NEW h \in P!Poly
  PROVE  P!Plus(P!Plus(f, g), h) = P!Plus(f, P!Plus(g, h))
<1> DEFINE l == P!Plus(P!Plus(f, g), h)
           r == P!Plus(f, P!Plus(g, h))
<1>1. P!Plus(f, g) \in P!Poly /\ P!Plus(g, h) \in P!Poly
  BY PlusFacts
<1>2. l \in P!Poly /\ r \in P!Poly
  BY <1>1, PlusFacts
<1>3. ASSUME NEW e \in P!Exponents PROVE l[e] = r[e]
  <2> PICK a, b, c : a = f[e] /\ b = g[e] /\ c = h[e]
    OBVIOUS
  <2>1. a \in Int /\ b \in Int /\ c \in Int
    BY At
  <2>2. l[e] = (((a + b) % p) + c) % p /\ r[e] = (a + ((b + c) % p)) % p
    BY PlusAt
  <2>3. a + b \in Int /\ b + c \in Int
    BY <2>1
  <2>4. (((a + b) % p) + c) % p = ((a + b) + c) % p
    BY <2>1, <2>3, ModPlus, Zenon
  <2>5. (((b + c) % p) + a) % p = ((b + c) + a) % p
    BY <2>1, <2>3, ModPlus, Zenon
  <2>6. (b + c) % p \in Int
    BY <2>3, Residue, SmallResidue
  <2> PICK u : u = (b + c) % p
    OBVIOUS
  <2>7. u + a = a + u /\ (b + c) + a = (a + b) + c
    BY <2>1, <2>6
  <2> QED BY <2>2, <2>4, <2>5, <2>7, Zenon
<1> HIDE DEF l, r
<1>4. l = r
  BY <1>2, <1>3, PolyEqual
<1> QED BY <1>4 DEF l, r

LEMMA PlusZero ==
  ASSUME NEW f \in P!Poly
  PROVE  P!Plus(f, P!ZeroPoly) = f /\ P!Plus(P!ZeroPoly, f) = f
<1>1. P!ZeroPoly \in P!Poly /\ \A e \in P!Exponents : P!ZeroPoly[e] = 0
  BY ZeroFacts DEF P!ZeroPoly
<1>2. P!Plus(f, P!ZeroPoly) \in P!Poly
  BY <1>1, PlusFacts
<1>3. \A e \in P!Exponents : P!Plus(f, P!ZeroPoly)[e] = f[e]
  BY <1>1, PlusFacts
<1>4. P!Plus(f, P!ZeroPoly) = f
  BY <1>2, <1>3, PolyEqual
<1> QED BY <1>1, <1>4, PlusComm

LEMMA PlusCancel ==
  ASSUME NEW f \in P!Poly, NEW g \in P!Poly, NEW h \in P!Poly, P!Plus(f, h) = P!Plus(g, h)
  PROVE  f = g
<1>1. ASSUME NEW e \in P!Exponents PROVE f[e] = g[e]
  <2> PICK a, b, c : a = f[e] /\ b = g[e] /\ c = h[e]
    OBVIOUS
  <2>1. a \in Int /\ b \in Int /\ c \in Int /\ a % p = a /\ b % p = b
    BY At
  <2>2. (a + c) % p = (b + c) % p
    BY PlusAt
  <2>3. a + c \in Int /\ b + c \in Int /\ -c \in Int
    BY <2>1
  <2>4. (((a + c) % p) + (-c)) % p = ((a + c) + (-c)) % p
    BY <2>3, ModPlus, Zenon
  <2>5. (((b + c) % p) + (-c)) % p = ((b + c) + (-c)) % p
    BY <2>3, ModPlus, Zenon
  <2>6. (a + c) + (-c) = a /\ (b + c) + (-c) = b
    BY <2>1
  <2> QED BY <2>1, <2>2, <2>4, <2>5, <2>6, Zenon
<1> QED BY <1>1, PolyEqual

LEMMA TimesPlus ==
  ASSUME NEW c \in 1..p - 1, NEW f \in P!Poly, NEW g \in P!Poly
  PROVE  P!Times(c, P!Plus(f, g)) = P!Plus(P!Times(c, f), P!Times(c, g))
<1> DEFINE l == P!Times(c, P!Plus(f, g))
           r == P!Plus(P!Times(c, f), P!Times(c, g))
<1>1. P!Plus(f, g) \in P!Poly /\ P!Times(c, f) \in P!Poly /\ P!Times(c, g) \in P!Poly
  BY PlusFacts, TimesFacts
<1>2. l \in P!Poly /\ r \in P!Poly
  BY <1>1, PlusFacts, TimesFacts
<1>3. ASSUME NEW e \in P!Exponents PROVE l[e] = r[e]
  <2> PICK a, b : a = f[e] /\ b = g[e]
    OBVIOUS
  <2>1. a \in Int /\ b \in Int /\ c \in Int
    BY At, Prime
  <2>2. l[e] = (c * ((a + b) % p)) % p /\ r[e] = (((c * a) % p) + ((c * b) % p)) % p
    BY PlusAt, TimesAt
  <2>3. a + b \in Int /\ c * a \in Int /\ c * b \in Int /\ c * (a + b) = c * a + c * b
    BY <2>1
  <2>4. (c * ((a + b) % p)) % p = (c * (a + b)) % p
    BY <2>1, <2>3, ModTimes, Zenon
  <2> PICK u, v : u = c * a /\ v = c * b
    OBVIOUS
  <2> PICK w : w = v % p
    OBVIOUS
  <2>5. w \in Int
    BY <2>3, Residue, SmallResidue
  <2>6. ((u % p) + w) % p = (u + w) % p
    BY <2>3, <2>5, ModPlus, Zenon
  <2>7. (w + u) % p = (v + u) % p
    BY <2>3, ModPlus, Zenon
  <2>8. u + w = w + u /\ v + u = u + v
    BY <2>3, <2>5
  <2> QED BY <2>2, <2>3, <2>4, <2>6, <2>7, <2>8, Zenon
<1> HIDE DEF l, r
<1>4. l = r
  BY <1>2, <1>3, PolyEqual
<1> QED BY <1>4 DEF l, r

LEMMA TimesTimes ==
  ASSUME NEW c \in 1..p - 1, NEW d \in 1..p - 1, NEW f \in P!Poly
  PROVE  P!Times(c, P!Times(d, f)) = P!Times((c * d) % p, f)
<1> DEFINE l == P!Times(c, P!Times(d, f))
           r == P!Times((c * d) % p, f)
<1>1. P!Times(d, f) \in P!Poly /\ (c * d) % p \in 1..p - 1
  BY TimesFacts, NoZeroDivisor
<1>2. l \in P!Poly /\ r \in P!Poly
  BY <1>1, TimesFacts
<1>3. ASSUME NEW e \in P!Exponents PROVE l[e] = r[e]
  <2> PICK a : a = f[e]
    OBVIOUS
  <2>1. a \in Int /\ c \in Int /\ d \in Int
    BY At, Prime
  <2>2. l[e] = (c * ((d * a) % p)) % p /\ r[e] = (((c * d) % p) * a) % p
    BY TimesAt
  <2>3. d * a \in Int /\ c * d \in Int /\ c * (d * a) = a * (c * d)
    BY <2>1
  <2>4. (c * ((d * a) % p)) % p = (c * (d * a)) % p
    BY <2>1, <2>3, ModTimes, Zenon
  <2>5. (a * ((c * d) % p)) % p = (a * (c * d)) % p
    BY <2>1, <2>3, ModTimes, Zenon
  <2> PICK u : u = (c * d) % p
    OBVIOUS
  <2>6. u \in Int
    BY <2>3, Residue, SmallResidue
  <2>7. a * u = u * a
    BY <2>1, <2>6
  <2> QED BY <2>2, <2>3, <2>4, <2>5, <2>7, Zenon
<1> HIDE DEF l, r
<1>4. l = r
  BY <1>2, <1>3, PolyEqual
<1> QED BY <1>4 DEF l, r

LEMMA TimesOne == ASSUME NEW f \in P!Poly PROVE P!Times(1, f) = f
<1>1. 1 \in 1..p - 1
  BY Prime
<1>2. P!Times(1, f) \in P!Poly
  BY <1>1, TimesFacts
<1>3. ASSUME NEW e \in P!Exponents PROVE P!Times(1, f)[e] = f[e]
  <2>1. f[e] \in Int /\ f[e] % p = f[e]
    BY At
  <2>2. 1 * f[e] = f[e]
    BY <2>1
  <2> QED BY <2>1, <2>2, TimesAt
<1> QED BY <1>2, <1>3, PolyEqual

LEMMA TimesZero == ASSUME NEW c \in 1..p - 1 PROVE P!Times(c, P!ZeroPoly) = P!ZeroPoly
<1>1. P!Times(c, P!ZeroPoly) \in P!Poly /\ P!Support(P!Times(c, P!ZeroPoly)) = {}
  BY ZeroFacts, TimesFacts
<1> QED BY <1>1, SupportFacts

LEMMA LMPlusTail ==
  ASSUME NEW f \in P!Poly, f # P!ZeroPoly
  PROVE  P!Plus(P!Tail(f), P!LM(f)) = f
<1>1. P!LM(f) \in P!Poly /\ P!Tail(f) \in P!Poly
  BY LMTail
<1>2. P!Plus(P!Tail(f), P!LM(f)) \in P!Poly
  BY <1>1, PlusFacts
<1>3. ASSUME NEW e \in P!Exponents PROVE P!Plus(P!Tail(f), P!LM(f))[e] = f[e]
  <2>1. CASE e = P!LPP(f)
    <3>1. P!Tail(f)[e] = 0 /\ P!LM(f)[e] = f[e]
      BY <2>1 DEF P!Tail, P!LM
    <3> QED BY <1>1, <3>1, PlusFacts
  <2>2. CASE e # P!LPP(f)
    <3>1. P!Tail(f)[e] = f[e] /\ P!LM(f)[e] = 0
      BY <2>2 DEF P!Tail, P!LM
    <3> QED BY <1>1, <3>1, PlusFacts
  <2> QED BY <2>1, <2>2
<1> QED BY <1>2, <1>3, PolyEqual

-----------------------------------------------------------------------------
(* Buckets.                                                                  *)

Bucket == [coeff : 1..p - 1, poly : P!Poly, maxLen : Nat, approx : Int]
Good == {b \in Bucket : P!NumTerms(b.poly) <= b.approx}
Buckets(n) == {s \in Seq(Good) : Len(s) = n}

LEMMA InBuckets == ASSUME NEW n \in Nat, NEW t \in [1..n -> Good] PROVE t \in Buckets(n)
<1>1. t \in Seq(Good)
  OBVIOUS
<1>2. Len(t) = n
  OBVIOUS
<1> QED BY <1>1, <1>2 DEF Buckets

LEMMA NormalizedFacts ==
  ASSUME NEW b \in Bucket
  PROVE  /\ Normalized(b) \in Bucket
         /\ Normalized(b).coeff = 1
         /\ Normalized(b).poly = P!Times(b.coeff, b.poly)
         /\ Normalized(b).maxLen = b.maxLen /\ Normalized(b).approx = b.approx
         /\ P!Support(Normalized(b).poly) = P!Support(b.poly)
         /\ P!NumTerms(Normalized(b).poly) = P!NumTerms(b.poly)
         /\ P!LPP(Normalized(b).poly) = P!LPP(b.poly)
         /\ IsZero(Normalized(b)) <=> IsZero(b)
<1>1. b.coeff \in 1..p - 1 /\ b.poly \in P!Poly
  BY DEF Bucket
<1>2. P!Times(b.coeff, b.poly) \in P!Poly /\ P!Support(P!Times(b.coeff, b.poly)) = P!Support(b.poly)
  BY <1>1, TimesFacts
<1>3. /\ Normalized(b).coeff = 1 /\ Normalized(b).poly = P!Times(b.coeff, b.poly)
      /\ Normalized(b).maxLen = b.maxLen /\ Normalized(b).approx = b.approx
      /\ Normalized(b) \in Bucket
  BY <1>1, <1>2, Prime DEF Normalized, Bucket
<1>4. /\ P!NumTerms(Normalized(b).poly) = P!NumTerms(b.poly)
      /\ P!LPP(Normalized(b).poly) = P!LPP(b.poly)
      /\ IsZero(Normalized(b)) <=> IsZero(b)
  BY <1>1, <1>2, <1>3, SameSupport, Zenon DEF IsZero
<1> QED BY <1>2, <1>3, <1>4, Zenon

LEMMA AddedFacts ==
  ASSUME NEW b \in Bucket, NEW f \in P!Poly, NEW l \in Int
  PROVE  /\ Added(b, f, l) \in Bucket
         /\ Added(b, f, l).coeff = 1
         /\ Added(b, f, l).poly = P!Plus(Normalized(b).poly, f)
         /\ Added(b, f, l).approx = b.approx + l
         /\ Added(b, f, l).maxLen = b.maxLen
<1>1. Normalized(b) \in Bucket /\ Normalized(b).approx = b.approx /\ Normalized(b).coeff = 1
      /\ Normalized(b).maxLen = b.maxLen
  BY NormalizedFacts
<1>2. P!Plus(Normalized(b).poly, f) \in P!Poly
  BY <1>1, PlusFacts DEF Bucket
<1>3. b.approx + l \in Int
  BY DEF Bucket
<1> PICK c, q, a : /\ c = Normalized(b) /\ q = P!Plus(Normalized(b).poly, f) /\ a = b.approx + l
  OBVIOUS
<1>4. Added(b, f, l) = [c EXCEPT !.poly = q, !.approx = a]
  BY <1>1 DEF Added
<1>5. c \in Bucket /\ q \in P!Poly /\ a \in Int
  BY <1>1, <1>2, <1>3
<1>6. /\ Added(b, f, l) \in Bucket /\ Added(b, f, l).coeff = c.coeff
      /\ Added(b, f, l).poly = q /\ Added(b, f, l).maxLen = c.maxLen
      /\ Added(b, f, l).approx = a
  BY <1>4, <1>5 DEF Bucket
<1> QED BY <1>1, <1>6

LEMMA EmptiedFacts ==
  ASSUME NEW b \in Bucket
  PROVE  /\ Emptied(b) \in Good /\ IsZero(Emptied(b))
         /\ Emptied(b).coeff = 1 /\ Emptied(b).maxLen = b.maxLen
<1>1. /\ Emptied(b).poly = P!ZeroPoly /\ Emptied(b).approx = 0 /\ Emptied(b).coeff = 1
      /\ Emptied(b).maxLen = b.maxLen
  BY DEF Emptied, Bucket
<1>2. Emptied(b) \in Bucket
  <2>1. 1 \in 1..p - 1 /\ P!ZeroPoly \in P!Poly
    BY Prime, ZeroFacts
  <2> PICK r : r = [b EXCEPT !.coeff = 1, !.poly = P!ZeroPoly, !.approx = 0]
    OBVIOUS
  <2>2. r = [coeff |-> 1, poly |-> P!ZeroPoly, maxLen |-> b.maxLen, approx |-> 0] /\ b.maxLen \in Nat
    BY DEF Bucket
  <2>3. [coeff |-> 1, poly |-> P!ZeroPoly, maxLen |-> b.maxLen, approx |-> 0] \in Bucket
    BY <2>1, <2>2 DEF Bucket
  <2> QED BY <2>2, <2>3 DEF Emptied
<1> QED BY <1>1, <1>2, ZeroFacts DEF Good, IsZero

LEMMA ZeroBucketFacts ==
  ASSUME NEW m \in Nat
  PROVE  ZeroBucket(m) \in Good /\ IsZero(ZeroBucket(m)) /\ ZeroBucket(m).coeff = 1
<1>1. ZeroBucket(m) \in Bucket
  BY Prime, ZeroFacts DEF ZeroBucket, Bucket
<1> QED BY <1>1, ZeroFacts DEF ZeroBucket, Good, IsZero

\* What is left of a bucket whose leading term was taken.
LEMMA TailFacts ==
  ASSUME NEW b \in Good, ~IsZero(b)
  PROVE  LET f == Normalized(b).poly
             r == Shortened(b)
         IN  /\ r \in Good /\ r.poly = P!Tail(f) /\ r.coeff = 1 /\ r.maxLen = b.maxLen
             /\ f \in P!Poly /\ f # P!ZeroPoly /\ P!LPP(f) = P!LPP(b.poly)
             /\ P!LPP(r.poly) < P!LPP(f)
<1> DEFINE f == Normalized(b).poly
           r == Shortened(b)
<1>1. b \in Bucket /\ P!NumTerms(b.poly) <= b.approx
  BY DEF Good
<1>2. /\ Normalized(b) \in Bucket /\ Normalized(b).coeff = 1 /\ Normalized(b).approx = b.approx
      /\ Normalized(b).maxLen = b.maxLen
  BY <1>1, NormalizedFacts
<1>3. f \in P!Poly /\ f # P!ZeroPoly /\ P!LPP(f) = P!LPP(b.poly) /\ P!NumTerms(f) = P!NumTerms(b.poly)
  BY <1>1, NormalizedFacts DEF Bucket, IsZero
<1> HIDE DEF f
<1>4. P!Tail(f) \in P!Poly /\ P!NumTerms(P!Tail(f)) = P!NumTerms(f) - 1 /\ P!LPP(P!Tail(f)) < P!LPP(f)
  BY <1>3, LMTail
<1>5. r \in Bucket /\ r.poly = P!Tail(f) /\ r.coeff = 1 /\ r.approx = b.approx - 1 /\ r.maxLen = b.maxLen
  <2>1. b.approx - 1 \in Int
    BY <1>1 DEF Bucket
  <2> PICK c, q, a : c = Normalized(b) /\ q = P!Tail(f) /\ a = b.approx - 1
    OBVIOUS
  <2>2. r = [c EXCEPT !.poly = q, !.approx = a]
    BY <1>2 DEF f, Shortened
  <2>3. c \in Bucket /\ q \in P!Poly /\ a \in Int
    BY <1>2, <1>4, <2>1
  <2> HIDE DEF r
  <2>4. r \in Bucket /\ r.coeff = c.coeff /\ r.poly = q /\ r.maxLen = c.maxLen /\ r.approx = a
    BY <2>2, <2>3 DEF Bucket
  <2> QED BY <1>2, <2>4
<1>6. P!NumTerms(r.poly) <= r.approx
  <2>1. P!NumTerms(b.poly) \in Int /\ b.approx \in Int
    BY <1>1, SupportFacts DEF Bucket
  <2> QED BY <1>1, <1>3, <1>4, <1>5, <2>1
<1> QED BY <1>3, <1>4, <1>5, <1>6 DEF f, Good

LEMMA MergedFacts ==
  ASSUME NEW n \in Nat, NEW s \in Buckets(n), NEW i \in 1..n, NEW j \in 1..n, i # j
  PROVE  LET t == Merged(s, i, j)
         IN  /\ t \in Buckets(n)
             /\ t[i].poly = P!Plus(Normalized(s[i]).poly, Normalized(s[j]).poly)
             /\ t[i].coeff = 1 /\ t[i].maxLen = s[i].maxLen
             /\ IsZero(t[j]) /\ t[j].maxLen = s[j].maxLen
             /\ \A k \in (1..n) \ {i, j} : t[k] = s[k]
<1> DEFINE f == Normalized(s[j]).poly
           x == Added(s[i], f, s[j].approx)
           y == Emptied(s[j])
           t == Merged(s, i, j)
<1>1. /\ s[i] \in Good /\ s[j] \in Good /\ s[i] \in Bucket /\ s[j] \in Bucket
      /\ s[i].approx \in Int /\ s[j].approx \in Int
      /\ P!NumTerms(s[i].poly) <= s[i].approx /\ P!NumTerms(s[j].poly) <= s[j].approx
      /\ s[i].poly \in P!Poly /\ s[j].poly \in P!Poly
  BY DEF Buckets, Good, Bucket
<1>2. /\ f \in P!Poly /\ P!NumTerms(f) = P!NumTerms(s[j].poly)
      /\ Normalized(s[i]).poly \in P!Poly /\ P!NumTerms(Normalized(s[i]).poly) = P!NumTerms(s[i].poly)
  BY <1>1, NormalizedFacts DEF Bucket
<1>3. /\ x \in Bucket /\ x.coeff = 1 /\ x.poly = P!Plus(Normalized(s[i]).poly, f)
      /\ x.approx = s[i].approx + s[j].approx /\ x.maxLen = s[i].maxLen
  <2> HIDE DEF f
  <2> QED BY <1>1, <1>2, AddedFacts
<1>4. P!NumTerms(x.poly) <= x.approx
  <2>1. P!NumTerms(x.poly) <= P!NumTerms(Normalized(s[i]).poly) + P!NumTerms(f)
    <3> HIDE DEF f, x
    <3> QED BY <1>2, <1>3, PlusFacts
  <2>2. P!NumTerms(s[i].poly) \in Int /\ P!NumTerms(s[j].poly) \in Int /\ P!NumTerms(x.poly) \in Int
    <3> HIDE DEF f, x
    <3> QED BY <1>1, <1>3, SupportFacts DEF Bucket
  <2> HIDE DEF f, x
  <2> QED BY <1>1, <1>2, <1>3, <2>1, <2>2
<1>5. x \in Good
  <2> HIDE DEF x
  <2> QED BY <1>3, <1>4 DEF Good
<1>6. y \in Good /\ IsZero(y) /\ y.maxLen = s[j].maxLen
  BY <1>1, EmptiedFacts
<1>7. t = [s EXCEPT ![i] = x, ![j] = y]
  BY DEF Merged
<1> HIDE DEF f, x, y, t
<1>8. /\ t \in Buckets(n) /\ t[i] = x /\ t[j] = y
      /\ \A k \in (1..n) \ {i, j} : t[k] = s[k]
  <2>1. s \in [1..n -> Good]
    BY DEF Buckets
  <2>2. /\ t \in [1..n -> Good] /\ t[i] = x /\ t[j] = y
        /\ \A k \in (1..n) \ {i, j} : t[k] = s[k]
    BY <1>5, <1>6, <1>7, <2>1
  <2> QED BY <2>2, InBuckets, Zenon
<1> QED BY <1>3, <1>6, <1>8 DEF f, t

LEMMA LMMovedFacts ==
  ASSUME NEW n \in Nat, NEW s \in Buckets(n), NEW j \in 2..n, ~IsZero(s[j])
  PROVE  LET t == LMMoved(s, j)
             f == Normalized(s[j]).poly
         IN  /\ t \in Buckets(n)
             /\ t[1].poly = P!Plus(Normalized(s[1]).poly, P!LM(f)) /\ t[1].coeff = 1
             /\ t[j].poly = P!Tail(f) /\ t[j].coeff = 1
             /\ f \in P!Poly /\ f # P!ZeroPoly /\ P!LPP(f) = P!LPP(s[j].poly)
             /\ \A k \in 1..n : t[k].maxLen = s[k].maxLen
             /\ \A k \in (1..n) \ {1, j} : t[k] = s[k]
<1> DEFINE f == Normalized(s[j]).poly
           x == Added(s[1], P!LM(f), 1)
           y == Shortened(s[j])
           t == LMMoved(s, j)
<1>1. /\ s[1] \in Good /\ s[j] \in Good /\ s[1] \in Bucket
      /\ s[1].approx \in Int /\ s[1].poly \in P!Poly
      /\ P!NumTerms(s[1].poly) <= s[1].approx
  BY DEF Buckets, Good, Bucket
<1>2. /\ y \in Good /\ y.poly = P!Tail(f) /\ y.coeff = 1 /\ y.maxLen = s[j].maxLen
      /\ f \in P!Poly /\ f # P!ZeroPoly /\ P!LPP(f) = P!LPP(s[j].poly)
  BY <1>1, TailFacts
<1>3. P!LM(f) \in P!Poly /\ P!NumTerms(P!LM(f)) = 1
  <2> HIDE DEF f
  <2> QED BY <1>2, LMTail
<1>4. /\ Normalized(s[1]).poly \in P!Poly
      /\ P!NumTerms(Normalized(s[1]).poly) = P!NumTerms(s[1].poly)
  BY <1>1, NormalizedFacts DEF Bucket
<1>5. /\ x \in Bucket /\ x.coeff = 1 /\ x.poly = P!Plus(Normalized(s[1]).poly, P!LM(f))
      /\ x.approx = s[1].approx + 1 /\ x.maxLen = s[1].maxLen
  <2> PICK q, l, b : q = P!LM(f) /\ l = 1 /\ b = s[1]
    OBVIOUS
  <2>1. q \in P!Poly /\ l \in Int /\ b \in Bucket
    BY <1>1, <1>3
  <2>2. x = Added(b, q, l)
    OBVIOUS
  <2> HIDE DEF f, x
  <2> QED BY <2>1, <2>2, AddedFacts
<1>6. P!NumTerms(x.poly) <= x.approx
  <2> HIDE DEF f, x
  <2>1. P!NumTerms(x.poly) <= P!NumTerms(Normalized(s[1]).poly) + P!NumTerms(P!LM(f))
    BY <1>3, <1>4, <1>5, PlusFacts
  <2>2. P!NumTerms(s[1].poly) \in Int /\ P!NumTerms(x.poly) \in Int
    BY <1>1, <1>5, SupportFacts DEF Bucket
  <2> QED BY <1>1, <1>3, <1>4, <1>5, <2>1, <2>2
<1>7. x \in Good
  <2> HIDE DEF x
  <2> QED BY <1>5, <1>6 DEF Good
<1>8. t = [s EXCEPT ![1] = x, ![j] = y]
  BY DEF LMMoved
<1> HIDE DEF f, x, y, t
<1>9. 1 \in 1..n /\ j \in 1..n /\ j # 1
  OBVIOUS
<1>10. /\ t \in Buckets(n) /\ t[1] = x /\ t[j] = y
       /\ \A k \in (1..n) \ {1, j} : t[k] = s[k]
  <2>1. s \in [1..n -> Good]
    BY DEF Buckets
  <2>2. /\ t \in [1..n -> Good] /\ t[1] = x /\ t[j] = y
        /\ \A k \in (1..n) \ {1, j} : t[k] = s[k]
    BY <1>2, <1>7, <1>8, <1>9, <2>1
  <2> QED BY <2>2, InBuckets, Zenon
<1>11. \A k \in 1..n : t[k].maxLen = s[k].maxLen
  BY <1>2, <1>5, <1>9, <1>10
<1> QED BY <1>2, <1>5, <1>10, <1>11 DEF f, t

LEMMA LCsAddedFacts ==
  ASSUME NEW n \in Nat, NEW s \in Buckets(n), NEW j \in 2..n, ~IsZero(s[j]),
         P!LPP(s[1].poly) = P!LPP(s[j].poly)
  PROVE  LET t == LCsAdded(s, j)
             f == Normalized(s[j]).poly
         IN  /\ t \in Buckets(n)
             /\ t[1].poly = P!Plus(Normalized(s[1]).poly, P!LM(f)) /\ t[1].coeff = 1
             /\ t[j].poly = P!Tail(f) /\ t[j].coeff = 1
             /\ f \in P!Poly /\ f # P!ZeroPoly /\ P!LPP(f) = P!LPP(s[j].poly)
             /\ ~Cancels(s[1], s[j]) => P!LPP(t[1].poly) = P!LPP(s[1].poly)
             /\ Cancels(s[1], s[j]) => P!NumTerms(t[1].poly) = P!NumTerms(s[1].poly) - 1
             /\ ~Cancels(s[1], s[j]) => P!NumTerms(t[1].poly) = P!NumTerms(s[1].poly)
             /\ \A k \in 1..n : t[k].maxLen = s[k].maxLen
             /\ \A k \in (1..n) \ {1, j} : t[k] = s[k]
<1> DEFINE f == Normalized(s[j]).poly
           g == Normalized(s[1]).poly
           lost == IF Cancels(s[1], s[j]) THEN -1 ELSE 0
           x == Added(s[1], P!LM(f), lost)
           y == Shortened(s[j])
           t == LCsAdded(s, j)
<1>1. /\ s[1] \in Good /\ s[j] \in Good /\ s[1] \in Bucket /\ s[j] \in Bucket
      /\ s[1].approx \in Int /\ s[1].poly \in P!Poly /\ s[j].poly \in P!Poly
      /\ P!NumTerms(s[1].poly) <= s[1].approx
  BY DEF Buckets, Good, Bucket
<1>2. /\ y \in Good /\ y.poly = P!Tail(f) /\ y.coeff = 1 /\ y.maxLen = s[j].maxLen
      /\ f \in P!Poly /\ f # P!ZeroPoly /\ P!LPP(f) = P!LPP(s[j].poly)
  BY <1>1, TailFacts
<1>3. P!LM(f) \in P!Poly
  <2> HIDE DEF f
  <2> QED BY <1>2, LMTail
<1>4. /\ g \in P!Poly /\ P!LPP(g) = P!LPP(s[1].poly)
      /\ P!NumTerms(g) = P!NumTerms(s[1].poly) /\ P!Support(g) = P!Support(s[1].poly)
  BY <1>1, NormalizedFacts DEF Bucket
<1>5. P!LPP(g) = P!LPP(f) /\ g # P!ZeroPoly
  <2> HIDE DEF f, g
  <2>1. P!LPP(g) = P!LPP(f)
    BY <1>2, <1>4
  <2> QED BY <1>2, <1>4, <2>1, LPPType
<1>6. Cancels(s[1], s[j]) <=> P!Plus(P!LM(g), P!LM(f)) = P!ZeroPoly
  BY DEF Cancels
<1> DEFINE h == P!Plus(g, P!LM(f))
<1>7. /\ h \in P!Poly
      /\ Cancels(s[1], s[j]) => P!NumTerms(h) = P!NumTerms(g) - 1
      /\ ~Cancels(s[1], s[j]) => P!Support(h) = P!Support(g)
  <2> HIDE DEF f, g
  <2> QED BY <1>2, <1>4, <1>5, <1>6, LeadingTermsAdd
<1>8. /\ x \in Bucket /\ x.coeff = 1 /\ x.poly = h /\ x.approx = s[1].approx + lost
      /\ x.maxLen = s[1].maxLen
  <2>1. lost \in Int
    OBVIOUS
  <2> HIDE DEF f, lost
  <2> QED BY <1>1, <1>3, <2>1, AddedFacts
<1>9. P!NumTerms(h) = P!NumTerms(g) + lost
  <2>1. P!NumTerms(g) \in Int
    <3> HIDE DEF g
    <3> QED BY <1>4, SupportFacts
  <2>2. CASE Cancels(s[1], s[j])
    <3> HIDE DEF g, h
    <3> QED BY <1>7, <2>1, <2>2
  <2>3. CASE ~Cancels(s[1], s[j])
    <3>1. P!NumTerms(h) = P!NumTerms(g)
      <4> HIDE DEF g, h
      <4> QED BY <1>4, <1>7, <2>3, SameSupport
    <3> HIDE DEF g, h
    <3> QED BY <2>1, <2>3, <3>1
  <2> QED BY <2>2, <2>3
<1>10. P!NumTerms(x.poly) <= x.approx
  <2>1. P!NumTerms(g) \in Int /\ lost \in Int
    <3> HIDE DEF g
    <3> QED BY <1>4, SupportFacts
  <2> HIDE DEF f, g, x, h, lost
  <2> QED BY <1>1, <1>4, <1>8, <1>9, <2>1
<1>11. x \in Good
  <2> HIDE DEF x
  <2> QED BY <1>8, <1>10 DEF Good
<1>12. ~Cancels(s[1], s[j]) => P!LPP(h) = P!LPP(s[1].poly)
  <2> HIDE DEF g, h
  <2> QED BY <1>4, <1>7, SameSupport
<1>13. t = [s EXCEPT ![1] = x, ![j] = y]
  BY DEF LCsAdded
<1>17. /\ Cancels(s[1], s[j]) => P!NumTerms(x.poly) = P!NumTerms(s[1].poly) - 1
       /\ ~Cancels(s[1], s[j]) => P!NumTerms(x.poly) = P!NumTerms(s[1].poly)
  <2>1. P!NumTerms(g) \in Int
    <3> HIDE DEF g
    <3> QED BY <1>4, SupportFacts
  <2> HIDE DEF f, g, x, h
  <2> QED BY <1>4, <1>8, <1>9, <2>1
<1> HIDE DEF f, g, h, x, y, t
<1>14. 1 \in 1..n /\ j \in 1..n /\ j # 1
  OBVIOUS
<1>15. /\ t \in Buckets(n) /\ t[1] = x /\ t[j] = y
       /\ \A k \in (1..n) \ {1, j} : t[k] = s[k]
  <2>1. s \in [1..n -> Good]
    BY DEF Buckets
  <2>2. /\ t \in [1..n -> Good] /\ t[1] = x /\ t[j] = y
        /\ \A k \in (1..n) \ {1, j} : t[k] = s[k]
    BY <1>2, <1>11, <1>13, <1>14, <2>1
  <2> QED BY <2>2, InBuckets, Zenon
<1>16. \A k \in 1..n : t[k].maxLen = s[k].maxLen
  BY <1>2, <1>8, <1>14, <1>15
<1> QED BY <1>2, <1>8, <1>12, <1>15, <1>16, <1>17 DEF f, g, h, t

-----------------------------------------------------------------------------
(* What the buckets add up to, and how many terms they have.                 *)

Part(b) == P!Times(b.coeff, b.poly)

LEMMA PartFacts ==
  ASSUME NEW b \in Bucket
  PROVE  /\ Part(b) \in P!Poly /\ Normalized(b).poly = Part(b)
         /\ b.coeff = 1 => Part(b) = b.poly
         /\ IsZero(b) => Part(b) = P!ZeroPoly
         /\ P!Support(Part(b)) = P!Support(b.poly)
<1>1. b.coeff \in 1..p - 1 /\ b.poly \in P!Poly
  BY DEF Bucket
<1>2. Part(b) \in P!Poly /\ P!Support(Part(b)) = P!Support(b.poly)
  BY <1>1, TimesFacts DEF Part
<1>3. Normalized(b).poly = Part(b)
  BY NormalizedFacts DEF Part
<1>4. b.coeff = 1 => Part(b) = b.poly
  BY <1>1, TimesOne DEF Part
<1>5. IsZero(b) => Part(b) = P!ZeroPoly
  BY <1>1, TimesZero DEF Part, IsZero
<1> QED BY <1>2, <1>3, <1>4, <1>5

LEMMA BucketOf ==
  ASSUME NEW n \in Nat, NEW s \in Buckets(n), NEW k \in 1..n
  PROVE  s[k] \in Good /\ s[k] \in Bucket /\ s[k].poly \in P!Poly /\ Part(s[k]) \in P!Poly
<1>1. s[k] \in Good
  BY DEF Buckets
<1> QED BY <1>1, PartFacts DEF Good, Bucket

\* v[k] is the sum of the first k buckets.
Sums(v, s, n) ==
  /\ v \in [0..n -> P!Poly] /\ v[0] = P!ZeroPoly
  /\ \A k \in 1..n : v[k] = P!Plus(v[k - 1], Part(s[k]))

LEMMA ValueIs ==
  ASSUME NEW n \in Nat, NEW s \in Buckets(n)
  PROVE  \E v : Sums(v, s, n) /\ Value(s) = v[n]
<1> DEFINE Is(f) == f = [k \in 0..n |-> IF k = 0 THEN P!ZeroPoly
                                        ELSE P!Plus(f[k - 1], P!Times(s[k].coeff, s[k].poly))]
           step == [kx \in (1..n) \X P!Poly |-> P!Plus(kx[2], Part(s[kx[1]]))]
           g == CHOOSE f : Is(f)
           Q == [k \in 0..n |-> P!Poly]
<1>1. Len(s) = n
  BY DEF Buckets
<1>2. Value(s) = g[n]
  BY <1>1 DEF Value
<1>3. ASSUME NEW k \in 1..n, NEW x \in P!Poly
      PROVE  step[<<k, x>>] = P!Plus(x, Part(s[k])) /\ P!Plus(x, Part(s[k])) \in P!Poly
  <2>1. Part(s[k]) \in P!Poly
    BY BucketOf
  <2>2. <<k, x>> \in (1..n) \X P!Poly
    OBVIOUS
  <2> QED BY <2>1, <2>2, PlusFacts
<1>4. step \in [(1..n) \X P!Poly -> P!Poly]
  <2>1. ASSUME NEW kx \in (1..n) \X P!Poly PROVE step[kx] \in P!Poly
    <3>1. kx[1] \in 1..n /\ kx[2] \in P!Poly /\ kx = <<kx[1], kx[2]>>
      OBVIOUS
    <3> HIDE DEF step
    <3> QED BY <1>3, <3>1
  <2>2. step = [kx \in (1..n) \X P!Poly |-> step[kx]]
    OBVIOUS
  <2> HIDE DEF step
  <2> QED BY <2>1, <2>2
<1>5. P!ZeroPoly \in P!Poly
  BY ZeroFacts
<1> HIDE DEF step
<1>6. PICK f \in [0..n -> P!Poly] : Recursive(f, n, P!ZeroPoly, step)
  BY <1>4, <1>5, Recursion, Zenon
<1>7. Is(f)
  <2>1. ASSUME NEW k \in 0..n
        PROVE  f[k] = IF k = 0 THEN P!ZeroPoly ELSE P!Plus(f[k - 1], Part(s[k]))
    <3>1. CASE k = 0
      BY <1>6, <3>1 DEF Recursive
    <3>2. CASE k # 0
      <4>1. k \in 1..n /\ k - 1 \in 0..n
        BY <3>2
      <4>2. f[k] = step[<<k, f[k - 1]>>] /\ f[k - 1] \in P!Poly
        BY <1>6, <4>1 DEF Recursive
      <4> QED BY <1>3, <3>2, <4>1, <4>2
    <3> QED BY <3>1, <3>2
  <2>2. f = [k \in 0..n |-> f[k]]
    OBVIOUS
  <2> QED BY <2>1, <2>2 DEF Part
<1>8. Is(g)
  <2> HIDE DEF Is
  <2> QED BY <1>7
<1> HIDE DEF g
<1>9. g[0] = P!ZeroPoly /\ \A k \in 1..n : g[k] = P!Plus(g[k - 1], Part(s[k]))
  <2>1. \A k \in 0..n : g[k] = IF k = 0 THEN P!ZeroPoly ELSE P!Plus(g[k - 1], Part(s[k]))
    BY <1>8 DEF Part
  <2>2. 0 \in 0..n /\ \A k \in 1..n : k \in 0..n /\ k # 0
    OBVIOUS
  <2> QED BY <2>1, <2>2
<1>10. \A k \in 0..n : g[k] \in Q[k]
  <2>1. g[0] \in Q[0]
    BY <1>5, <1>9
  <2>2. ASSUME NEW k \in 0 + 1..n, g[k - 1] \in Q[k - 1] PROVE g[k] \in Q[k]
    <3>1. k \in 1..n /\ k - 1 \in 0..n /\ k \in 0..n
      OBVIOUS
    <3>2. g[k - 1] \in P!Poly
      BY <2>2, <3>1
    <3> QED BY <1>3, <1>9, <3>1, <3>2
  <2>3. 0 \in Int /\ n \in Int
    OBVIOUS
  <2> HIDE DEF Q
  <2> QED BY <2>1, <2>2, <2>3, ChainKeeps, Zenon
<1>11. g = [k \in 0..n |-> g[k]]
  BY <1>8
<1>12. g \in [0..n -> P!Poly]
  BY <1>10, <1>11
<1> QED BY <1>2, <1>9, <1>12 DEF Sums

\* The number of terms in all the buckets.
Terms(s) ==
  LET count[k \in 0..Len(s)] == IF k = 0 THEN 0 ELSE count[k - 1] + P!NumTerms(s[k].poly)
  IN  count[Len(s)]
Counts(v, s, n) ==
  /\ v \in [0..n -> Nat] /\ v[0] = 0
  /\ \A k \in 1..n : v[k] = v[k - 1] + P!NumTerms(s[k].poly)

LEMMA TermsIs ==
  ASSUME NEW n \in Nat, NEW s \in Buckets(n)
  PROVE  \E v : Counts(v, s, n) /\ Terms(s) = v[n]
<1> DEFINE Is(f) == f = [k \in 0..n |-> IF k = 0 THEN 0 ELSE f[k - 1] + P!NumTerms(s[k].poly)]
           step == [kx \in (1..n) \X Nat |-> kx[2] + P!NumTerms(s[kx[1]].poly)]
           g == CHOOSE f : Is(f)
           Q == [k \in 0..n |-> Nat]
<1>1. Len(s) = n
  BY DEF Buckets
<1>2. Terms(s) = g[n]
  BY <1>1 DEF Terms
<1>3. ASSUME NEW k \in 1..n, NEW x \in Nat
      PROVE  step[<<k, x>>] = x + P!NumTerms(s[k].poly) /\ x + P!NumTerms(s[k].poly) \in Nat
  <2>1. P!NumTerms(s[k].poly) \in Nat
    BY BucketOf, SupportFacts
  <2>2. <<k, x>> \in (1..n) \X Nat
    OBVIOUS
  <2> QED BY <2>1, <2>2
<1>4. step \in [(1..n) \X Nat -> Nat]
  <2>1. ASSUME NEW kx \in (1..n) \X Nat PROVE step[kx] \in Nat
    <3>1. kx[1] \in 1..n /\ kx[2] \in Nat /\ kx = <<kx[1], kx[2]>>
      OBVIOUS
    <3> HIDE DEF step
    <3> QED BY <1>3, <3>1
  <2>2. step = [kx \in (1..n) \X Nat |-> step[kx]]
    OBVIOUS
  <2> HIDE DEF step
  <2> QED BY <2>1, <2>2
<1>5. 0 \in Nat
  OBVIOUS
<1> HIDE DEF step
<1>6. PICK f \in [0..n -> Nat] : Recursive(f, n, 0, step)
  BY <1>4, <1>5, Recursion, Zenon
<1>7. Is(f)
  <2>1. ASSUME NEW k \in 0..n
        PROVE  f[k] = IF k = 0 THEN 0 ELSE f[k - 1] + P!NumTerms(s[k].poly)
    <3>1. CASE k = 0
      BY <1>6, <3>1 DEF Recursive
    <3>2. CASE k # 0
      <4>1. k \in 1..n /\ k - 1 \in 0..n
        BY <3>2
      <4>2. f[k] = step[<<k, f[k - 1]>>] /\ f[k - 1] \in Nat
        BY <1>6, <4>1 DEF Recursive
      <4> QED BY <1>3, <3>2, <4>1, <4>2
    <3> QED BY <3>1, <3>2
  <2>2. f = [k \in 0..n |-> f[k]]
    OBVIOUS
  <2> QED BY <2>1, <2>2
<1>8. Is(g)
  <2> HIDE DEF Is
  <2> QED BY <1>7
<1> HIDE DEF g
<1>9. g[0] = 0 /\ \A k \in 1..n : g[k] = g[k - 1] + P!NumTerms(s[k].poly)
  <2>1. \A k \in 0..n : g[k] = IF k = 0 THEN 0 ELSE g[k - 1] + P!NumTerms(s[k].poly)
    BY <1>8
  <2>2. 0 \in 0..n /\ \A k \in 1..n : k \in 0..n /\ k # 0
    OBVIOUS
  <2> QED BY <2>1, <2>2
<1>10. \A k \in 0..n : g[k] \in Q[k]
  <2>1. g[0] \in Q[0]
    BY <1>5, <1>9
  <2>2. ASSUME NEW k \in 0 + 1..n, g[k - 1] \in Q[k - 1] PROVE g[k] \in Q[k]
    <3>1. k \in 1..n /\ k - 1 \in 0..n /\ k \in 0..n
      OBVIOUS
    <3>2. g[k - 1] \in Nat
      BY <2>2, <3>1
    <3> QED BY <1>3, <1>9, <3>1, <3>2
  <2>3. 0 \in Int /\ n \in Int
    OBVIOUS
  <2> HIDE DEF Q
  <2> QED BY <2>1, <2>2, <2>3, ChainKeeps, Zenon
<1>11. g = [k \in 0..n |-> g[k]]
  BY <1>8
<1>12. g \in [0..n -> Nat]
  BY <1>10, <1>11
<1> QED BY <1>2, <1>9, <1>12 DEF Counts

LEMMA ValueType ==
  ASSUME NEW n \in Nat, NEW s \in Buckets(n)
  PROVE  Value(s) \in P!Poly /\ Terms(s) \in Nat
<1>1. PICK v : Sums(v, s, n) /\ Value(s) = v[n]
  BY ValueIs
<1>2. PICK w : Counts(w, s, n) /\ Terms(s) = w[n]
  BY TermsIs
<1>3. n \in 0..n
  OBVIOUS
<1> QED BY <1>1, <1>2, <1>3 DEF Sums, Counts

\* No more terms than exponents in each bucket.
LEMMA TermsBounded ==
  ASSUME NEW n \in Nat, NEW s \in Buckets(n)
  PROVE  Terms(s) <= n * (MaxDeg + 1)
<1>1. PICK v : Counts(v, s, n) /\ Terms(s) = v[n]
  BY TermsIs
<1> PICK m : m = MaxDeg + 1
  OBVIOUS
<1>2. m \in Nat
  BY Degrees
<1>3. ASSUME NEW f \in P!Poly PROVE P!NumTerms(f) <= m
  <2>1. Cardinality(0..MaxDeg) = m /\ IsFiniteSet(0..MaxDeg)
    <3>1. 0 \in Int /\ MaxDeg \in Int /\ MaxDeg - 0 + 1 = MaxDeg + 1 /\ ~(0 > MaxDeg)
      BY Degrees
    <3>2. Cardinality(0..MaxDeg) = IF 0 > MaxDeg THEN 0 ELSE MaxDeg - 0 + 1
      BY <3>1, FS_Interval, Zenon
    <3>3. IsFiniteSet(0..MaxDeg)
      BY <3>1, FS_Interval, Zenon
    <3> QED BY <3>1, <3>2, <3>3, Zenon
  <2>2. P!Support(f) \subseteq 0..MaxDeg
    BY SupportFacts, Degrees
  <2>3. Cardinality(P!Support(f)) <= Cardinality(0..MaxDeg)
    BY <2>1, <2>2, FS_Subset
  <2> QED BY <2>1, <2>3, TermCount
<1> DEFINE Q == [k \in 0..n |-> {x \in Nat : x <= k * m}]
<1>4. \A k \in 0..n : v[k] \in Q[k]
  <2>1. v[0] \in Q[0]
    <3>1. v[0] = 0 /\ 0 \in 0..n /\ 0 <= 0 * m /\ 0 \in Nat
      BY <1>1, <1>2 DEF Counts
    <3> QED BY <3>1
  <2>2. ASSUME NEW k \in 0 + 1..n, v[k - 1] \in Q[k - 1] PROVE v[k] \in Q[k]
    <3>1. k \in 1..n /\ k - 1 \in 0..n /\ k \in 0..n /\ k \in Int
      OBVIOUS
    <3> PICK x, y : x = v[k - 1] /\ y = P!NumTerms(s[k].poly)
      OBVIOUS
    <3>2. x \in Nat /\ x <= (k - 1) * m
      BY <2>2, <3>1
    <3>3. y \in Nat /\ y <= m
      BY <1>3, <3>1, BucketOf, SupportFacts
    <3>4. v[k] = x + y
      BY <1>1, <3>1 DEF Counts
    <3>5. (k - 1) * m = k * m - m /\ k * m \in Int
      BY <1>2, <3>1
    <3>6. x + y \in Nat /\ x + y <= k * m
      BY <1>2, <3>2, <3>3, <3>5
    <3> QED BY <3>1, <3>4, <3>6
  <2>3. 0 \in Int /\ n \in Int
    OBVIOUS
  <2> HIDE DEF Q
  <2> QED BY <2>1, <2>2, <2>3, ChainKeeps, Zenon
<1>5. v[n] \in Q[n] /\ n \in 0..n
  <2>1. n \in 0..n
    OBVIOUS
  <2> HIDE DEF Q
  <2> QED BY <1>4, <2>1
<1>6. v[n] <= n * m
  BY <1>5
<1> QED BY <1>1, <1>6

LEMMA PlusSwap ==
  ASSUME NEW f \in P!Poly, NEW g \in P!Poly, NEW h \in P!Poly
  PROVE  P!Plus(P!Plus(f, g), h) = P!Plus(P!Plus(f, h), g)
<1>1. P!Plus(P!Plus(f, g), h) = P!Plus(f, P!Plus(g, h))
  BY PlusAssoc
<1>2. P!Plus(P!Plus(f, h), g) = P!Plus(f, P!Plus(h, g))
  BY PlusAssoc
<1>3. P!Plus(g, h) = P!Plus(h, g)
  BY PlusComm
<1> QED BY <1>1, <1>2, <1>3

\* A change of one bucket changes the sum by as much, and the number of terms.
LEMMA ValueChanged ==
  ASSUME NEW n \in Nat, NEW s \in Buckets(n), NEW t \in Buckets(n), NEW i \in 1..n,
         \A k \in (1..n) \ {i} : t[k] = s[k],
         NEW g \in P!Poly, NEW h \in P!Poly,
         P!Plus(Part(t[i]), g) = P!Plus(Part(s[i]), h)
  PROVE  P!Plus(Value(t), g) = P!Plus(Value(s), h)
<1>1. PICK v : Sums(v, s, n) /\ Value(s) = v[n]
  BY ValueIs
<1>2. PICK w : Sums(w, t, n) /\ Value(t) = w[n]
  BY ValueIs
<1> DEFINE Q == [k \in 0..n |-> IF k < i THEN {v[k]}
                                ELSE {x \in P!Poly : P!Plus(x, g) = P!Plus(v[k], h)}]
<1>3. w[0] \in Q[0]
  <2>1. 0 \in 0..n /\ 0 < i
    OBVIOUS
  <2>2. w[0] = v[0]
    BY <1>1, <1>2 DEF Sums
  <2> QED BY <2>1, <2>2
<1>4. ASSUME NEW k \in 0 + 1..n, w[k - 1] \in Q[k - 1] PROVE w[k] \in Q[k]
  <2>1. k \in 1..n /\ k - 1 \in 0..n /\ k \in 0..n
    OBVIOUS
  <2> PICK a, b, c, d : a = w[k - 1] /\ b = v[k - 1] /\ c = Part(t[k]) /\ d = Part(s[k])
    OBVIOUS
  <2>2. /\ a \in P!Poly /\ b \in P!Poly /\ c \in P!Poly /\ d \in P!Poly
        /\ w[k] = P!Plus(a, c) /\ v[k] = P!Plus(b, d) /\ w[k] \in P!Poly
    BY <1>1, <1>2, <2>1, BucketOf DEF Sums
  <2>3. CASE k < i
    <3>1. c = d /\ k - 1 < i
      BY <2>1, <2>3
    <3>2. a = b
      BY <1>4, <2>1, <3>1
    <3>3. w[k] = v[k]
      BY <2>2, <3>1, <3>2
    <3> QED BY <2>1, <2>3, <3>3
  <2>4. CASE k = i
    <3>1. k - 1 < i
      BY <2>1, <2>4
    <3>2. a = b
      BY <1>4, <2>1, <3>1
    <3>3. P!Plus(P!Plus(b, c), g) = P!Plus(b, P!Plus(c, g))
      BY <2>2, PlusAssoc
    <3>4. P!Plus(P!Plus(b, d), h) = P!Plus(b, P!Plus(d, h))
      BY <2>2, PlusAssoc
    <3>5. P!Plus(c, g) = P!Plus(d, h)
      BY <2>4
    <3>6. P!Plus(w[k], g) = P!Plus(v[k], h)
      BY <2>2, <3>2, <3>3, <3>4, <3>5
    <3> QED BY <2>1, <2>2, <2>4, <3>6
  <2>5. CASE k > i
    <3>1. ~(k - 1 < i) /\ ~(k < i) /\ k \in (1..n) \ {i}
      BY <2>1, <2>5
    <3>2. c = d /\ P!Plus(a, g) = P!Plus(b, h)
      BY <1>4, <2>1, <3>1
    <3>3. P!Plus(P!Plus(a, c), g) = P!Plus(P!Plus(a, g), c)
      BY <2>2, PlusSwap
    <3>4. P!Plus(P!Plus(b, h), d) = P!Plus(P!Plus(b, d), h)
      BY <2>2, PlusSwap
    <3>5. P!Plus(w[k], g) = P!Plus(v[k], h)
      BY <2>2, <3>2, <3>3, <3>4
    <3> QED BY <2>1, <2>2, <3>1, <3>5
  <2> QED BY <2>1, <2>3, <2>4, <2>5
<1>5. \A k \in 0..n : w[k] \in Q[k]
  <2>1. 0 \in Int /\ n \in Int
    OBVIOUS
  <2> HIDE DEF Q
  <2> QED BY <1>3, <1>4, <2>1, ChainKeeps, Zenon
<1>6. n \in 0..n /\ ~(n < i)
  OBVIOUS
<1>7. w[n] \in Q[n]
  <2> HIDE DEF Q
  <2> QED BY <1>5, <1>6
<1> QED BY <1>1, <1>2, <1>6, <1>7

LEMMA TermsChanged ==
  ASSUME NEW n \in Nat, NEW s \in Buckets(n), NEW t \in Buckets(n), NEW i \in 1..n,
         \A k \in (1..n) \ {i} : t[k] = s[k]
  PROVE  Terms(t) + P!NumTerms(s[i].poly) = Terms(s) + P!NumTerms(t[i].poly)
<1>1. PICK v : Counts(v, s, n) /\ Terms(s) = v[n]
  BY TermsIs
<1>2. PICK w : Counts(w, t, n) /\ Terms(t) = w[n]
  BY TermsIs
<1> PICK x, y : x = P!NumTerms(s[i].poly) /\ y = P!NumTerms(t[i].poly)
  OBVIOUS
<1>3. x \in Nat /\ y \in Nat
  BY BucketOf, SupportFacts
<1> DEFINE Q == [k \in 0..n |-> IF k < i THEN {v[k]} ELSE {z \in Nat : z + x = v[k] + y}]
<1>4. w[0] \in Q[0]
  <2>1. 0 \in 0..n /\ 0 < i
    OBVIOUS
  <2>2. w[0] = v[0]
    BY <1>1, <1>2 DEF Counts
  <2> QED BY <2>1, <2>2
<1>5. ASSUME NEW k \in 0 + 1..n, w[k - 1] \in Q[k - 1] PROVE w[k] \in Q[k]
  <2>1. k \in 1..n /\ k - 1 \in 0..n /\ k \in 0..n
    OBVIOUS
  <2> PICK a, b, c, d : /\ a = w[k - 1] /\ b = v[k - 1]
                        /\ c = P!NumTerms(t[k].poly) /\ d = P!NumTerms(s[k].poly)
    OBVIOUS
  <2>2. /\ a \in Nat /\ b \in Nat /\ c \in Nat /\ d \in Nat
        /\ w[k] = a + c /\ v[k] = b + d /\ w[k] \in Nat
    BY <1>1, <1>2, <2>1, BucketOf, SupportFacts DEF Counts
  <2>3. CASE k < i
    <3>1. c = d /\ k - 1 < i
      BY <2>1, <2>3
    <3>2. a = b
      BY <1>5, <2>1, <3>1
    <3>3. w[k] = v[k]
      BY <2>2, <3>1, <3>2
    <3> QED BY <2>1, <2>3, <3>3
  <2>4. CASE k = i
    <3>1. k - 1 < i
      BY <2>1, <2>4
    <3>2. a = b /\ c = y /\ d = x
      BY <1>5, <2>1, <2>4, <3>1
    <3>3. (a + c) + x = (b + d) + y
      BY <1>3, <2>2, <3>2
    <3>4. w[k] + x = v[k] + y
      BY <2>2, <3>3
    <3> QED BY <2>1, <2>2, <2>4, <3>4
  <2>5. CASE k > i
    <3>1. ~(k - 1 < i) /\ ~(k < i) /\ k \in (1..n) \ {i}
      BY <2>1, <2>5
    <3>2. c = d /\ a + x = b + y
      BY <1>5, <2>1, <3>1
    <3>3. (a + c) + x = (b + d) + y
      BY <1>3, <2>2, <3>2
    <3>4. w[k] + x = v[k] + y
      BY <2>2, <3>3
    <3> QED BY <2>1, <2>2, <3>1, <3>4
  <2> QED BY <2>1, <2>3, <2>4, <2>5
<1>6. \A k \in 0..n : w[k] \in Q[k]
  <2>1. 0 \in Int /\ n \in Int
    OBVIOUS
  <2> HIDE DEF Q
  <2> QED BY <1>4, <1>5, <2>1, ChainKeeps, Zenon
<1>7. n \in 0..n /\ ~(n < i)
  OBVIOUS
<1>8. w[n] \in Q[n]
  <2> HIDE DEF Q
  <2> QED BY <1>6, <1>7
<1>9. w[n] + x = v[n] + y
  BY <1>7, <1>8
<1> QED BY <1>1, <1>2, <1>9

\* What is taken from one bucket is added to another.
LEMMA TwoChanged ==
  ASSUME NEW n \in Nat, NEW s \in Buckets(n), NEW t \in Buckets(n),
         NEW i \in 1..n, NEW j \in 1..n, i # j,
         \A k \in (1..n) \ {i, j} : t[k] = s[k],
         NEW h \in P!Poly,
         Part(t[i]) = P!Plus(Part(s[i]), h), P!Plus(Part(t[j]), h) = Part(s[j])
  PROVE  /\ Value(t) = Value(s)
         /\ Terms(t) + P!NumTerms(s[i].poly) + P!NumTerms(s[j].poly)
              = Terms(s) + P!NumTerms(t[i].poly) + P!NumTerms(t[j].poly)
<1> DEFINE u == [s EXCEPT ![i] = t[i]]
<1>1. s \in [1..n -> Good] /\ t \in [1..n -> Good]
  BY DEF Buckets
<1>2. u \in [1..n -> Good] /\ u[i] = t[i] /\ \A k \in (1..n) \ {i} : u[k] = s[k]
  BY <1>1
<1> HIDE DEF u
<1>3. u \in Buckets(n)
  BY <1>2, InBuckets, Zenon
<1>4. /\ P!ZeroPoly \in P!Poly /\ Value(s) \in P!Poly /\ Value(t) \in P!Poly /\ Value(u) \in P!Poly
      /\ Part(t[i]) \in P!Poly /\ Part(s[j]) \in P!Poly
      /\ Terms(s) \in Nat /\ Terms(t) \in Nat /\ Terms(u) \in Nat
  BY <1>3, ValueType, ZeroFacts, BucketOf
<1>5. P!Plus(Value(u), P!ZeroPoly) = P!Plus(Value(s), h)
  <2> PICK z \in P!Poly : z = P!ZeroPoly
    BY <1>4
  <2>1. P!Plus(Part(u[i]), z) = P!Plus(Part(s[i]), h)
    BY <1>2, <1>4, PlusZero
  <2>2. P!Plus(Value(u), z) = P!Plus(Value(s), h)
    BY <1>2, <1>3, <2>1, ValueChanged
  <2> QED BY <2>2
<1>6. P!Plus(Value(t), h) = P!Plus(Value(u), P!ZeroPoly)
  <2>1. \A k \in (1..n) \ {j} : t[k] = u[k]
    BY <1>2
  <2>2. u[j] = s[j]
    BY <1>2
  <2>3. P!Plus(Part(t[j]), h) = P!Plus(Part(u[j]), P!ZeroPoly)
    BY <1>4, <2>2, PlusZero
  <2> QED BY <1>3, <1>4, <2>1, <2>3, ValueChanged
<1>7. Value(t) = Value(s)
  BY <1>4, <1>5, <1>6, PlusCancel
<1>8. Terms(u) + P!NumTerms(s[i].poly) = Terms(s) + P!NumTerms(t[i].poly)
  BY <1>2, <1>3, TermsChanged
<1>9. Terms(t) + P!NumTerms(s[j].poly) = Terms(u) + P!NumTerms(t[j].poly)
  <2>1. (\A k \in (1..n) \ {j} : t[k] = u[k]) /\ u[j] = s[j]
    BY <1>2
  <2>2. Terms(t) + P!NumTerms(u[j].poly) = Terms(u) + P!NumTerms(t[j].poly)
    BY <1>3, <2>1, TermsChanged
  <2> QED BY <2>1, <2>2
<1> PICK a, b, c, d : /\ a = P!NumTerms(s[i].poly) /\ b = P!NumTerms(s[j].poly)
                      /\ c = P!NumTerms(t[i].poly) /\ d = P!NumTerms(t[j].poly)
  OBVIOUS
<1>10. a \in Nat /\ b \in Nat /\ c \in Nat /\ d \in Nat
  BY BucketOf, SupportFacts
<1> PICK x, y, z : x = Terms(s) /\ y = Terms(t) /\ z = Terms(u)
  OBVIOUS
<1>11. x \in Nat /\ y \in Nat /\ z \in Nat /\ z + a = x + c /\ y + b = z + d
  BY <1>4, <1>8, <1>9
<1>12. y + a + b = x + c + d
  BY <1>10, <1>11
<1> QED BY <1>7, <1>12

\* The sum is kept, and d terms at least have vanished.
Kept(s, t, d) ==
  /\ Value(t) = Value(s)
  /\ Terms(s) \in Nat /\ Terms(t) \in Nat /\ Terms(t) + d <= Terms(s)

LEMMA KeptTrans ==
  ASSUME NEW s, NEW t, NEW u, NEW d \in Nat, NEW e \in Nat, Kept(s, t, d), Kept(t, u, e)
  PROVE  Kept(s, u, d + e) /\ Kept(s, u, d) /\ Kept(s, u, e)
<1> PICK x, y, z : x = Terms(s) /\ y = Terms(t) /\ z = Terms(u)
  OBVIOUS
<1>1. x \in Nat /\ y \in Nat /\ z \in Nat /\ y + d <= x /\ z + e <= y
  BY DEF Kept
<1>2. z + (d + e) <= x /\ z + d <= x /\ z + e <= x
  BY <1>1
<1>3. Value(u) = Value(s)
  BY DEF Kept
<1> QED BY <1>1, <1>2, <1>3 DEF Kept

LEMMA KeptBoth ==
  ASSUME NEW n \in Nat, NEW s \in Buckets(n), NEW t \in Buckets(n),
         NEW i \in 1..n, NEW j \in 1..n, i # j,
         \A k \in (1..n) \ {i, j} : t[k] = s[k],
         NEW h \in P!Poly,
         Part(t[i]) = P!Plus(Part(s[i]), h), P!Plus(Part(t[j]), h) = Part(s[j]),
         NEW d \in Nat,
         P!NumTerms(t[i].poly) + P!NumTerms(t[j].poly) + d
           <= P!NumTerms(s[i].poly) + P!NumTerms(s[j].poly)
  PROVE  Kept(s, t, d)
<1> PICK a, b, c, e : /\ a = P!NumTerms(s[i].poly) /\ b = P!NumTerms(s[j].poly)
                      /\ c = P!NumTerms(t[i].poly) /\ e = P!NumTerms(t[j].poly)
  OBVIOUS
<1>1. a \in Nat /\ b \in Nat /\ c \in Nat /\ e \in Nat
  BY BucketOf, SupportFacts
<1> PICK x, y : x = Terms(s) /\ y = Terms(t)
  OBVIOUS
<1>2. x \in Nat /\ y \in Nat
  BY ValueType
<1>3. Value(t) = Value(s) /\ y + a + b = x + c + e
  BY TwoChanged
<1>4. c + e + d <= a + b
  OBVIOUS
<1>5. y + d <= x
  BY <1>1, <1>2, <1>3, <1>4
<1> QED BY <1>2, <1>3, <1>5 DEF Kept

LEMMA MergedKept ==
  ASSUME NEW n \in Nat, NEW s \in Buckets(n), NEW i \in 1..n, NEW j \in 1..n, i # j
  PROVE  Kept(s, Merged(s, i, j), 0)
<1> PICK t : t = Merged(s, i, j)
  OBVIOUS
<1> PICK g, h : g = Part(s[i]) /\ h = Part(s[j])
  OBVIOUS
<1>1. s[i] \in Bucket /\ s[j] \in Bucket
  BY BucketOf
<1>2. /\ g \in P!Poly /\ h \in P!Poly
      /\ Normalized(s[i]).poly = g /\ Normalized(s[j]).poly = h
      /\ P!NumTerms(g) = P!NumTerms(s[i].poly) /\ P!NumTerms(h) = P!NumTerms(s[j].poly)
  BY <1>1, PartFacts, NormalizedFacts
<1>3. /\ t \in Buckets(n) /\ t[i].poly = P!Plus(g, h) /\ t[i].coeff = 1 /\ IsZero(t[j])
      /\ \A k \in (1..n) \ {i, j} : t[k] = s[k]
  <2>1. /\ t \in Buckets(n) /\ t[i].coeff = 1 /\ IsZero(t[j])
        /\ t[i].poly = P!Plus(Normalized(s[i]).poly, Normalized(s[j]).poly)
        /\ \A k \in (1..n) \ {i, j} : t[k] = s[k]
    BY MergedFacts
  <2> QED BY <1>2, <2>1
<1>4. t[i] \in Bucket /\ t[j] \in Bucket
  BY <1>3, BucketOf
<1>5. Part(t[i]) = P!Plus(Part(s[i]), h)
  BY <1>3, <1>4, PartFacts
<1>6. P!Plus(Part(t[j]), h) = Part(s[j])
  BY <1>2, <1>3, <1>4, PartFacts, PlusZero
<1>7. P!NumTerms(t[i].poly) + P!NumTerms(t[j].poly) + 0
        <= P!NumTerms(s[i].poly) + P!NumTerms(s[j].poly)
  <2> PICK a, b, c : /\ a = P!NumTerms(g) /\ b = P!NumTerms(h)
                     /\ c = P!NumTerms(P!Plus(g, h))
    OBVIOUS
  <2>1. a \in Nat /\ b \in Nat /\ c \in Nat /\ c <= a + b
    BY <1>2, PlusFacts, SupportFacts
  <2>2. P!NumTerms(t[j].poly) = 0
    BY <1>3, ZeroFacts DEF IsZero
  <2>3. c + 0 + 0 <= a + b
    BY <2>1
  <2> QED BY <1>2, <1>3, <2>2, <2>3
<1>8. 0 \in Nat
  OBVIOUS
<1> QED BY <1>2, <1>3, <1>5, <1>6, <1>7, <1>8, KeptBoth

LEMMA LMMovedKept ==
  ASSUME NEW n \in Nat, NEW s \in Buckets(n), NEW j \in 2..n, ~IsZero(s[j])
  PROVE  Kept(s, LMMoved(s, j), 0)
<1> PICK t : t = LMMoved(s, j)
  OBVIOUS
<1> PICK g, f, h : g = Part(s[1]) /\ f = Part(s[j]) /\ h = P!LM(f)
  OBVIOUS
<1>1. 1 \in 1..n /\ j \in 1..n /\ 1 # j
  OBVIOUS
<1>2. s[1] \in Bucket /\ s[j] \in Bucket
  BY <1>1, BucketOf
<1>3. /\ g \in P!Poly /\ f \in P!Poly
      /\ Normalized(s[1]).poly = g /\ Normalized(s[j]).poly = f
      /\ P!NumTerms(g) = P!NumTerms(s[1].poly) /\ P!NumTerms(f) = P!NumTerms(s[j].poly)
  BY <1>2, PartFacts, NormalizedFacts
<1>4. /\ t \in Buckets(n) /\ t[1].poly = P!Plus(g, h) /\ t[1].coeff = 1
      /\ t[j].poly = P!Tail(f) /\ t[j].coeff = 1 /\ f # P!ZeroPoly
      /\ \A k \in (1..n) \ {1, j} : t[k] = s[k]
  BY <1>3, LMMovedFacts
<1>5. t[1] \in Bucket /\ t[j] \in Bucket
  BY <1>1, <1>4, BucketOf
<1>6. /\ h \in P!Poly /\ P!NumTerms(h) = 1 /\ P!NumTerms(P!Tail(f)) = P!NumTerms(f) - 1
      /\ P!Plus(P!Tail(f), h) = f
  BY <1>3, <1>4, LMTail, LMPlusTail
<1>7. Part(t[1]) = P!Plus(Part(s[1]), h) /\ P!Plus(Part(t[j]), h) = Part(s[j])
  BY <1>4, <1>5, <1>6, PartFacts
<1>8. P!NumTerms(t[1].poly) + P!NumTerms(t[j].poly) + 0
        <= P!NumTerms(s[1].poly) + P!NumTerms(s[j].poly)
  <2> PICK a, b, c : a = P!NumTerms(g) /\ b = P!NumTerms(f) /\ c = P!NumTerms(P!Plus(g, h))
    OBVIOUS
  <2>1. a \in Nat /\ b \in Nat /\ c \in Nat /\ c <= a + 1
    BY <1>3, <1>6, PlusFacts, SupportFacts
  <2>2. c + (b - 1) + 0 <= a + b
    BY <2>1
  <2> QED BY <1>3, <1>4, <1>6, <2>2
<1>9. 0 \in Nat
  OBVIOUS
<1> QED BY <1>1, <1>4, <1>6, <1>7, <1>8, <1>9, KeptBoth

\* Two terms vanish when leading terms cancel.
LEMMA LCsAddedKept ==
  ASSUME NEW n \in Nat, NEW s \in Buckets(n), NEW j \in 2..n, ~IsZero(s[j]),
         P!LPP(s[1].poly) = P!LPP(s[j].poly)
  PROVE  /\ Kept(s, LCsAdded(s, j), 0)
         /\ Cancels(s[1], s[j]) => Kept(s, LCsAdded(s, j), 2)
<1> PICK t : t = LCsAdded(s, j)
  OBVIOUS
<1> PICK g, f, h : g = Part(s[1]) /\ f = Part(s[j]) /\ h = P!LM(f)
  OBVIOUS
<1>1. 1 \in 1..n /\ j \in 1..n /\ 1 # j
  OBVIOUS
<1>2. s[1] \in Bucket /\ s[j] \in Bucket
  BY <1>1, BucketOf
<1>3. /\ g \in P!Poly /\ f \in P!Poly
      /\ Normalized(s[1]).poly = g /\ Normalized(s[j]).poly = f
      /\ P!NumTerms(f) = P!NumTerms(s[j].poly)
  BY <1>2, PartFacts, NormalizedFacts
<1>4. /\ t \in Buckets(n) /\ t[1].poly = P!Plus(g, h) /\ t[1].coeff = 1
      /\ t[j].poly = P!Tail(f) /\ t[j].coeff = 1 /\ f # P!ZeroPoly
      /\ Cancels(s[1], s[j]) => P!NumTerms(t[1].poly) = P!NumTerms(s[1].poly) - 1
      /\ ~Cancels(s[1], s[j]) => P!NumTerms(t[1].poly) = P!NumTerms(s[1].poly)
      /\ \A k \in (1..n) \ {1, j} : t[k] = s[k]
  BY <1>3, LCsAddedFacts
<1>5. t[1] \in Bucket /\ t[j] \in Bucket
  BY <1>1, <1>4, BucketOf
<1>6. /\ h \in P!Poly /\ P!NumTerms(P!Tail(f)) = P!NumTerms(f) - 1
      /\ P!Plus(P!Tail(f), h) = f
  BY <1>3, <1>4, LMTail, LMPlusTail
<1>7. Part(t[1]) = P!Plus(Part(s[1]), h) /\ P!Plus(Part(t[j]), h) = Part(s[j])
  BY <1>4, <1>5, <1>6, PartFacts
<1> PICK a, b : a = P!NumTerms(s[1].poly) /\ b = P!NumTerms(f)
  OBVIOUS
<1>8. a \in Nat /\ b \in Nat
  BY <1>1, <1>3, BucketOf, SupportFacts
<1>9. 0 \in Nat /\ 2 \in Nat
  OBVIOUS
<1>10. CASE Cancels(s[1], s[j])
  <2>1. (a - 1) + (b - 1) + 2 <= a + b
    BY <1>8
  <2>2. P!NumTerms(t[1].poly) + P!NumTerms(t[j].poly) + 2
          <= P!NumTerms(s[1].poly) + P!NumTerms(s[j].poly)
    BY <1>3, <1>4, <1>6, <1>10, <2>1
  <2>3. Kept(s, t, 2)
    BY <1>1, <1>4, <1>6, <1>7, <1>9, <2>2, KeptBoth
  <2>4. Kept(s, t, 0)
    <3>1. Terms(s) \in Nat /\ Terms(t) \in Nat /\ Terms(t) + 2 <= Terms(s) /\ Value(t) = Value(s)
      BY <2>3 DEF Kept
    <3> PICK x, y : x = Terms(s) /\ y = Terms(t)
      OBVIOUS
    <3>2. y + 0 <= x
      BY <3>1
    <3> QED BY <3>1, <3>2 DEF Kept
  <2> QED BY <2>3, <2>4
<1>11. CASE ~Cancels(s[1], s[j])
  <2>1. a + (b - 1) + 0 <= a + b
    BY <1>8
  <2>2. P!NumTerms(t[1].poly) + P!NumTerms(t[j].poly) + 0
          <= P!NumTerms(s[1].poly) + P!NumTerms(s[j].poly)
    BY <1>3, <1>4, <1>6, <1>11, <2>1
  <2>3. Kept(s, t, 0)
    BY <1>1, <1>4, <1>6, <1>7, <1>9, <2>2, KeptBoth
  <2> QED BY <1>11, <2>3
<1> QED BY <1>10, <1>11

\* A bucket that changes in no more than its bound, or is written otherwise.
LEMMA SameParts ==
  ASSUME NEW n \in Nat, NEW s \in Buckets(n), NEW t \in Buckets(n),
         NEW i \in 1..n, \A k \in (1..n) \ {i} : t[k] = s[k], Part(t[i]) = Part(s[i])
  PROVE  Kept(s, t, 0)
<1>1. Value(s) \in P!Poly /\ Value(t) \in P!Poly /\ Terms(s) \in Nat /\ Terms(t) \in Nat
  BY ValueType
<1> PICK z \in P!Poly : z = P!ZeroPoly
  BY ZeroFacts
<1>2. P!Plus(Part(t[i]), z) = P!Plus(Part(s[i]), z)
  OBVIOUS
<1>3. P!Plus(Value(t), z) = P!Plus(Value(s), z)
  BY <1>2, ValueChanged
<1>4. Value(t) = Value(s)
  BY <1>1, <1>3, PlusCancel
<1>5. P!NumTerms(t[i].poly) = P!NumTerms(s[i].poly)
  <2>1. s[i] \in Bucket /\ t[i] \in Bucket /\ s[i].poly \in P!Poly /\ t[i].poly \in P!Poly
    BY BucketOf
  <2>2. P!Support(t[i].poly) = P!Support(s[i].poly)
    BY <2>1, PartFacts
  <2> QED BY <2>1, <2>2, SameSupport
<1>6. Terms(t) + P!NumTerms(s[i].poly) = Terms(s) + P!NumTerms(t[i].poly)
  BY TermsChanged
<1> PICK a, x, y : a = P!NumTerms(s[i].poly) /\ x = Terms(s) /\ y = Terms(t)
  OBVIOUS
<1>7. a \in Nat
  BY BucketOf, SupportFacts
<1>8. y + 0 <= x
  BY <1>1, <1>5, <1>6, <1>7
<1> QED BY <1>1, <1>4, <1>8 DEF Kept

LEMMA KeptSame == ASSUME NEW n \in Nat, NEW s \in Buckets(n) PROVE Kept(s, s, 0)
<1> PICK x : x = Terms(s)
  OBVIOUS
<1>1. x \in Nat
  BY ValueType
<1>2. x + 0 <= x
  BY <1>1
<1> QED BY <1>1, <1>2 DEF Kept

\* Buckets that are zero may be added behind.
LEMMA ValueExtended ==
  ASSUME NEW n \in Nat, NEW m \in Nat, n <= m, NEW s \in Buckets(n), NEW t \in Buckets(m),
         \A k \in 1..n : t[k] = s[k],
         \A k \in 1..m : k \notin 1..n => IsZero(t[k])
  PROVE  Value(t) = Value(s)
<1>1. PICK v : Sums(v, s, n) /\ Value(s) = v[n]
  BY ValueIs
<1>2. PICK w : Sums(w, t, m) /\ Value(t) = w[m]
  BY ValueIs
<1> DEFINE Q == [k \in 0..m |-> IF k <= n THEN {v[k]} ELSE {v[n]}]
<1>3. w[0] \in Q[0]
  <2>1. 0 \in 0..m /\ 0 <= n
    OBVIOUS
  <2>2. w[0] = v[0]
    BY <1>1, <1>2 DEF Sums
  <2> QED BY <2>1, <2>2
<1>4. ASSUME NEW k \in 0 + 1..m, w[k - 1] \in Q[k - 1] PROVE w[k] \in Q[k]
  <2>1. k \in 1..m /\ k - 1 \in 0..m /\ k \in 0..m
    OBVIOUS
  <2>2. w[k] = P!Plus(w[k - 1], Part(t[k]))
    BY <1>2, <2>1 DEF Sums
  <2>3. CASE k <= n
    <3>1. k \in 1..n /\ k - 1 <= n
      BY <2>1, <2>3
    <3>2. v[k] = P!Plus(v[k - 1], Part(s[k])) /\ t[k] = s[k]
      BY <1>1, <3>1 DEF Sums
    <3>3. w[k - 1] = v[k - 1]
      BY <1>4, <2>1, <3>1
    <3>4. w[k] = v[k]
      BY <2>2, <3>2, <3>3
    <3> QED BY <2>1, <2>3, <3>4
  <2>4. CASE ~(k <= n)
    <3>1. k \notin 1..n /\ (k - 1 <= n => k - 1 = n)
      BY <2>1, <2>4
    <3>2. w[k - 1] = v[n]
      BY <1>4, <2>1, <3>1
    <3>3. Part(t[k]) = P!ZeroPoly
      BY <2>1, <3>1, BucketOf, PartFacts
    <3>4. v[n] \in P!Poly
      BY <1>1, ValueType
    <3>5. w[k] = v[n]
      BY <2>2, <3>2, <3>3, <3>4, PlusZero
    <3> QED BY <2>1, <2>4, <3>5
  <2> QED BY <2>3, <2>4
<1>5. \A k \in 0..m : w[k] \in Q[k]
  <2>1. 0 \in Int /\ m \in Int
    OBVIOUS
  <2> HIDE DEF Q
  <2> QED BY <1>3, <1>4, <2>1, ChainKeeps, Zenon
<1>6. m \in 0..m /\ (m <= n => m = n)
  OBVIOUS
<1>7. w[m] \in Q[m]
  <2> HIDE DEF Q
  <2> QED BY <1>5, <1>6
<1> QED BY <1>1, <1>2, <1>6, <1>7

-----------------------------------------------------------------------------
(* Passes of mySetLM.                                                        *)

Below(s, j) == IsZero(s[j]) \/ P!LPP(s[j].poly) < P!LPP(s[1].poly)
SameCapacities(s, t, n) == \A k \in 1..n : t[k].maxLen = s[k].maxLen

\* A bucket with a higher leading term gives it to the first bucket.
LEMMA TakeFacts ==
  ASSUME NEW n \in Nat, NEW s \in Buckets(n), NEW j \in 2..n, ~IsZero(s[j]),
         P!LPP(s[1].poly) < P!LPP(s[j].poly)
  PROVE  LET t == Take(s, j)
         IN  /\ t \in Buckets(n) /\ t[1].coeff = 1
             /\ P!LPP(t[1].poly) = P!LPP(s[j].poly)
             /\ Below(t, j)
             /\ SameCapacities(s, t, n)
             /\ \A k \in (1..n) \ {1, j} : t[k] = s[k]
<1>1. 1 \in 1..n /\ j \in 1..n /\ j # 1
  OBVIOUS
<1>2. s[1] \in Bucket /\ s[j] \in Bucket
  BY <1>1 DEF Buckets, Good
<1> DEFINE f == Normalized(s[j]).poly
           g == Normalized(s[1]).poly
<1>3. /\ f \in P!Poly /\ g \in P!Poly
      /\ P!LPP(f) = P!LPP(s[j].poly) /\ P!LPP(g) = P!LPP(s[1].poly)
  BY <1>2, NormalizedFacts DEF Bucket
<1>4. CASE s[j].approx < gbk_minlen
  <2> DEFINE t == Merged(s, 1, j)
  <2>1. /\ t \in Buckets(n) /\ t[1].poly = P!Plus(g, f) /\ t[1].coeff = 1
        /\ t[1].maxLen = s[1].maxLen /\ IsZero(t[j]) /\ t[j].maxLen = s[j].maxLen
        /\ \A k \in (1..n) \ {1, j} : t[k] = s[k]
    BY <1>1, MergedFacts
  <2>2. P!LPP(P!Plus(g, f)) = P!LPP(f)
    <3> HIDE DEF f, g
    <3>1. P!LPP(g) < P!LPP(f)
      BY <1>3
    <3> QED BY <1>3, <3>1, HigherLeads
  <2>3. Take(s, j) = t
    BY <1>4 DEF Take
  <2> HIDE DEF t, f, g
  <2>4. SameCapacities(s, t, n)
    BY <2>1 DEF SameCapacities
  <2> QED BY <1>3, <2>1, <2>2, <2>3, <2>4 DEF Below
<1>5. CASE ~(s[j].approx < gbk_minlen)
  <2> DEFINE t == LMMoved(s, j)
  <2>1. /\ t \in Buckets(n) /\ t[1].poly = P!Plus(g, P!LM(f)) /\ t[1].coeff = 1
        /\ t[j].poly = P!Tail(f) /\ f # P!ZeroPoly
        /\ \A k \in 1..n : t[k].maxLen = s[k].maxLen
        /\ \A k \in (1..n) \ {1, j} : t[k] = s[k]
    BY LMMovedFacts
  <2> HIDE DEF t, f, g
  <2>2. /\ P!LM(f) \in P!Poly /\ P!LPP(P!LM(f)) = P!LPP(f)
        /\ P!LPP(P!Tail(f)) < P!LPP(f)
    BY <1>3, <2>1, LMTail
  <2>3. P!LPP(g) < P!LPP(P!LM(f))
    BY <1>3, <2>2
  <2>4. P!LPP(t[1].poly) = P!LPP(f)
    BY <1>3, <2>1, <2>2, <2>3, HigherLeads
  <2>5. Take(s, j) = t
    BY <1>5 DEF Take, t
  <2>6. Below(t, j)
    BY <2>1, <2>2, <2>4 DEF Below
  <2>7. SameCapacities(s, t, n)
    BY <2>1 DEF SameCapacities
  <2> QED BY <1>3, <2>1, <2>4, <2>5, <2>6, <2>7
<1> QED BY <1>4, <1>5

LEMMA AbsorbFacts ==
  ASSUME NEW n \in Nat, NEW s \in Buckets(n), NEW j \in 2..n, s[1].coeff = 1
  PROVE  /\ Absorb(s, j) \in Buckets(n) /\ Absorb(s, j)[1].coeff = 1
         /\ SameCapacities(s, Absorb(s, j), n)
<1>1. 1 \in 1..n /\ j \in 1..n /\ j # 1
  OBVIOUS
<1>2. CASE s[j].approx < gbk_minlen
  <2> DEFINE t == Merged(s, 1, j)
  <2>1. /\ t \in Buckets(n) /\ t[1].coeff = 1
        /\ t[1].maxLen = s[1].maxLen /\ t[j].maxLen = s[j].maxLen
        /\ \A k \in (1..n) \ {1, j} : t[k] = s[k]
    BY <1>1, MergedFacts
  <2>2. Absorb(s, j) = t
    BY <1>2 DEF Absorb
  <2> HIDE DEF t
  <2> QED BY <2>1, <2>2 DEF SameCapacities
<1>3. CASE ~(s[j].approx < gbk_minlen)
  BY <1>3 DEF Absorb, SameCapacities
<1> QED BY <1>2, <1>3

LEMMA TakeKept ==
  ASSUME NEW n \in Nat, NEW s \in Buckets(n), NEW j \in 2..n, ~IsZero(s[j])
  PROVE  Kept(s, Take(s, j), 0)
<1>1. 1 \in 1..n /\ j \in 1..n /\ 1 # j
  OBVIOUS
<1>2. Kept(s, Merged(s, 1, j), 0) /\ Kept(s, LMMoved(s, j), 0)
  BY <1>1, MergedKept, LMMovedKept
<1> QED BY <1>2 DEF Take

LEMMA AbsorbKept ==
  ASSUME NEW n \in Nat, NEW s \in Buckets(n), NEW j \in 2..n
  PROVE  Kept(s, Absorb(s, j), 0)
<1>1. 1 \in 1..n /\ j \in 1..n /\ 1 # j
  OBVIOUS
<1>2. Kept(s, Merged(s, 1, j), 0) /\ Kept(s, s, 0)
  BY <1>1, MergedKept, KeptSame
<1> QED BY <1>2 DEF Absorb

LEMMA RefilledFacts ==
  ASSUME NEW n \in Nat, n >= 1, NEW s \in Buckets(n), s[1].coeff = 1
  PROVE  /\ Refilled(s) \in Buckets(n) /\ Refilled(s)[1].coeff = 1
         /\ SameCapacities(s, Refilled(s), n) /\ Kept(s, Refilled(s), 0)
<1> DEFINE z == [s EXCEPT ![1].approx = 0]
           N == {j \in 2..Len(s) : ~IsZero(s[j])}
           m == CHOOSE j \in N : \A k \in N : j <= k
<1>1. 1 \in 1..n /\ Len(s) = n /\ s \in [1..n -> Good]
  BY DEF Buckets
<1>2. CASE ~IsZero(s[1])
  <2>1. Refilled(s) = s /\ Kept(s, s, 0)
    BY <1>2, KeptSame DEF Refilled
  <2> QED BY <2>1 DEF SameCapacities
<1>3. CASE IsZero(s[1])
  <2>1. s[1] \in Bucket /\ s[1].poly = P!ZeroPoly
    BY <1>1, <1>3 DEF Good, IsZero
  <2> PICK b : b = [s[1] EXCEPT !.approx = 0]
    OBVIOUS
  <2>2. b \in Bucket /\ b.approx = 0 /\ b.poly = P!ZeroPoly /\ b.coeff = 1 /\ b.maxLen = s[1].maxLen
    BY <2>1 DEF Bucket
  <2>3. b \in Good
    <3>1. P!NumTerms(b.poly) = 0
      BY <2>2, ZeroFacts
    <3>2. P!NumTerms(b.poly) <= b.approx
      BY <2>2, <3>1
    <3> QED BY <2>2, <3>2, Zenon DEF Good
  <2>4. z = [s EXCEPT ![1] = b]
    BY <1>1
  <2>5. z \in [1..n -> Good] /\ z[1] = b /\ \A k \in (1..n) \ {1} : z[k] = s[k]
    <3> HIDE DEF z
    <3> QED BY <1>1, <2>3, <2>4
  <2>6. z \in Buckets(n)
    <3> HIDE DEF z
    <3> QED BY <2>5, InBuckets, Zenon
  <2>7. SameCapacities(s, z, n)
    <3> HIDE DEF z
    <3> QED BY <2>2, <2>5 DEF SameCapacities
  <2>10. Kept(s, z, 0)
    <3>1. Part(z[1]) = Part(s[1])
      <4> HIDE DEF z
      <4>1. z[1].coeff = s[1].coeff /\ z[1].poly = s[1].poly
        BY <2>1, <2>2, <2>5
      <4> QED BY <4>1 DEF Part
    <3> HIDE DEF z
    <3> QED BY <1>1, <2>5, <2>6, <3>1, SameParts
  <2>8. CASE N = {}
    <3>1. Refilled(s) = z
      BY <1>3, <2>8 DEF Refilled
    <3> HIDE DEF z
    <3> QED BY <2>2, <2>5, <2>6, <2>7, <2>10, <3>1
  <2>9. CASE N # {}
    <3>1. Refilled(s) = Take(z, m)
      BY <1>3, <2>9 DEF Refilled
    <3>2. m \in N
      <4>1. N \in SUBSET Nat
        OBVIOUS
      <4> HIDE DEF N
      <4>2. \E j \in N : \A k \in N : j <= k
        BY <2>9, <4>1, LeastElement
      <4> QED BY <4>2
    <3> HIDE DEF m
    <3>3. m \in 2..n /\ ~IsZero(s[m]) /\ m \in (1..n) \ {1}
      BY <1>1, <3>2
    <3>4. z[m] = s[m] /\ s[m].poly \in P!Poly
      <4> HIDE DEF z
      <4> QED BY <1>1, <2>5, <3>3 DEF Good, Bucket
    <3> HIDE DEF z, N
    <3>5. P!LPP(z[1].poly) < P!LPP(z[m].poly)
      <4>1. P!LPP(z[1].poly) = -1
        BY <2>2, <2>5, ZeroFacts
      <4>2. P!LPP(s[m].poly) \in Int /\ P!LPP(s[m].poly) >= -1 /\ P!LPP(s[m].poly) # -1
        BY <3>3, <3>4, LPPType DEF IsZero
      <4> QED BY <3>4, <4>1, <4>2
    <3>6. ~IsZero(z[m])
      BY <3>3, <3>4
    <3>7. /\ Take(z, m) \in Buckets(n) /\ Take(z, m)[1].coeff = 1
          /\ SameCapacities(z, Take(z, m), n)
      BY <2>6, <3>3, <3>5, <3>6, TakeFacts
    <3>8. Kept(z, Take(z, m), 0)
      BY <2>6, <3>3, <3>6, TakeKept
    <3>9. Kept(s, Take(z, m), 0)
      BY <2>10, <3>8, KeptTrans
    <3> QED BY <2>7, <3>1, <3>7, <3>9 DEF SameCapacities
  <2> QED BY <2>8, <2>9
<1> QED BY <1>2, <1>3

\* After the comparisons with the buckets up to j: the first bucket leads, or
\* the pass has ended.
Lost(c) == IF c THEN 2 ELSE 0
PassInv(s, j, n) ==
  {x \in [bs : Buckets(n), cancelled : BOOLEAN] :
     /\ x.bs[1].coeff = 1 /\ SameCapacities(s, x.bs, n)
     /\ Kept(s, x.bs, Lost(x.cancelled))
     /\ x.cancelled \/ \A i \in 2..j : Below(x.bs, i)}

LEMMA WithBuckets ==
  ASSUME NEW B, NEW x \in [bs : B, cancelled : BOOLEAN], NEW t
  PROVE  [x EXCEPT !.bs = t] = [bs |-> t, cancelled |-> x.cancelled]
  OBVIOUS

LEMMA CompareFacts ==
  ASSUME NEW n \in Nat, NEW s, NEW j \in 2..n, NEW x \in PassInv(s, j - 1, n)
  PROVE  Compare(x, j) \in PassInv(s, j, n)
<1> DEFINE a == x.bs
           first == P!LPP(a[1].poly)
           other == P!LPP(a[j].poly)
<1>1. /\ a \in Buckets(n) /\ x.cancelled \in BOOLEAN /\ a[1].coeff = 1
      /\ SameCapacities(s, a, n)
      /\ x = [bs |-> a, cancelled |-> x.cancelled]
      /\ x.cancelled \/ \A i \in 2..j - 1 : Below(a, i)
      /\ Kept(s, a, Lost(x.cancelled))
  BY DEF PassInv
<1>2. /\ 1 \in 1..n /\ j \in 1..n /\ j # 1
      /\ a[1].poly \in P!Poly /\ a[j].poly \in P!Poly
  <2>1. 1 \in 1..n /\ j \in 1..n /\ j # 1
    OBVIOUS
  <2>2. a \in [1..n -> Good]
    BY <1>1 DEF Buckets
  <2>3. a[1] \in Good /\ a[j] \in Good
    BY <2>1, <2>2, Zenon
  <2> QED BY <2>1, <2>3 DEF Good, Bucket
<1>3. first \in Int /\ other \in Int
  BY <1>2, LPPType
<1>4. ASSUME NEW t \in Buckets(n), NEW c \in BOOLEAN, NEW y, y = [bs |-> t, cancelled |-> c],
             t[1].coeff = 1, SameCapacities(a, t, n), c \/ \A i \in 2..j : Below(t, i),
             ~x.cancelled, Kept(a, t, Lost(c))
      PROVE  y \in PassInv(s, j, n)
  <2>1. SameCapacities(s, t, n)
    BY <1>1, <1>4 DEF SameCapacities
  <2>2. Kept(s, t, Lost(c))
    <3>1. Kept(s, a, 0) /\ 0 \in Nat /\ Lost(c) \in Nat
      BY <1>1, <1>4 DEF Lost
    <3> HIDE DEF a
    <3> QED BY <1>4, <3>1, KeptTrans, Zenon
  <2> HIDE DEF a
  <2> QED BY <1>4, <2>1, <2>2 DEF PassInv
<1>6. CASE x.cancelled \/ IsZero(a[j]) \/ first > other
  <2>1. Compare(x, j) = x
    BY <1>6 DEF Compare
  <2>2. x.cancelled \/ \A i \in 2..j : Below(a, i)
    <3>1. CASE x.cancelled
      BY <3>1
    <3>2. CASE ~x.cancelled
      <4>1. Below(a, j)
        BY <1>3, <1>6, <3>2 DEF Below
      <4> SUFFICES ASSUME NEW i \in 2..j PROVE Below(a, i)
        OBVIOUS
      <4>2. i = j \/ i \in 2..j - 1
        OBVIOUS
      <4> QED BY <1>1, <3>2, <4>1, <4>2
    <3> QED BY <3>1, <3>2
  <2>3. x \in PassInv(s, j, n)
    BY <2>2 DEF PassInv
  <2> QED BY <2>1, <2>3
<1>7. CASE ~x.cancelled /\ ~IsZero(a[j]) /\ first < other
  <2> DEFINE t == Take(a, j)
  <2>1. Compare(x, j) = [x EXCEPT !.bs = t]
    BY <1>3, <1>7 DEF Compare
  <2>2. [x EXCEPT !.bs = t] = [bs |-> t, cancelled |-> FALSE]
    <3>1. x \in [bs : Buckets(n), cancelled : BOOLEAN]
      BY DEF PassInv
    <3>2. x.cancelled = FALSE
      BY <1>7, <3>1
    <3> HIDE DEF t
    <3> QED BY <3>1, <3>2, WithBuckets, Zenon
  <2>3. /\ t \in Buckets(n) /\ t[1].coeff = 1 /\ P!LPP(t[1].poly) = other
        /\ Below(t, j) /\ SameCapacities(a, t, n)
        /\ \A k \in (1..n) \ {1, j} : t[k] = a[k]
    <3> HIDE DEF a
    <3> QED BY <1>1, <1>7, TakeFacts
  <2>4. \A i \in 2..j : Below(t, i)
    <3> SUFFICES ASSUME NEW i \in 2..j PROVE Below(t, i)
      OBVIOUS
    <3>1. CASE i = j
      BY <2>3, <3>1
    <3>2. CASE i # j
      <4>1. i \in 2..j - 1 /\ i \in (1..n) \ {1, j}
        BY <3>2
      <4>2. t[i] = a[i] /\ Below(a, i) /\ a[i].poly \in P!Poly
        <5>1. t[i] = a[i] /\ Below(a, i)
          <6> HIDE DEF t, a
          <6> QED BY <1>1, <1>7, <2>3, <4>1
        <5>2. a \in [1..n -> Good]
          BY <1>1 DEF Buckets
        <5>3. a[i] \in Good
          BY <4>1, <5>2
        <5> QED BY <5>1, <5>3 DEF Good, Bucket
      <4>3. P!LPP(a[i].poly) \in Int
        BY <4>2, LPPType
      <4> HIDE DEF t, a
      <4> QED BY <1>3, <1>7, <2>3, <4>2, <4>3 DEF Below
    <3> QED BY <3>1, <3>2
  <2>5. Kept(a, t, Lost(FALSE))
    <3> HIDE DEF a
    <3>1. Kept(a, t, 0)
      BY <1>1, <1>7, TakeKept
    <3> QED BY <3>1 DEF Lost
  <2> HIDE DEF t, a
  <2> QED BY <1>4, <1>7, <2>1, <2>2, <2>3, <2>4, <2>5
<1>8. CASE ~x.cancelled /\ ~IsZero(a[j]) /\ first = other
  <2> DEFINE t == LCsAdded(a, j)
             f == Normalized(a[j]).poly
  <2>1. /\ t \in Buckets(n) /\ t[1].coeff = 1 /\ t[j].poly = P!Tail(f)
        /\ f \in P!Poly /\ f # P!ZeroPoly /\ P!LPP(f) = other
        /\ ~Cancels(a[1], a[j]) => P!LPP(t[1].poly) = first
        /\ \A k \in 1..n : t[k].maxLen = a[k].maxLen
        /\ \A k \in (1..n) \ {1, j} : t[k] = a[k]
    <3> HIDE DEF a
    <3> QED BY <1>1, <1>8, LCsAddedFacts
  <2>2. SameCapacities(a, t, n)
    <3> HIDE DEF a, t
    <3> QED BY <2>1 DEF SameCapacities
  <2>5. Kept(a, t, 0) /\ (Cancels(a[1], a[j]) => Kept(a, t, 2))
    <3> HIDE DEF a
    <3> QED BY <1>1, <1>8, LCsAddedKept
  <2>3. CASE Cancels(a[1], a[j])
    <3>1. Compare(x, j) = [bs |-> Absorb(t, j), cancelled |-> TRUE]
      BY <1>3, <1>8, <2>3 DEF Compare
    <3> HIDE DEF t, a, f
    <3>2. /\ Absorb(t, j) \in Buckets(n) /\ Absorb(t, j)[1].coeff = 1
          /\ SameCapacities(t, Absorb(t, j), n)
      BY <2>1, AbsorbFacts
    <3>3. SameCapacities(a, Absorb(t, j), n)
      BY <2>2, <3>2 DEF SameCapacities
    <3>4. Kept(a, Absorb(t, j), Lost(TRUE))
      <4>1. Kept(a, t, 2) /\ Kept(t, Absorb(t, j), 0)
        BY <2>1, <2>3, <2>5, AbsorbKept
      <4>2. Kept(a, Absorb(t, j), 2)
        BY <4>1, KeptTrans
      <4> QED BY <4>2 DEF Lost
    <3> QED BY <1>4, <1>8, <3>1, <3>2, <3>3, <3>4
  <2>4. CASE ~Cancels(a[1], a[j])
    <3>1. Compare(x, j) = [x EXCEPT !.bs = t]
      BY <1>3, <1>8, <2>4 DEF Compare
    <3>2. [x EXCEPT !.bs = t] = [bs |-> t, cancelled |-> FALSE]
      <4>1. x \in [bs : Buckets(n), cancelled : BOOLEAN]
        BY DEF PassInv
      <4>2. x.cancelled = FALSE
        BY <1>8, <4>1
      <4> HIDE DEF t
      <4> QED BY <4>1, <4>2, WithBuckets, Zenon
    <3>3. P!LPP(P!Tail(f)) < other
      <4> HIDE DEF f, t, a
      <4> QED BY <2>1, LMTail
    <3>4. \A i \in 2..j : Below(t, i)
      <4> SUFFICES ASSUME NEW i \in 2..j PROVE Below(t, i)
        OBVIOUS
      <4>1. CASE i = j
        <5> HIDE DEF t, f, a
        <5> QED BY <1>8, <2>1, <2>4, <3>3, <4>1 DEF Below
      <4>2. CASE i # j
        <5>1. i \in 2..j - 1 /\ i \in (1..n) \ {1, j}
          BY <4>2
        <5>2. t[i] = a[i] /\ Below(a, i)
          <6> HIDE DEF t, f, a
          <6> QED BY <1>1, <1>8, <2>1, <5>1
        <5> HIDE DEF t, f
        <5> QED BY <2>1, <2>4, <5>2 DEF Below
      <4> QED BY <4>1, <4>2
    <3> HIDE DEF t, a, f
    <3>5. Kept(a, t, Lost(FALSE))
      BY <2>5 DEF Lost
    <3> QED BY <1>4, <1>8, <2>1, <2>2, <3>1, <3>2, <3>4, <3>5
  <2> QED BY <2>3, <2>4
<1> QED BY <1>3, <1>6, <1>7, <1>8

LEMMA PassFacts ==
  ASSUME NEW n \in Nat, n >= 1, NEW s \in Buckets(n), s[1].coeff = 1
  PROVE  Pass(s) \in PassInv(s, n, n)
<1> DEFINE base == [bs |-> Refilled(s), cancelled |-> FALSE]
           Is(f) == f = [j \in 1..n |-> IF j = 1 THEN base ELSE Compare(f[j - 1], j)]
           Q == [j \in 1..n |-> PassInv(s, j, n)]
           U == [bs : Buckets(n), cancelled : BOOLEAN]
           step == [jx \in (2..n) \X U |-> Compare(jx[2], jx[1])]
           g == CHOOSE f : Is(f)
<1>1. Pass(s) = g[n]
  <2>1. Len(s) = n
    BY DEF Buckets
  <2> QED BY <2>1 DEF Pass
<1>2. base \in Q[1]
  <2>1. /\ Refilled(s) \in Buckets(n) /\ Refilled(s)[1].coeff = 1
        /\ SameCapacities(s, Refilled(s), n) /\ Kept(s, Refilled(s), 0)
    BY RefilledFacts
  <2>2. base \in PassInv(s, 1, n)
    BY <2>1 DEF PassInv, Lost
  <2> QED BY <2>2
<1>3. ASSUME NEW j \in 2..n, NEW x \in Q[j - 1]
      PROVE  /\ Compare(x, j) \in Q[j] /\ step[<<j, x>>] = Compare(x, j)
  <2>1. j - 1 \in 1..n /\ j \in 1..n
    OBVIOUS
  <2>2. x \in PassInv(s, j - 1, n)
    BY <1>3, <2>1
  <2>3. Compare(x, j) \in PassInv(s, j, n)
    BY <2>2, CompareFacts
  <2>4. x \in U
    BY <2>2 DEF PassInv
  <2>5. <<j, x>> \in (2..n) \X U
    BY <2>4
  <2> QED BY <2>1, <2>3, <2>5
<1> HIDE DEF step, Q, base
<1>4. PICK f : /\ f = [j \in 1..n |-> IF j = 1 THEN base ELSE step[<<j, f[j - 1]>>]]
               /\ \A j \in 1..n : f[j] \in Q[j]
  <2>1. 1 \in Int /\ n \in Int /\ 1 <= n /\ 1 + 1 = 2
    OBVIOUS
  <2>2. Steps(1, n, Q, step)
    BY <1>3, <2>1 DEF Steps
  <2>3. \E f : Chain(f, 1, n, Q, base, step)
    BY <1>2, <2>1, <2>2, ChainExists, Zenon
  <2> QED BY <2>3, Zenon DEF Chain
<1>5. Is(f)
  <2>1. \A j \in 1..n : f[j] = IF j = 1 THEN base ELSE Compare(f[j - 1], j)
    <3> SUFFICES ASSUME NEW j \in 1..n PROVE f[j] = IF j = 1 THEN base ELSE Compare(f[j - 1], j)
      OBVIOUS
    <3>1. f[j] = IF j = 1 THEN base ELSE step[<<j, f[j - 1]>>]
      BY <1>4
    <3>2. CASE j = 1
      BY <3>1, <3>2
    <3>3. CASE j # 1
      <4>1. j \in 2..n /\ j - 1 \in 1..n
        BY <3>3
      <4>2. f[j - 1] \in Q[j - 1]
        BY <1>4, <4>1
      <4> QED BY <1>3, <3>1, <3>3, <4>1, <4>2
    <3> QED BY <3>2, <3>3
  <2>2. f = [j \in 1..n |-> f[j]]
    BY <1>4
  <2> QED BY <2>1, <2>2
<1>6. Is(g)
  <2> HIDE DEF Is
  <2> QED BY <1>5
<1> HIDE DEF g
<1>7. \A j \in 1..n : g[j] = IF j = 1 THEN base ELSE Compare(g[j - 1], j)
  BY <1>6
<1>8. \A j \in 1..n : g[j] \in Q[j]
  <2>1. g[1] \in Q[1]
    BY <1>2, <1>7
  <2>2. ASSUME NEW j \in 1 + 1..n, g[j - 1] \in Q[j - 1] PROVE g[j] \in Q[j]
    <3>1. j \in 2..n /\ j \in 1..n /\ j # 1
      OBVIOUS
    <3> QED BY <1>3, <1>7, <2>2, <3>1
  <2>3. 1 \in Int /\ n \in Int
    OBVIOUS
  <2> QED BY <2>1, <2>2, <2>3, ChainKeeps, Zenon
<1>9. g[n] \in PassInv(s, n, n)
  BY <1>8 DEF Q
<1> QED BY <1>1, <1>9

\* After k passes of which every one has cancelled something, or after the last.
PassesInv(s, n, k) ==
  {x \in [bs : Buckets(n), cancelled : BOOLEAN] :
     /\ x.bs[1].coeff = 1 /\ SameCapacities(s, x.bs, n)
     /\ Kept(s, x.bs, IF x.cancelled THEN 2 * k ELSE 0)
     /\ x.cancelled \/ \A i \in 2..n : Below(x.bs, i)}

LEMMA OnePass ==
  ASSUME NEW n \in Nat, n >= 1, NEW s, NEW k \in Nat, NEW t \in Buckets(n), t[1].coeff = 1,
         SameCapacities(s, t, n), Kept(s, t, 2 * k)
  PROVE  Pass(t) \in PassesInv(s, n, k + 1)
<1>5. ASSUME NEW a \in Nat, NEW c \in Nat, NEW u, Kept(s, t, a), Kept(t, u, c)
      PROVE  Kept(s, u, a + c) /\ Kept(s, u, c)
  BY <1>5, KeptTrans, Zenon
<1> PICK x : x = Pass(t)
  OBVIOUS
<1>1. x \in PassInv(t, n, n)
  BY PassFacts
<1>2. /\ x \in [bs : Buckets(n), cancelled : BOOLEAN] /\ x.bs[1].coeff = 1
      /\ SameCapacities(t, x.bs, n) /\ Kept(t, x.bs, Lost(x.cancelled))
      /\ x.cancelled \/ \A i \in 2..n : Below(x.bs, i)
  BY <1>1 DEF PassInv
<1>3. SameCapacities(s, x.bs, n)
  BY <1>2 DEF SameCapacities
<1>4. Kept(s, x.bs, IF x.cancelled THEN 2 * (k + 1) ELSE 0)
  <2> PICK a, b, c, u : a = 2 * k /\ b = 2 * (k + 1) /\ c = Lost(x.cancelled) /\ u = x.bs
    OBVIOUS
  <2>1. a \in Nat /\ c \in Nat /\ a + 2 = b
    BY DEF Lost
  <2>2. Kept(s, t, a) /\ Kept(t, u, c)
    BY <1>2
  <2>3. Kept(s, u, a + c) /\ Kept(s, u, c)
    BY <1>5, <2>1, <2>2, ZenonT(60)
  <2>4. CASE x.cancelled
    <3>1. c = 2
      BY <2>4 DEF Lost
    <3> QED BY <2>1, <2>3, <2>4, <3>1
  <2>5. CASE ~x.cancelled
    <3>1. c = 0
      BY <2>5 DEF Lost
    <3> QED BY <2>3, <2>5, <3>1
  <2> QED BY <2>4, <2>5
<1> QED BY <1>2, <1>3, <1>4 DEF PassesInv

\* mySetLM ends, keeps the sum and brings its leading term to the front: every
\* pass but the last loses two terms, and there are only so many.
LEMMA PassesFacts ==
  ASSUME NEW n \in Nat, n >= 1, bs \in Buckets(n)
  PROVE  /\ Passes \in [bs : Buckets(n), cancelled : BOOLEAN] /\ ~Passes.cancelled
         /\ SameCapacities(bs, Passes.bs, n) /\ Value(Passes.bs) = Value(bs)
         /\ \A i \in 2..n : Below(Passes.bs, i)
<1> DEFINE start == [bs EXCEPT ![1] = Normalized(@)]
           m == MaxPasses
<1>1. bs \in [1..n -> Good] /\ Len(bs) = n /\ 1 \in 1..n
  BY DEF Buckets
<1>2. bs[1] \in Bucket /\ P!NumTerms(bs[1].poly) <= bs[1].approx
  BY <1>1 DEF Good
<1> PICK z : z = Normalized(bs[1])
  OBVIOUS
<1>3. z \in Good /\ z \in Bucket /\ z.coeff = 1 /\ z.maxLen = bs[1].maxLen /\ z.poly = Part(bs[1])
  BY <1>2, NormalizedFacts, PartFacts DEF Good
<1>4. /\ start \in Buckets(n) /\ start[1].coeff = 1
      /\ SameCapacities(bs, start, n) /\ Kept(bs, start, 0)
  <2>1. start \in [1..n -> Good] /\ start[1] = z /\ \A k \in (1..n) \ {1} : start[k] = bs[k]
    BY <1>1, <1>3
  <2> HIDE DEF start
  <2>2. start \in Buckets(n) /\ SameCapacities(bs, start, n)
    BY <1>3, <2>1, InBuckets DEF SameCapacities
  <2>3. Part(start[1]) = Part(bs[1])
    BY <1>3, <2>1, PartFacts
  <2>4. Kept(bs, start, 0)
    BY <1>1, <2>1, <2>2, <2>3, SameParts
  <2> QED BY <1>3, <2>1, <2>2, <2>4
<1>5. CASE n = 1
  <2>1. Passes = [bs |-> start, cancelled |-> FALSE]
    BY <1>1, <1>5 DEF Passes
  <2> HIDE DEF start
  <2> QED BY <1>4, <1>5, <2>1 DEF Kept
<1>6. CASE n # 1
  <2> DEFINE U == [bs : Buckets(n), cancelled : BOOLEAN]
             Again(x) == IF x.cancelled THEN Pass(x.bs) ELSE x
             Is(f) == f = [k \in 1..m |-> IF k = 1 THEN Pass(start) ELSE Again(f[k - 1])]
             Q == [k \in 1..m |-> PassesInv(bs, n, k)]
             step == [kx \in (2..m) \X U |-> Again(kx[2])]
             g == CHOOSE f : Is(f)
  <2>1. Passes = g[m]
    BY <1>1, <1>6 DEF Passes
  <2>2. m \in Nat /\ m >= 1 /\ n * (MaxDeg + 1) < 2 * m
    <3> PICK d : d = n * (MaxDeg + 1)
      OBVIOUS
    <3>1. MaxDeg \in Nat
      BY Degrees
    <3>2. d \in Nat
      BY <3>1
    <3>3. d \div 2 \in Nat /\ d < 2 * (d \div 2 + 1)
      BY <3>2
    <3>4. m = d \div 2 + 1
      BY <1>1 DEF MaxPasses
    <3> QED BY <3>2, <3>3, <3>4
  <2>3. Pass(start) \in PassesInv(bs, n, 1)
    <3> HIDE DEF start
    <3>1. 0 \in Nat /\ 2 * 0 = 0 /\ 0 + 1 = 1
      OBVIOUS
    <3> PICK k \in Nat : k = 0
      OBVIOUS
    <3>2. Kept(bs, start, 2 * k)
      BY <1>4
    <3>3. Pass(start) \in PassesInv(bs, n, k + 1)
      BY <1>4, <3>2, OnePass
    <3> QED BY <3>3
  <2>4. ASSUME NEW k \in 2..m, NEW x \in PassesInv(bs, n, k - 1)
        PROVE  Again(x) \in PassesInv(bs, n, k) /\ x \in U
    <3>1. CASE x.cancelled
      <4>1. /\ x.bs \in Buckets(n) /\ x.bs[1].coeff = 1 /\ SameCapacities(bs, x.bs, n)
            /\ Kept(bs, x.bs, 2 * (k - 1)) /\ x \in U
        BY <3>1 DEF PassesInv
      <4> PICK j \in Nat : j = k - 1 /\ j + 1 = k
        BY <2>2
      <4>2. Kept(bs, x.bs, 2 * j)
        BY <4>1
      <4>3. Pass(x.bs) \in PassesInv(bs, n, j + 1)
        BY <4>1, <4>2, OnePass
      <4> QED BY <3>1, <4>1, <4>3
    <3>2. CASE ~x.cancelled
      BY <3>2 DEF PassesInv
    <3> QED BY <3>1, <3>2
  <2>5. \A k \in 2..m : \A x \in U : step[<<k, x>>] = Again(x)
    <3> SUFFICES ASSUME NEW k \in 2..m, NEW x \in U PROVE step[<<k, x>>] = Again(x)
      OBVIOUS
    <3>1. <<k, x>> \in (2..m) \X U
      OBVIOUS
    <3> QED BY <3>1
  <2>6. \A k \in 1..m : Q[k] = PassesInv(bs, n, k)
    OBVIOUS
  <2> HIDE DEF start, m, Again, step, Q, U
  <2>7. ASSUME NEW k \in 2..m, NEW x \in Q[k - 1]
        PROVE  Again(x) \in Q[k] /\ step[<<k, x>>] = Again(x)
    <3>1. k - 1 \in 1..m /\ k \in 1..m
      BY <2>2
    <3>2. x \in PassesInv(bs, n, k - 1)
      BY <2>6, <2>7, <3>1
    <3> QED BY <2>4, <2>5, <2>6, <3>1, <3>2
  <2>8. PICK f : /\ f = [k \in 1..m |-> IF k = 1 THEN Pass(start) ELSE step[<<k, f[k - 1]>>]]
                 /\ \A k \in 1..m : f[k] \in Q[k]
    <3>1. 1 \in Int /\ m \in Int /\ 1 <= m /\ 1 \in 1..m /\ 1 + 1 = 2
      BY <2>2
    <3>2. Pass(start) \in Q[1]
      BY <2>3, <2>6, <3>1
    <3>3. Steps(1, m, Q, step)
      BY <2>7, <3>1 DEF Steps
    <3>4. \E f : Chain(f, 1, m, Q, Pass(start), step)
      BY <3>1, <3>2, <3>3, ChainExists, Zenon
    <3> QED BY <3>4, Zenon DEF Chain
  <2>9. Is(f)
    <3>1. ASSUME NEW k \in 1..m
          PROVE f[k] = IF k = 1 THEN Pass(start) ELSE Again(f[k - 1])
      <4>1. f[k] = IF k = 1 THEN Pass(start) ELSE step[<<k, f[k - 1]>>]
        BY <2>8
      <4>2. CASE k = 1
        BY <4>1, <4>2
      <4>3. CASE k # 1
        <5>1. k \in 2..m /\ k - 1 \in 1..m
          BY <2>2, <4>3
        <5>2. f[k - 1] \in Q[k - 1]
          BY <2>8, <5>1
        <5> QED BY <2>7, <4>1, <4>3, <5>1, <5>2
      <4> QED BY <4>2, <4>3
    <3>2. f = [k \in 1..m |-> f[k]]
      BY <2>8
    <3> QED BY <3>1, <3>2
  <2>10. Is(g)
    <3> HIDE DEF Is
    <3> QED BY <2>9
  <2> HIDE DEF g
  <2>11. \A k \in 1..m : g[k] = IF k = 1 THEN Pass(start) ELSE Again(g[k - 1])
    BY <2>10
  <2>12. \A k \in 1..m : g[k] \in Q[k]
    <3>1. g[1] \in Q[1]
      <4>1. 1 \in 1..m
        BY <2>2
      <4> QED BY <2>3, <2>6, <2>11, <4>1
    <3>2. ASSUME NEW k \in 1 + 1..m, g[k - 1] \in Q[k - 1] PROVE g[k] \in Q[k]
      <4>1. k \in 2..m /\ k \in 1..m /\ k # 1
        BY <2>2
      <4> QED BY <2>7, <2>11, <3>2, <4>1
    <3>3. 1 \in Int /\ m \in Int
      BY <2>2
    <3> QED BY <3>1, <3>2, <3>3, ChainKeeps, Zenon
  <2>13. m \in 1..m
    BY <2>2
  <2> PICK x : x = Passes
    OBVIOUS
  <2>14. x \in PassesInv(bs, n, m)
    BY <2>1, <2>6, <2>12, <2>13
  <2>15. /\ x \in [bs : Buckets(n), cancelled : BOOLEAN] /\ SameCapacities(bs, x.bs, n)
         /\ Kept(bs, x.bs, IF x.cancelled THEN 2 * m ELSE 0)
         /\ x.cancelled \/ \A i \in 2..n : Below(x.bs, i)
    BY <2>14 DEF PassesInv
  <2>16. ~x.cancelled
    <3> SUFFICES ASSUME x.cancelled PROVE FALSE
      OBVIOUS
    <3> PICK a, b : a = Terms(bs) /\ b = Terms(x.bs)
      OBVIOUS
    <3>1. a \in Nat /\ b \in Nat /\ b + 2 * m <= a
      BY <2>15 DEF Kept
    <3>2. a <= n * (MaxDeg + 1)
      BY TermsBounded
    <3>3. n * (MaxDeg + 1) \in Nat
      BY Degrees
    <3> QED BY <2>2, <3>1, <3>2, <3>3
  <2>17. Value(x.bs) = Value(bs)
    BY <2>15 DEF Kept
  <2> QED BY <2>15, <2>16, <2>17
<1> QED BY <1>5, <1>6

-----------------------------------------------------------------------------
(* Choosing a bucket, and cascades.                                          *)

LEMMA Parameters ==
  /\ gbk_minlen \in Nat /\ gbk_minlen >= 1 /\ gbk_factor \in Nat /\ gbk_factor >= 2
  /\ MaxOps \in Nat /\ Addends \subseteq P!Poly
  BY GeobucketAssumption

LEMMA CapacityFacts ==
  /\ Capacity \in [Nat -> Nat] /\ Capacity[1] = gbk_minlen
  /\ \A i \in Nat : i >= 1 => Capacity[i + 1] = Capacity[i] * gbk_factor
<1> DEFINE step == [ix \in Nat \X Nat |->
                      IF ix[1] <= 1 THEN gbk_minlen ELSE gbk_factor * ix[2]]
           Is(f) == f = [i \in Nat |-> IF i <= 1 THEN gbk_minlen ELSE gbk_factor * f[i - 1]]
<1>1. step \in [Nat \X Nat -> Nat]
  BY Parameters
<1>2. PICK f \in [Nat -> Nat] : OnNat(f, gbk_minlen, step)
  <2> HIDE DEF step
  <2> QED BY <1>1, Parameters, RecursionOnNat, Zenon
<1>3. \A i \in Nat : f[i] = IF i <= 1 THEN gbk_minlen ELSE gbk_factor * f[i - 1]
  <2> SUFFICES ASSUME NEW i \in Nat
               PROVE  f[i] = IF i <= 1 THEN gbk_minlen ELSE gbk_factor * f[i - 1]
    OBVIOUS
  <2>1. CASE i = 0
    BY <1>2, <2>1 DEF OnNat
  <2>2. CASE i # 0
    <3>1. <<i, f[i - 1]>> \in Nat \X Nat
      BY <2>2
    <3>2. f[i] = step[<<i, f[i - 1]>>]
      <4> HIDE DEF step
      <4> QED BY <1>2, <2>2 DEF OnNat
    <3> QED BY <3>1, <3>2
  <2> QED BY <2>1, <2>2
<1>4. Is(f)
  BY <1>3
<1>5. Capacity = CHOOSE h : Is(h)
  BY Zenon DEF Capacity
<1>6. Is(Capacity)
  <2> HIDE DEF Is
  <2> QED BY <1>4, <1>5
<1> DEFINE C == Capacity
<1>7. \A i \in Nat : C[i] = IF i <= 1 THEN gbk_minlen ELSE gbk_factor * C[i - 1]
  BY <1>6
<1> HIDE DEF Is, C, step
<1>8. \A i \in Nat : C[i] \in Nat
  <2> DEFINE S == {i \in Nat : C[i] \in Nat}
  <2>1. 0 \in S
    BY <1>7, Parameters
  <2>2. ASSUME NEW i \in Nat, i \in S PROVE i + 1 \in S
    <3>1. (i + 1) - 1 = i
      OBVIOUS
    <3>2. C[i + 1] = gbk_minlen \/ C[i + 1] = gbk_factor * C[i]
      BY <1>7, <3>1
    <3> QED BY <2>2, <3>2, Parameters
  <2> HIDE DEF S
  <2>3. Nat \subseteq S
    BY <2>1, <2>2, SetInduction
  <2> QED BY <2>3 DEF S
<1>9. C[1] = gbk_minlen /\ \A i \in Nat : i >= 1 => C[i + 1] = C[i] * gbk_factor
  <2>1. C[1] = gbk_minlen
    BY <1>7
  <2>2. ASSUME NEW i \in Nat, i >= 1 PROVE C[i + 1] = C[i] * gbk_factor
    <3>1. C[i + 1] = gbk_factor * C[i]
      <4>1. (i + 1) - 1 = i /\ ~(i + 1 <= 1) /\ i + 1 \in Nat
        BY <2>2
      <4> QED BY <1>7, <4>1
    <3>2. C[i] \in Int /\ gbk_factor \in Int
      BY <1>8, Parameters
    <3> QED BY <3>1, <3>2
  <2> QED BY <2>1, <2>2
<1>10. Capacity = [i \in Nat |-> Capacity[i]]
  BY <1>6 DEF Is
<1> QED BY <1>8, <1>9, <1>10 DEF C

LEMMA CapacityGrows == \A i \in Nat : i >= 1 => Capacity[i] >= i
<1> DEFINE S == {i \in Nat : i >= 1 => Capacity[i] >= i}
<1>1. 0 \in S
  OBVIOUS
<1>2. ASSUME NEW i \in Nat, i \in S PROVE i + 1 \in S
  <2>1. CASE i = 0
    BY <2>1, CapacityFacts, Parameters
  <2>2. CASE i # 0
    <3>1. Capacity[i] \in Nat /\ Capacity[i] >= i /\ i >= 1
      BY <1>2, <2>2, CapacityFacts
    <3>2. Capacity[i + 1] = Capacity[i] * gbk_factor
      BY <3>1, CapacityFacts
    <3>3. Capacity[i] * gbk_factor >= 2 * Capacity[i]
      BY <3>1, Parameters
    <3>4. Capacity[i] * gbk_factor \in Nat
      BY <3>1, Parameters
    <3> QED BY <3>1, <3>2, <3>3, <3>4
  <2> QED BY <2>1, <2>2
<1> HIDE DEF S
<1>3. Nat \subseteq S
  BY <1>1, <1>2, SetInduction
<1> QED BY <1>3 DEF S

LEMMA BucketIndexFacts ==
  ASSUME NEW len \in Nat
  PROVE  BucketIndex(len) \in Nat \ {0}
<1> DEFINE T == {i \in 1..len + 1 : len <= Capacity[i]}
           Is(i) == len <= Capacity[i] /\ \A j \in 1..i - 1 : len > Capacity[j]
<1>1. len + 1 \in T
  <2>1. len + 1 >= 1 /\ len + 1 \in Nat
    OBVIOUS
  <2>2. Capacity[len + 1] >= len + 1 /\ Capacity[len + 1] \in Nat
    BY <2>1, CapacityGrows, CapacityFacts
  <2> QED BY <2>2
<1>2. PICK i \in T : \A j \in T : i <= j
  <2>1. T \in SUBSET Nat /\ T # {}
    BY <1>1
  <2> HIDE DEF T
  <2> QED BY <2>1, LeastElement
<1>3. i \in 1..len + 1 /\ Is(i)
  <2>1. ASSUME NEW j \in 1..i - 1 PROVE len > Capacity[j]
    <3>1. j \in 1..len + 1 /\ j \notin T /\ j \in Nat
      BY <1>2
    <3> QED BY <3>1, CapacityFacts
  <2> QED BY <1>2, <2>1
<1>4. BucketIndex(len) = CHOOSE k \in 1..len + 1 : Is(k)
  BY DEF BucketIndex
<1>5. BucketIndex(len) \in 1..len + 1
  <2> HIDE DEF Is
  <2> QED BY <1>3, <1>4
<1> QED BY <1>5

\* Sequences of buckets with the capacities that were meant for them.
Proper(n) == {s \in Buckets(n) : \A k \in 1..n : s[k].maxLen = Capacity[k]}

LEMMA GrownFacts ==
  ASSUME NEW n \in Nat, NEW s \in Proper(n), NEW i \in Nat \ {0}
  PROVE  \E m \in Nat : /\ m >= n /\ i \in 1..m
                        /\ Grown(s, i) \in Proper(m)
                        /\ Value(Grown(s, i)) = Value(s)
                        /\ \A k \in 1..n : Grown(s, i)[k] = s[k]
                        /\ \A k \in 1..m : k \notin 1..n => IsZero(Grown(s, i)[k])
<1> DEFINE m == IF i > n THEN i ELSE n
           t == [k \in 1..m |-> IF k \in 1..n THEN s[k] ELSE ZeroBucket(Capacity[k])]
<1>1. s \in [1..n -> Good] /\ DOMAIN s = 1..n /\ \A k \in 1..n : s[k].maxLen = Capacity[k]
  BY DEF Proper, Buckets
<1>2. m \in Nat /\ m >= n /\ i \in 1..m /\ (1..n) \cup (1..i) = 1..m
  OBVIOUS
<1>3. Grown(s, i) = t
  BY <1>1, <1>2 DEF Grown
<1> HIDE DEF m
<1>4. ASSUME NEW k \in 1..m
      PROVE  t[k] \in Good /\ t[k].maxLen = Capacity[k] /\ (k \notin 1..n => IsZero(t[k]))
  <2>1. CASE k \in 1..n
    BY <1>1, <2>1
  <2>2. CASE k \notin 1..n
    <3>1. Capacity[k] \in Nat
      BY <1>2, CapacityFacts
    <3>2. t[k] = ZeroBucket(Capacity[k])
      BY <2>2
    <3>3. ZeroBucket(Capacity[k]).maxLen = Capacity[k]
      BY DEF ZeroBucket
    <3> QED BY <3>1, <3>2, <3>3, ZeroBucketFacts
  <2> QED BY <2>1, <2>2
<1>5. t \in [1..m -> Good]
  BY <1>4
<1>6. t \in Buckets(m)
  <2> HIDE DEF t
  <2> QED BY <1>2, <1>5, InBuckets, Zenon
<1>7. \A k \in 1..n : t[k] = s[k]
  BY <1>2
<1> HIDE DEF t
<1>8. t \in Proper(m)
  BY <1>4, <1>6 DEF Proper
<1>9. Value(t) = Value(s)
  <2>1. n <= m /\ s \in Buckets(n) /\ \A k \in 1..m : k \notin 1..n => IsZero(t[k])
    BY <1>2, <1>4 DEF Proper
  <2> QED BY <1>2, <1>6, <1>7, <2>1, ValueExtended
<1> QED BY <1>2, <1>3, <1>4, <1>7, <1>8, <1>9

\* A cascade that has reached bucket k, of buckets whose sum is v.
CascadeInv(v, k) ==
  {x \in [bs : UNION {Proper(n) : n \in Nat \ {0}}, goingOn : BOOLEAN] :
     Value(x.bs) = v /\ (x.goingOn => k \in 1..Len(x.bs))}

LEMMA CascadeBuckets ==
  ASSUME NEW s
  PROVE  s \in UNION {Proper(n) : n \in Nat \ {0}} <=> Len(s) \in Nat \ {0} /\ s \in Proper(Len(s))
  BY DEF Proper, Buckets

LEMMA SpillFacts ==
  ASSUME NEW v, NEW k \in Nat \ {0}, NEW x \in CascadeInv(v, k)
  PROVE  Spill(x, k) \in CascadeInv(v, k + 1)
<1> DEFINE b == x.bs
           n == Len(b)
           counted == [b EXCEPT ![k] = Counted(@)]
           room == IF k = Len(b) THEN Pushed(counted, b[k].maxLen * gbk_factor) ELSE counted
<1>1. /\ n \in Nat \ {0} /\ b \in Proper(n) /\ x.goingOn \in BOOLEAN
      /\ (x.goingOn => k \in 1..n) /\ Value(b) = v
  BY CascadeBuckets DEF CascadeInv
<1>2. b \in [1..n -> Good] /\ b \in Buckets(n) /\ \A i \in 1..n : b[i].maxLen = Capacity[i]
  BY <1>1 DEF Proper, Buckets
<1>3. ASSUME NEW m \in Nat \ {0}, NEW t \in Proper(m), NEW c \in BOOLEAN, c => k + 1 \in 1..m,
             Value(t) = v
      PROVE  [bs |-> t, goingOn |-> c] \in CascadeInv(v, k + 1)
  <2>1. Len(t) = m
    BY <1>3 DEF Proper, Buckets
  <2> QED BY <1>3, <2>1 DEF CascadeInv
<1>4. CASE ~x.goingOn \/ ~IsFull(b[k])
  <2>1. Spill(x, k) = [bs |-> b, goingOn |-> FALSE]
    BY <1>4 DEF Spill
  <2> HIDE DEF b, n
  <2> QED BY <1>1, <1>3, <2>1
<1>5. CASE x.goingOn /\ IsFull(b[k])
  <2>1. k \in 1..n
    BY <1>1, <1>5
  <2> HIDE DEF b, n
  <2>2. b[k] \in Good /\ b[k] \in Bucket /\ b[k].poly \in P!Poly /\ b[k].maxLen = Capacity[k]
    BY <1>2, <2>1 DEF Good, Bucket
  <2> PICK c : c = Counted(b[k])
    OBVIOUS
  <2>3. c \in Good /\ c.maxLen = Capacity[k] /\ Part(c) = Part(b[k])
    <3>1. P!NumTerms(b[k].poly) \in Int
      BY <2>2, SupportFacts
    <3> PICK a, l : a = b[k] /\ l = P!NumTerms(b[k].poly)
      OBVIOUS
    <3>2. c = [a EXCEPT !.approx = l]
      BY DEF Counted
    <3>3. /\ c \in Bucket /\ c.poly = a.poly /\ c.approx = l /\ c.maxLen = a.maxLen
          /\ c.coeff = a.coeff
      BY <2>2, <3>1, <3>2 DEF Bucket
    <3>4. P!NumTerms(c.poly) <= c.approx
      BY <3>1, <3>3
    <3> QED BY <2>2, <3>3, <3>4 DEF Good, Part
  <2>4. counted = [b EXCEPT ![k] = c]
    OBVIOUS
  <2>5. counted \in [1..n -> Good] /\ counted[k] = c /\ \A i \in (1..n) \ {k} : counted[i] = b[i]
    <3> HIDE DEF counted
    <3> QED BY <1>2, <2>1, <2>3, <2>4
  <2> HIDE DEF counted
  <2>6. counted \in Buckets(n)
    BY <1>1, <2>5, InBuckets, Zenon
  <2>7. counted \in Proper(n)
    BY <1>2, <2>3, <2>5, <2>6 DEF Proper
  <2>10. Value(counted) = v
    <3>1. Kept(b, counted, 0)
      BY <1>1, <1>2, <2>1, <2>3, <2>5, <2>6, SameParts
    <3> QED BY <1>1, <3>1 DEF Kept
  <2>8. CASE counted[k].approx <= 2 * b[k].maxLen
    <3>1. Spill(x, k) = [bs |-> counted, goingOn |-> FALSE]
      BY <1>5, <2>8 DEF Spill, b, counted
    <3> QED BY <1>1, <1>3, <2>7, <2>10, <3>1
  <2>9. CASE ~(counted[k].approx <= 2 * b[k].maxLen)
    <3>1. Spill(x, k) = [bs |-> Merged(room, k + 1, k), goingOn |-> TRUE]
      BY <1>5, <2>9 DEF Spill, b, counted
    <3>2. PICK m \in Nat \ {0} : /\ room \in Proper(m) /\ k \in 1..m /\ k + 1 \in 1..m
                                 /\ Value(room) = v
      <4>1. CASE k = n
        <5> PICK z : z = ZeroBucket(b[k].maxLen * gbk_factor)
          OBVIOUS
        <5>1. Capacity[k + 1] \in Nat /\ Capacity[k + 1] = b[k].maxLen * gbk_factor
          BY <2>2, CapacityFacts
        <5>2. z \in Good /\ z.maxLen = Capacity[k + 1] /\ IsZero(z)
          BY <5>1, ZeroBucketFacts DEF ZeroBucket
        <5>3. room = Append(counted, z)
          BY <4>1 DEF Pushed, n
        <5>4. Len(counted) = n /\ counted \in Seq(Good)
          BY <2>6 DEF Buckets
        <5>5. /\ room \in Seq(Good) /\ Len(room) = n + 1 /\ room[n + 1] = z
              /\ \A i \in 1..n : room[i] = counted[i]
          <6> HIDE DEF room
          <6> QED BY <5>2, <5>3, <5>4
        <5>6. ASSUME NEW i \in 1..n + 1 PROVE room[i].maxLen = Capacity[i]
          <6>1. CASE i = n + 1
            <7> HIDE DEF room
            <7> QED BY <4>1, <5>2, <5>5, <6>1
          <6>2. CASE i # n + 1
            <7>1. i \in 1..n
              BY <1>1, <6>2
            <7> HIDE DEF room
            <7> QED BY <2>7, <5>5, <7>1 DEF Proper
          <6> QED BY <6>1, <6>2
        <5>7. room \in Proper(n + 1)
          <6> HIDE DEF room
          <6> QED BY <5>5, <5>6 DEF Proper, Buckets
        <5>8. n + 1 \in Nat \ {0} /\ k \in 1..n + 1 /\ k + 1 \in 1..n + 1
          BY <1>1, <2>1, <4>1
        <5> HIDE DEF room
        <5>9. Value(room) = Value(counted)
          <6>1. /\ n \in Nat /\ n + 1 \in Nat /\ n <= n + 1 /\ room \in Buckets(n + 1)
                /\ \A i \in 1..n + 1 : i \notin 1..n => i = n + 1
            BY <1>1, <5>7 DEF Proper
          <6>2. \A i \in 1..n + 1 : i \notin 1..n => IsZero(room[i])
            BY <5>2, <5>5, <6>1
          <6> PICK l \in Nat : l = n + 1
            BY <6>1
          <6>3. Value(room) = Value(counted)
            BY <2>6, <5>5, <6>1, <6>2, ValueExtended
          <6> QED BY <6>3
        <5> QED BY <2>10, <5>7, <5>8, <5>9
      <4>2. CASE k # n
        <5>1. room = counted
          BY <4>2 DEF n
        <5>2. k + 1 \in 1..n
          BY <1>1, <2>1, <4>2
        <5> HIDE DEF room
        <5> QED BY <1>1, <2>1, <2>7, <2>10, <5>1, <5>2
      <4> QED BY <4>1, <4>2
    <3> HIDE DEF room
    <3>3. k + 1 # k /\ room \in Buckets(m) /\ \A i \in 1..m : room[i].maxLen = Capacity[i]
      BY <3>2 DEF Proper
    <3> DEFINE t == Merged(room, k + 1, k)
    <3>4. /\ t \in Buckets(m) /\ t[k + 1].maxLen = room[k + 1].maxLen /\ t[k].maxLen = room[k].maxLen
          /\ \A i \in (1..m) \ {k + 1, k} : t[i] = room[i]
      BY <3>2, <3>3, MergedFacts
    <3> HIDE DEF t
    <3>5. t \in Proper(m)
      BY <3>2, <3>3, <3>4 DEF Proper
    <3>6. Value(t) = v
      <4>1. Kept(room, t, 0)
        BY <3>2, <3>3, MergedKept DEF t
      <4> QED BY <3>2, <4>1 DEF Kept
    <3> QED BY <1>3, <3>1, <3>2, <3>5, <3>6 DEF t
  <2> QED BY <2>8, <2>9
<1> QED BY <1>1, <1>4, <1>5

LEMMA CascadedFacts ==
  ASSUME NEW i \in Nat \ {0}, NEW s, Len(s) \in Nat \ {0}, s \in Proper(Len(s)), i \in 1..Len(s)
  PROVE  LET t == CascadedFrom(s, i)
         IN  Len(t) \in Nat \ {0} /\ t \in Proper(Len(t)) /\ Value(t) = Value(s)
<1> PICK v : v = Value(s)
  OBVIOUS
<1> DEFINE lo == i - 1
           hi == i + MaxDeg
           base == [bs |-> s, goingOn |-> TRUE]
           Is(f) == f = [k \in lo..hi |-> IF k = lo THEN base ELSE Spill(f[k - 1], k)]
           Q == [k \in lo..hi |-> CascadeInv(v, k + 1)]
           U == [bs : UNION {Proper(n) : n \in Nat \ {0}}, goingOn : BOOLEAN]
           step == [kx \in (i..hi) \X U |-> Spill(kx[2], kx[1])]
           g == CHOOSE f : Is(f)
<1>1. CascadedFrom(s, i) = g[hi].bs
  BY DEF CascadedFrom
<1>2. lo \in Int /\ hi \in Int /\ lo <= hi /\ lo + 1 = i /\ lo \in lo..hi /\ hi \in lo..hi
  BY Degrees
<1>3. base \in Q[lo]
  <2>1. base \in CascadeInv(v, i)
    BY CascadeBuckets DEF CascadeInv
  <2> QED BY <1>2, <2>1
<1>4. ASSUME NEW k \in i..hi, NEW x \in Q[k - 1]
      PROVE  Spill(x, k) \in Q[k] /\ step[<<k, x>>] = Spill(x, k)
  <2>1. k - 1 \in lo..hi /\ k \in lo..hi /\ (k - 1) + 1 = k /\ k \in Nat \ {0}
    BY <1>2
  <2>2. x \in CascadeInv(v, k)
    BY <1>4, <2>1
  <2>3. Spill(x, k) \in CascadeInv(v, k + 1)
    BY <2>1, <2>2, SpillFacts
  <2>4. <<k, x>> \in (i..hi) \X U
    BY <2>2 DEF CascadeInv
  <2> QED BY <2>1, <2>3, <2>4
<1> HIDE DEF step, Q, base, lo, hi
<1>5. PICK f : /\ f = [k \in lo..hi |-> IF k = lo THEN base ELSE step[<<k, f[k - 1]>>]]
               /\ \A k \in lo..hi : f[k] \in Q[k]
  <2>1. Steps(lo, hi, Q, step)
    BY <1>2, <1>4 DEF Steps
  <2>2. \E f : Chain(f, lo, hi, Q, base, step)
    BY <1>2, <1>3, <2>1, ChainExists, Zenon
  <2> QED BY <2>2, Zenon DEF Chain
<1>6. Is(f)
  <2>1. ASSUME NEW k \in lo..hi
        PROVE  f[k] = IF k = lo THEN base ELSE Spill(f[k - 1], k)
    <3>1. f[k] = IF k = lo THEN base ELSE step[<<k, f[k - 1]>>]
      BY <1>5
    <3>2. CASE k = lo
      BY <3>1, <3>2
    <3>3. CASE k # lo
      <4>1. k \in i..hi /\ k - 1 \in lo..hi
        BY <1>2, <3>3
      <4>2. f[k - 1] \in Q[k - 1]
        BY <1>5, <4>1
      <4> QED BY <1>4, <3>1, <3>3, <4>1, <4>2
    <3> QED BY <3>2, <3>3
  <2>2. f = [k \in lo..hi |-> f[k]]
    BY <1>5
  <2> QED BY <2>1, <2>2
<1>7. Is(g)
  <2> HIDE DEF Is
  <2> QED BY <1>6
<1> HIDE DEF g
<1>8. \A k \in lo..hi : g[k] = IF k = lo THEN base ELSE Spill(g[k - 1], k)
  BY <1>7
<1>9. \A k \in lo..hi : g[k] \in Q[k]
  <2>1. g[lo] \in Q[lo]
    BY <1>2, <1>3, <1>8
  <2>2. ASSUME NEW k \in lo + 1..hi, g[k - 1] \in Q[k - 1] PROVE g[k] \in Q[k]
    <3>1. k \in i..hi /\ k \in lo..hi /\ k # lo
      BY <1>2
    <3> QED BY <1>4, <1>8, <2>2, <3>1
  <2> QED BY <1>2, <2>1, <2>2, ChainKeeps, Zenon
<1>10. g[hi] \in CascadeInv(v, hi + 1)
  BY <1>2, <1>9 DEF Q
<1>11. g[hi].bs \in UNION {Proper(n) : n \in Nat \ {0}} /\ Value(g[hi].bs) = v
  BY <1>10 DEF CascadeInv
<1> QED BY <1>1, <1>11, CascadeBuckets

\* A polynomial added to bucket i.
LEMMA AddedTo ==
  ASSUME NEW n \in Nat \ {0}, NEW s \in Proper(n), NEW i \in 1..n,
         NEW f \in P!Poly, NEW l \in Nat, P!NumTerms(f) <= l
  PROVE  LET t == [s EXCEPT ![i] = Added(@, f, l)]
         IN  t \in Proper(n) /\ Value(t) = P!Plus(Value(s), f)
<1> DEFINE b == s[i]
           c == Added(b, f, l)
           t == [s EXCEPT ![i] = c]
<1>1. s \in [1..n -> Good] /\ \A k \in 1..n : s[k].maxLen = Capacity[k]
  BY DEF Proper, Buckets
<1>2. b \in Bucket /\ P!NumTerms(b.poly) <= b.approx
  BY <1>1 DEF Good
<1>3. /\ c \in Bucket /\ c.poly = P!Plus(Normalized(b).poly, f)
      /\ c.approx = b.approx + l /\ c.maxLen = b.maxLen /\ c.coeff = 1
  BY <1>2, AddedFacts
<1>4. c \in Good
  <2> DEFINE h == Normalized(b).poly
  <2>1. h \in P!Poly /\ P!NumTerms(h) = P!NumTerms(b.poly)
    BY <1>2, NormalizedFacts DEF Bucket
  <2>2. P!NumTerms(P!Plus(h, f)) <= P!NumTerms(h) + P!NumTerms(f)
    BY <2>1, PlusFacts
  <2>3. P!NumTerms(h) \in Nat /\ P!NumTerms(f) \in Nat
    BY <2>1, SupportFacts
  <2>4. P!NumTerms(P!Plus(h, f)) \in Nat /\ b.approx \in Int
    BY <1>2, <2>1, PlusFacts, SupportFacts DEF Bucket
  <2> HIDE DEF h, c
  <2>5. P!NumTerms(c.poly) = P!NumTerms(P!Plus(h, f))
    BY <1>3 DEF h
  <2>6. P!NumTerms(c.poly) <= c.approx
    BY <1>2, <1>3, <2>1, <2>2, <2>3, <2>4, <2>5
  <2> QED BY <1>3, <2>6 DEF Good
<1>5. t \in [1..n -> Good] /\ t[i] = c /\ \A k \in (1..n) \ {i} : t[k] = s[k]
  <2> HIDE DEF c
  <2> QED BY <1>1, <1>4
<1>6. [s EXCEPT ![i] = Added(@, f, l)] = t
  OBVIOUS
<1> HIDE DEF t
<1>7. t \in Buckets(n)
  BY <1>5, InBuckets, Zenon
<1>8. \A k \in 1..n : t[k].maxLen = Capacity[k]
  BY <1>1, <1>3, <1>5 DEF b
<1>9. Value(t) = P!Plus(Value(s), f)
  <2> PICK z \in P!Poly : z = P!ZeroPoly
    BY ZeroFacts
  <2>1. Part(c) = P!Plus(Part(b), f) /\ Part(c) \in P!Poly
    <3>1. Normalized(b).poly = Part(b)
      BY <1>2, PartFacts
    <3> HIDE DEF c
    <3> QED BY <1>3, <3>1, PartFacts
  <2>2. P!Plus(Part(t[i]), z) = P!Plus(Part(s[i]), f)
    BY <1>5, <2>1, PlusZero DEF b
  <2>3. s \in Buckets(n) /\ n \in Nat
    BY DEF Proper
  <2>4. P!Plus(Value(t), z) = P!Plus(Value(s), f)
    BY <1>5, <1>7, <2>2, <2>3, ValueChanged
  <2>5. Value(t) \in P!Poly
    BY <1>7, <2>3, ValueType
  <2> QED BY <2>4, <2>5, PlusZero
<1> QED BY <1>6, <1>7, <1>8, <1>9 DEF Proper

LEMMA AddedMulFacts ==
  ASSUME NEW n \in Nat \ {0}, NEW s \in Proper(n), NEW len \in Nat,
         NEW f \in P!Poly, NEW l \in Nat, P!NumTerms(f) <= l
  PROVE  LET t == AddedMul(s, len, f, l)
         IN  Len(t) \in Nat \ {0} /\ t \in Proper(Len(t)) /\ Value(t) = P!Plus(Value(s), f)
<1> DEFINE i == BucketIndex(len)
           b == Grown(s, i)
           c == [b EXCEPT ![i] = Added(@, f, l)]
<1>1. i \in Nat \ {0}
  BY BucketIndexFacts
<1>2. PICK m \in Nat : m >= n /\ i \in 1..m /\ b \in Proper(m) /\ Value(b) = Value(s)
  <2> HIDE DEF i
  <2> QED BY <1>1, GrownFacts
<1>3. AddedMul(s, len, f, l) = CascadedFrom(c, i)
  BY DEF AddedMul
<1> HIDE DEF i, b
<1>4. c \in Proper(m) /\ m \in Nat \ {0} /\ Value(c) = P!Plus(Value(s), f)
  BY <1>2, AddedTo
<1> HIDE DEF c
<1>5. Len(c) = m
  BY <1>4 DEF Proper, Buckets
<1> QED BY <1>1, <1>2, <1>3, <1>4, <1>5, CascadedFacts

\* Buckets that are all multiplied, and buckets that are all zero.
LEMMA ValueScaled ==
  ASSUME NEW n \in Nat, NEW s \in Buckets(n), NEW t \in Buckets(n), NEW c \in 1..p - 1,
         \A k \in 1..n : Part(t[k]) = P!Times(c, Part(s[k]))
  PROVE  Value(t) = P!Times(c, Value(s))
<1>1. PICK v : Sums(v, s, n) /\ Value(s) = v[n]
  BY ValueIs
<1>2. PICK w : Sums(w, t, n) /\ Value(t) = w[n]
  BY ValueIs
<1> DEFINE Q == [k \in 0..n |-> {P!Times(c, v[k])}]
<1>3. w[0] \in Q[0]
  <2>1. w[0] = P!ZeroPoly /\ v[0] = P!ZeroPoly /\ 0 \in 0..n
    BY <1>1, <1>2 DEF Sums
  <2> QED BY <2>1, TimesZero
<1>4. ASSUME NEW k \in 0 + 1..n, w[k - 1] \in Q[k - 1] PROVE w[k] \in Q[k]
  <2>1. k \in 1..n /\ k - 1 \in 0..n /\ k \in 0..n
    OBVIOUS
  <2> PICK a, b : a = v[k - 1] /\ b = Part(s[k])
    OBVIOUS
  <2>2. /\ a \in P!Poly /\ b \in P!Poly /\ v[k] = P!Plus(a, b)
        /\ w[k] = P!Plus(w[k - 1], P!Times(c, b))
    BY <1>1, <1>2, <2>1, BucketOf DEF Sums
  <2>3. w[k - 1] = P!Times(c, a)
    BY <1>4, <2>1
  <2>4. w[k] = P!Times(c, v[k])
    BY <2>2, <2>3, TimesPlus
  <2> QED BY <2>1, <2>4
<1>5. \A k \in 0..n : w[k] \in Q[k]
  <2>1. 0 \in Int /\ n \in Int
    OBVIOUS
  <2> HIDE DEF Q
  <2> QED BY <1>3, <1>4, <2>1, ChainKeeps, Zenon
<1>6. n \in 0..n
  OBVIOUS
<1>7. w[n] \in Q[n]
  <2> HIDE DEF Q
  <2> QED BY <1>5, <1>6
<1> QED BY <1>1, <1>2, <1>6, <1>7

LEMMA ValueZero ==
  ASSUME NEW n \in Nat, NEW t \in Buckets(n), \A k \in 1..n : IsZero(t[k])
  PROVE  Value(t) = P!ZeroPoly
<1> PICK m \in Nat : m = 0
  OBVIOUS
<1> PICK s : s = << >>
  OBVIOUS
<1>1. s \in Buckets(m) /\ m <= n /\ \A k \in 1..m : t[k] = s[k]
  BY DEF Buckets
<1>2. Value(t) = Value(s)
  BY <1>1, ValueExtended
<1>3. PICK v : Sums(v, s, m) /\ Value(s) = v[m]
  BY <1>1, ValueIs
<1> QED BY <1>2, <1>3 DEF Sums

\* Where the first bucket leads, the sum has its leading term.
LEMMA ValueLeads ==
  ASSUME NEW n \in Nat \ {0}, NEW s \in Buckets(n), \A k \in 2..n : Below(s, k)
  PROVE  /\ P!LPP(Value(s)) = P!LPP(s[1].poly)
         /\ Value(s) = P!ZeroPoly <=> IsZero(s[1])
         /\ ~IsZero(s[1]) => Value(s)[P!LPP(s[1].poly)] = Part(s[1])[P!LPP(s[1].poly)]
<1> PICK f, m : f = Part(s[1]) /\ m = P!LPP(s[1].poly)
  OBVIOUS
<1>1. /\ 1 \in 1..n /\ s[1] \in Bucket /\ s[1].poly \in P!Poly /\ f \in P!Poly
      /\ P!Support(f) = P!Support(s[1].poly)
  <2>1. 1 \in 1..n
    OBVIOUS
  <2>2. s[1] \in Bucket /\ s[1].poly \in P!Poly
    BY <2>1, BucketOf
  <2> QED BY <2>1, <2>2, PartFacts
<1>2. m = P!LPP(f) /\ m \in Int /\ (IsZero(s[1]) <=> f = P!ZeroPoly)
  BY <1>1, SameSupport, LPPType DEF IsZero
<1>3. PICK v : Sums(v, s, n) /\ Value(s) = v[n]
  BY ValueIs
<1> DEFINE Q == [k \in 1..n |-> {x \in P!Poly : \A e \in P!Exponents : e >= m => x[e] = f[e]}]
<1>4. v[1] \in Q[1]
  <2>1. v[1] = P!Plus(v[0], Part(s[1])) /\ v[0] = P!ZeroPoly
    <3>1. 1 \in 1..n /\ 1 - 1 = 0
      OBVIOUS
    <3> QED BY <1>3, <3>1 DEF Sums
  <2>2. v[1] = f
    BY <1>1, <2>1, PlusZero
  <2> QED BY <1>1, <2>2
<1>5. ASSUME NEW k \in 1 + 1..n, v[k - 1] \in Q[k - 1] PROVE v[k] \in Q[k]
  <2>1. k \in 1..n /\ k - 1 \in 1..n /\ k \in 2..n
    OBVIOUS
  <2> PICK a, b : a = v[k - 1] /\ b = Part(s[k])
    OBVIOUS
  <2>2. /\ a \in P!Poly /\ b \in P!Poly /\ v[k] = P!Plus(a, b)
        /\ \A e \in P!Exponents : e >= m => a[e] = f[e]
    BY <1>3, <1>5, <2>1, BucketOf DEF Sums
  <2>3. ASSUME NEW e \in P!Exponents, e >= m PROVE b[e] = 0
    <3>1. s[k] \in Bucket /\ s[k].poly \in P!Poly /\ P!Support(b) = P!Support(s[k].poly)
      BY <2>1, BucketOf, PartFacts
    <3>2. CASE IsZero(s[k])
      <4>1. b = P!ZeroPoly
        BY <3>1, <3>2, PartFacts
      <4> QED BY <4>1 DEF P!ZeroPoly
    <3>3. CASE ~IsZero(s[k])
      <4>1. P!LPP(s[k].poly) < m
        BY <2>1, <3>3 DEF Below
      <4>2. \A d \in P!Support(b) : d <= P!LPP(s[k].poly)
        BY <3>1, <3>3, Leading DEF IsZero
      <4>3. P!LPP(s[k].poly) \in Int /\ e \in Int
        BY <3>1, LPPType, Degrees
      <4>4. e \notin P!Support(b)
        BY <1>2, <2>3, <4>1, <4>2, <4>3
      <4> QED BY <4>4 DEF P!Support
    <3> QED BY <3>2, <3>3
  <2>4. ASSUME NEW e \in P!Exponents, e >= m PROVE v[k][e] = f[e]
    <3>1. b[e] = 0 /\ a[e] = f[e]
      BY <2>2, <2>3, <2>4
    <3> QED BY <2>2, <3>1, PlusFacts
  <2>5. v[k] \in P!Poly
    BY <2>2, PlusFacts
  <2> QED BY <2>1, <2>4, <2>5
<1>6. \A k \in 1..n : v[k] \in Q[k]
  <2>1. 1 \in Int /\ n \in Int
    OBVIOUS
  <2> HIDE DEF Q
  <2> QED BY <1>4, <1>5, <2>1, ChainKeeps, Zenon
<1> PICK x : x = Value(s)
  OBVIOUS
<1>7. x \in P!Poly /\ \A e \in P!Exponents : e >= m => x[e] = f[e]
  <2>1. n \in 1..n
    OBVIOUS
  <2> QED BY <1>3, <1>6, <2>1
<1>8. CASE f = P!ZeroPoly
  <2>1. m = -1
    BY <1>2, <1>8, ZeroFacts
  <2>2. \A e \in P!Exponents : x[e] = P!ZeroPoly[e]
    BY <1>7, <1>8, <2>1, Degrees
  <2>3. x = P!ZeroPoly
    BY <1>7, <2>2, ZeroFacts, PolyEqual
  <2> QED BY <1>2, <1>8, <2>1, <2>3, ZeroFacts
<1>9. CASE f # P!ZeroPoly
  <2>1. /\ m \in P!Exponents /\ m \in P!Support(f) /\ \A d \in P!Support(f) : d <= m
    BY <1>1, <1>2, <1>9, Leading
  <2>2. x[m] = f[m] /\ m \in P!Support(x)
    BY <1>2, <1>7, <2>1 DEF P!Support
  <2>3. ASSUME NEW d \in P!Support(x) PROVE d <= m
    <3>1. d \in P!Exponents /\ d \in Int /\ x[d] # 0
      BY Degrees DEF P!Support
    <3>2. CASE d > m
      <4>1. x[d] = f[d]
        BY <1>2, <1>7, <3>1, <3>2
      <4>2. d \in P!Support(f)
        BY <3>1, <4>1 DEF P!Support
      <4> QED BY <2>1, <4>2
    <3> QED BY <1>2, <3>1, <3>2
  <2>4. P!LPP(x) = m /\ x # P!ZeroPoly
    BY <1>7, <2>2, <2>3, LeadingIs
  <2> QED BY <1>2, <1>9, <2>2, <2>4
<1> QED BY <1>8, <1>9

\* The first bucket loses its leading term.
LEMMA ValueTail ==
  ASSUME NEW n \in Nat \ {0}, NEW s \in Buckets(n), NEW t \in Buckets(n),
         \A k \in (1..n) \ {1} : t[k] = s[k], ~IsZero(s[1]),
         Part(t[1]) = P!Tail(Part(s[1])), \A k \in 2..n : Below(s, k)
  PROVE  Value(s) # P!ZeroPoly /\ Value(t) = P!Tail(Value(s))
<1> PICK f, x, y : f = Part(s[1]) /\ x = Value(s) /\ y = Value(t)
  OBVIOUS
<1> PICK h : h = P!LM(f)
  OBVIOUS
<1>1. 1 \in 1..n /\ n \in Nat /\ s[1] \in Bucket /\ s[1].poly \in P!Poly /\ f \in P!Poly
  <2>1. 1 \in 1..n /\ n \in Nat
    OBVIOUS
  <2> QED BY <2>1, BucketOf
<1>2. /\ P!Support(f) = P!Support(s[1].poly) /\ P!LPP(f) = P!LPP(s[1].poly)
      /\ f # P!ZeroPoly
  <2>1. P!Support(f) = P!Support(s[1].poly)
    BY <1>1, PartFacts
  <2> QED BY <1>1, <2>1, SameSupport DEF IsZero
<1>3. /\ x # P!ZeroPoly /\ P!LPP(x) = P!LPP(f) /\ x[P!LPP(f)] = f[P!LPP(f)]
  BY <1>2, ValueLeads
<1>4. h \in P!Poly /\ P!Plus(P!Tail(f), h) = f /\ P!Tail(f) \in P!Poly
  BY <1>1, <1>2, LMTail, LMPlusTail
<1>5. x \in P!Poly /\ y \in P!Poly
  BY <1>1, ValueType
<1>6. P!Plus(y, h) = x
  <2> PICK z \in P!Poly : z = P!ZeroPoly
    BY ZeroFacts
  <2>1. P!Plus(Part(t[1]), h) = P!Plus(Part(s[1]), z)
    BY <1>1, <1>4, PlusZero
  <2>2. P!Plus(y, h) = P!Plus(x, z)
    BY <1>1, <1>4, <2>1, ValueChanged
  <2> QED BY <1>5, <2>2, PlusZero
<1>7. P!Plus(P!Tail(x), h) = x
  <2>1. P!LM(x) = h
    BY <1>3 DEF P!LM
  <2> QED BY <1>3, <1>5, <2>1, LMPlusTail
<1>8. P!Tail(x) \in P!Poly
  BY <1>3, <1>5, LMTail
<1>9. y = P!Tail(x)
  BY <1>4, <1>5, <1>6, <1>7, <1>8, PlusCancel
<1> QED BY <1>3, <1>9

LEMMA TimesTail ==
  ASSUME NEW c \in 1..p - 1, NEW f \in P!Poly, f # P!ZeroPoly
  PROVE  P!Times(c, P!Tail(f)) = P!Tail(P!Times(c, f))
<1>1. P!Times(c, f) \in P!Poly /\ P!Support(P!Times(c, f)) = P!Support(f)
  BY TimesFacts
<1>2. P!LPP(P!Times(c, f)) = P!LPP(f) /\ P!Times(c, f) # P!ZeroPoly
  BY <1>1, SameSupport
<1>3. P!Tail(f) \in P!Poly /\ P!Tail(P!Times(c, f)) \in P!Poly
  BY <1>1, <1>2, LMTail
<1>4. P!Times(c, P!Tail(f)) \in P!Poly
  BY <1>3, TimesFacts
<1>5. ASSUME NEW e \in P!Exponents
      PROVE  P!Times(c, P!Tail(f))[e] = P!Tail(P!Times(c, f))[e]
  <2>1. P!Times(c, P!Tail(f))[e] = (c * P!Tail(f)[e]) % p
    BY TimesAt
  <2>2. CASE e = P!LPP(f)
    <3>1. P!Tail(f)[e] = 0 /\ P!Tail(P!Times(c, f))[e] = 0
      BY <1>2, <2>2 DEF P!Tail
    <3>2. c * 0 = 0 /\ 0 % p = 0
      BY Prime
    <3> QED BY <2>1, <3>1, <3>2
  <2>3. CASE e # P!LPP(f)
    <3>1. P!Tail(f)[e] = f[e] /\ P!Tail(P!Times(c, f))[e] = P!Times(c, f)[e]
      BY <1>2, <2>3 DEF P!Tail
    <3> QED BY <2>1, <3>1, TimesAt
  <2> QED BY <2>2, <2>3
<1> QED BY <1>3, <1>4, <1>5, PolyEqual

\* Adding to f without its leading term a multiple of g without its own is
\* adding to f the multiple of g which cancels its leading term.
Factor(f, g) == (p - P!LC(f)) * P!Inverse(P!LC(g))
LEMMA Reducing ==
  ASSUME NEW f \in P!Poly, f # P!ZeroPoly, NEW g \in P!Poly, g # P!ZeroPoly,
         P!LPP(f) - P!LPP(g) >= 0
  PROVE  LET d == P!LPP(f) - P!LPP(g)
         IN  P!Plus(P!Tail(f), P!Shift(Factor(f, g), d, P!Tail(g)))
               = P!Plus(f, P!Shift(Factor(f, g), d, g))
<1> PICK m, k, c, d : /\ m = P!LPP(f) /\ k = P!LPP(g) /\ c = Factor(f, g)
                      /\ d = P!LPP(f) - P!LPP(g)
  OBVIOUS
<1> PICK a, b, i : a = P!LC(f) /\ b = P!LC(g) /\ i = P!Inverse(P!LC(g))
  OBVIOUS
<1>1. /\ m \in P!Exponents /\ k \in P!Exponents /\ m \in Nat /\ k \in Nat /\ d = m - k
      /\ d \in Nat /\ a = f[m] /\ b = g[k] /\ a \in 1..p - 1 /\ b \in 1..p - 1
  BY Leading DEF P!LC
<1>2. i \in 1..p - 1 /\ (b * i) % p = 1
  BY <1>1, InverseExists
<1>3. c = (p - a) * i /\ c \in Int /\ a \in Int /\ b \in Int /\ i \in Int /\ p \in Int
  BY <1>1, <1>2, Prime DEF Factor
<1> PICK tf, tg : tf = P!Tail(f) /\ tg = P!Tail(g)
  OBVIOUS
<1> PICK sg, st : sg = P!Shift(c, d, g) /\ st = P!Shift(c, d, tg)
  OBVIOUS
<1>4. tf \in P!Poly /\ tg \in P!Poly /\ sg \in P!Poly /\ st \in P!Poly
  BY <1>1, <1>3, LMTail, ShiftFacts
<1>5. ASSUME NEW e \in P!Exponents PROVE P!Plus(tf, st)[e] = P!Plus(f, sg)[e]
  <2>1. e \in Nat /\ e \in Int
    BY Degrees
  <2>2. CASE e = m
    <3>1. ~(e < d) /\ e - d = k
      BY <1>1, <2>1, <2>2
    <3>2. tf[e] = 0 /\ tg[k] = 0
      BY <1>1, <2>2 DEF P!Tail
    <3>3. st[e] = (c * 0) % p /\ sg[e] = (c * b) % p
      BY <1>1, <3>1, <3>2 DEF P!Shift
    <3>4. c * 0 = 0 /\ 0 % p = 0 /\ 0 + 0 = 0
      BY <1>3, Prime
    <3>5. P!Plus(tf, st)[e] = 0
      BY <3>2, <3>3, <3>4, PlusAt
    <3>6. P!Plus(f, sg)[e] = (a + ((c * b) % p)) % p
      BY <1>1, <2>2, <3>3, PlusAt
    <3>7. PICK q \in Int : b * i = p * q + 1
      <4>1. b * i \in Int
        BY <1>3
      <4> QED BY <1>2, <4>1, Division, Zenon
    <3>8. c * b = (p - a) * (b * i) /\ c * b \in Int
      BY <1>3
    <3>9. (p - a) * (p * q + 1) = p * ((p - a) * q) + (p - a)
      <4> PICK r : r = p - a
        OBVIOUS
      <4>1. r \in Int
        BY <1>3
      <4>2. r * (p * q + 1) = r * (p * q) + r
        BY <1>3, <4>1
      <4>3. r * (p * q) = p * (r * q)
        BY <1>3, <4>1
      <4> QED BY <4>2, <4>3
    <3> PICK r, u : r = (p - a) * q /\ u = c * b
      OBVIOUS
    <3>10. r \in Int /\ u \in Int /\ u = p * r + (p - a)
      BY <1>3, <3>7, <3>8, <3>9
    <3>11. a + u = p * (r + 1) + 0 /\ r + 1 \in Int /\ a + u \in Int
      BY <1>3, <3>10
    <3>12. (a + u) % p = 0
      <4>1. (p * (r + 1) + 0) % p = 0
        BY <3>11, Prime, UniqueResidue, Zenon
      <4> QED BY <3>11, <4>1
    <3>13. ((u % p) + a) % p = (u + a) % p
      BY <1>3, <3>10, ModPlus, Zenon
    <3> PICK w : w = u % p
      OBVIOUS
    <3>14. w \in Int
      BY <3>10, Residue, SmallResidue
    <3>15. a + w = w + a /\ u + a = a + u
      BY <1>3, <3>10, <3>14
    <3> QED BY <3>5, <3>6, <3>12, <3>13, <3>15
  <2>3. CASE e # m
    <3>1. tf[e] = f[e]
      BY <2>3 DEF P!Tail
    <3>2. st[e] = sg[e]
      <4>1. CASE e < d
        BY <4>1 DEF P!Shift
      <4>2. CASE ~(e < d)
        <5>1. e - d \in P!Exponents /\ e - d # k
          BY <1>1, <2>1, <2>3, <4>2, Degrees
        <5>2. tg[e - d] = g[e - d]
          BY <5>1 DEF P!Tail
        <5> QED BY <4>2, <5>2 DEF P!Shift
      <4> QED BY <4>1, <4>2
    <3> QED BY <3>1, <3>2, PlusAt
  <2> QED BY <2>2, <2>3
<1>6. P!Plus(tf, st) \in P!Poly /\ P!Plus(f, sg) \in P!Poly
  BY <1>4, PlusFacts
<1>7. P!Plus(tf, st) = P!Plus(f, sg)
  BY <1>5, <1>6, PolyEqual
<1> QED BY <1>7

-----------------------------------------------------------------------------
(* The operations.                                                           *)

Inv ==
  /\ Len(bs) \in Nat \ {0} /\ bs \in Proper(Len(bs))
  /\ IhaveLM \in BOOLEAN /\ ops \in 0..MaxOps
  /\ IhaveLM => \A i \in 2..Len(bs) : Below(bs, i)

\* What a step does to the sum: nothing, or what PolySum does.
AbstractStep(v, w) ==
  \/ w = v
  \/ \E c \in P!Coeffs, d \in P!Exponents, g \in Addends :
       P!MayShift(g, d) /\ w = P!Plus(v, P!Shift(c, d, g))
  \/ \E c \in P!Coeffs \ {0} : w = P!Times(c, v)
  \/ v # P!ZeroPoly /\ w = P!Tail(v)
  \/ \E g \in Addends \ {P!ZeroPoly} :
       /\ P!LPP(v) >= P!LPP(g)
       /\ w = P!Plus(v, P!Shift(Factor(v, g), P!LPP(v) - P!LPP(g), g))
  \/ w = P!ZeroPoly
SumStep == AbstractStep(Value(bs), Value(bs'))

LEMMA NewInv ==
  ASSUME NEW n \in Nat \ {0}, bs' \in Proper(n), IhaveLM' \in BOOLEAN, ops' \in 0..MaxOps,
         IhaveLM' => \A i \in 2..n : Below(bs', i)
  PROVE  Inv'
<1>1. Len(bs') = n
  BY DEF Proper, Buckets
<1> QED BY <1>1 DEF Inv

\* What a bucket becomes keeps its capacity and its place among the others.
LEMMA EachChanged ==
  ASSUME NEW n \in Nat \ {0}, NEW s \in Proper(n), NEW t, t = [k \in DOMAIN s |-> t[k]],
         \A k \in 1..n : /\ t[k] \in Good /\ t[k].maxLen = s[k].maxLen
                         /\ IsZero(t[k]) <=> IsZero(s[k])
                         /\ P!LPP(t[k].poly) = P!LPP(s[k].poly)
  PROVE  t \in Proper(n) /\ \A k \in 2..n : Below(s, k) => Below(t, k)
<1>1. DOMAIN s = 1..n /\ \A k \in 1..n : s[k].maxLen = Capacity[k]
  BY DEF Proper, Buckets
<1>2. t \in [1..n -> Good]
  BY <1>1
<1>3. t \in Buckets(n)
  BY <1>2, InBuckets, Zenon
<1>4. 1 \in 1..n /\ \A k \in 2..n : k \in 1..n
  OBVIOUS
<1> QED BY <1>1, <1>3, <1>4 DEF Proper, Below

LEMMA FirstChanged ==
  ASSUME NEW n \in Nat \ {0}, NEW s \in Proper(n), NEW c \in Good, c.maxLen = s[1].maxLen
  PROVE  [s EXCEPT ![1] = c] \in Proper(n)
<1> DEFINE t == [s EXCEPT ![1] = c]
<1>1. s \in [1..n -> Good] /\ \A k \in 1..n : s[k].maxLen = Capacity[k]
  BY DEF Proper, Buckets
<1>2. t \in [1..n -> Good] /\ \A k \in 1..n : t[k].maxLen = Capacity[k]
  BY <1>1
<1> HIDE DEF t
<1>3. t \in Buckets(n)
  BY <1>2, InBuckets, Zenon
<1> QED BY <1>2, <1>3 DEF Proper, t

\* Queries of the leading term keep the buckets well formed.
LEMMA PassesProper ==
  ASSUME Inv
  PROVE  LET n == Len(bs)
         IN  /\ Passes.bs \in Proper(n) /\ Passes.cancelled = FALSE
             /\ Value(Passes.bs) = Value(bs)
             /\ \A k \in 2..n : Below(Passes.bs, k)
<1> DEFINE n == Len(bs)
<1>1. n \in Nat /\ n >= 1 /\ bs \in Buckets(n) /\ \A k \in 1..n : bs[k].maxLen = Capacity[k]
  BY DEF Inv, Proper
<1> HIDE DEF n
<1> PICK x : x = Passes
  OBVIOUS
<1>2. /\ x \in [bs : Buckets(n), cancelled : BOOLEAN] /\ ~x.cancelled
      /\ SameCapacities(bs, x.bs, n) /\ Value(x.bs) = Value(bs)
      /\ \A i \in 2..n : Below(x.bs, i)
  BY <1>1, PassesFacts
<1>3. x.cancelled = FALSE /\ x.bs \in Buckets(n)
  BY <1>2
<1> QED BY <1>1, <1>2, <1>3 DEF SameCapacities, Proper, n

LEMMA TypeOfInv ==
  ASSUME Inv
  PROVE  /\ Len(bs) \in Nat \ {0} /\ bs \in Proper(Len(bs))
         /\ \A k \in 1..Len(bs) : bs[k] \in Good /\ bs[k] \in Bucket
         /\ 1 \in 1..Len(bs)
  BY DEF Inv, Proper, Buckets, Good

LEMMA InitInv == Init => Inv
<1> SUFFICES ASSUME Init PROVE Inv
  OBVIOUS
<1> PICK z : z = ZeroBucket(gbk_minlen)
  OBVIOUS
<1>1. z \in Good /\ z.maxLen = Capacity[1]
  BY Parameters, CapacityFacts, ZeroBucketFacts DEF ZeroBucket
<1>2. bs = <<z>>
  BY DEF Init
<1>3. bs \in Proper(1) /\ Len(bs) = 1
  BY <1>1, <1>2 DEF Proper, Buckets
<1>4. IhaveLM \in BOOLEAN /\ ops \in 0..MaxOps
  BY Parameters DEF Init
<1> QED BY <1>3, <1>4 DEF Inv

LEMMA StepOps == ASSUME Inv, Step PROVE ops' \in 0..MaxOps
  BY Parameters DEF Inv, Step

LEMMA ShiftByOne ==
  ASSUME NEW f \in P!Poly
  PROVE  P!Shift(1, 0, f) = f /\ P!MayShift(f, 0)
<1>1. P!Shift(1, 0, f) \in P!Poly
  BY ShiftFacts
<1>2. ASSUME NEW e \in P!Exponents PROVE P!Shift(1, 0, f)[e] = f[e]
  <2>1. ~(e < 0) /\ e - 0 = e
    BY Degrees
  <2>2. f[e] \in Int /\ f[e] % p = f[e]
    BY At
  <2>3. 1 * f[e] = f[e]
    BY <2>2
  <2>4. P!Shift(1, 0, f)[e] = (1 * f[e]) % p
    BY <2>1 DEF P!Shift
  <2> QED BY <2>2, <2>3, <2>4
<1>3. P!MayShift(f, 0)
  <2> SUFFICES ASSUME f # P!ZeroPoly PROVE P!LPP(f) + 0 <= MaxDeg
    BY DEF P!MayShift
  <2>1. P!LPP(f) \in 0..MaxDeg
    BY Leading, Degrees
  <2> QED BY <2>1, Degrees
<1> QED BY <1>1, <1>2, <1>3, PolyEqual

LEMMA FirstTail ==
  ASSUME NEW n \in Nat \ {0}, NEW s \in Proper(n), NEW c \in Good, ~IsZero(s[1]),
         c.maxLen = s[1].maxLen, c.coeff = s[1].coeff, c.poly = P!Tail(s[1].poly),
         \A k \in 2..n : Below(s, k)
  PROVE  Value(s) # P!ZeroPoly /\ Value([s EXCEPT ![1] = c]) = P!Tail(Value(s))
<1> PICK t : t = [s EXCEPT ![1] = c]
  OBVIOUS
<1>1. t \in Proper(n)
  BY FirstChanged
<1>2. s \in Buckets(n) /\ t \in Buckets(n)
  BY <1>1 DEF Proper
<1>3. t[1] = c /\ \A k \in (1..n) \ {1} : t[k] = s[k]
  BY DEF Proper, Buckets
<1>4. s[1].coeff \in 1..p - 1 /\ s[1].poly \in P!Poly /\ s[1].poly # P!ZeroPoly
  <2>1. 1 \in 1..n /\ n \in Nat
    OBVIOUS
  <2>2. s[1] \in Bucket
    BY <1>2, <2>1, BucketOf
  <2> QED BY <2>2 DEF Bucket, IsZero
<1>5. Part(t[1]) = P!Tail(Part(s[1]))
  BY <1>3, <1>4, TimesTail DEF Part
<1>6. Value(s) # P!ZeroPoly /\ Value(t) = P!Tail(Value(s))
  BY <1>2, <1>3, <1>5, ValueTail
<1> QED BY <1>6

LEMMA AddClearIntoStep == ASSUME Inv, AddClearInto PROVE Inv' /\ SumStep
<1> DEFINE n == Len(bs)
<1>1. n \in Nat \ {0} /\ bs \in Proper(n)
  BY TypeOfInv
<1>2. ops' \in 0..MaxOps /\ IhaveLM' = FALSE
  BY StepOps DEF AddClearInto
<1>3. PICK f \in Addends :
        LET i == BucketIndex(P!NumTerms(f))
        IN  bs' = [Grown(bs, i) EXCEPT ![i] = Added(@, f, P!NumTerms(f))]
  BY DEF AddClearInto
<1> DEFINE i == BucketIndex(P!NumTerms(f))
           b == Grown(bs, i)
<1>4. f \in P!Poly /\ P!NumTerms(f) \in Nat
  BY Parameters, SupportFacts
<1>5. i \in Nat \ {0}
  BY <1>4, BucketIndexFacts
<1>6. bs' = [b EXCEPT ![i] = Added(@, f, P!NumTerms(f))]
  BY <1>3
<1> HIDE DEF i, n
<1>7. PICK m \in Nat : m >= n /\ i \in 1..m /\ b \in Proper(m) /\ Value(b) = Value(bs)
  BY <1>1, <1>5, GrownFacts
<1> HIDE DEF b
<1>8. m \in Nat \ {0} /\ P!NumTerms(f) <= P!NumTerms(f)
  BY <1>4, <1>7
<1>9. bs' \in Proper(m) /\ Value(bs') = P!Plus(Value(bs), f)
  <2> PICK l : l = P!NumTerms(f)
    OBVIOUS
  <2>1. LET t == [b EXCEPT ![i] = Added(@, f, l)]
        IN  t \in Proper(m) /\ Value(t) = P!Plus(Value(b), f)
    BY <1>4, <1>7, <1>8, AddedTo
  <2>2. bs' = [b EXCEPT ![i] = Added(@, f, l)]
    BY <1>6
  <2> QED BY <1>7, <2>1, <2>2
<1>10. SumStep
  <2>1. P!Shift(1, 0, f) = f /\ P!MayShift(f, 0)
    BY <1>4, ShiftByOne
  <2>2. 1 \in P!Coeffs /\ 0 \in P!Exponents
    BY Prime, Degrees DEF P!Coeffs
  <2>3. P!MayShift(f, 0) /\ Value(bs') = P!Plus(Value(bs), P!Shift(1, 0, f))
    BY <1>9, <2>1
  <2>4. \E c \in P!Coeffs, d \in P!Exponents, g \in Addends :
          P!MayShift(g, d) /\ Value(bs') = P!Plus(Value(bs), P!Shift(c, d, g))
    BY <2>2, <2>3
  <2> QED BY <2>4 DEF SumStep, AbstractStep
<1>11. Inv'
  BY <1>2, <1>8, <1>9, NewInv
<1> QED BY <1>10, <1>11

LEMMA AddMulLMStep == ASSUME Inv, AddMulLM PROVE Inv' /\ SumStep
<1> DEFINE n == Len(bs)
<1>1. n \in Nat \ {0} /\ bs \in Proper(n)
  BY TypeOfInv
<1>2. ops' \in 0..MaxOps /\ IhaveLM' = FALSE
  BY StepOps DEF AddMulLM
<1>3. PICK g \in Addends, c \in 1..p - 1, d \in 0..MaxDeg :
        /\ P!MayShift(g, d)
        /\ bs' = AddedMul(bs, P!NumTerms(g), P!Shift(c, d, g), P!NumTerms(g))
  BY DEF AddMulLM
<1>4. g \in P!Poly /\ P!NumTerms(g) \in Nat /\ c \in Int /\ d \in Nat
  BY Parameters, SupportFacts, Prime, Degrees
<1>5. P!Shift(c, d, g) \in P!Poly /\ P!NumTerms(P!Shift(c, d, g)) <= P!NumTerms(g)
  BY <1>4, ShiftFacts
<1> HIDE DEF n
<1>6. /\ Len(bs') \in Nat \ {0} /\ bs' \in Proper(Len(bs'))
      /\ Value(bs') = P!Plus(Value(bs), P!Shift(c, d, g))
  BY <1>1, <1>3, <1>4, <1>5, AddedMulFacts
<1>7. SumStep
  <2>1. c \in P!Coeffs /\ d \in P!Exponents
    BY Prime, Degrees DEF P!Coeffs
  <2> QED BY <1>3, <1>6, <2>1 DEF SumStep, AbstractStep
<1> QED BY <1>2, <1>6, <1>7, NewInv

LEMMA SetLMStep == ASSUME Inv, SetLM PROVE Inv' /\ SumStep
<1> PICK q : q = Passes
  OBVIOUS
<1>1. /\ q.bs \in Proper(Len(bs)) /\ q.cancelled = FALSE
      /\ Value(q.bs) = Value(bs) /\ \A k \in 2..Len(bs) : Below(q.bs, k)
  BY PassesProper
<1>2. bs' = q.bs /\ IhaveLM' = ~q.cancelled /\ ops' \in 0..MaxOps
  BY StepOps DEF SetLM
<1>3. Len(bs) \in Nat \ {0}
  BY TypeOfInv
<1>4. SumStep
  BY <1>1, <1>2 DEF SumStep, AbstractStep
<1> QED BY <1>1, <1>2, <1>3, <1>4, NewInv

LEMMA DeleteLMStep == ASSUME Inv, DeleteLM PROVE Inv' /\ SumStep
<1> PICK b : b = bs[1]
  OBVIOUS
<1>1. /\ Len(bs) \in Nat \ {0} /\ bs \in Proper(Len(bs)) /\ 1 \in 1..Len(bs)
      /\ b \in Good /\ b \in Bucket /\ b.poly \in P!Poly /\ ~IsZero(b)
  BY TypeOfInv DEF DeleteLM, Bucket
<1> PICK q, a : q = P!Tail(b.poly) /\ a = b.approx - 1
  OBVIOUS
<1> PICK c : c = [b EXCEPT !.poly = q, !.approx = a]
  OBVIOUS
<1>2. q \in P!Poly /\ P!NumTerms(q) = P!NumTerms(b.poly) - 1
  BY <1>1, LMTail DEF IsZero
<1>3. a \in Int
  BY <1>1 DEF Bucket
<1>4. /\ c \in Bucket /\ c.poly = q /\ c.approx = a /\ c.maxLen = b.maxLen
      /\ c.coeff = b.coeff
  BY <1>1, <1>2, <1>3 DEF Bucket
<1>5. c \in Good
  <2>1. P!NumTerms(b.poly) \in Int /\ b.approx \in Int /\ P!NumTerms(b.poly) <= b.approx
    BY <1>1, SupportFacts DEF Bucket, Good
  <2>2. P!NumTerms(c.poly) <= c.approx
    BY <1>2, <1>4, <2>1
  <2> QED BY <1>4, <2>2 DEF Good
<1>6. bs' = [bs EXCEPT ![1] = c]
  BY <1>1 DEF DeleteLM, Proper, Buckets
<1>7. [bs EXCEPT ![1] = c] \in Proper(Len(bs))
  BY <1>1, <1>4, <1>5, FirstChanged
<1>8. ops' \in 0..MaxOps /\ IhaveLM' = FALSE
  BY StepOps DEF DeleteLM
<1>9. Value(bs) # P!ZeroPoly /\ Value(bs') = P!Tail(Value(bs))
  <2>1. \A k \in 2..Len(bs) : Below(bs, k)
    BY DEF Inv, DeleteLM
  <2> QED BY <1>1, <1>4, <1>5, <1>6, <2>1, FirstTail
<1>10. SumStep
  BY <1>9 DEF SumStep, AbstractStep
<1> QED BY <1>1, <1>6, <1>7, <1>8, <1>10, NewInv

LEMMA MoveLMOutStep == ASSUME Inv, MoveLMOut PROVE Inv' /\ SumStep
<1> PICK s : s = WithLM
  OBVIOUS
<1>1. /\ Len(bs) \in Nat \ {0} /\ s \in Proper(Len(bs)) /\ 1 \in 1..Len(bs)
      /\ Value(s) = Value(bs) /\ \A k \in 2..Len(bs) : Below(s, k)
  BY TypeOfInv, PassesProper DEF WithLM, Inv
<1> PICK b : b = s[1]
  OBVIOUS
<1>2. DOMAIN s = 1..Len(bs) /\ b \in Good /\ b \in Bucket /\ b.poly \in P!Poly /\ ~IsZero(b)
  BY <1>1 DEF MoveLMOut, Proper, Buckets, Good, Bucket
<1> PICK q : q = P!Tail(b.poly)
  OBVIOUS
<1> PICK c : c = [b EXCEPT !.poly = q]
  OBVIOUS
<1>3. q \in P!Poly /\ P!NumTerms(q) = P!NumTerms(b.poly) - 1
  BY <1>2, LMTail DEF IsZero
<1>4. /\ c \in Bucket /\ c.poly = q /\ c.approx = b.approx /\ c.maxLen = b.maxLen
      /\ c.coeff = b.coeff
  BY <1>2, <1>3 DEF Bucket
<1>5. c \in Good
  <2>1. P!NumTerms(b.poly) \in Int /\ b.approx \in Int /\ P!NumTerms(b.poly) <= b.approx
    BY <1>2, SupportFacts DEF Bucket, Good
  <2>2. P!NumTerms(c.poly) <= c.approx
    BY <1>3, <1>4, <2>1
  <2> QED BY <1>4, <2>2 DEF Good
<1>6. bs' = [s EXCEPT ![1] = c]
  BY <1>1, <1>2 DEF MoveLMOut
<1>7. [s EXCEPT ![1] = c] \in Proper(Len(bs))
  BY <1>1, <1>4, <1>5, FirstChanged
<1>8. ops' \in 0..MaxOps /\ IhaveLM' = FALSE
  BY StepOps DEF MoveLMOut
<1>9. Value(bs) # P!ZeroPoly /\ Value(bs') = P!Tail(Value(bs))
  <2> PICK n : n = Len(bs)
    OBVIOUS
  <2>1. n \in Nat \ {0} /\ s \in Proper(n) /\ \A k \in 2..n : Below(s, k)
    BY <1>1
  <2>2. ~IsZero(s[1]) /\ c.maxLen = s[1].maxLen /\ c.coeff = s[1].coeff
    BY <1>2, <1>4
  <2>3. c.poly = P!Tail(s[1].poly)
    BY <1>4
  <2>4. Value(s) # P!ZeroPoly /\ Value([s EXCEPT ![1] = c]) = P!Tail(Value(s))
    BY <1>5, <2>1, <2>2, <2>3, FirstTail
  <2> QED BY <1>1, <1>6, <2>4
<1>10. SumStep
  BY <1>9 DEF SumStep, AbstractStep
<1> QED BY <1>1, <1>6, <1>7, <1>8, <1>10, NewInv

LEMMA MulByCoeffStep == ASSUME Inv, MulByCoeff PROVE Inv' /\ SumStep
<1>1. PICK c \in 2..p - 1 : bs' = [k \in DOMAIN bs |-> [bs[k] EXCEPT !.coeff = (@ * c) % p]]
  BY DEF MulByCoeff
<1> DEFINE t == [k \in DOMAIN bs |-> [bs[k] EXCEPT !.coeff = (@ * c) % p]]
<1>2. Len(bs) \in Nat \ {0} /\ bs \in Proper(Len(bs)) /\ DOMAIN bs = 1..Len(bs)
  BY TypeOfInv DEF Proper, Buckets
<1>3. ASSUME NEW k \in 1..Len(bs)
      PROVE  /\ t[k] \in Good /\ t[k].maxLen = bs[k].maxLen
             /\ IsZero(t[k]) <=> IsZero(bs[k])
             /\ P!LPP(t[k].poly) = P!LPP(bs[k].poly)
             /\ Part(t[k]) = P!Times(c, Part(bs[k]))
  <2> PICK b : b = bs[k]
    OBVIOUS
  <2>1. b \in Good /\ b \in Bucket /\ b.coeff \in 1..p - 1
    BY TypeOfInv DEF Bucket
  <2>2. (b.coeff * c) % p \in 1..p - 1 /\ c \in 1..p - 1
    <3>1. c \in 1..p - 1
      BY Prime
    <3> QED BY <2>1, <3>1, NoZeroDivisor
  <2> PICK r : r = (b.coeff * c) % p
    OBVIOUS
  <2>3. t[k] = [b EXCEPT !.coeff = r]
    BY <1>2, <2>1 DEF Bucket
  <2> HIDE DEF t
  <2>4. /\ t[k] \in Bucket /\ t[k].poly = b.poly /\ t[k].maxLen = b.maxLen /\ t[k].approx = b.approx
        /\ t[k].coeff = r
    BY <2>1, <2>2, <2>3 DEF Bucket
  <2>5. P!Times(r, b.poly) = P!Times(c, P!Times(b.coeff, b.poly))
    <3> PICK x, f : x = b.coeff /\ f = b.poly
      OBVIOUS
    <3>1. x \in 1..p - 1 /\ f \in P!Poly /\ c \in 1..p - 1
      BY <2>1, <2>2 DEF Bucket
    <3>2. P!Times(c, P!Times(x, f)) = P!Times((c * x) % p, f)
      BY <3>1, TimesTimes
    <3>3. c * x = x * c
      BY <3>1, Prime
    <3> QED BY <3>2, <3>3
  <2> QED BY <2>1, <2>4, <2>5 DEF Good, IsZero, Part
<1>4. t = [k \in DOMAIN bs |-> t[k]]
  OBVIOUS
<1> HIDE DEF t
<1>5. t \in Proper(Len(bs)) /\ \A k \in 2..Len(bs) : Below(bs, k) => Below(t, k)
  BY <1>2, <1>3, <1>4, EachChanged
<1>6. ops' \in 0..MaxOps /\ IhaveLM' = IhaveLM
  BY StepOps DEF MulByCoeff
<1>7. bs' = t
  BY <1>1 DEF t
<1>8. IhaveLM \in BOOLEAN /\ (IhaveLM => \A k \in 2..Len(bs) : Below(bs, k))
  BY DEF Inv
<1>9. Value(bs') = P!Times(c, Value(bs)) /\ c \in P!Coeffs \ {0}
  <2>1. bs \in Buckets(Len(bs)) /\ t \in Buckets(Len(bs)) /\ Len(bs) \in Nat
    BY <1>2, <1>5 DEF Proper
  <2>2. c \in 1..p - 1 /\ c \in P!Coeffs \ {0}
    BY Prime DEF P!Coeffs
  <2>3. Value(t) = P!Times(c, Value(bs))
    BY <1>3, <2>1, <2>2, ValueScaled
  <2> QED BY <1>7, <2>2, <2>3
<1>10. SumStep
  BY <1>9 DEF SumStep, AbstractStep
<1> QED BY <1>2, <1>5, <1>6, <1>7, <1>8, <1>10, NewInv

LEMMA DivByCoeffStep == ASSUME Inv, DivByCoeff PROVE Inv' /\ SumStep
<1>1. PICK c \in 2..p - 1 :
        bs' = [k \in DOMAIN bs |-> [Normalized(bs[k]) EXCEPT !.poly = P!Times(P!Inverse(c), @)]]
  BY DEF DivByCoeff
<1> DEFINE t == [k \in DOMAIN bs |->
                   [Normalized(bs[k]) EXCEPT !.poly = P!Times(P!Inverse(c), @)]]
<1>2. Len(bs) \in Nat \ {0} /\ bs \in Proper(Len(bs)) /\ DOMAIN bs = 1..Len(bs)
  BY TypeOfInv DEF Proper, Buckets
<1>3. P!Inverse(c) \in 1..p - 1
  <2>1. c \in 1..p - 1
    BY Prime
  <2> QED BY <2>1, InverseExists
<1>4. ASSUME NEW k \in 1..Len(bs)
      PROVE  /\ t[k] \in Good /\ t[k].maxLen = bs[k].maxLen
             /\ IsZero(t[k]) <=> IsZero(bs[k])
             /\ P!LPP(t[k].poly) = P!LPP(bs[k].poly)
             /\ Part(t[k]) = P!Times(P!Inverse(c), Part(bs[k]))
  <2> PICK b : b = bs[k]
    OBVIOUS
  <2> PICK a : a = Normalized(b)
    OBVIOUS
  <2>1. b \in Good /\ b \in Bucket
    BY TypeOfInv
  <2>2. /\ a \in Bucket /\ a.poly \in P!Poly /\ a.maxLen = b.maxLen /\ a.approx = b.approx
        /\ P!NumTerms(a.poly) = P!NumTerms(b.poly) /\ P!LPP(a.poly) = P!LPP(b.poly)
        /\ IsZero(a) <=> IsZero(b)
        /\ a.coeff = 1 /\ a.poly = Part(b)
    BY <2>1, NormalizedFacts, PartFacts DEF Bucket
  <2> PICK q : q = P!Times(P!Inverse(c), a.poly)
    OBVIOUS
  <2>3. q \in P!Poly /\ P!Support(q) = P!Support(a.poly)
    BY <1>3, <2>2, TimesFacts
  <2>4. /\ P!NumTerms(q) = P!NumTerms(a.poly) /\ P!LPP(q) = P!LPP(a.poly)
        /\ q = P!ZeroPoly <=> a.poly = P!ZeroPoly
    BY <2>2, <2>3, SameSupport
  <2>5. t[k] = [a EXCEPT !.poly = q]
    BY <1>2, <2>2 DEF Bucket
  <2> HIDE DEF t
  <2>6. /\ t[k] \in Bucket /\ t[k].poly = q /\ t[k].maxLen = a.maxLen /\ t[k].approx = a.approx
        /\ t[k].coeff = 1
    BY <2>2, <2>3, <2>5 DEF Bucket
  <2>7. Part(t[k]) = P!Times(P!Inverse(c), Part(b))
    BY <2>2, <2>6, PartFacts
  <2> QED BY <2>1, <2>2, <2>4, <2>6, <2>7 DEF Good, IsZero
<1>5. t = [k \in DOMAIN bs |-> t[k]]
  OBVIOUS
<1> HIDE DEF t
<1>6. t \in Proper(Len(bs)) /\ \A k \in 2..Len(bs) : Below(bs, k) => Below(t, k)
  BY <1>2, <1>4, <1>5, EachChanged
<1>7. ops' \in 0..MaxOps /\ IhaveLM' = IhaveLM
  BY StepOps DEF DivByCoeff
<1>8. bs' = t
  BY <1>1 DEF t
<1>9. IhaveLM \in BOOLEAN /\ (IhaveLM => \A k \in 2..Len(bs) : Below(bs, k))
  BY DEF Inv
<1>10. Value(bs') = P!Times(P!Inverse(c), Value(bs)) /\ P!Inverse(c) \in P!Coeffs \ {0}
  <2> PICK i : i = P!Inverse(c)
    OBVIOUS
  <2>1. bs \in Buckets(Len(bs)) /\ t \in Buckets(Len(bs)) /\ Len(bs) \in Nat
    BY <1>2, <1>6 DEF Proper
  <2>2. i \in 1..p - 1 /\ i \in P!Coeffs \ {0}
    BY <1>3, Prime DEF P!Coeffs
  <2>3. Value(t) = P!Times(i, Value(bs))
    BY <1>4, <2>1, <2>2, ValueScaled
  <2> QED BY <1>8, <2>2, <2>3
<1>11. SumStep
  BY <1>10 DEF SumStep, AbstractStep
<1> QED BY <1>2, <1>6, <1>7, <1>8, <1>9, <1>11, NewInv

LEMMA ReductionStepStep == ASSUME Inv, ReductionStep PROVE Inv' /\ SumStep
<1> PICK b : b = bs[1]
  OBVIOUS
<1>1. /\ Len(bs) \in Nat \ {0} /\ bs \in Proper(Len(bs)) /\ DOMAIN bs = 1..Len(bs)
      /\ 1 \in 1..Len(bs) /\ b \in Good /\ b \in Bucket /\ ~IsZero(b)
  BY TypeOfInv DEF ReductionStep, Proper, Buckets
<1> DEFINE f == Normalized(b).poly
           r == Shortened(b)
           deleted == [bs EXCEPT ![1] = r]
           D(g) == P!LPP(f) - P!LPP(g)
           C(g) == (p - P!LC(f)) * P!Inverse(P!LC(g))
<1>2. PICK g \in Addends \ {P!ZeroPoly} :
        /\ D(g) >= 0
        /\ bs' = AddedMul(deleted, P!NumTerms(g), P!Shift(C(g), D(g), P!Tail(g)), P!NumTerms(g) - 1)
  BY <1>1 DEF ReductionStep
<1>3. /\ r \in Good /\ r.maxLen = b.maxLen /\ f \in P!Poly /\ f # P!ZeroPoly
      /\ r.coeff = 1 /\ r.poly = P!Tail(f) /\ f = Part(b) /\ P!LPP(f) = P!LPP(b.poly)
  BY <1>1, TailFacts, PartFacts
<1>4. g \in P!Poly /\ g # P!ZeroPoly
  BY Parameters
<1> HIDE DEF r, f
<1>5. deleted \in Proper(Len(bs))
  BY <1>1, <1>3, FirstChanged
<1>14. \A k \in 2..Len(bs) : Below(bs, k)
  BY DEF Inv, ReductionStep
<1>15. Value(bs) # P!ZeroPoly /\ Value(deleted) = P!Tail(Value(bs))
  <2>1. bs \in Buckets(Len(bs)) /\ deleted \in Buckets(Len(bs))
    BY <1>1, <1>5 DEF Proper
  <2>2. deleted[1] = r /\ \A k \in (1..Len(bs)) \ {1} : deleted[k] = bs[k]
    BY <1>1
  <2>3. Part(deleted[1]) = P!Tail(Part(bs[1]))
    BY <1>3, <2>2, PartFacts DEF Good
  <2> HIDE DEF deleted
  <2> QED BY <1>1, <1>14, <2>1, <2>2, <2>3, ValueTail
<1>16. /\ P!LPP(Value(bs)) = P!LPP(f) /\ P!LC(Value(bs)) = P!LC(f)
       /\ Value(bs) \in P!Poly
  <2>1. bs \in Buckets(Len(bs)) /\ Len(bs) \in Nat
    BY <1>1 DEF Proper
  <2>2. /\ P!LPP(Value(bs)) = P!LPP(b.poly)
        /\ Value(bs)[P!LPP(b.poly)] = Part(b)[P!LPP(b.poly)]
    BY <1>1, <1>14, <2>1, ValueLeads
  <2> QED BY <1>3, <2>1, <2>2, ValueType DEF P!LC
<1>6. /\ P!LPP(f) \in Int /\ P!LPP(g) \in Int /\ P!LC(f) \in 1..p - 1 /\ P!LC(g) \in 1..p - 1
  BY <1>3, <1>4, Leading, LPPType DEF P!LC
<1>7. P!Inverse(P!LC(g)) \in 1..p - 1
  BY <1>6, InverseExists
<1>8. D(g) \in Nat /\ C(g) \in Int
  <2>1. D(g) \in Int
    BY <1>6
  <2>2. p - P!LC(f) \in Int /\ P!Inverse(P!LC(g)) \in Int
    BY <1>6, <1>7, Prime
  <2> QED BY <1>2, <2>1, <2>2
<1> HIDE DEF deleted, C, D
<1>9. P!Tail(g) \in P!Poly /\ P!NumTerms(P!Tail(g)) = P!NumTerms(g) - 1 /\ P!NumTerms(g) \in Nat
  BY <1>4, LMTail, SupportFacts
<1>10. P!NumTerms(g) - 1 \in Nat
  BY <1>9, SupportFacts
<1>11. /\ P!Shift(C(g), D(g), P!Tail(g)) \in P!Poly
       /\ P!NumTerms(P!Shift(C(g), D(g), P!Tail(g))) <= P!NumTerms(g) - 1
  BY <1>8, <1>9, ShiftFacts
<1>12. /\ Len(bs') \in Nat \ {0} /\ bs' \in Proper(Len(bs'))
       /\ Value(bs') = P!Plus(Value(deleted), P!Shift(C(g), D(g), P!Tail(g)))
  BY <1>1, <1>2, <1>5, <1>9, <1>10, <1>11, AddedMulFacts
<1>17. SumStep
  <2> PICK v : v = Value(bs)
    OBVIOUS
  <2>1. C(g) = Factor(v, g) /\ D(g) = P!LPP(v) - P!LPP(g)
    BY <1>16 DEF C, D, Factor
  <2>2. v \in P!Poly /\ v # P!ZeroPoly /\ P!LPP(v) - P!LPP(g) >= 0
    BY <1>2, <1>15, <1>16, <2>1
  <2>3. Value(bs') = P!Plus(P!Tail(v), P!Shift(Factor(v, g), P!LPP(v) - P!LPP(g), P!Tail(g)))
    BY <1>12, <1>15, <2>1
  <2>4. Value(bs') = P!Plus(v, P!Shift(Factor(v, g), P!LPP(v) - P!LPP(g), g))
    BY <1>4, <2>2, <2>3, Reducing
  <2>5. P!LPP(v) >= P!LPP(g)
    <3>1. P!LPP(v) \in Int /\ P!LPP(g) \in Int
      BY <1>4, <2>2, LPPType
    <3> QED BY <2>2, <3>1
  <2> QED BY <2>4, <2>5 DEF SumStep, AbstractStep
<1>13. ops' \in 0..MaxOps /\ IhaveLM' = FALSE
  BY StepOps DEF ReductionStep
<1> QED BY <1>12, <1>13, <1>17, NewInv

LEMMA AddClearOutStep == ASSUME Inv, AddClearOut PROVE Inv' /\ SumStep
<1> DEFINE t == [k \in DOMAIN bs |-> Emptied(bs[k])]
<1>1. /\ Len(bs) \in Nat \ {0} /\ DOMAIN bs = 1..Len(bs)
      /\ \A k \in 1..Len(bs) : bs[k] \in Bucket /\ bs[k].maxLen = Capacity[k]
  BY TypeOfInv DEF Proper, Buckets
<1>2. ASSUME NEW k \in 1..Len(bs)
      PROVE  t[k] \in Good /\ IsZero(t[k]) /\ t[k].maxLen = Capacity[k]
  BY <1>1, EmptiedFacts
<1>3. t \in [1..Len(bs) -> Good]
  BY <1>1, <1>2
<1> HIDE DEF t
<1>4. t \in Buckets(Len(bs))
  BY <1>1, <1>3, InBuckets, Zenon
<1>5. t \in Proper(Len(bs)) /\ \A k \in 2..Len(bs) : Below(t, k)
  BY <1>1, <1>2, <1>4 DEF Proper, Below
<1>6. bs' = t /\ IhaveLM' = TRUE /\ ops' \in 0..MaxOps
  BY StepOps DEF AddClearOut, t
<1>7. Value(bs') = P!ZeroPoly
  <2>1. \A k \in 1..Len(bs) : IsZero(t[k])
    BY <1>2
  <2> QED BY <1>1, <1>4, <1>6, <2>1, ValueZero
<1>8. SumStep
  BY <1>7 DEF SumStep, AbstractStep
<1> QED BY <1>1, <1>5, <1>6, <1>8, NewInv

LEMMA NextStep == ASSUME Inv, [Next]_vars PROVE Inv' /\ SumStep
<1>1. CASE AddClearInto BY <1>1, AddClearIntoStep
<1>2. CASE AddMulLM BY <1>2, AddMulLMStep
<1>3. CASE SetLM BY <1>3, SetLMStep
<1>4. CASE DeleteLM BY <1>4, DeleteLMStep
<1>5. CASE MoveLMOut BY <1>5, MoveLMOutStep
<1>6. CASE MulByCoeff BY <1>6, MulByCoeffStep
<1>7. CASE DivByCoeff BY <1>7, DivByCoeffStep
<1>8. CASE ReductionStep BY <1>8, ReductionStepStep
<1>9. CASE AddClearOut BY <1>9, AddClearOutStep
<1>10. CASE UNCHANGED vars
  BY <1>10 DEF Inv, Below, vars, SumStep, AbstractStep
<1> QED BY <1>1, <1>2, <1>3, <1>4, <1>5, <1>6, <1>7, <1>8, <1>9, <1>10 DEF Next

LEMMA InvHolds == Spec => []Inv
<1>1. Inv /\ [Next]_vars => Inv'
  BY NextStep
<1> QED BY <1>1, InitInv, PTL DEF Spec

\* Every bucket has a coefficient other than 0 and the capacity that its place
\* gives it: what myBucketIndex counts on is true however buckets were pushed.
THEOREM BucketsAreWellFormed == Spec => []TypeOK
<1>1. Inv => TypeOK
  <2> SUFFICES ASSUME Inv PROVE TypeOK
    OBVIOUS
  <2>1. /\ Len(bs) \in Nat \ {0} /\ DOMAIN bs = 1..Len(bs)
        /\ \A k \in 1..Len(bs) : bs[k] \in Good /\ bs[k] \in Bucket /\ bs[k].maxLen = Capacity[k]
    BY TypeOfInv DEF Proper, Buckets
  <2>2. ASSUME NEW k \in 1..Len(bs)
        PROVE  bs[k].coeff \in 1..p - 1 /\ bs[k].poly \in P!Poly /\ bs[k].approx \in Nat
    <3>1. /\ bs[k].coeff \in 1..p - 1 /\ bs[k].poly \in P!Poly /\ bs[k].approx \in Int
          /\ P!NumTerms(bs[k].poly) <= bs[k].approx
      BY <2>1 DEF Bucket, Good
    <3>2. P!NumTerms(bs[k].poly) \in Nat
      BY <3>1, SupportFacts
    <3> QED BY <3>1, <3>2
  <2> QED BY <2>1, <2>2 DEF TypeOK, Inv
<1> QED BY <1>1, InvHolds, PTL

\* The length that is kept with a bucket is a bound: cancellation in sums, terms
\* moved between buckets and the cascade never leave it too small.
THEOREM LengthsAreBounds == Spec => []ApproxIsBound
<1>1. Inv => ApproxIsBound
  BY TypeOfInv DEF ApproxIsBound, Proper, Buckets, Good
<1> QED BY <1>1, InvHolds, PTL

\* When IhaveLM is set nothing in the other buckets can cancel the leading term
\* of the first: a pass in which two leading terms cancelled is followed by
\* another, and whatever disturbs the order of the buckets clears the flag.
THEOREM LeadingTermCertified == Spec => []LMCertified
<1>1. Inv => LMCertified
  BY DEF Inv, LMCertified, Below
<1> QED BY <1>1, InvHolds, PTL

LEMMA SameOperators ==
  /\ Sum!ZeroPoly = P!ZeroPoly /\ Sum!Coeffs = P!Coeffs /\ Sum!Exponents = P!Exponents
  /\ \A f : Sum!LPP(f) = P!LPP(f)
  /\ \A f : Sum!LC(f) = P!LC(f)
  /\ \A f : Sum!Tail(f) = P!Tail(f)
  /\ \A c : Sum!Inverse(c) = P!Inverse(c)
  /\ \A f, g : Sum!Plus(f, g) = P!Plus(f, g)
  /\ \A c, f : Sum!Times(c, f) = P!Times(c, f)
  /\ \A c, d, f : Sum!Shift(c, d, f) = P!Shift(c, d, f)
  /\ \A f, d : Sum!MayShift(f, d) <=> P!MayShift(f, d)
<1>1. Sum!Exponents = P!Exponents /\ Sum!Coeffs = P!Coeffs
  BY DEF Sum!Exponents, P!Exponents, Sum!Coeffs, P!Coeffs
<1>2. Sum!ZeroPoly = P!ZeroPoly
  BY <1>1 DEF Sum!ZeroPoly, P!ZeroPoly
<1>3. \A f : Sum!Support(f) = P!Support(f)
  BY <1>1 DEF Sum!Support, P!Support
<1>4. \A f : Sum!LPP(f) = P!LPP(f)
  <2> TAKE f
  <2>1. Sum!Support(f) = P!Support(f)
    BY <1>3
  <2> QED BY <1>2, <2>1 DEF Sum!LPP, P!LPP
<1>5. \A f : Sum!LC(f) = P!LC(f)
  BY <1>4, Zenon DEF Sum!LC, P!LC
<1>6. \A f : Sum!Tail(f) = P!Tail(f)
  BY <1>1, <1>4, Zenon DEF Sum!Tail, P!Tail
<1>7. \A c : Sum!Inverse(c) = P!Inverse(c)
  BY <1>1, Zenon DEF Sum!Inverse, P!Inverse
<1>8. \A f, g : Sum!Plus(f, g) = P!Plus(f, g)
  BY <1>1, Zenon DEF Sum!Plus, P!Plus
<1>9. \A c, f : Sum!Times(c, f) = P!Times(c, f)
  BY <1>1, Zenon DEF Sum!Times, P!Times
<1>10. \A c, d, f : Sum!Shift(c, d, f) = P!Shift(c, d, f)
  BY <1>1, Zenon DEF Sum!Shift, P!Shift
<1>11. \A f, d : Sum!MayShift(f, d) <=> P!MayShift(f, d)
  BY <1>2, <1>4, Zenon DEF Sum!MayShift, P!MayShift
<1> QED BY <1>1, <1>2, <1>4, <1>5, <1>6, <1>7, <1>8, <1>9, <1>10, <1>11

LEMMA SumInit == Init => Sum!Init
<1> SUFFICES ASSUME Init PROVE Sum!Init
  OBVIOUS
<1> PICK z : z = ZeroBucket(gbk_minlen)
  OBVIOUS
<1> PICK t : t = bs
  OBVIOUS
<1>1. z \in Good /\ IsZero(z)
  BY Parameters, CapacityFacts, ZeroBucketFacts DEF ZeroBucket, IsZero
<1>2. t = <<z>>
  BY DEF Init
<1>3. t \in Buckets(1) /\ \A k \in 1..1 : IsZero(t[k])
  <2>1. t \in Seq(Good) /\ Len(t) = 1 /\ t[1] = z
    BY <1>1, <1>2
  <2>2. t \in Buckets(1)
    BY <2>1 DEF Buckets
  <2>3. ASSUME NEW k \in 1..1 PROVE IsZero(t[k])
    <3>1. k = 1
      OBVIOUS
    <3> QED BY <1>1, <2>1, <3>1
  <2> QED BY <2>2, <2>3
<1>4. Value(t) = P!ZeroPoly
  BY <1>3, ValueZero
<1> QED BY <1>4, SameOperators DEF Sum!Init

LEMMA SumNext == SumStep => [Sum!Next]_(Value(bs))
<1> SUFFICES ASSUME SumStep PROVE [Sum!Next]_(Value(bs))
  OBVIOUS
<1> PICK v : v = Value(bs)
  OBVIOUS
<1> PICK w : w = Value(bs')
  OBVIOUS
<1>1. AbstractStep(v, w) /\ (Value(bs))' = w
  BY DEF SumStep
<1>2. CASE w = v
  BY <1>1, <1>2
<1>3. ASSUME NEW c \in P!Coeffs, NEW d \in P!Exponents, NEW g \in Addends,
             P!MayShift(g, d), w = P!Plus(v, P!Shift(c, d, g))
      PROVE  Sum!Add
  <2> PICK m : m = <<c, d, g>>
    OBVIOUS
  <2>1. m \in Sum!Coeffs \X Sum!Exponents \X Addends /\ m[1] = c /\ m[2] = d /\ m[3] = g
    BY SameOperators
  <2>2. Sum!MayShift(m[3], m[2]) /\ w = Sum!Plus(v, Sum!Shift(m[1], m[2], m[3]))
    BY <1>3, <2>1, SameOperators
  <2> QED BY <1>1, <2>1, <2>2 DEF Sum!Add
<1>4. ASSUME NEW c \in P!Coeffs \ {0}, w = P!Times(c, v)
      PROVE  Sum!Scale
  <2>1. c \in Sum!Coeffs \ {0} /\ w = Sum!Times(c, v)
    BY <1>4, SameOperators
  <2> QED BY <1>1, <2>1 DEF Sum!Scale
<1>5. ASSUME v # P!ZeroPoly, w = P!Tail(v)
      PROVE  Sum!DropLM
  <2>1. v # Sum!ZeroPoly /\ w = Sum!Tail(v)
    BY <1>5, SameOperators
  <2> QED BY <1>1, <2>1 DEF Sum!DropLM
<1>6. ASSUME NEW g \in Addends \ {P!ZeroPoly}, P!LPP(v) >= P!LPP(g),
             w = P!Plus(v, P!Shift(Factor(v, g), P!LPP(v) - P!LPP(g), g))
      PROVE  Sum!Reduce
  <2>1. g \in Addends \ {Sum!ZeroPoly} /\ Sum!LPP(v) >= Sum!LPP(g)
    BY <1>6, SameOperators
  <2>2. Factor(v, g) = (p - Sum!LC(v)) * Sum!Inverse(Sum!LC(g))
    BY SameOperators DEF Factor
  <2>3. w = Sum!Plus(v, Sum!Shift((p - Sum!LC(v)) * Sum!Inverse(Sum!LC(g)),
                                  Sum!LPP(v) - Sum!LPP(g), g))
    BY <1>6, <2>2, SameOperators
  <2> QED BY <1>1, <2>1, <2>3 DEF Sum!Reduce
<1>7. ASSUME w = P!ZeroPoly
      PROVE  Sum!TakeAll
  BY <1>1, <1>7, SameOperators DEF Sum!TakeAll
<1> QED BY <1>1, <1>2, <1>3, <1>4, <1>5, <1>6, <1>7 DEF AbstractStep, Sum!Next

\* The buckets always stand for the sum of what has been added, with the leading
\* terms that were taken away left out: spilling into larger buckets, bringing
\* the leading term to the first bucket and normalizing change nothing that can
\* be seen from outside.
THEOREM BucketsAddUp == Spec => ImplementsPolySum
<1>1. Init => Sum!Init
  BY SumInit
<1>2. Inv /\ [Next]_vars => [Sum!Next]_(Value(bs))
  BY NextStep, SumNext
<1> QED BY <1>1, <1>2, InvHolds, PTL DEF Spec, ImplementsPolySum, Sum!Spec

=============================================================================
