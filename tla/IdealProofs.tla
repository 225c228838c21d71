---------------------------- MODULE IdealProofs ----------------------------
(***************************************************************************)
(* For any ring of the model, any generators, any number of handles and    *)
(* any assertions, false ones included:                                    *)
(*   - the four flags of an ideal never contradict one another, and        *)
(*     whatever follows from one is noted;                                 *)
(*   - flags found by tests, or asserted rightly, are true of the ideal,   *)
(*     unless an operation has taken them over from another;               *)
(*   - what is cached is of the present generators, unless stale minimal   *)
(*     generators have been made the generators;                           *)
(*   - a call changes the ideal of one handle at most.                     *)
(*                                                                         *)
(* The points are that an assignment made to flags that are closed under   *)
(* the implications throws, if at all, before it changes anything; that    *)
(* assigning a truth to true flags leaves them true; and that a computed   *)
(* basis of monomials is reduced, made of monomials and, where the code    *)
(* says so, square free.                                                   *)
(***************************************************************************)
EXTENDS Ideal, NatFacts, FiniteSetTheorems, TLAPS

FlagRecord == [maximal : Bool3, prime : Bool3, primary : Bool3, radical : Bool3,
               raised : BOOLEAN]

\* Flags that an assignment may leave.
Consistent(f) == f \in FlagRecord /\ Closed(f)

(***************************************************************************)
(* The assignments.                                                        *)
(***************************************************************************)
\* What follows from "true" (ideal.C:414-495).
LEMMA TrueKeepsClosed ==
  ASSUME NEW f, Consistent(f)
  PROVE  /\ Consistent(AssignRadicalTrue(f))
         /\ Consistent(AssignPrimaryTrue(f))
         /\ Consistent(AssignPrimeTrue(f))
         /\ Consistent(AssignMaximalTrue(f))
<1> USE DEF Consistent, FlagRecord, Closed, Bool3, Settled, Checked
<1>1. Consistent(AssignRadicalTrue(f))
  BY DEF AssignRadicalTrue
<1>2. Consistent(AssignPrimaryTrue(f))
  BY DEF AssignPrimaryTrue
<1>3. Consistent(AssignPrimeTrue(f))
  BY DEF AssignPrimeTrue, AssignPrimaryTrue, AssignRadicalTrue
<1>4. Consistent(AssignMaximalTrue(f))
  <2>1. CASE Settled(f, "maximal")
    BY <2>1 DEF AssignMaximalTrue
  <2>2. CASE ~Settled(f, "maximal")
    <3> DEFINE g == [f EXCEPT !.maximal = "true"]
    <3>1. AssignMaximalTrue(f) = AssignPrimeTrue(g)
      BY <2>2 DEF AssignMaximalTrue
    <3>2. f.prime # "false" /\ ~f.raised
      BY <2>2
    <3>3. g \in FlagRecord /\ g.maximal = "true" /\ ~g.raised
      BY <3>2
    <3>4. g.prime = f.prime /\ g.primary = f.primary /\ g.radical = f.radical
      OBVIOUS
    <3>5. CASE f.prime = "true"
      <4>1. AssignPrimeTrue(g) = Checked(g, "prime", "true") /\ g.prime = "true"
        BY <3>4, <3>5 DEF AssignPrimeTrue
      <4>2. f.primary = "true" /\ f.radical = "true"
        BY <3>5
      <4> QED BY <3>1, <3>3, <3>4, <4>1, <4>2
    <3>6. CASE f.prime = "uncertain"
      <4> DEFINE e == [g EXCEPT !.prime = "true",
                                !.maximal = IF Univariate THEN "true" ELSE @]
      <4>1. AssignPrimeTrue(g) = AssignRadicalTrue(AssignPrimaryTrue(e))
        BY <3>3, <3>4, <3>6 DEF AssignPrimeTrue
      <4>2. e \in FlagRecord /\ e.maximal = "true" /\ e.prime = "true" /\ ~e.raised
        BY <3>3
      <4>3. e.primary # "false" /\ e.radical # "false"
        BY <3>4, <3>6
      <4> HIDE DEF e
      <4> QED BY <3>1, <4>1, <4>2, <4>3 DEF AssignRadicalTrue, AssignPrimaryTrue
    <3> QED BY <3>2, <3>5, <3>6
  <2> QED BY <2>1, <2>2
<1> QED BY <1>1, <1>2, <1>3, <1>4

\* What follows from "false" (ideal.C:414-495).
LEMMA FalseKeepsClosed ==
  ASSUME NEW f, Consistent(f)
  PROVE  /\ Consistent(AssignMaximalFalse(f))
         /\ Consistent(AssignPrimeFalse(f))
         /\ Consistent(AssignPrimaryFalse(f))
         /\ Consistent(AssignRadicalFalse(f))
<1> USE DEF Consistent, FlagRecord, Closed, Bool3, Settled, Checked
<1>1. Consistent(AssignMaximalFalse(f))
  BY DEF AssignMaximalFalse
<1>2. Consistent(AssignPrimeFalse(f))
  BY DEF AssignPrimeFalse, AssignMaximalFalse
<1>3. Consistent(AssignPrimaryFalse(f))
  BY DEF AssignPrimaryFalse, AssignPrimeFalse, AssignMaximalFalse
<1>4. Consistent(AssignRadicalFalse(f))
  BY DEF AssignRadicalFalse, AssignPrimeFalse, AssignMaximalFalse
<1> QED BY <1>1, <1>2, <1>3, <1>4

\* What a client asserts, or a test finds.
LEMMA AssignKeepsClosed ==
  ASSUME NEW f, Consistent(f), NEW p \in Props, NEW b
  PROVE  Consistent(AssignFlag(f, p, b)) /\ Consistent(Caught(f))
<1>1. Consistent(AssignFlag(f, p, b))
  BY TrueKeepsClosed, FalseKeepsClosed DEF AssignFlag, Props
<1>2. Consistent(Caught(f))
  BY DEF Consistent, FlagRecord, Closed, Caught
<1> QED BY <1>1, <1>2

(***************************************************************************)
(* Objects whose flags are consistent, and the operators that keep them so.*)
(***************************************************************************)
Sound(o) == "flags" \in DOMAIN o /\ Consistent(o.flags)

\* No flags at all (myReset, SparsePolyOps-ideal.C:382).
LEMMA NewIsSound ==
  ASSUME NEW G
  PROVE  Sound(New(G)) /\ Sound(Reset(G)) /\ New(G).flags = NoFlags
         /\ "flags" \in DOMAIN New(G)
<1>1. Consistent(NoFlags)
  BY DEF NoFlags, Consistent, FlagRecord, Closed, Bool3
<1>2. \A H : "flags" \in DOMAIN New(H) /\ New(H).flags = NoFlags
  BY DEF New
<1>3. "flags" \in DOMAIN Reset(G) /\ Reset(G).flags = NoFlags
  BY <1>2 DEF Reset
<1> QED BY <1>1, <1>2, <1>3 DEF Sound

\* Queries about generators and Groebner bases leave the flags alone.
LEMMA QueriesKeepFlags ==
  ASSUME NEW o, Sound(o)
  PROVE  /\ Sound(WithMono(o)) /\ WithMono(o).flags = o.flags
         /\ Sound(WithGBasis(o)) /\ WithGBasis(o).flags = o.flags
         /\ Sound(WithSqFree(o))
         /\ Sound(myMinimalize(o))
<1>1. Sound(WithMono(o)) /\ WithMono(o).flags = o.flags
  BY DEF Sound, WithMono
<1>2. Sound(WithGBasis(o)) /\ WithGBasis(o).flags = o.flags
  BY <1>1 DEF Sound, WithGBasis
<1>3. Sound(WithSqFree(o))
  BY <1>1 DEF Sound, WithSqFree
<1>4. Sound(myMinimalize(o))
  BY DEF Sound, myMinimalize
<1> QED BY <1>1, <1>2, <1>3, <1>4

\* The operations reset the flags or take them over.
LEMMA OperationsKeepSound ==
  ASSUME NEW o, NEW j, Sound(o), Sound(j)
  PROVE  /\ \A op \in Operations : Sound(Operated(op, o, j))
         /\ \A op \in Operations : Sound(RightAfter(op, o, j))
         /\ \A X : Sound(Eliminated(o, X))
         /\ Sound(radical_MonId(o))
<1>1. \A G, sqf : Sound(Monomial(o, G, sqf))
  BY QueriesKeepFlags DEF Sound, Monomial
<1>2. Sound(myAdd(o, j))
  BY NewIsSound DEF Sound, myAdd
<1>3. Sound(myMul(o, j))
  BY <1>1, NewIsSound, QueriesKeepFlags DEF myMul
<1>4. Sound(myIntersect(o, j))
  BY <1>1, NewIsSound, QueriesKeepFlags DEF myIntersect
<1>5. Sound(myColon(o, j))
  BY <1>1, NewIsSound, QueriesKeepFlags DEF myColon
<1>6. Sound(mySaturate(o, j))
  BY NewIsSound DEF mySaturate
<1>7. ASSUME NEW op \in Operations PROVE Sound(Operated(op, o, j))
  BY <1>2, <1>3, <1>4, <1>5, <1>6, NewIsSound DEF Operated, Operations
<1>8. ASSUME NEW op \in Operations PROVE Sound(RightAfter(op, o, j))
  BY QueriesKeepFlags DEF RightAfter
<1>9. ASSUME NEW X PROVE Sound(Eliminated(o, X))
  BY NewIsSound DEF Eliminated, Sound
<1>10. Sound(radical_MonId(o))
  BY NewIsSound, TrueKeepsClosed DEF radical_MonId, Sound
<1> QED BY <1>7, <1>8, <1>9, <1>10

\* The tests assign what they find.
LEMMA TestsKeepClosed ==
  ASSUME NEW o, Sound(o), NEW p \in Props, NEW f \in Tested(o, p)
  PROVE  Consistent(f)
<1>1. Consistent(o.flags)
  BY DEF Sound
<1>2. Consistent(TestIsMaximal(o))
  <2>1. Consistent(AssignFlag(o.flags, "maximal", o.gb \subseteq Indets))
    BY <1>1, AssignKeepsClosed DEF Props
  <2> QED BY <1>1, <2>1, TrueKeepsClosed, FalseKeepsClosed DEF TestIsMaximal
<1>3. Consistent(TestIsPrime(o))
  BY <1>1, <1>2 DEF TestIsPrime
<1>4. Consistent(TestIsPrimary_0dim(o))
  BY <1>1, TrueKeepsClosed, FalseKeepsClosed DEF TestIsPrimary_0dim
<1>5. ASSUME NEW g \in TestIsPrimary(o) PROVE Consistent(g)
  <2>1. Consistent(AssignPrimaryTrue(o.flags)) /\ Consistent(AssignPrimaryFalse(o.flags))
    BY <1>1, TrueKeepsClosed, FalseKeepsClosed
  <2>2. \A t : Consistent(AssignFlag(AssignPrimaryTrue(o.flags), "maximal", t \in Indets))
    BY <2>1, AssignKeepsClosed DEF Props
  <2>3. CASE ~Univariate
    BY <1>1, <1>4, <2>3 DEF TestIsPrimary
  <2>4. CASE Univariate
    BY <2>1, <2>2, <2>4 DEF TestIsPrimary
  <2> QED BY <2>3, <2>4
<1>6. ASSUME NEW g \in TestIsRadical(o) PROVE Consistent(g)
  <2>1. CASE IhaveMonomialGens(o)
    <3>1. Consistent(AssignFlag(o.flags, "radical", \A t \in o.gb : SqFree(t)))
      BY <1>1, AssignKeepsClosed DEF Props
    <3> QED BY <2>1, <3>1 DEF TestIsRadical
  <2>2. CASE ~IhaveMonomialGens(o)
    <3>1. Consistent(AssignPrimeFalse(o.flags))
      BY <1>1, FalseKeepsClosed
    <3>2. /\ Consistent(AssignMaximalTrue(AssignPrimeFalse(o.flags)))
          /\ Consistent(AssignMaximalTrue(o.flags))
      BY <1>1, <3>1, TrueKeepsClosed
    <3> QED BY <1>1, <2>2, <3>1, <3>2 DEF TestIsRadical
  <2> QED BY <2>1, <2>2
<1> QED BY <1>2, <1>3, <1>5, <1>6 DEF Tested, Props

(***************************************************************************)
(* The algebra: power products are pairs of naturals.                      *)
(***************************************************************************)
PPs == Nat \X Nat

LEMMA MinIsLeast ==
  ASSUME NEW T \in SUBSET Nat, T # {}
  PROVE  Min(T) \in T /\ \A n \in T : Min(T) <= n
<1>1. \E m \in T : \A n \in T : m <= n
  BY LeastElement
<1> QED BY <1>1, Zenon DEF Min

LEMMA Interreduced ==
  ASSUME NEW G \in SUBSET PPs
  PROVE  /\ interreduce(G) \subseteq G
         /\ interreduce(interreduce(G)) = interreduce(G)
         /\ Unit \in interreduce(G) => interreduce(G) = {Unit}
<1>1. ASSUME NEW t \in PPs PROVE Divides(Unit, t)
  BY DEF Divides, Unit, PPs
<1> QED BY <1>1 DEF interreduce

LEMMA MinOfOne == ASSUME NEW n \in Nat PROVE Min({n}) = n
  BY MinIsLeast

LEMMA BasisOfOne ==
  ASSUME NEW a \in Nat, NEW b \in Nat, Univariate
  PROVE  ReducedGB({<<a, b>>}) = {<<a, b>>}
<1>1. {t[1] : t \in {<<a, b>>}} = {a} /\ {t[2] : t \in {<<a, b>>}} = {b}
  OBVIOUS
<1>2. Min({a}) = a /\ Min({b}) = b
  BY MinOfOne
<1> QED BY <1>1, <1>2 DEF ReducedGB

\* A Groebner basis is one of itself, and has no more than the unit if it
\* has that; one of monomials is made of some of them.
LEMMA BasisFacts ==
  ASSUME NEW G \in SUBSET PPs
  PROVE  /\ ReducedGB(G) \in SUBSET PPs
         /\ ReducedGB(ReducedGB(G)) = ReducedGB(G)
         /\ Unit \in ReducedGB(G) => ReducedGB(G) = {Unit}
         /\ AreMonomials(G) => ReducedGB(G) \subseteq G
<1>1. CASE ~(Univariate /\ G # {})
  <2>1. ReducedGB(G) = interreduce(G)
    BY <1>1 DEF ReducedGB
  <2>2. ReducedGB(interreduce(G)) = interreduce(interreduce(G))
    <3>1. interreduce({}) = {}
      BY DEF interreduce
    <3> QED BY <1>1, <3>1 DEF ReducedGB
  <2> QED BY <2>1, <2>2, Interreduced
<1>2. CASE Univariate /\ G # {}
  <2> DEFINE A == {t[1] : t \in G}
             B == {t[2] : t \in G}
             m == <<Min(A), Min(B)>>
  <2>1. A \in SUBSET Nat /\ B \in SUBSET Nat /\ A # {} /\ B # {}
    BY <1>2 DEF PPs
  <2>2. Min(A) \in A /\ Min(B) \in B
    BY <2>1, MinIsLeast
  <2>3. ReducedGB(G) = {m} /\ m \in PPs
    BY <1>2, <2>1, <2>2 DEF ReducedGB, PPs
  <2>4. ReducedGB({m}) = {m}
    BY <1>2, <2>1, <2>2, BasisOfOne
  <2>5. ASSUME AreMonomials(G) PROVE m \in G
    <3>1. PICK t \in G : t[1] = Min(A)
      BY <2>2
    <3>2. \A s \in G : s[2] = 0
      BY <1>2, <2>5 DEF AreMonomials, IsMonomial
    <3>3. Min(B) = 0
      BY <2>2, <3>2
    <3>4. t = <<t[1], t[2]>>
      BY DEF PPs
    <3> QED BY <3>1, <3>2, <3>3, <3>4
  <2> HIDE DEF m
  <2> QED BY <2>3, <2>4, <2>5
<1> QED BY <1>1, <1>2

\* Monomials of which none divides another are a Groebner basis.
LEMMA MonomialBasis ==
  ASSUME NEW G \in SUBSET PPs, AreMonomials(interreduce(G))
  PROVE  ReducedGB(interreduce(G)) = interreduce(G)
<1> DEFINE R == interreduce(G)
<1>1. R \in SUBSET PPs
  BY Interreduced
<1>2. CASE ~(Univariate /\ R # {})
  BY <1>2, Interreduced DEF ReducedGB
<1>3. CASE Univariate /\ R # {}
  <2>1. PICK t \in R : TRUE
    BY <1>3
  <2>2. ASSUME NEW s \in R PROVE s = t
    <3>1. s \in G /\ t \in G /\ s \in PPs /\ t \in PPs /\ s[2] = 0 /\ t[2] = 0
      BY <1>1, <1>3, <2>1, Interreduced DEF AreMonomials, IsMonomial
    <3>2. Divides(s, t) \/ Divides(t, s)
      BY <3>1 DEF Divides, PPs
    <3> QED BY <2>1, <3>1, <3>2 DEF interreduce
  <2>3. R = {t}
    BY <2>1, <2>2
  <2>4. ReducedGB(R) \subseteq R
    BY <1>1, BasisFacts
  <2>5. ReducedGB(R) # {}
    BY <1>3 DEF ReducedGB
  <2>6. ReducedGB(R) = R
    <3> HIDE DEF R
    <3> QED BY <2>3, <2>4, <2>5
  <2> QED BY <2>6
<1> QED BY <1>2, <1>3

AllSqFree(G) == \A t \in G : SqFree(t)

\* A set of monomials from which exponents can be taken away.
LEMMA LeastElements ==
  ASSUME NEW E \in SUBSET Poly
  PROVE  /\ interreduce(E) \in SUBSET PPs
         /\ (Univariate => \A t \in E : <<t[1], 0>> \in E) => AreMonomials(interreduce(E))
         /\ (\A t \in E : /\ t[1] > 1 => <<t[1] - 1, t[2]>> \in E
                          /\ t[2] > 1 => <<t[1], t[2] - 1>> \in E)
            => AllSqFree(interreduce(E))
<1>1. Poly \subseteq PPs
  BY BoundsAreNats DEF Poly, PPs
<1>2. E \in SUBSET PPs
  BY <1>1
<1>3. interreduce(E) \in SUBSET PPs
  BY <1>2, Interreduced
<1>4. ASSUME NEW t \in interreduce(E), NEW s \in E, Divides(s, t) PROVE s = t
  BY <1>4 DEF interreduce
<1>5. \A t \in interreduce(E) : t \in E /\ t \in PPs /\ t[1] \in Nat /\ t[2] \in Nat
  BY <1>2, Interreduced DEF PPs
<1>6. ASSUME Univariate => \A t \in E : <<t[1], 0>> \in E PROVE AreMonomials(interreduce(E))
  <2> SUFFICES ASSUME NEW t \in interreduce(E), Univariate PROVE t[2] = 0
    BY DEF AreMonomials, IsMonomial
  <2>1. <<t[1], 0>> \in E /\ Divides(<<t[1], 0>>, t)
    BY <1>5, <1>6 DEF Divides
  <2>2. <<t[1], 0>> = t
    BY <1>4, <2>1
  <2> QED BY <2>2
<1>7. ASSUME \A t \in E : /\ t[1] > 1 => <<t[1] - 1, t[2]>> \in E
                          /\ t[2] > 1 => <<t[1], t[2] - 1>> \in E
      PROVE  AllSqFree(interreduce(E))
  <2> SUFFICES ASSUME NEW t \in interreduce(E) PROVE ~(t[1] > 1) /\ ~(t[2] > 1)
    BY <1>5 DEF AllSqFree, SqFree
  <2>1. ASSUME t[1] > 1 PROVE FALSE
    <3>0. t \in E /\ t[1] \in Nat /\ t[2] \in Nat
      BY <1>5
    <3>1. <<t[1] - 1, t[2]>> \in E
      BY <1>7, <2>1, <3>0
    <3>2. Divides(<<t[1] - 1, t[2]>>, t)
      BY <3>0 DEF Divides
    <3>3. <<t[1] - 1, t[2]>> = t
      BY <1>4, <3>1, <3>2
    <3> QED BY <3>0, <3>3
  <2>2. ASSUME t[2] > 1 PROVE FALSE
    <3>0. t \in E /\ t[1] \in Nat /\ t[2] \in Nat
      BY <1>5
    <3>1. <<t[1], t[2] - 1>> \in E
      BY <1>7, <2>2, <3>0
    <3>2. Divides(<<t[1], t[2] - 1>>, t)
      BY <3>0 DEF Divides
    <3>3. <<t[1], t[2] - 1>> = t
      BY <1>4, <3>1, <3>2
    <3> QED BY <3>0, <3>3
  <2> QED BY <2>1, <2>2
<1> QED BY <1>3, <1>6, <1>7

\* What is computed from generators that are monomial, or square free.
LEMMA MonomialResults ==
  ASSUME NEW G \in SUBSET PPs, NEW H \in SUBSET PPs, AreMonomials(G), AreMonomials(H)
  PROVE  /\ interreduce(Products(G, H)) \in SUBSET PPs
         /\ AreMonomials(interreduce(Products(G, H)))
         /\ ComputeIntersection(G, H) \in SUBSET PPs
         /\ AreMonomials(ComputeIntersection(G, H))
         /\ AllSqFree(G) /\ AllSqFree(H) => AllSqFree(ComputeIntersection(G, H))
         /\ ComputeColon(G, H) \in SUBSET PPs
         /\ AreMonomials(ComputeColon(G, H))
         /\ AllSqFree(G) => AllSqFree(ComputeColon(G, H))
<1> DEFINE I == ReducedGB(G)
           J == ReducedGB(H)
<1>1. I \in SUBSET PPs /\ J \in SUBSET PPs /\ I \subseteq G /\ J \subseteq H
  BY BasisFacts
<1>2. /\ Univariate => \A i \in I \cup J : i[2] = 0
      /\ Univariate => \A s \in G \cup H : s[2] = 0
  BY <1>1 DEF AreMonomials, IsMonomial
<1>3. \A t \in PPs : t[1] \in Nat /\ t[2] \in Nat
  BY DEF PPs
<1>4. \A t \in Poly : /\ t \in PPs /\ <<t[1], 0>> \in Poly
                      /\ t[1] > 1 => <<t[1] - 1, t[2]>> \in Poly
                      /\ t[2] > 1 => <<t[1], t[2] - 1>> \in Poly
  BY BoundsAreNats DEF Poly, PPs
<1> HIDE DEF I, J
<1>5. /\ interreduce(Products(G, H)) \in SUBSET PPs
      /\ AreMonomials(interreduce(Products(G, H)))
  <2>1. Products(G, H) \in SUBSET PPs
    BY DEF Products, Times, PPs
  <2>2. Univariate => \A t \in Products(G, H) : t[2] = 0
    BY <1>2 DEF Products, Times
  <2> QED BY <2>1, <2>2, Interreduced DEF AreMonomials, IsMonomial
<1>6. /\ ComputeIntersection(G, H) \in SUBSET PPs
      /\ AreMonomials(ComputeIntersection(G, H))
      /\ AllSqFree(G) /\ AllSqFree(H) => AllSqFree(ComputeIntersection(G, H))
  <2> DEFINE E == {t \in Poly : IsElem(t, I) /\ IsElem(t, J)}
  <2>1. ComputeIntersection(G, H) = interreduce(E)
    BY DEF ComputeIntersection, I, J
  <2>2. ASSUME Univariate, NEW t \in E PROVE <<t[1], 0>> \in E
    <3>1. t \in Poly /\ t[1] \in Nat /\ t[2] \in Nat
      BY <1>3, <1>4
    <3>2. PICK i \in I, j \in J : Divides(i, t) /\ Divides(j, t)
      BY DEF IsElem
    <3>3. Divides(i, <<t[1], 0>>) /\ Divides(j, <<t[1], 0>>)
      BY <1>2, <2>2, <3>2 DEF Divides
    <3> QED BY <1>4, <3>1, <3>3 DEF IsElem
  <2>3. ASSUME AllSqFree(G), AllSqFree(H), NEW t \in E
        PROVE  /\ t[1] > 1 => <<t[1] - 1, t[2]>> \in E
               /\ t[2] > 1 => <<t[1], t[2] - 1>> \in E
    <3>1. PICK i \in I, j \in J : Divides(i, t) /\ Divides(j, t)
      BY DEF IsElem
    <3>2. /\ i[1] \in Nat /\ i[2] \in Nat /\ j[1] \in Nat /\ j[2] \in Nat
          /\ i[1] <= 1 /\ i[2] <= 1 /\ j[1] <= 1 /\ j[2] <= 1
      BY <1>1, <1>3, <2>3 DEF AllSqFree, SqFree
    <3>3. t \in Poly /\ t[1] \in Nat /\ t[2] \in Nat
      BY <1>3, <1>4
    <3>4. /\ t[1] > 1 => Divides(i, <<t[1] - 1, t[2]>>) /\ Divides(j, <<t[1] - 1, t[2]>>)
          /\ t[2] > 1 => Divides(i, <<t[1], t[2] - 1>>) /\ Divides(j, <<t[1], t[2] - 1>>)
      BY <3>1, <3>2, <3>3 DEF Divides
    <3> QED BY <1>4, <3>3, <3>4 DEF IsElem
  <2> HIDE DEF E
  <2>4. E \in SUBSET Poly
    BY DEF E
  <2> QED BY <2>1, <2>2, <2>3, <2>4, LeastElements
<1>7. /\ ComputeColon(G, H) \in SUBSET PPs
      /\ AreMonomials(ComputeColon(G, H))
      /\ AllSqFree(G) => AllSqFree(ComputeColon(G, H))
  <2> DEFINE E == {t \in Poly : \A s \in H : IsElem(Times(t, s), I)}
  <2>1. ComputeColon(G, H) = interreduce(E)
    BY DEF ComputeColon, I
  <2>2. ASSUME Univariate, NEW t \in E PROVE <<t[1], 0>> \in E
    <3>1. t \in Poly /\ t[1] \in Nat /\ t[2] \in Nat
      BY <1>3, <1>4
    <3> SUFFICES ASSUME NEW s \in H PROVE IsElem(Times(<<t[1], 0>>, s), I)
      BY <1>4, <3>1
    <3>2. PICK i \in I : Divides(i, Times(t, s))
      BY DEF IsElem
    <3>3. i[2] = 0 /\ s[2] = 0
      BY <1>2, <2>2
    <3>4. Divides(i, Times(<<t[1], 0>>, s))
      BY <3>2, <3>3 DEF Divides, Times
    <3> QED BY <3>4 DEF IsElem
  <2>3. ASSUME AllSqFree(G), NEW t \in E
        PROVE  /\ t[1] > 1 => <<t[1] - 1, t[2]>> \in E
               /\ t[2] > 1 => <<t[1], t[2] - 1>> \in E
    <3>1. t \in Poly /\ t[1] \in Nat /\ t[2] \in Nat
      BY <1>3, <1>4
    <3>2. ASSUME NEW s \in H
          PROVE  /\ t[1] > 1 => IsElem(Times(<<t[1] - 1, t[2]>>, s), I)
                 /\ t[2] > 1 => IsElem(Times(<<t[1], t[2] - 1>>, s), I)
      <4>1. PICK i \in I : Divides(i, Times(t, s))
        BY DEF IsElem
      <4>2. /\ i[1] \in Nat /\ i[2] \in Nat /\ s[1] \in Nat /\ s[2] \in Nat
            /\ i[1] <= 1 /\ i[2] <= 1
        BY <1>1, <1>3, <2>3 DEF AllSqFree, SqFree
      <4>3. /\ t[1] > 1 => Divides(i, Times(<<t[1] - 1, t[2]>>, s))
            /\ t[2] > 1 => Divides(i, Times(<<t[1], t[2] - 1>>, s))
        BY <3>1, <4>1, <4>2 DEF Divides, Times
      <4> QED BY <4>3 DEF IsElem
    <3> QED BY <1>4, <3>1, <3>2
  <2> HIDE DEF E
  <2>4. E \in SUBSET Poly
    BY DEF E
  <2> QED BY <2>1, <2>2, <2>3, <2>4, LeastElements
<1> QED BY <1>5, <1>6, <1>7

(***************************************************************************)
(* The caches.                                                             *)
(***************************************************************************)
Fields == {"gens", "haveGB", "gb", "min", "flags", "mono", "sqf", "suspect"}

\* What is cached in an object is of its present generators.
Current(o) ==
  /\ "gens" \notin o.suspect => o.gb = IF o.haveGB THEN ReducedGB(o.gens) ELSE {}
  /\ o.min # {} /\ "mins" \notin o.suspect => ReducedGB(o.min) = ReducedGB(o.gens)
  /\ o.mono = "true" => AreMonomials(o.gens)
  /\ o.sqf = "true" => AreMonomials(o.gens) /\ AllSqFree(o.gens)

\* The minimal generators outlive an operation only if they are the unit: other
\* generators that are noted as minimal are not monomials.
Outlived(o) ==
  /\ o.mono = "false" => o.gens = {Unit} \/ ~AreMonomials(o.gens)
  /\ o.min \in {{}, {Unit}} \/ (o.min = o.gens /\ o.mono = "false")
  /\ "gens" \in o.suspect => /\ o.gens = {Unit} /\ o.min # {}
                             /\ o.haveGB /\ o.mono # "false"

Fresh(o) ==
  /\ DOMAIN o = Fields
  /\ o.gens \in SUBSET PPs
  /\ o.gb \in SUBSET PPs /\ ReducedGB(o.gb) = o.gb
  /\ o.haveGB \in BOOLEAN /\ (~o.haveGB => o.gb = {})
  /\ o.mono \in Bool3 /\ o.sqf \in Bool3
  /\ o.mono = "false" => Univariate
  /\ Current(o) /\ Outlived(o)

LEMMA NoBasis == ReducedGB({}) = {} /\ AreMonomials({Unit}) /\ AllSqFree({Unit})
  BY DEF ReducedGB, interreduce, AreMonomials, IsMonomial, AllSqFree, SqFree, Unit

LEMMA NewIsFresh ==
  ASSUME NEW G \in SUBSET PPs
  PROVE  Fresh(New(G)) /\ Fresh(Reset(G)) /\ New(G).gens \in {G, {Unit}}
<1>1. Unit \in PPs
  BY DEF Unit, PPs
<1> QED BY <1>1, NoBasis DEF New, Reset, Fresh, Current, Outlived, Fields, Bool3

\* A new object with a Groebner basis as generators (and flags that are known).
LEMMA WithItsBasis ==
  ASSUME NEW G \in SUBSET PPs, ReducedGB(G) = G, NEW m \in {"true", "uncertain"}, NEW q \in {"true", "uncertain"},
         m = "true" => AreMonomials(G),
         q = "true" => AreMonomials(G) /\ AllSqFree(G)
  PROVE  /\ New(G).gens = G
         /\ Fresh([New(G) EXCEPT !.haveGB = TRUE, !.gb = G, !.mono = m, !.sqf = q])
         /\ Fresh([New(G) EXCEPT !.haveGB = TRUE, !.gb = G, !.mono = m])
         /\ Fresh([New(G) EXCEPT !.haveGB = TRUE, !.gb = G])
<1>1. Unit \in G => G = {Unit}
  BY BasisFacts
<1> QED BY <1>1 DEF New, Fresh, Current, Outlived, Fields, Bool3

\* No less suspect, and of the same generators.
StillSuspect(s, t) == \A x \in {"mins", "gens"} : x \in s <=> x \in t

\* The flags are another matter.
LEMMA FlagsKeepFresh ==
  ASSUME NEW o, Fresh(o), NEW f
  PROVE  /\ Fresh([o EXCEPT !.flags = f])
         /\ \A s : StillSuspect(o.suspect, s) => Fresh([o EXCEPT !.flags = f, !.suspect = s])
  BY DEF Fresh, Current, Outlived, Fields, StillSuspect

LEMMA MonoIsKnown ==
  ASSUME NEW o, Fresh(o)
  PROVE  /\ IhaveMonomialGens(o) => AreMonomials(o.gens)
         /\ ~IhaveMonomialGens(o) => Univariate
         /\ ~IhaveMonomialGens(o) => "gens" \notin o.suspect
<1>1. ~Univariate => AreMonomials(o.gens)
  BY DEF AreMonomials, IsMonomial
<1>2. o.gens = {Unit} => AreMonomials(o.gens)
  BY NoBasis
<1> QED BY <1>1, <1>2 DEF Fresh, Current, Outlived, IhaveMonomialGens, Bool3

LEMMA QueriesKeepFresh ==
  ASSUME NEW o, Fresh(o)
  PROVE  /\ Fresh(WithMono(o)) /\ WithMono(o).gens = o.gens
         /\ Fresh(WithGBasis(o)) /\ WithGBasis(o).gens = o.gens
         /\ WithGBasis(o).haveGB
         /\ "gens" \notin o.suspect => WithGBasis(o).gb = ReducedGB(o.gens)
         /\ Fresh(WithSqFree(o)) /\ WithSqFree(o).gens = o.gens
<1>1. /\ Fresh(WithMono(o)) /\ WithMono(o).gens = o.gens
      /\ \A x \in Fields \ {"mono"} : WithMono(o)[x] = o[x]
  <2> DEFINE m == Verdict(IhaveMonomialGens(o))
  <2>1. WithMono(o) = [o EXCEPT !.mono = m]
    BY DEF WithMono
  <2>2. /\ m \in Bool3 /\ (o.mono # "uncertain" => m = o.mono)
        /\ m = "true" => AreMonomials(o.gens)
        /\ m = "false" => Univariate /\ "gens" \notin o.suspect
        /\ m = "false" /\ o.mono # "false" => ~AreMonomials(o.gens)
    BY MonoIsKnown DEF Verdict, Bool3, IhaveMonomialGens, Fresh
  <2> HIDE DEF m
  <2> QED BY <2>1, <2>2 DEF Fresh, Current, Outlived, Fields
<1>2. /\ Fresh(WithGBasis(o)) /\ WithGBasis(o).gens = o.gens
      /\ WithGBasis(o).haveGB
      /\ "gens" \notin o.suspect => WithGBasis(o).gb = ReducedGB(o.gens)
  <2>1. CASE o.haveGB
    BY <2>1 DEF WithGBasis, Fresh, Current
  <2>2. CASE ~o.haveGB
    <3> DEFINE m == IF ~IhaveMonomialGens(o) /\ Cardinality(o.gens) = 1 THEN o.gens ELSE o.min
               n == WithMono(o)
    <3>1. WithGBasis(o) = [n EXCEPT !.haveGB = TRUE, !.gb = ReducedGB(o.gens), !.min = m]
      BY <1>1, <2>2 DEF WithGBasis, Fields
    <3>2. (m = o.gens /\ n.mono = "false") \/ m = o.min
      BY DEF WithMono, Verdict, Fresh, Fields
    <3>3. /\ n.gens = o.gens /\ n.min = o.min /\ n.suspect = o.suspect /\ Fresh(n)
          /\ "gens" \notin o.suspect
      BY <1>1, <2>2 DEF Fields, Fresh, Outlived
    <3>4. ReducedGB(o.gens) \in SUBSET PPs /\ ReducedGB(ReducedGB(o.gens)) = ReducedGB(o.gens)
      BY BasisFacts DEF Fresh
    <3> HIDE DEF m, n
    <3> QED BY <3>1, <3>2, <3>3, <3>4 DEF Fresh, Current, Outlived, Fields
  <2> QED BY <2>1, <2>2
<1>3. Fresh(WithSqFree(o)) /\ WithSqFree(o).gens = o.gens
  <2>1. CASE o.sqf # "uncertain"
    BY <2>1 DEF WithSqFree
  <2>2. CASE o.sqf = "uncertain"
    <3> DEFINE n == WithMono(o)
               q == Verdict(IhaveMonomialGens(o) /\ AllSqFree(o.gens))
    <3>1. WithSqFree(o) = [n EXCEPT !.sqf = q]
      BY <2>2 DEF WithSqFree, AllSqFree
    <3>2. q \in Bool3 /\ (q = "true" => AreMonomials(o.gens) /\ AllSqFree(o.gens))
      BY MonoIsKnown DEF Verdict, Bool3
    <3> HIDE DEF n, q
    <3> QED BY <1>1, <3>1, <3>2 DEF Fresh, Current, Outlived, Fields, n
  <2> QED BY <2>1, <2>2
<1> QED BY <1>1, <1>2, <1>3

\* The monomial cases.
LEMMA MonomialIsFresh ==
  ASSUME NEW o, Fresh(o), IhaveMonomialGens(o),
         NEW G \in SUBSET PPs, AreMonomials(G), ReducedGB(G) = G,
         NEW q \in {"true", "uncertain"}, q = "true" => AllSqFree(G)
  PROVE  Fresh(Monomial(o, G, q))
<1> DEFINE n == WithMono(o)
           s == TakenOver(o)
<1>1. Monomial(o, G, q) = [n EXCEPT !.gens = G, !.haveGB = TRUE, !.gb = G, !.sqf = q, !.suspect = s]
  BY DEF Monomial
<1>2. n.mono = "true" /\ n.min = o.min /\ DOMAIN n = Fields
  BY DEF WithMono, Verdict, Fresh, Fields
<1>3. (o.min # {} => "mins" \in s) /\ "gens" \notin s
  BY DEF TakenOver
<1>4. o.min \in {{}, {Unit}}
  BY DEF Fresh, Outlived, IhaveMonomialGens
<1> HIDE DEF n, s
<1> QED BY <1>1, <1>2, <1>3, <1>4 DEF Fresh, Current, Outlived, Fields, Bool3

LEMMA OperationsKeepFresh ==
  ASSUME NEW o, NEW j, Fresh(o), Fresh(j)
  PROVE  /\ \A op \in Operations : Fresh(Operated(op, o, j))
         /\ \A op \in Operations : Fresh(RightAfter(op, o, j)) /\ RightAfter(op, o, j).gens = j.gens
         /\ \A X : Fresh(Eliminated(o, X))
         /\ IhaveMonomialGens(o) => Fresh(radical_MonId(o))
<1>0. /\ {} \in SUBSET PPs /\ {Unit} \in SUBSET PPs /\ o.gens \in SUBSET PPs /\ j.gens \in SUBSET PPs
      /\ \A G \in SUBSET Poly : G \in SUBSET PPs
  BY BoundsAreNats DEF PPs, Unit, Fresh, Poly
<1>1. Fresh(myAdd(o, j))
  <2> DEFINE G == IF Unit \in j.gens THEN {Unit} ELSE o.gens \cup j.gens
             m == IF o.mono = "true" THEN j.mono ELSE o.mono
             q == IF o.sqf = "true" THEN j.sqf ELSE o.sqf
             n == Reset(G)
  <2>1. G \in SUBSET PPs
    BY <1>0
  <2>2. Fresh(Reset({Unit})) /\ Fresh(n)
    BY <1>0, <2>1, NewIsFresh
  <2>3. /\ myAdd(o, j) = o \/ myAdd(o, j) = Reset({Unit})
        \/ myAdd(o, j) = [n EXCEPT !.mono = m, !.sqf = q]
    BY DEF myAdd
  <2>4. /\ m \in Bool3 /\ q \in Bool3 /\ (m = "false" => Univariate)
        /\ m = "true" => AreMonomials(G)
        /\ q = "true" => AreMonomials(G) /\ AllSqFree(G)
    <3>1. AreMonomials({Unit}) /\ AllSqFree({Unit})
      BY NoBasis
    <3>2. m = "true" => o.mono = "true" /\ j.mono = "true"
      OBVIOUS
    <3>3. q = "true" => o.sqf = "true" /\ j.sqf = "true"
      OBVIOUS
    <3>4. m \in Bool3 /\ q \in Bool3 /\ (m = "false" => Univariate)
      BY DEF Fresh
    <3> QED BY <3>1, <3>2, <3>3, <3>4 DEF Fresh, Current, AreMonomials, AllSqFree
  <2>5. /\ n.gens = G /\ n.gb = {} /\ n.haveGB = FALSE /\ n.min = {} /\ n.suspect = {}
        /\ DOMAIN n = Fields
    BY DEF Reset, New, Fields
  <2>6. o.gens # {Unit} /\ m = "false" => G = {Unit} \/ ~AreMonomials(G)
    <3>1. m = "false" => o.mono = "false" \/ j.mono = "false"
      OBVIOUS
    <3>2. o.gens # {Unit} /\ o.mono = "false" => ~AreMonomials(o.gens)
      BY DEF Fresh, Outlived
    <3>3. j.mono = "false" => Unit \in j.gens \/ ~AreMonomials(j.gens)
      BY DEF Fresh, Outlived
    <3> HIDE DEF m
    <3> QED BY <3>1, <3>2, <3>3 DEF AreMonomials
  <2> HIDE DEF m, q, n, G
  <2>7. o.gens # {Unit} => Fresh([n EXCEPT !.mono = m, !.sqf = q])
    BY <2>1, <2>4, <2>5, <2>6, NoBasis DEF Fresh, Current, Outlived, Fields
  <2>8. o.gens = {Unit} => myAdd(o, j) = o
    BY DEF myAdd
  <2> QED BY <2>2, <2>3, <2>7, <2>8
<1>2. BothMonomial(o, j) => AreMonomials(o.gens) /\ AreMonomials(j.gens) /\ IhaveMonomialGens(o)
  BY MonoIsKnown DEF BothMonomial
<1>3. Fresh(myMul(o, j))
  <2>1. CASE ~BothMonomial(o, j)
    <3>1. myMul(o, j) = Reset(Products(o.gens, j.gens)) /\ Products(o.gens, j.gens) \in SUBSET PPs
      BY <1>0, <2>1 DEF myMul, Products, Times, PPs
    <3> QED BY <3>1, NewIsFresh
  <2>2. CASE BothMonomial(o, j)
    <3> DEFINE G == interreduce(Products(o.gens, j.gens))
    <3>1. G \in SUBSET PPs /\ AreMonomials(G)
      BY <1>0, <1>2, <2>2, MonomialResults
    <3>2. Products(o.gens, j.gens) \in SUBSET PPs
      BY <1>0 DEF Products, Times, PPs
    <3>3. ReducedGB(G) = G
      BY <3>1, <3>2, MonomialBasis
    <3>4. Fresh(Monomial(o, G, "uncertain"))
      BY <1>2, <2>2, <3>1, <3>3, MonomialIsFresh
    <3> QED BY <2>2, <3>4, QueriesKeepFresh DEF myMul
  <2> QED BY <2>1, <2>2
<1>4. ComputeIntersection(o.gens, j.gens) \in SUBSET PPs
  BY <1>0 DEF ComputeIntersection, interreduce
<1>5. ComputeColon(o.gens, j.gens) \in SUBSET PPs
  BY <1>0 DEF ComputeColon, interreduce
<1>6. ComputeSaturation(o.gens, j.gens) \in SUBSET PPs
  BY <1>0 DEF ComputeSaturation, interreduce
<1>7. Fresh(myIntersect(o, j))
  <2> DEFINE G == ComputeIntersection(o.gens, j.gens)
             q == IF o.sqf = "true" /\ j.sqf = "true" THEN "true" ELSE "uncertain"
  <2>1. CASE ~BothMonomial(o, j)
    BY <1>4, <2>1, NewIsFresh DEF myIntersect
  <2>2. CASE BothMonomial(o, j)
    <3>1. AreMonomials(G) /\ (AllSqFree(o.gens) /\ AllSqFree(j.gens) => AllSqFree(G))
      BY <1>0, <1>2, <2>2, MonomialResults
    <3>2. q = "true" => AllSqFree(G)
      BY <3>1 DEF Fresh, Current
    <3>3. ReducedGB(G) = G
      <4> DEFINE E == {t \in Poly : IsElem(t, ReducedGB(o.gens)) /\ IsElem(t, ReducedGB(j.gens))}
      <4>1. G = interreduce(E)
        BY DEF ComputeIntersection
      <4>2. E \in SUBSET PPs
        BY <1>0
      <4> HIDE DEF E, G
      <4> QED BY <3>1, <4>1, <4>2, MonomialBasis
    <3>4. myIntersect(o, j) = Monomial(o, G, q)
      BY <2>2 DEF myIntersect
    <3>5. q \in {"true", "uncertain"}
      OBVIOUS
    <3> HIDE DEF G, q
    <3>6. G \in SUBSET PPs
      BY <1>4 DEF G
    <3> QED BY <1>2, <2>2, <3>1, <3>2, <3>3, <3>4, <3>5, <3>6, MonomialIsFresh
  <2> QED BY <2>1, <2>2
<1>8. Fresh(myColon(o, j))
  <2> DEFINE G == ComputeColon(o.gens, j.gens)
             q == IF o.sqf = "true" THEN "true" ELSE "uncertain"
  <2>1. CASE j.gens = {} \/ ~BothMonomial(o, j)
    BY <1>0, <1>5, <2>1, NewIsFresh DEF myColon
  <2>2. CASE j.gens # {} /\ BothMonomial(o, j)
    <3>1. AreMonomials(G) /\ (AllSqFree(o.gens) => AllSqFree(G))
      BY <1>0, <1>2, <2>2, MonomialResults
    <3>2. q = "true" => AllSqFree(G)
      BY <3>1 DEF Fresh, Current
    <3>3. ReducedGB(G) = G
      <4> DEFINE E == {t \in Poly : \A s \in j.gens : IsElem(Times(t, s), ReducedGB(o.gens))}
      <4>1. G = interreduce(E)
        BY DEF ComputeColon
      <4>2. E \in SUBSET PPs
        BY <1>0
      <4> HIDE DEF E, G
      <4> QED BY <3>1, <4>1, <4>2, MonomialBasis
    <3>4. myColon(o, j) = WithMono(o) \/ myColon(o, j) = Monomial(o, G, q)
      BY <2>2 DEF myColon
    <3>5. q \in {"true", "uncertain"}
      OBVIOUS
    <3> HIDE DEF G, q
    <3>6. G \in SUBSET PPs
      BY <1>5 DEF G
    <3>7. Fresh(Monomial(o, G, q))
      BY <1>2, <2>2, <3>1, <3>2, <3>3, <3>5, <3>6, MonomialIsFresh
    <3> QED BY <3>4, <3>7, QueriesKeepFresh
  <2> QED BY <2>1, <2>2
<1>9. Fresh(mySaturate(o, j))
  BY <1>0, <1>6, NewIsFresh DEF mySaturate
<1>10. ASSUME NEW op \in Operations PROVE Fresh(Operated(op, o, j))
  BY <1>0, <1>1, <1>3, <1>7, <1>8, <1>9, NewIsFresh DEF Operated, Operations
<1>11. ASSUME NEW op \in Operations
       PROVE  Fresh(RightAfter(op, o, j)) /\ RightAfter(op, o, j).gens = j.gens
  BY QueriesKeepFresh DEF RightAfter
<1>12. ASSUME NEW X PROVE Fresh(Eliminated(o, X))
  <2>1. CASE IhaveMonomialGens(o)
    <3> DEFINE E == {t \in o.gens : \A x \in X : ~Divides(x, t)}
               G == interreduce(E)
    <3>1. E \in SUBSET PPs
      BY <1>0
    <3>2. G \subseteq o.gens /\ G \in SUBSET PPs
      BY <3>1, Interreduced
    <3>3. AreMonomials(G)
      BY <2>1, <3>2, MonoIsKnown DEF AreMonomials
    <3>4. Eliminated(o, X) = [New(G) EXCEPT !.haveGB = TRUE, !.gb = G, !.mono = "true"]
      BY <2>1 DEF Eliminated
    <3> HIDE DEF E
    <3>5. ReducedGB(G) = G
      BY <3>1, <3>3, MonomialBasis
    <3> HIDE DEF G
    <3> QED BY <3>2, <3>3, <3>4, <3>5, WithItsBasis
  <2>2. CASE ~IhaveMonomialGens(o)
    BY <1>0, <2>2, NewIsFresh DEF Eliminated
  <2> QED BY <2>1, <2>2
<1>13. ASSUME IhaveMonomialGens(o) PROVE Fresh(radical_MonId(o))
  <2> DEFINE G == interreduce(Radicals(o.gens))
  <2>1. \A n \in Nat : Min({1, n}) \in Nat /\ Min({1, n}) <= 1 /\ Min({1, n}) <= n
    BY MinIsLeast
  <2>2. Radicals(o.gens) \in SUBSET PPs /\ AllSqFree(Radicals(o.gens))
    <3>1. ASSUME NEW t \in o.gens
          PROVE  <<Min({1, t[1]}), Min({1, t[2]})>> \in PPs /\ SqFree(<<Min({1, t[1]}), Min({1, t[2]})>>)
      <4>1. t[1] \in Nat /\ t[2] \in Nat
        BY <1>0 DEF PPs
      <4>2. Min({1, t[1]}) \in Nat /\ Min({1, t[1]}) <= 1 /\ Min({1, t[2]}) \in Nat /\ Min({1, t[2]}) <= 1
        BY <2>1, <4>1
      <4> QED BY <4>2 DEF PPs, SqFree
    <3> QED BY <3>1 DEF Radicals, AllSqFree
  <2>3. AreMonomials(Radicals(o.gens))
    <3>1. ASSUME NEW t \in o.gens PROVE IsMonomial(<<Min({1, t[1]}), Min({1, t[2]})>>)
      <4>1. Univariate => t[2] = 0
        BY <1>13, MonoIsKnown DEF AreMonomials, IsMonomial
      <4>2. Min({1, 0}) \in Nat /\ Min({1, 0}) <= 0
        BY <2>1
      <4> QED BY <4>1, <4>2 DEF IsMonomial
    <3> QED BY <3>1 DEF Radicals, AreMonomials
  <2>4. G \subseteq Radicals(o.gens) /\ G \in SUBSET PPs
    BY <2>2, Interreduced
  <2>5. AreMonomials(G) /\ AllSqFree(G)
    BY <2>2, <2>3, <2>4 DEF AreMonomials, AllSqFree
  <2>6. ReducedGB(G) = G
    BY <2>2, <2>5, MonomialBasis
  <2> DEFINE n == [New(G) EXCEPT !.haveGB = TRUE, !.gb = G, !.mono = "true", !.sqf = "true"]
             f == AssignRadicalTrue(New(G).flags)
  <2>7. radical_MonId(o) = [n EXCEPT !.flags = f]
    BY DEF radical_MonId, New
  <2> HIDE DEF G
  <2>8. Fresh(n)
    BY <2>4, <2>5, <2>6, WithItsBasis
  <2> HIDE DEF n, f
  <2>9. Fresh([n EXCEPT !.flags = f])
    BY <2>8, FlagsKeepFresh
  <2> QED BY <2>7, <2>9
<1> QED BY <1>10, <1>11, <1>12, <1>13

\* The generators become those noted as minimal, or else the basis.
LEMMA MinimalizedIsFresh ==
  ASSUME NEW o, Fresh(o), o.haveGB, AreMonomials(o.gens)
  PROVE  /\ Fresh(myMinimalize(o))
         /\ \/ "gens" \in myMinimalize(o).suspect
            \/ ReducedGB(myMinimalize(o).gens) = ReducedGB(o.gens)
<1> DEFINE m == IF o.mono = "false" THEN "uncertain" ELSE o.mono
           q == IF o.sqf = "false" THEN "uncertain" ELSE o.sqf
           s == IF o.min # {} /\ "mins" \in o.suspect THEN o.suspect \cup {"gens"}
                                                     ELSE o.suspect
           n == myMinimalize(o)
<1>1. n = [o EXCEPT !.gens = MinGens(o), !.mono = m, !.sqf = q, !.suspect = s]
  BY DEF myMinimalize, Fresh, Fields
<1>2. /\ m \in Bool3 /\ q \in Bool3 /\ m # "false"
      /\ q = "true" => o.sqf = "true"
      /\ m = "true" => o.mono = "true"
  BY DEF Fresh, Bool3
<1>3. "mins" \in s <=> "mins" \in o.suspect
  OBVIOUS
<1>4. CASE o.min = {}
  <2>1. s = o.suspect /\ "gens" \notin s /\ MinGens(o) = o.gb
    BY <1>4 DEF Fresh, Outlived, MinGens
  <2>2. /\ o.gb = ReducedGB(o.gens) /\ o.gb \in SUBSET PPs /\ o.gb \subseteq o.gens
        /\ ReducedGB(o.gb) = o.gb
    BY <2>1, BasisFacts DEF Fresh, Current
  <2>3. AreMonomials(o.gb) /\ (AllSqFree(o.gens) => AllSqFree(o.gb))
    BY <2>2 DEF AreMonomials, AllSqFree
  <2> HIDE DEF m, q, s, n
  <2>4. Fresh(n)
    BY <1>1, <1>2, <1>4, <2>1, <2>2, <2>3 DEF Fresh, Current, Outlived, Fields
  <2>5. n.gens = o.gb
    BY <1>1, <2>1 DEF Fresh, Fields
  <2> QED BY <2>2, <2>4, <2>5 DEF n
<1>5. CASE o.min # {}
  <2>1. o.min = {Unit} /\ MinGens(o) = {Unit}
    BY <1>5 DEF Fresh, Outlived, MinGens
  <2>2. Unit \in PPs
    BY DEF Unit, PPs
  <2>3. "mins" \notin o.suspect => ReducedGB({Unit}) = ReducedGB(o.gens)
    BY <2>1 DEF Fresh, Current
  <2>4. /\ "mins" \in o.suspect => "gens" \in s
        /\ "mins" \notin o.suspect => s = o.suspect
    BY <1>5
  <2>5. "gens" \notin s => o.gb = ReducedGB({Unit})
    BY <2>3, <2>4 DEF Fresh, Current
  <2> HIDE DEF m, q, s, n
  <2>6. Fresh(n)
    BY <1>1, <1>2, <1>3, <2>1, <2>2, <2>5, NoBasis DEF Fresh, Current, Outlived, Fields
  <2>7. n.gens = {Unit} /\ n.suspect = s
    BY <1>1, <2>1 DEF Fresh, Fields
  <2> QED BY <2>3, <2>4, <2>6, <2>7 DEF n
<1> QED BY <1>4, <1>5

\* The radical, in K[x], from the square free part of the basis.
LEMMA RadicalIsFresh ==
  ASSUME NEW o, Fresh(o), Univariate, o.gb = ReducedGB(o.gens), o.gens # {},
         NEW r \in Radicals_0dim(o)
  PROVE  Fresh(r)
<1> DEFINE G == Radicals(o.gb)
<1>1. PICK t \in PPs : o.gb = {t}
  <2>1. o.gb \in SUBSET PPs
    BY BasisFacts DEF Fresh
  <2>2. \E t : o.gb = {t}
    BY DEF ReducedGB
  <2> QED BY <2>1, <2>2
<1>2. PICK s \in PPs : G = {s}
  <2>1. \A n \in Nat : Min({1, n}) \in Nat
    BY MinIsLeast
  <2>2. <<Min({1, t[1]}), Min({1, t[2]})>> \in PPs
    BY <2>1 DEF PPs
  <2> QED BY <1>1, <2>2 DEF Radicals
<1>3. ReducedGB(G) = G
  <2>1. s[1] \in Nat /\ s[2] \in Nat /\ s = <<s[1], s[2]>>
    BY DEF PPs
  <2>2. ReducedGB({<<s[1], s[2]>>}) = {<<s[1], s[2]>>}
    BY <2>1, BasisOfOne
  <2> QED BY <1>2, <2>1, <2>2
<1>4. Fresh(New(G)) /\ Fresh([New(G) EXCEPT !.haveGB = TRUE, !.gb = G])
  <2> HIDE DEF G
  <2>1. G \in SUBSET PPs
    BY <1>2
  <2> QED BY <1>3, <2>1, NewIsFresh, WithItsBasis
<1>5. Fresh(myAdd(o, New(G)))
  <2> HIDE DEF G
  <2> QED BY <1>4, OperationsKeepFresh DEF Operated, Operations
<1> QED BY <1>4, <1>5 DEF Radicals_0dim

(***************************************************************************)
(* What the flags say is true.  T is the Groebner basis of a proper ideal. *)
(***************************************************************************)
Maximal(T) == IF Univariate THEN T # {} /\ T \subseteq Indets ELSE T = Indets
Prime(T) == T \subseteq Indets
Primary(T) == \A k \in {1, 2} : (\E t \in T : t[k] > 0) =>
                \E t \in T : t[k] > 0 /\ t[3 - k] = 0

Agrees(v, b) == (v = "true" => b) /\ (v = "false" => ~b)

\* The flags f agree with four truths, of which two do not count if z.
Match(f, z, max, prime, primary, rad) ==
  /\ f \in FlagRecord
  /\ z \/ (Agrees(f.maximal, max) /\ Agrees(f.prime, prime))
  /\ Agrees(f.primary, primary) /\ Agrees(f.radical, rad)

Related(z, max, prime, primary, rad) ==
  /\ {z, max, prime, primary, rad} \subseteq BOOLEAN
  /\ max => prime
  /\ prime => primary /\ rad
  /\ Univariate => z \/ max = prime

\* An assignment of the truth, whether it throws or not, leaves the truth.
LEMMA TruthKeepsMatch ==
  ASSUME NEW z, NEW max, NEW prime, NEW primary, NEW rad,
         Related(z, max, prime, primary, rad),
         NEW f, Match(f, z, max, prime, primary, rad)
  PROVE  /\ rad => Match(AssignRadicalTrue(f), z, max, prime, primary, rad)
         /\ primary => Match(AssignPrimaryTrue(f), z, max, prime, primary, rad)
         /\ prime => Match(AssignPrimeTrue(f), z, max, prime, primary, rad)
         /\ max => Match(AssignMaximalTrue(f), z, max, prime, primary, rad)
<1> DEFINE M(g) == Match(g, z, max, prime, primary, rad)
<1>1. ASSUME rad, NEW g, M(g) PROVE M(AssignRadicalTrue(g))
  <2>1. CASE Settled(g, "radical")
    BY <1>1, <2>1 DEF Match, AssignRadicalTrue, Agrees, Checked, FlagRecord
  <2>2. CASE ~Settled(g, "radical")
    BY <1>1, <2>2 DEF Match, AssignRadicalTrue, Agrees, FlagRecord, Bool3
  <2> QED BY <2>1, <2>2
<1>2. ASSUME primary, NEW g, M(g) PROVE M(AssignPrimaryTrue(g))
  <2>1. CASE Settled(g, "primary")
    BY <1>2, <2>1 DEF Match, AssignPrimaryTrue, Agrees, Checked, FlagRecord
  <2>2. CASE ~Settled(g, "primary")
    BY <1>2, <2>2 DEF Match, AssignPrimaryTrue, Agrees, FlagRecord, Bool3
  <2> QED BY <2>1, <2>2
<1>3. ASSUME prime, NEW g, M(g) PROVE M(AssignPrimeTrue(g))
  <2> DEFINE e == [g EXCEPT !.prime = "true", !.maximal = IF Univariate THEN "true" ELSE @]
  <2>1. CASE Settled(g, "prime")
    BY <1>3, <2>1 DEF Match, AssignPrimeTrue, Agrees, Checked, FlagRecord
  <2>2. CASE ~Settled(g, "prime")
    <3>1. M(e)
      BY <1>3 DEF Match, Related, Agrees, FlagRecord, Bool3
    <3>2. primary /\ rad
      BY <1>3 DEF Related
    <3> HIDE DEF e, M
    <3>3. M(AssignRadicalTrue(AssignPrimaryTrue(e)))
      BY <1>1, <1>2, <3>1, <3>2
    <3> QED BY <2>2, <3>3 DEF AssignPrimeTrue, e
  <2> QED BY <2>1, <2>2
<1>4. ASSUME max PROVE M(AssignMaximalTrue(f))
  <2> DEFINE e == [f EXCEPT !.maximal = "true"]
  <2>1. CASE Settled(f, "maximal")
    BY <1>4, <2>1 DEF Match, AssignMaximalTrue, Agrees, Checked, FlagRecord
  <2>2. CASE ~Settled(f, "maximal")
    <3>1. M(e)
      BY <1>4 DEF Match, Agrees, FlagRecord, Bool3
    <3>2. prime
      BY <1>4 DEF Related
    <3> HIDE DEF e, M
    <3> QED BY <1>3, <2>2, <3>1, <3>2 DEF AssignMaximalTrue, e
  <2> QED BY <2>1, <2>2
<1> QED BY <1>1, <1>2, <1>3, <1>4

LEMMA UntruthKeepsMatch ==
  ASSUME NEW z, NEW max, NEW prime, NEW primary, NEW rad,
         Related(z, max, prime, primary, rad),
         NEW f, Match(f, z, max, prime, primary, rad)
  PROVE  /\ ~max => Match(AssignMaximalFalse(f), z, max, prime, primary, rad)
         /\ ~prime => Match(AssignPrimeFalse(f), z, max, prime, primary, rad)
         /\ ~primary => Match(AssignPrimaryFalse(f), z, max, prime, primary, rad)
         /\ ~rad => Match(AssignRadicalFalse(f), z, max, prime, primary, rad)
<1> DEFINE M(g) == Match(g, z, max, prime, primary, rad)
<1>1. ASSUME ~max, NEW g, M(g) PROVE M(AssignMaximalFalse(g))
  <2>1. CASE Settled(g, "maximal")
    BY <1>1, <2>1 DEF Match, AssignMaximalFalse, Agrees, Checked, FlagRecord
  <2>2. CASE ~Settled(g, "maximal")
    <3>1. z \/ (Univariate => ~prime)
      BY <1>1 DEF Related
    <3> QED BY <1>1, <2>2, <3>1 DEF Match, AssignMaximalFalse, Agrees, FlagRecord, Bool3
  <2> QED BY <2>1, <2>2
<1>2. ASSUME ~prime, NEW g, M(g) PROVE M(AssignPrimeFalse(g))
  <2> DEFINE e == [g EXCEPT !.prime = "false"]
  <2>1. CASE Settled(g, "prime")
    BY <1>2, <2>1 DEF Match, AssignPrimeFalse, Agrees, Checked, FlagRecord
  <2>2. CASE ~Settled(g, "prime")
    <3>1. M(e)
      BY <1>2 DEF Match, Agrees, FlagRecord, Bool3
    <3>2. ~max
      BY <1>2 DEF Related
    <3> HIDE DEF e, M
    <3> QED BY <1>1, <2>2, <3>1, <3>2 DEF AssignPrimeFalse, e
  <2> QED BY <2>1, <2>2
<1>3. ASSUME ~primary PROVE M(AssignPrimaryFalse(f))
  <2> DEFINE e == [f EXCEPT !.primary = "false"]
  <2>1. CASE Settled(f, "primary")
    BY <1>3, <2>1 DEF Match, AssignPrimaryFalse, Agrees, Checked, FlagRecord
  <2>2. CASE ~Settled(f, "primary")
    <3>1. M(e)
      BY <1>3 DEF Match, Agrees, FlagRecord, Bool3
    <3>2. ~prime
      BY <1>3 DEF Related
    <3> HIDE DEF e, M
    <3> QED BY <1>2, <2>2, <3>1, <3>2 DEF AssignPrimaryFalse, e
  <2> QED BY <2>1, <2>2
<1>4. ASSUME ~rad PROVE M(AssignRadicalFalse(f))
  <2> DEFINE e == [f EXCEPT !.radical = "false"]
  <2>1. CASE Settled(f, "radical")
    BY <1>4, <2>1 DEF Match, AssignRadicalFalse, Agrees, Checked, FlagRecord
  <2>2. CASE ~Settled(f, "radical")
    <3>1. M(e)
      BY <1>4 DEF Match, Agrees, FlagRecord, Bool3
    <3>2. ~prime
      BY <1>4 DEF Related
    <3> HIDE DEF e, M
    <3> QED BY <1>2, <2>2, <3>1, <3>2 DEF AssignRadicalFalse, e
  <2> QED BY <2>1, <2>2
<1> QED BY <1>1, <1>2, <1>3, <1>4

\* An assignment that throws has changed nothing before.
LEMMA ThrownChangesNothing ==
  ASSUME NEW f, Consistent(f), ~f.raised, NEW p \in Props, NEW b \in BOOLEAN,
         AssignFlag(f, p, b).raised
  PROVE  Caught(AssignFlag(f, p, b)) = f
<1> USE DEF Consistent, FlagRecord, Closed, Bool3, Settled, Checked, Caught
<1>1. ~Settled(f, "radical") => ~AssignRadicalTrue(f).raised
  BY DEF AssignRadicalTrue
<1>2. ~Settled(f, "primary") => ~AssignPrimaryTrue(f).raised
  BY DEF AssignPrimaryTrue
<1>3. ~Settled(f, "prime") => ~AssignPrimeTrue(f).raised
  BY DEF AssignPrimeTrue, AssignPrimaryTrue, AssignRadicalTrue
<1>4. ~Settled(f, "maximal") => ~AssignMaximalTrue(f).raised
  BY DEF AssignMaximalTrue, AssignPrimeTrue, AssignPrimaryTrue, AssignRadicalTrue
<1>5. ~Settled(f, "maximal") => ~AssignMaximalFalse(f).raised
  BY DEF AssignMaximalFalse
<1>6. ~Settled(f, "prime") => ~AssignPrimeFalse(f).raised
  BY DEF AssignPrimeFalse, AssignMaximalFalse
<1>7. ~Settled(f, "primary") => ~AssignPrimaryFalse(f).raised
  BY DEF AssignPrimaryFalse, AssignPrimeFalse, AssignMaximalFalse
<1>8. ~Settled(f, "radical") => ~AssignRadicalFalse(f).raised
  BY DEF AssignRadicalFalse, AssignPrimeFalse, AssignMaximalFalse
<1>9. Settled(f, p)
  BY <1>1, <1>2, <1>3, <1>4, <1>5, <1>6, <1>7, <1>8 DEF AssignFlag, Props
<1>10. \E v \in {"true", "false"} : AssignFlag(f, p, b) = Checked(f, p, v)
  <2> HIDE DEF Checked, Settled
  <2>1. CASE p = "maximal"
    BY <1>9, <2>1 DEF AssignFlag, AssignMaximalTrue, AssignMaximalFalse
  <2>2. CASE p = "prime"
    BY <1>9, <2>2 DEF AssignFlag, AssignPrimeTrue, AssignPrimeFalse
  <2>3. CASE p = "primary"
    BY <1>9, <2>3 DEF AssignFlag, AssignPrimaryTrue, AssignPrimaryFalse
  <2>4. CASE p = "radical"
    BY <1>9, <2>4 DEF AssignFlag, AssignRadicalTrue, AssignRadicalFalse
  <2> QED BY <2>1, <2>2, <2>3, <2>4 DEF Props
<1> QED BY <1>10

\* The flags f are true of a proper ideal with the Groebner basis T.
Truth(f, T) ==
  Match(f, T = {} /\ Univariate, Maximal(T), Prime(T), Primary(T), AllSqFree(T))

Is(p, T) ==
  CASE p = "maximal" -> Maximal(T)
    [] p = "prime"   -> Prime(T)
    [] p = "primary" -> Primary(T)
    [] p = "radical" -> AllSqFree(T)

LEMMA TruthsAreRelated ==
  ASSUME NEW T \in SUBSET PPs
  PROVE  Related(T = {} /\ Univariate, Maximal(T), Prime(T), Primary(T), AllSqFree(T))
<1>1. Maximal(T) => Prime(T)
  BY DEF Maximal, Prime
<1>2. ASSUME Prime(T) PROVE Primary(T) /\ AllSqFree(T)
  <2>1. \A t \in T : t = <<1, 0>> \/ t = <<0, 1>>
    BY <1>2 DEF Prime, Indets
  <2>2. AllSqFree(T)
    BY <2>1 DEF AllSqFree, SqFree
  <2>3. ASSUME NEW k \in {1, 2}, NEW t \in T, t[k] > 0 PROVE t[3 - k] = 0
    BY <2>1, <2>3
  <2> QED BY <2>2, <2>3 DEF Primary
<1>3. Univariate => (T = {} /\ Univariate) \/ Maximal(T) = Prime(T)
  BY DEF Maximal, Prime
<1>4. {T = {} /\ Univariate, Maximal(T), Prime(T), Primary(T), AllSqFree(T)} \subseteq BOOLEAN
  BY DEF Maximal, Prime, Primary, AllSqFree
<1> QED BY <1>1, <1>2, <1>3, <1>4 DEF Related

LEMMA AssignTruth ==
  ASSUME NEW T \in SUBSET PPs, NEW f, Truth(f, T)
  PROVE  /\ Maximal(T) => Truth(AssignMaximalTrue(f), T)
         /\ ~Maximal(T) => Truth(AssignMaximalFalse(f), T)
         /\ ~Prime(T) => Truth(AssignPrimeFalse(f), T)
         /\ Primary(T) => Truth(AssignPrimaryTrue(f), T)
         /\ ~Primary(T) => Truth(AssignPrimaryFalse(f), T)
         /\ AllSqFree(T) => Truth(AssignRadicalTrue(f), T)
         /\ ~AllSqFree(T) => Truth(AssignRadicalFalse(f), T)
         /\ \A p \in Props : Truth(AssignFlag(f, p, Is(p, T)), T)
<1> DEFINE z == T = {} /\ Univariate
           max == Maximal(T)
           prime == Prime(T)
           primary == Primary(T)
           rad == AllSqFree(T)
<1>1. Related(z, max, prime, primary, rad)
  BY TruthsAreRelated
<1>2. \A g : Truth(g, T) <=> Match(g, z, max, prime, primary, rad)
  BY DEF Truth
<1>3. \A p \in Props : Is(p, T) = CASE p = "maximal" -> max [] p = "prime" -> prime
                                    [] p = "primary" -> primary [] p = "radical" -> rad
  BY DEF Is
<1> HIDE DEF z, max, prime, primary, rad
<1>4. Match(f, z, max, prime, primary, rad)
  BY <1>2
<1>5. /\ rad => Truth(AssignRadicalTrue(f), T)
      /\ primary => Truth(AssignPrimaryTrue(f), T)
      /\ prime => Truth(AssignPrimeTrue(f), T)
      /\ max => Truth(AssignMaximalTrue(f), T)
  BY <1>1, <1>2, <1>4, TruthKeepsMatch
<1>6. /\ ~max => Truth(AssignMaximalFalse(f), T)
      /\ ~prime => Truth(AssignPrimeFalse(f), T)
      /\ ~primary => Truth(AssignPrimaryFalse(f), T)
      /\ ~rad => Truth(AssignRadicalFalse(f), T)
  BY <1>1, <1>2, <1>4, UntruthKeepsMatch
<1>7. \A p \in Props : Truth(AssignFlag(f, p, Is(p, T)), T)
  BY <1>3, <1>5, <1>6 DEF AssignFlag, Props
<1> QED BY <1>5, <1>6, <1>7 DEF max, prime, primary, rad

\* What the definition of the properties says.
LEMMA HoldsIs ==
  ASSUME NEW G, NEW p \in Props, Proper(G)
  PROVE  Holds(p, G) = Is(p, ReducedGB(G))
<1>1. Proper(G) => ReducedGB(G) # {Unit}
  BY DEF Proper
<1> DEFINE T == ReducedGB(G)
<1>2. T # {Unit}
  BY <1>1
<1> HIDE DEF T
<1>3. CASE p = "maximal"
  BY <1>2, <1>3 DEF Holds, Is, Maximal, T
<1>4. CASE p = "prime"
  BY <1>2, <1>4 DEF Holds, Is, Prime, T
<1>5. CASE p = "primary"
  BY <1>2, <1>5 DEF Holds, Is, Primary, T
<1>6. CASE p = "radical"
  BY <1>2, <1>6 DEF Holds, Is, AllSqFree, T
<1> QED BY <1>3, <1>4, <1>5, <1>6 DEF Props

LEMMA FactorsOf ==
  ASSUME NEW t \in PPs
  PROVE  /\ Factors(t) = 0 <=> t = Unit
         /\ Factors(t) = 1 <=> (t[1] > 0) # (t[2] > 0)
<1> DEFINE K == {k \in {1, 2} : t[k] > 0}
<1>1. t[1] \in Nat /\ t[2] \in Nat /\ t = <<t[1], t[2]>>
  BY DEF PPs
<1>2. Cardinality({}) = 0 /\ Cardinality({1}) = 1 /\ Cardinality({2}) = 1
  BY FS_EmptySet, FS_Singleton
<1>3. Cardinality({1, 2}) = 2
  <2>1. IsFiniteSet({1})
    BY FS_Singleton
  <2>2. 2 \notin {1} /\ {1} \cup {2} = {1, 2}
    OBVIOUS
  <2> QED BY <1>2, <2>1, <2>2, FS_AddElement
<1>4. Factors(t) = Cardinality(K)
  BY DEF Factors
<1>5. /\ t[1] > 0 /\ t[2] > 0 => K = {1, 2}
      /\ t[1] > 0 /\ ~(t[2] > 0) => K = {1}
      /\ ~(t[1] > 0) /\ t[2] > 0 => K = {2}
      /\ ~(t[1] > 0) /\ ~(t[2] > 0) => K = {}
  OBVIOUS
<1>6. t = Unit <=> ~(t[1] > 0) /\ ~(t[2] > 0)
  BY <1>1 DEF Unit
<1> HIDE DEF K
<1> QED BY <1>2, <1>3, <1>4, <1>5, <1>6

\* In K[x] a basis has one element at most.
LEMMA UnivariateBasis ==
  ASSUME NEW G \in SUBSET PPs, Univariate, NEW t \in ReducedGB(G)
  PROVE  ReducedGB(G) = {t}
<1>1. interreduce({}) = {}
  BY DEF interreduce
<1> QED BY <1>1 DEF ReducedGB

\* An object whose Groebner basis T is known, and is not that of the ring.
Basis(o, T) ==
  /\ o.gens \in SUBSET PPs /\ o.gb = T /\ T = ReducedGB(o.gens)
  /\ T \in SUBSET PPs /\ Unit \notin T
  /\ Consistent(o.flags)
  /\ ~IhaveMonomialGens(o) => Univariate

LEMMA IsMaximalIsTrue ==
  ASSUME NEW o, NEW T, Basis(o, T), Truth(o.flags, T)
  PROVE  Truth(TestIsMaximal(o), T)
<1>1. o.gb = T /\ T \in SUBSET PPs /\ T = ReducedGB(o.gens)
  BY DEF Basis
<1>2. CASE o.gens = {}
  <2>1. T = {}
    BY <1>1, <1>2 DEF ReducedGB, interreduce
  <2>2. ~Maximal(T)
    BY <2>1 DEF Maximal, Indets
  <2> QED BY <1>1, <1>2, <2>2, AssignTruth DEF TestIsMaximal
<1>3. CASE o.gens # {} /\ Univariate
  <2>1. T # {}
    BY <1>1, <1>3 DEF ReducedGB
  <2>2. Maximal(T) = (o.gb \subseteq Indets)
    BY <1>1, <1>3, <2>1 DEF Maximal
  <2>3. Truth(AssignFlag(o.flags, "maximal", Is("maximal", T)), T)
    BY <1>1, AssignTruth DEF Props
  <2> QED BY <1>3, <2>2, <2>3 DEF TestIsMaximal, Is
<1>4. CASE o.gens # {} /\ ~Univariate
  <2>1. Maximal(T) <=> o.gb = Indets
    BY <1>1, <1>4 DEF Maximal
  <2>2. o.gb = Indets => IamZeroDim(o)
    <3>1. \A k \in {1, 2} : \E t \in Indets : t[k] > 0 /\ t[3 - k] = 0
      <4>1. <<1, 0>> \in Indets /\ <<0, 1>> \in Indets
        BY DEF Indets
      <4>2. <<1, 0>>[1] > 0 /\ <<1, 0>>[3 - 1] = 0 /\ <<0, 1>>[2] > 0 /\ <<0, 1>>[3 - 2] = 0
        OBVIOUS
      <4> QED BY <4>1, <4>2
    <3> QED BY <3>1 DEF IamZeroDim
  <2>3. ASSUME IamZeroDim(o), o.gb # Indets PROVE ~Prime(T)
    <3> SUFFICES ASSUME T \subseteq Indets PROVE FALSE
      BY DEF Prime
    <3>1. PICK t \in T : t[1] > 0
      BY <1>1, <2>3 DEF IamZeroDim
    <3>2. PICK s \in T : s[2] > 0
      BY <1>1, <2>3 DEF IamZeroDim
    <3>3. t = <<1, 0>> /\ s = <<0, 1>>
      BY <3>1, <3>2 DEF Indets
    <3> QED BY <1>1, <2>3, <3>3 DEF Indets
  <2>4. CASE ~IamZeroDim(o)
    BY <1>1, <1>4, <2>1, <2>2, <2>4, AssignTruth DEF TestIsMaximal
  <2>5. CASE IamZeroDim(o) /\ o.gb = Indets
    BY <1>1, <1>4, <2>1, <2>5, AssignTruth DEF TestIsMaximal
  <2>6. CASE IamZeroDim(o) /\ o.gb # Indets
    BY <1>1, <1>4, <2>3, <2>6, AssignTruth DEF TestIsMaximal
  <2> QED BY <2>4, <2>5, <2>6
<1> QED BY <1>2, <1>3, <1>4

LEMMA IsPrimaryIsTrue ==
  ASSUME NEW o, NEW T, Basis(o, T), Truth(o.flags, T), NEW f \in TestIsPrimary(o)
  PROVE  Truth(f, T)
<1>1. o.gb = T /\ T \in SUBSET PPs /\ T = ReducedGB(o.gens) /\ o.gens \in SUBSET PPs
  BY DEF Basis
<1>2. CASE ~Univariate /\ ~IamZeroDim(o)
  BY <1>2 DEF TestIsPrimary
<1>3. CASE ~Univariate /\ IamZeroDim(o)
  <2> DEFINE g == IF o.gb = Indets THEN AssignMaximalTrue(o.flags)
                  ELSE IF \A t \in o.gb : t \notin Indets THEN AssignRadicalFalse(o.flags)
                  ELSE o.flags
  <2>1. f = AssignPrimaryTrue(g)
    BY <1>3 DEF TestIsPrimary, TestIsPrimary_0dim
  <2>2. Primary(T)
    BY <1>1, <1>3 DEF IamZeroDim, Primary
  <2>3. T = Indets => Maximal(T)
    BY <1>3 DEF Maximal
  <2>4. ASSUME \A t \in T : t \notin Indets PROVE ~AllSqFree(T)
    <3>1. PICK t \in T : t[1] > 0 /\ t[2] = 0
      <4>1. \E t \in o.gb : t[1] > 0 /\ t[3 - 1] = 0
        BY <1>3 DEF IamZeroDim
      <4> QED BY <1>1, <4>1
    <3>2. t[1] \in Nat /\ t = <<t[1], t[2]>>
      BY <1>1 DEF PPs
    <3>3. t[1] # 1
      BY <2>4, <3>1, <3>2 DEF Indets
    <3> QED BY <3>1, <3>2, <3>3 DEF AllSqFree, SqFree
  <2>5. Truth(g, T)
    BY <1>1, <2>3, <2>4, AssignTruth
  <2> HIDE DEF g
  <2> QED BY <1>1, <2>1, <2>2, <2>5, AssignTruth
<1>4. CASE Univariate
  <2>1. PICK t \in T : f = IF Factors(t) = 1
                           THEN AssignFlag(AssignPrimaryTrue(o.flags), "maximal", t \in Indets)
                           ELSE AssignPrimaryFalse(o.flags)
    BY <1>1, <1>4 DEF TestIsPrimary
  <2>2. T = {t} /\ t \in PPs /\ t[1] \in Nat /\ t[2] \in Nat /\ t # Unit
    BY <1>1, <1>4, UnivariateBasis DEF Basis, PPs
  <2>3. Maximal(T) = (t \in Indets)
    BY <1>4, <2>2 DEF Maximal
  <2>4. Primary(T) <=> Factors(t) = 1
    <3>1. Factors(t) # 0
      BY <2>2, FactorsOf
    <3>2. Primary(T) <=> (t[1] > 0 => t[2] = 0) /\ (t[2] > 0 => t[1] = 0)
      <4>1. Primary(T) <=> \A k \in {1, 2} : t[k] > 0 => t[3 - k] = 0
        BY <2>2 DEF Primary
      <4> QED BY <4>1
    <3>3. t[1] > 0 \/ t[2] > 0
      BY <2>2 DEF Unit, PPs
    <3>4. Factors(t) = 1 <=> (t[1] > 0) # (t[2] > 0)
      BY <2>2, FactorsOf
    <3> QED BY <2>2, <3>2, <3>3, <3>4
  <2>5. CASE Factors(t) = 1
    <3>1. Truth(AssignPrimaryTrue(o.flags), T)
      BY <1>1, <2>4, <2>5, AssignTruth
    <3>2. Truth(AssignFlag(AssignPrimaryTrue(o.flags), "maximal", Is("maximal", T)), T)
      BY <1>1, <3>1, AssignTruth DEF Props
    <3> QED BY <2>1, <2>3, <2>5, <3>2 DEF Is
  <2>6. CASE Factors(t) # 1
    BY <1>1, <2>1, <2>4, <2>6, AssignTruth
  <2> QED BY <2>5, <2>6
<1> QED BY <1>2, <1>3, <1>4

LEMMA IsRadicalIsTrue ==
  ASSUME NEW o, NEW T, Basis(o, T), Truth(o.flags, T), NEW f \in TestIsRadical(o)
  PROVE  Truth(f, T)
<1>1. o.gb = T /\ T \in SUBSET PPs /\ T = ReducedGB(o.gens) /\ o.gens \in SUBSET PPs
  BY DEF Basis
<1>2. CASE IhaveMonomialGens(o)
  <2>1. f = AssignFlag(o.flags, "radical", AllSqFree(T))
    BY <1>1, <1>2 DEF TestIsRadical, AllSqFree
  <2>2. Truth(AssignFlag(o.flags, "radical", Is("radical", T)), T)
    BY <1>1, AssignTruth DEF Props
  <2> QED BY <2>1, <2>2 DEF Is
<1>3. CASE ~IhaveMonomialGens(o)
  <2> DEFINE h(t) == IF Factors(t) # 1 THEN AssignPrimeFalse(o.flags) ELSE o.flags
  <2>0. PICK t \in T : \E e \in Exponents(t) : f = IF e = 1 THEN AssignMaximalTrue(h(t)) ELSE h(t)
    BY <1>1, <1>3 DEF TestIsRadical
  <2>1. PICK e \in Exponents(t) : f = IF e = 1 THEN AssignMaximalTrue(h(t)) ELSE h(t)
    BY <2>0
  <2>2. T = {t} /\ t \in PPs /\ t[1] \in Nat /\ t[2] \in Nat /\ Univariate
    BY <1>1, <1>3, UnivariateBasis DEF Basis, PPs
  <2>3. t \in Indets => Factors(t) = 1
    <3>1. t \in Indets => (t[1] > 0) # (t[2] > 0)
      BY DEF Indets
    <3> QED BY <2>2, <3>1, FactorsOf
  <2>4. CASE Factors(t) # 1
    <3>1. ~Prime(T)
      BY <2>2, <2>3, <2>4 DEF Prime
    <3>2. Truth(AssignPrimeFalse(o.flags), T)
      BY <1>1, <3>1, AssignTruth
    \* The assignment of "true" throws: the ideal is known not to be maximal.
    <3>3. AssignMaximalTrue(AssignPrimeFalse(o.flags))
          \in {[AssignPrimeFalse(o.flags) EXCEPT !.raised = b] : b \in BOOLEAN}
      <4>1. Consistent(o.flags)
        BY DEF Basis
      <4>2. Settled(AssignPrimeFalse(o.flags), "maximal")
        BY <4>1 DEF Consistent, Closed, FlagRecord, Settled, Checked, Bool3,
                    AssignPrimeFalse, AssignMaximalFalse
      <4>3. AssignPrimeFalse(o.flags) \in FlagRecord
        BY <3>2 DEF Truth, Match
      <4> QED BY <4>2, <4>3 DEF AssignMaximalTrue, Checked, FlagRecord
    <3>4. f \in {[AssignPrimeFalse(o.flags) EXCEPT !.raised = b] : b \in BOOLEAN}
      <4>1. AssignPrimeFalse(o.flags) \in FlagRecord
        BY <3>2 DEF Truth, Match
      <4>2. AssignPrimeFalse(o.flags)
            = [AssignPrimeFalse(o.flags) EXCEPT !.raised = AssignPrimeFalse(o.flags).raised]
        BY <4>1 DEF FlagRecord
      <4>3. AssignPrimeFalse(o.flags).raised \in BOOLEAN
        BY <4>1 DEF FlagRecord
      <4> QED BY <2>1, <2>4, <3>3, <4>2, <4>3
    <3> QED BY <3>2, <3>4 DEF Truth, Match, FlagRecord
  <2>5. CASE Factors(t) = 1
    <3>1. f = IF e = 1 THEN AssignMaximalTrue(o.flags) ELSE o.flags
      BY <2>1, <2>5
    <3>2. ASSUME e = 1 PROVE Maximal(T)
      <4>1. (t[1] > 0) # (t[2] > 0) /\ (t[1] = 1 \/ t[2] = 1)
        BY <2>1, <2>2, <2>5, <3>2, FactorsOf DEF Exponents
      <4>2. t = <<t[1], t[2]>>
        BY <2>2 DEF PPs
      <4>3. t = <<1, 0>> \/ t = <<0, 1>>
        BY <2>2, <4>1, <4>2
      <4> QED BY <2>2, <4>3 DEF Maximal, Indets
    <3> QED BY <1>1, <3>1, <3>2, AssignTruth
  <2> QED BY <2>4, <2>5
<1> QED BY <1>2, <1>3

LEMMA TestsTellTheTruth ==
  ASSUME NEW o, NEW T, Basis(o, T), Truth(o.flags, T), NEW p \in Props, NEW f \in Tested(o, p)
  PROVE  Truth(f, T)
<1>1. Truth(TestIsPrime(o), T)
  BY IsMaximalIsTrue DEF TestIsPrime
<1> QED BY <1>1, IsMaximalIsTrue, IsPrimaryIsTrue, IsRadicalIsTrue DEF Tested, Props

(***************************************************************************)
(* Objects whose flags are true, unless they are suspect.                  *)
(***************************************************************************)
RightFlags(f, s, G) ==
  /\ ~f.raised
  /\ \/ s \cap {"kept", "lied", "gens"} # {}
     \/ Unit \in ReducedGB(G)
     \/ Truth(f, ReducedGB(G))

Right(o) == RightFlags(o.flags, o.suspect, o.gens)

LEMMA CaughtIsTrue ==
  ASSUME NEW f, NEW T, Truth(f, T)
  PROVE  Truth(Caught(f), T) /\ ~Caught(f).raised
  BY DEF Truth, Match, Caught, FlagRecord

LEMMA NoFlagsAreRight ==
  ASSUME NEW s, NEW G
  PROVE  /\ RightFlags(NoFlags, s, G) /\ Truth(NoFlags, G)
         /\ AllSqFree(ReducedGB(G)) => RightFlags(AssignRadicalTrue(NoFlags), s, G)
<1>1. \A T : Truth(NoFlags, T)
  BY DEF NoFlags, Truth, Match, Agrees, FlagRecord, Bool3
<1>2. AssignRadicalTrue(NoFlags) = [NoFlags EXCEPT !.radical = "true"]
  BY DEF AssignRadicalTrue, Settled, NoFlags
<1>3. \A T : AllSqFree(T) => Truth([NoFlags EXCEPT !.radical = "true"], T)
  BY DEF NoFlags, Truth, Match, Agrees, FlagRecord, Bool3
<1>4. ~NoFlags.raised /\ ~[NoFlags EXCEPT !.radical = "true"].raised
  BY DEF NoFlags
<1> QED BY <1>1, <1>2, <1>3, <1>4 DEF RightFlags

LEMMA NewIsRight ==
  ASSUME NEW G
  PROVE  Right(New(G)) /\ Right(Reset(G))
<1>1. \A H : New(H).flags = NoFlags /\ DOMAIN New(H) = Fields
  BY DEF New, Fields
<1>2. Reset(G).flags = NoFlags
  BY <1>1 DEF Reset, Fields
<1> QED BY <1>1, <1>2, NoFlagsAreRight DEF Right

LEMMA QueriesKeepRight ==
  ASSUME NEW o, Fresh(o), Right(o)
  PROVE  /\ Right(WithMono(o)) /\ WithMono(o).suspect = o.suspect
         /\ Right(WithGBasis(o)) /\ WithGBasis(o).suspect = o.suspect
         /\ Right(WithSqFree(o))
         /\ o.haveGB /\ AreMonomials(o.gens) => Right(myMinimalize(o))
<1>1. /\ \A x \in Fields \ {"mono"} : WithMono(o)[x] = o[x]
      /\ DOMAIN WithMono(o) = Fields
  BY DEF Fresh, WithMono, Fields
<1>2. Right(WithMono(o)) /\ WithMono(o).suspect = o.suspect
  BY <1>1 DEF Right, Fields
<1>3. Right(WithGBasis(o)) /\ WithGBasis(o).suspect = o.suspect
  <2>1. /\ WithGBasis(o).flags = o.flags /\ WithGBasis(o).gens = o.gens
        /\ WithGBasis(o).suspect = o.suspect
    BY <1>1 DEF WithGBasis, Fields
  <2> QED BY <2>1 DEF Right
<1>4. Right(WithSqFree(o))
  <2>1. /\ WithSqFree(o).flags = o.flags /\ WithSqFree(o).gens = o.gens
        /\ WithSqFree(o).suspect = o.suspect
    BY <1>1 DEF WithSqFree, Fields
  <2> QED BY <2>1 DEF Right
<1>5. ASSUME o.haveGB, AreMonomials(o.gens) PROVE Right(myMinimalize(o))
  <2>1. /\ myMinimalize(o).flags = o.flags
        /\ o.suspect \subseteq myMinimalize(o).suspect
    BY DEF myMinimalize, Fresh, Fields
  <2>2. \/ "gens" \in myMinimalize(o).suspect
        \/ ReducedGB(myMinimalize(o).gens) = ReducedGB(o.gens)
    BY <1>5, MinimalizedIsFresh
  <2> QED BY <2>1, <2>2 DEF Right, RightFlags
<1> QED BY <1>2, <1>3, <1>4, <1>5

\* An operation that takes the flags over makes the object suspect.
LEMMA MonomialIsRight ==
  ASSUME NEW o, Fresh(o), Right(o), NEW G, NEW q
  PROVE  Right(Monomial(o, G, q))
<1> DEFINE n == WithMono(o)
           s == TakenOver(o)
<1>1. Monomial(o, G, q) = [n EXCEPT !.gens = G, !.haveGB = TRUE, !.gb = G, !.sqf = q, !.suspect = s]
  BY DEF Monomial
<1>2. n.flags = o.flags /\ DOMAIN n = Fields
  BY DEF WithMono, Fresh, Fields
<1>3. ~o.flags.raised
  BY DEF Right, RightFlags
<1>4. o.flags = NoFlags \/ s \cap {"kept", "lied", "gens"} # {}
  BY DEF TakenOver
<1> HIDE DEF n, s
<1>5. Monomial(o, G, q).flags = o.flags /\ Monomial(o, G, q).suspect = s
  BY <1>1, <1>2 DEF Fields
<1> QED BY <1>3, <1>4, <1>5, NoFlagsAreRight DEF Right, RightFlags

LEMMA OperationsKeepRight ==
  ASSUME NEW o, NEW j, Fresh(o), Right(o), Fresh(j), Right(j)
  PROVE  /\ \A op \in Operations : Right(Operated(op, o, j)) /\ Right(RightAfter(op, o, j))
         /\ \A X : Right(Eliminated(o, X))
         /\ IhaveMonomialGens(o) => Right(radical_MonId(o))
<1>0. \A G : New(G).flags = NoFlags /\ DOMAIN New(G) = Fields
  BY DEF New, Fields
<1>1. Right(myAdd(o, j))
  <2>1. \A G, m, q : [Reset(G) EXCEPT !.mono = m, !.sqf = q].flags = NoFlags
    BY <1>0 DEF Reset, Fields
  <2>2. \A G, m, q : Right([Reset(G) EXCEPT !.mono = m, !.sqf = q])
    BY <2>1, NoFlagsAreRight DEF Right
  <2> QED BY <2>2, NewIsRight DEF myAdd
<1>2. Right(myMul(o, j))
  BY MonomialIsRight, NewIsRight, QueriesKeepRight DEF myMul
<1>3. Right(myIntersect(o, j))
  BY MonomialIsRight, NewIsRight DEF myIntersect
<1>4. Right(myColon(o, j))
  BY MonomialIsRight, NewIsRight, QueriesKeepRight DEF myColon
<1>5. Right(mySaturate(o, j))
  BY NewIsRight DEF mySaturate
<1>6. \A op \in Operations : Right(Operated(op, o, j)) /\ Right(RightAfter(op, o, j))
  BY <1>1, <1>2, <1>3, <1>4, <1>5, NewIsRight, QueriesKeepRight
     DEF Operated, Operations, RightAfter
<1>7. \A X : Right(Eliminated(o, X))
  <2>1. \A G, m : [New(G) EXCEPT !.haveGB = TRUE, !.gb = G, !.mono = m].flags = NoFlags
    BY <1>0 DEF Fields
  <2>2. \A G, m : Right([New(G) EXCEPT !.haveGB = TRUE, !.gb = G, !.mono = m])
    BY <2>1, NoFlagsAreRight DEF Right
  <2> QED BY <2>2, NewIsRight DEF Eliminated
<1>8. ASSUME IhaveMonomialGens(o) PROVE Right(radical_MonId(o))
  <2> DEFINE r == radical_MonId(o)
  <2>1. r.flags = AssignRadicalTrue(NoFlags) /\ r.sqf = "true"
    BY <1>0 DEF radical_MonId, Fields
  <2>2. Fresh(r)
    BY <1>8, OperationsKeepFresh
  <2> HIDE DEF r
  <2>3. r.gens \in SUBSET PPs /\ AreMonomials(r.gens) /\ AllSqFree(r.gens)
    BY <2>1, <2>2 DEF Fresh, Current
  <2>4. AllSqFree(ReducedGB(r.gens))
    <3>1. ReducedGB(r.gens) \subseteq r.gens
      BY <2>3, BasisFacts
    <3> QED BY <2>3, <3>1 DEF AllSqFree
  <2> QED BY <2>1, <2>4, NoFlagsAreRight DEF Right, r
<1> QED BY <1>6, <1>7, <1>8

\* The square free part.
LEMMA SquareFreePart ==
  ASSUME NEW T \in SUBSET PPs
  PROVE  /\ AllSqFree(Radicals(T)) /\ Radicals(T) \in SUBSET PPs
         /\ AllSqFree(T) => Radicals(T) = T
<1>1. \A n \in Nat : /\ Min({1, n}) \in Nat /\ Min({1, n}) <= 1
                     /\ n <= 1 => Min({1, n}) = n
  <2> TAKE n \in Nat
  <2>1. Min({1, n}) \in {1, n} /\ \A i \in {1, n} : Min({1, n}) <= i
    <3>1. {1, n} \in SUBSET Nat /\ {1, n} # {}
      OBVIOUS
    <3> QED BY <3>1, MinIsLeast
  <2> QED BY <2>1
<1>2. \A t \in T : t[1] \in Nat /\ t[2] \in Nat /\ t = <<t[1], t[2]>>
  BY DEF PPs
<1>3. ASSUME NEW t \in T
      PROVE  /\ <<Min({1, t[1]}), Min({1, t[2]})>> \in PPs
             /\ SqFree(<<Min({1, t[1]}), Min({1, t[2]})>>)
             /\ SqFree(t) => <<Min({1, t[1]}), Min({1, t[2]})>> = t
  <2>1. t[1] \in Nat /\ t[2] \in Nat /\ t = <<t[1], t[2]>>
    BY <1>2
  <2> DEFINE a == Min({1, t[1]})
             b == Min({1, t[2]})
  <2>2. a \in Nat /\ a <= 1 /\ (t[1] <= 1 => a = t[1])
    BY <1>1, <2>1
  <2>3. b \in Nat /\ b <= 1 /\ (t[2] <= 1 => b = t[2])
    BY <1>1, <2>1
  <2> HIDE DEF a, b
  <2>4. <<a, b>> \in PPs /\ SqFree(<<a, b>>) /\ (SqFree(t) => <<a, b>> = t)
    BY <2>1, <2>2, <2>3 DEF PPs, SqFree
  <2> QED BY <2>4 DEF a, b
<1>4. AllSqFree(Radicals(T)) /\ Radicals(T) \in SUBSET PPs
  <2> DEFINE r(t) == <<Min({1, t[1]}), Min({1, t[2]})>>
  <2>1. \A t \in T : r(t) \in PPs /\ SqFree(r(t))
    BY <1>3
  <2>2. Radicals(T) = {r(t) : t \in T}
    BY DEF Radicals
  <2> HIDE DEF r
  <2> QED BY <2>1, <2>2 DEF AllSqFree
<1>5. ASSUME AllSqFree(T) PROVE Radicals(T) = T
  <2>1. \A t \in T : <<Min({1, t[1]}), Min({1, t[2]})>> = t
    BY <1>3, <1>5 DEF AllSqFree
  <2> QED BY <2>1 DEF Radicals
<1> QED BY <1>4, <1>5

\* The radical, in K[x]: what is noted of the ideal and of its radical.
LEMMA RadicalIsRight ==
  ASSUME NEW o, Fresh(o), Right(o), Consistent(o.flags), Univariate,
         o.haveGB, "gens" \notin o.suspect, o.gens # {}, o.gb # {Unit},
         o.flags.radical # "true"
  PROVE  /\ o.gb = Radicals(o.gb) =>
              RightFlags(Caught(AssignRadicalTrue(o.flags)), o.suspect, o.gens)
         /\ o.gb # Radicals(o.gb) =>
              RightFlags(AssignRadicalFalse(o.flags), o.suspect, o.gens)
         /\ \A r \in Radicals_0dim(o) :
              /\ r.flags = NoFlags
              /\ RightFlags(AssignRadicalTrue(r.flags), r.suspect, r.gens)
<1> DEFINE T == ReducedGB(o.gens)
           G == Radicals(T)
<1>1. o.gb = T /\ T \in SUBSET PPs /\ Unit \notin T /\ o.gens \in SUBSET PPs
  BY BasisFacts DEF Fresh, Current
<1>2. AllSqFree(G) /\ G \in SUBSET PPs /\ (AllSqFree(T) => G = T)
  BY <1>1, SquareFreePart
<1>3. o.suspect \cap {"kept", "lied", "gens"} # {} \/ Truth(o.flags, T)
  BY <1>1 DEF Right, RightFlags
<1> HIDE DEF G
<1>4. ASSUME T = G PROVE RightFlags(Caught(AssignRadicalTrue(o.flags)), o.suspect, o.gens)
  <2> HIDE DEF T
  <2>1. Consistent(AssignRadicalTrue(o.flags))
    BY TrueKeepsClosed
  <2>2. ~Caught(AssignRadicalTrue(o.flags)).raised
    BY <2>1 DEF Consistent, FlagRecord, Caught
  <2>3. Truth(o.flags, T) => Truth(Caught(AssignRadicalTrue(o.flags)), T)
    BY <1>1, <1>2, <1>4, AssignTruth, CaughtIsTrue
  <2> QED BY <1>3, <2>2, <2>3 DEF RightFlags, T
<1>5. ASSUME T # G PROVE RightFlags(AssignRadicalFalse(o.flags), o.suspect, o.gens)
  <2> HIDE DEF T
  <2>1. ~AssignRadicalFalse(o.flags).raised
    <3>1. ~o.flags.raised
      BY DEF Right, RightFlags
    <3> QED BY <3>1 DEF Consistent, Closed, FlagRecord, Bool3, Settled, Checked,
                        AssignRadicalFalse, AssignPrimeFalse, AssignMaximalFalse
  <2>2. Truth(o.flags, T) => Truth(AssignRadicalFalse(o.flags), T)
    BY <1>1, <1>2, <1>5, AssignTruth
  <2> QED BY <1>3, <2>1, <2>2 DEF RightFlags, T
<1>6. ASSUME NEW r \in Radicals_0dim(o)
      PROVE  r.flags = NoFlags /\ RightFlags(AssignRadicalTrue(r.flags), r.suspect, r.gens)
  <2>1. PICK t \in PPs : T = {t}
    <3>1. \E t : T = {t}
      BY DEF ReducedGB
    <3> QED BY <1>1, <3>1
  <2>2. PICK s \in PPs : G = {s} /\ SqFree(s)
    <3>1. G = {<<Min({1, t[1]}), Min({1, t[2]})>>}
      BY <2>1 DEF Radicals, G
    <3> QED BY <1>2, <3>1 DEF AllSqFree
  <2> HIDE DEF T
  <2>3. \A H : New(H).flags = NoFlags /\ DOMAIN New(H) = Fields /\ ~New(H).haveGB
    BY DEF New, Fields
  <2>4. r.flags = NoFlags /\ r.gens \in {{Unit}, G, o.gens \cup G}
    <3>1. Radicals(o.gb) = G
      BY <1>1 DEF G
    <3>2. New(G).gens # {} /\ New(G).gens \in {{Unit}, G}
      BY <2>2, <2>3 DEF New
    <3>3. o.gens # {Unit}
      <4>1. ReducedGB({Unit}) = {Unit}
        BY BasisOfOne DEF Unit
      <4> QED BY <1>1, <4>1 DEF T
    <3>4. CASE r = [New(G) EXCEPT !.haveGB = TRUE, !.gb = G]
      BY <2>3, <3>2, <3>4 DEF Fields
    <3>5. CASE r = myAdd(o, New(G))
      <4>1. \/ r = Reset({Unit})
            \/ \E H \in {{Unit}, o.gens \cup New(G).gens} : \E m, q :
                 r = [Reset(H) EXCEPT !.mono = m, !.sqf = q]
        BY <3>2, <3>3, <3>5 DEF myAdd
      <4>2. \A H : Reset(H).flags = NoFlags /\ Reset(H).gens = H /\ DOMAIN Reset(H) = Fields
        BY <2>3 DEF Reset, Fields
      <4>3. New(G).gens = {Unit} => o.gens \cup New(G).gens = o.gens \cup {Unit}
        OBVIOUS
      <4>4. Unit \in New(G).gens => r.gens = {Unit}
        BY <3>2, <3>3, <3>5, <4>2 DEF myAdd, Fields
      <4>5. Unit \notin New(G).gens => New(G).gens = G
        BY <3>2
      <4>6. r.flags = NoFlags /\ r.gens \in {{Unit}, o.gens \cup New(G).gens}
        BY <4>1, <4>2 DEF Fields
      <4> QED BY <4>4, <4>5, <4>6
    <3> QED BY <1>6, <3>1, <3>4, <3>5 DEF Radicals_0dim
  <2>5. AllSqFree(ReducedGB({Unit})) /\ AllSqFree(ReducedGB(G))
    <3>1. s[1] \in Nat /\ s[2] \in Nat /\ s = <<s[1], s[2]>>
      BY DEF PPs
    <3>2. ReducedGB({Unit}) = {Unit} /\ ReducedGB({<<s[1], s[2]>>}) = {<<s[1], s[2]>>}
      BY <3>1, BasisOfOne DEF Unit
    <3>3. ReducedGB({Unit}) = {Unit} /\ ReducedGB(G) = {s}
      BY <2>2, <3>1, <3>2
    <3>4. SqFree(Unit)
      BY DEF SqFree, Unit
    <3>5. AllSqFree({Unit}) /\ AllSqFree({s})
      BY <2>2, <3>4 DEF AllSqFree
    <3> QED BY <3>3, <3>5
  <2>6. AllSqFree(ReducedGB(o.gens \cup G))
    <3> DEFINE H == o.gens \cup G
               A == {u[1] : u \in H}
               B == {u[2] : u \in H}
    <3>1. H \in SUBSET PPs /\ s \in H /\ s[1] \in Nat /\ s[2] \in Nat
      BY <1>1, <1>2, <2>2 DEF PPs
    <3>2. A \in SUBSET Nat /\ B \in SUBSET Nat /\ s[1] \in A /\ s[2] \in B
      BY <3>1 DEF PPs
    <3>3. ReducedGB(H) = {<<Min(A), Min(B)>>}
      BY <3>1 DEF ReducedGB
    <3> HIDE DEF A, B, H
    <3>4. Min(A) \in Nat /\ Min(B) \in Nat /\ Min(A) <= s[1] /\ Min(B) <= s[2]
      BY <3>2, MinIsLeast
    <3>5. SqFree(<<Min(A), Min(B)>>)
      BY <2>2, <3>1, <3>4 DEF SqFree
    <3> QED BY <3>3, <3>5 DEF AllSqFree, H
  <2> QED BY <2>4, <2>5, <2>6, NoFlagsAreRight
<1> QED BY <1>1, <1>4, <1>5, <1>6 DEF G

(***************************************************************************)
(* The inductive invariant.                                                *)
(***************************************************************************)
\* An object that a call may leave.
Valid(o) == Sound(o) /\ Fresh(o) /\ Right(o)

IInv ==
  /\ P \in Rings
  /\ at \in [Handles -> Ids]
  /\ DOMAIN obj = Ids
  /\ \A i \in Ids : Valid(obj[i])

LEMMA NewIsValid ==
  ASSUME NEW G \in SUBSET PPs
  PROVE  Valid(New(G))
  BY NewIsSound, NewIsFresh, NewIsRight DEF Valid

LEMMA FlagsKeepValid ==
  ASSUME NEW o, Valid(o), NEW f, Consistent(f)
  PROVE  /\ RightFlags(f, o.suspect, o.gens) => Valid([o EXCEPT !.flags = f])
         /\ [o EXCEPT !.flags = f].gens = o.gens
         /\ \A s : StillSuspect(o.suspect, s) /\ RightFlags(f, s, o.gens) =>
              Valid([o EXCEPT !.flags = f, !.suspect = s])
         /\ \A s : [o EXCEPT !.flags = f, !.suspect = s].gens = o.gens
<1>0. DOMAIN o = Fields
  BY DEF Valid, Fresh
<1>1. Sound([o EXCEPT !.flags = f]) /\ \A s : Sound([o EXCEPT !.flags = f, !.suspect = s])
  BY DEF Valid, Sound
<1>2. [o EXCEPT !.flags = f].gens = o.gens /\ \A s : [o EXCEPT !.flags = f, !.suspect = s].gens = o.gens
  BY <1>0 DEF Fields
<1>3. RightFlags(f, o.suspect, o.gens) => Right([o EXCEPT !.flags = f])
  BY <1>0 DEF Fields, Right
<1>4. ASSUME NEW s, RightFlags(f, s, o.gens) PROVE Right([o EXCEPT !.flags = f, !.suspect = s])
  BY <1>0, <1>4 DEF Fields, Right
<1> QED BY <1>1, <1>2, <1>3, <1>4, FlagsKeepFresh DEF Valid

LEMMA QueriesKeepValid ==
  ASSUME NEW o, Valid(o)
  PROVE  /\ Valid(WithMono(o)) /\ Valid(WithGBasis(o)) /\ Valid(WithSqFree(o))
         /\ WithMono(o).gens = o.gens /\ WithGBasis(o).gens = o.gens
         /\ WithSqFree(o).gens = o.gens
         /\ o.haveGB /\ AreMonomials(o.gens) => Valid(myMinimalize(o))
  BY QueriesKeepFlags, QueriesKeepFresh, QueriesKeepRight, MinimalizedIsFresh DEF Valid

LEMMA OperationsKeepValid ==
  ASSUME NEW o, NEW j, Valid(o), Valid(j)
  PROVE  /\ \A op \in Operations : Valid(Operated(op, o, j)) /\ Valid(RightAfter(op, o, j))
         /\ \A op \in Operations : RightAfter(op, o, j).gens = j.gens
         /\ \A X : Valid(Eliminated(o, X))
         /\ IhaveMonomialGens(o) => Valid(radical_MonId(o))
  BY OperationsKeepSound, OperationsKeepFresh, OperationsKeepRight DEF Valid

\* Validity depends on the ring alone.
LEMMA RingDecides ==
  ASSUME P' = P
  PROVE  \A x : Valid(x) <=> Valid(x)'
<1>1. \A x : Sound(x) /\ Fresh(x) <=> Sound(x)' /\ Fresh(x)'
  BY DEF Sound, Consistent, Closed, Univariate, FlagRecord,
         Fresh, Current, Outlived, ReducedGB, AreMonomials, IsMonomial
<1>2. \A f, T : Truth(f, T) <=> Truth(f, T)'
  BY DEF Truth, Match, FlagRecord, Maximal, Prime, Primary, AllSqFree, Univariate
<1>3. \A G : ReducedGB(G)' = ReducedGB(G)
  BY DEF ReducedGB, Univariate
<1>4. \A x : Right(x) <=> Right(x)'
  BY <1>2, <1>3 DEF Right, RightFlags
<1> QED BY <1>1, <1>4 DEF Valid

\* A step of a call that may change the ideal of handle h, and no other.
GoodStep(h) == IInv' /\ \A k \in Handles \ {h} : Value(k)' = Value(k)

\* All calls end by storing objects: it is enough that these are valid, and
\* that those the other handles point to have the generators they had.
LEMMA CommitIsGood ==
  ASSUME IInv, NEW h \in Handles, NEW a \in [Handles -> Ids], NEW o,
         \A i \in Ids : Valid(o[i]),
         \A k \in Handles \ {h} : a[k] = at[k] /\ o[at[k]].gens = obj[at[k]].gens,
         Commit(a, o)
  PROVE  GoodStep(h)
<1>1. P' = P /\ at' = a /\ obj' = [i \in Ids |-> IF i \in Used(a) THEN o[i] ELSE New({})]
  BY DEF Commit
<1>2. \A i \in Ids : obj'[i] = o[i] \/ obj'[i] = New({})
  BY <1>1
<1>3. \A i \in Ids : Valid(obj'[i])
  <2>1. Valid(New({}))
    BY NewIsValid
  <2> QED BY <1>2, <2>1
<1>4. \A x : Valid(x) <=> Valid(x)'
  BY <1>1, RingDecides
<1>5. IInv'
  BY <1>1, <1>3, <1>4 DEF IInv
<1>6. ASSUME NEW k \in Handles \ {h} PROVE Value(k)' = Value(k)
  <2>1. at'[k] = at[k] /\ at[k] \in Used(a) /\ at[k] \in Ids
    BY <1>1 DEF Used, IInv
  <2>2. obj'[at[k]].gens = obj[at[k]].gens
    BY <1>1, <2>1
  <2> QED BY <1>1, <2>1, <2>2 DEF Value, ReducedGB, Univariate
<1> QED BY <1>5, <1>6 DEF GoodStep

LEMMA StoreIsGood ==
  ASSUME IInv, NEW h \in Handles, NEW i \in Ids, \A k \in Handles \ {h} : at[k] # i,
         NEW x, NEW A, Valid(A), A.gens = obj[x].gens, NEW B, Valid(B),
         Commit([at EXCEPT ![h] = i], [obj EXCEPT ![x] = A, ![i] = B])
  PROVE  GoodStep(h)
<1> DEFINE a == [at EXCEPT ![h] = i]
           o == [obj EXCEPT ![x] = A, ![i] = B]
<1>1. a \in [Handles -> Ids]
  BY DEF IInv
<1>2. \A y \in Ids : Valid(o[y])
  BY DEF IInv
<1>3. \A k \in Handles \ {h} : a[k] = at[k] /\ o[at[k]].gens = obj[at[k]].gens
  BY DEF IInv
<1> HIDE DEF a, o
<1>4. Commit(a, o)
  BY DEF a, o
<1> QED BY <1>1, <1>2, <1>3, <1>4, CommitIsGood

LEMMA LearnIsGood ==
  ASSUME IInv, NEW h \in Handles, NEW a \in [Handles -> Ids],
         \A k \in Handles \ {h} : a[k] = at[k],
         NEW x, NEW A, Valid(A), \A k \in Handles \ {h} : at[k] = x => A.gens = obj[x].gens,
         Commit(a, [obj EXCEPT ![x] = A])
  PROVE  GoodStep(h)
<1> DEFINE o == [obj EXCEPT ![x] = A]
<1>1. \A y \in Ids : Valid(o[y])
  BY DEF IInv
<1>2. \A k \in Handles \ {h} : a[k] = at[k] /\ o[at[k]].gens = obj[at[k]].gens
  BY DEF IInv
<1> HIDE DEF o
<1>3. Commit(a, o)
  BY DEF o
<1> QED BY <1>1, <1>2, <1>3, CommitIsGood

LEMMA InitIsValid == Init => IInv
  BY NewIsValid DEF Init, IInv

\* One step for each call.
LEMMA EveryStepIsGood ==
  ASSUME IInv, [Next]_vars
  PROVE  \/ \E h \in Handles : GoodStep(h)
         \/ IInv' /\ \A h \in Handles : Value(h)' = Value(h)
<1>0. /\ \A h \in Handles : at[h] \in Ids /\ Valid(obj[at[h]])
      /\ \A i \in Free : i \in Ids /\ \A h \in Handles : at[h] # i
  BY DEF IInv, Free, Used
<1>1. ASSUME Crash \/ UNCHANGED vars PROVE IInv' /\ \A h \in Handles : Value(h)' = Value(h)
  <2>1. P' = P /\ at' = at /\ obj' = obj
    BY <1>1 DEF Crash, vars
  <2>2. \A x : Valid(x) <=> Valid(x)'
    BY <2>1, RingDecides
  <2>3. \A h \in Handles : Value(h)' = Value(h)
    BY <2>1 DEF Value, ReducedGB, Univariate
  <2> QED BY <2>1, <2>2, <2>3 DEF IInv
<1>2. ASSUME NEW h \in Handles, Construct(h) PROVE GoodStep(h)
  <2>1. PICK G \in P.inputs, i \in Free :
          Commit([at EXCEPT ![h] = i], [obj EXCEPT ![i] = New(G)])
    BY <1>2 DEF Construct, MakeNew
  <2>2. [at EXCEPT ![h] = i] \in [Handles -> Ids]
    BY <1>0 DEF IInv
  <2>3. G \in SUBSET PPs
    BY BoundsAreNats DEF IInv, Poly, PPs
  <2>4. Valid(New(G)) /\ \A k \in Handles \ {h} : [at EXCEPT ![h] = i][k] = at[k] /\ at[k] # i
    BY <1>0, <2>3, NewIsValid DEF IInv
  <2> QED BY <2>1, <2>2, <2>4, LearnIsGood
<1>3. ASSUME NEW h \in Handles, NEW k \in Handles, Commit([at EXCEPT ![h] = at[k]], obj)
      PROVE GoodStep(h)
  BY <1>0, <1>3, CommitIsGood DEF IInv
<1>4. ASSUME NEW h \in Handles, NEW k \in Handles, NEW op \in Operations,
             OpAssign(h, k, op)
      PROVE  GoodStep(h)
  <2> DEFINE o == Operated(op, obj[at[h]], obj[at[k]])
             j == IF k = h THEN obj[at[k]] ELSE RightAfter(op, obj[at[h]], obj[at[k]])
  <2>1. Valid(o) /\ Valid(j) /\ j.gens = obj[at[k]].gens
    BY <1>0, OperationsKeepValid
  <2>2. PICK i \in Ids :
          Unique(h, i) /\ Commit([at EXCEPT ![h] = i], [obj EXCEPT ![at[k]] = j, ![i] = o])
    BY <1>4 DEF OpAssign
  <2>3. \A l \in Handles \ {h} : at[l] # i
    BY <1>0, <2>2 DEF Unique, Sole
  <2> HIDE DEF o, j
  <2> QED BY <2>1, <2>2, <2>3, StoreIsGood
<1>5. ASSUME NEW h \in Handles, NEW k \in Handles, NEW l \in Handles,
             NEW op \in Operations, Combine(h, k, l, op)
      PROVE  GoodStep(h)
  <2> DEFINE o == Operated(op, obj[at[k]], obj[at[l]])
             j == RightAfter(op, obj[at[k]], obj[at[l]])
  <2>1. Valid(o) /\ Valid(j) /\ j.gens = obj[at[l]].gens
    BY <1>0, OperationsKeepValid
  <2>2. PICK i \in Free :
          Commit([at EXCEPT ![h] = i], [obj EXCEPT ![at[l]] = j, ![i] = o])
    BY <1>5 DEF Combine
  <2> HIDE DEF o, j
  <2> QED BY <1>0, <2>1, <2>2, StoreIsGood
<1>6. ASSUME NEW h \in Handles, NEW k \in Handles, elim(h, k) PROVE GoodStep(h)
  <2>1. CASE obj[at[k]].gens = {}
    BY <1>3, <1>6, <2>1 DEF elim
  <2>2. CASE obj[at[k]].gens # {}
    <3>1. PICK X \in IndetSets, i \in Free :
            Commit([at EXCEPT ![h] = i],
                   [obj EXCEPT ![at[k]] = WithMono(obj[at[k]]), ![i] = Eliminated(obj[at[k]], X)])
      BY <1>6, <2>2 DEF elim
    <3>2. /\ Valid(WithMono(obj[at[k]])) /\ WithMono(obj[at[k]]).gens = obj[at[k]].gens
          /\ Valid(Eliminated(obj[at[k]], X))
      BY <1>0, QueriesKeepValid, OperationsKeepValid
    <3> QED BY <1>0, <3>1, <3>2, StoreIsGood
  <2> QED BY <2>1, <2>2
<1>7. ASSUME NEW h \in Handles,
             GBasis(h) \/ GBasisAbandoned(h) \/ AreGensSqFreeMonomial(h)
      PROVE  GoodStep(h)
  <2>1. PICK o \in {WithGBasis(obj[at[h]]), WithMono(obj[at[h]]), WithSqFree(obj[at[h]])} :
          Commit(at, [obj EXCEPT ![at[h]] = o])
    BY <1>7 DEF GBasis, GBasisAbandoned, AreGensSqFreeMonomial, Learn
  <2>2. Valid(o) /\ o.gens = obj[at[h]].gens
    BY <1>0, QueriesKeepValid
  <2> QED BY <2>1, <2>2, LearnIsGood DEF IInv
<1>8. ASSUME NEW h \in Handles, NEW k \in Handles, IdealOfGBasis(h, k) PROVE GoodStep(h)
  <2> DEFINE o == WithGBasis(obj[at[k]])
             n == [New(o.gb) EXCEPT !.haveGB = TRUE, !.gb = o.gb]
  <2>1. Valid(o) /\ o.gens = obj[at[k]].gens
    BY <1>0, QueriesKeepValid
  <2>2. Valid(n)
    <3>2. o.gb \in SUBSET PPs /\ ReducedGB(o.gb) = o.gb
      BY <2>1 DEF Valid, Fresh
    <3>3. Sound(n)
      BY NewIsSound DEF Sound
    <3> HIDE DEF o
    <3>4. Fresh(n)
      BY <3>2, WithItsBasis
    <3>5. n.flags = NoFlags
      BY NewIsSound DEF New
    <3>6. Right(n)
      BY <3>5, NoFlagsAreRight DEF Right
    <3> QED BY <3>3, <3>4, <3>6 DEF Valid
  <2>3. PICK i \in Free :
          Commit([at EXCEPT ![h] = i], [obj EXCEPT ![at[k]] = o, ![i] = n])
    BY <1>8 DEF IdealOfGBasis
  <2> HIDE DEF o, n
  <2> QED BY <1>0, <2>1, <2>2, <2>3, StoreIsGood
<1>9. ASSUME NEW h \in Handles, NEW k \in Handles, IdealOfMinGens(h, k) PROVE GoodStep(h)
  <2> DEFINE mono == IF obj[at[k]].haveGB /\ obj[at[k]].min # {}
                     THEN obj[at[k]] ELSE WithMono(obj[at[k]])
             o == WithGBasis(mono)
             n == myMinimalize(o)
  <2>1. /\ Valid(mono) /\ mono.gens = obj[at[k]].gens
        /\ Valid(o) /\ o.gens = obj[at[k]].gens
        /\ AreMonomials(obj[at[k]].gens) => Valid(n)
    <3>1. Valid(mono) /\ mono.gens = obj[at[k]].gens
      BY <1>0, QueriesKeepValid
    <3> HIDE DEF mono
    <3>2. Valid(o) /\ o.haveGB /\ o.gens = mono.gens
      BY <3>1, QueriesKeepValid, QueriesKeepFresh DEF Valid
    <3> HIDE DEF o
    <3> QED BY <3>1, <3>2, QueriesKeepValid
  <2>2. \/ \E A \in {mono, o} : Commit(at, [obj EXCEPT ![at[k]] = A])
        \/ /\ AreMonomials(obj[at[k]].gens)
           /\ \E i \in Free, A \in {mono, o} :
                Commit([at EXCEPT ![h] = i], [obj EXCEPT ![at[k]] = A, ![i] = n])
    BY <1>9 DEF IdealOfMinGens
  <2> HIDE DEF mono, o, n
  <2>3. ASSUME NEW A \in {mono, o}, Commit(at, [obj EXCEPT ![at[k]] = A]) PROVE GoodStep(h)
    BY <2>1, <2>3, LearnIsGood DEF IInv
  <2>4. ASSUME AreMonomials(obj[at[k]].gens), NEW A \in {mono, o}, NEW i \in Free,
               Commit([at EXCEPT ![h] = i], [obj EXCEPT ![at[k]] = A, ![i] = n])
        PROVE  GoodStep(h)
    BY <1>0, <2>1, <2>4, StoreIsGood
  <2> QED BY <2>2, <2>3, <2>4
<1>10. ASSUME NEW h \in Handles, NEW k \in Handles, radical(h, k) PROVE GoodStep(h)
  <2> DEFINE o == obj[at[k]]
             mono == WithMono(o)
             known == WithGBasis(mono)
             f == AssignRadicalTrue(o.flags)
  <2>1. Valid(o) /\ Valid(mono) /\ Valid(known) /\ mono.gens = o.gens /\ known.gens = o.gens
    BY <1>0, QueriesKeepValid
  <2>2. Consistent(f) /\ Consistent(Caught(f)) /\ Consistent(AssignRadicalFalse(known.flags))
    BY <2>1, TrueKeepsClosed, FalseKeepsClosed, AssignKeepsClosed DEF Valid, Sound, Props
  <2> DEFINE general == /\ o.flags.radical # "true" /\ o.gens # {}
                        /\ ~IhaveMonomialGens(o) /\ known.gb # {Unit}
  <2>0. ASSUME general
        PROVE  /\ Univariate /\ known.flags = o.flags /\ known.gens = o.gens
               /\ "gens" \notin known.suspect
               /\ known.gb = ReducedGB(o.gens)
               /\ known.gb = Radicals(known.gb) =>
                    RightFlags(Caught(f), known.suspect, known.gens)
               /\ known.gb # Radicals(known.gb) =>
                    RightFlags(AssignRadicalFalse(known.flags), known.suspect, known.gens)
               /\ \A r \in Radicals_0dim(known) :
                    /\ r.flags = NoFlags
                    /\ RightFlags(AssignRadicalTrue(r.flags), r.suspect, r.gens)
    <3>1. Univariate /\ "gens" \notin o.suspect
      BY <1>0, <2>0, MonoIsKnown DEF Valid
    <3>2. mono.flags = o.flags /\ known.flags = mono.flags
      BY <2>1, QueriesKeepFlags DEF Valid
    <3>3. /\ known.gens = o.gens /\ known.haveGB
          /\ mono.suspect = o.suspect /\ known.suspect = o.suspect
      BY <2>1, QueriesKeepFresh, QueriesKeepRight DEF Valid
    <3>5. known.gb = ReducedGB(o.gens)
      BY <2>1, <3>1, <3>3 DEF Valid, Fresh, Current
    <3>4. Fresh(known) /\ Right(known) /\ Consistent(known.flags)
      BY <2>1 DEF Valid, Sound
    <3> HIDE DEF known, o, mono
    <3> QED BY <2>0, <3>1, <3>2, <3>3, <3>4, <3>5, RadicalIsRight
  <2>3. /\ general /\ known.gb = Radicals(known.gb) => Valid([known EXCEPT !.flags = Caught(f)])
        /\ [known EXCEPT !.flags = Caught(f)].gens = o.gens
        /\ general /\ known.gb # Radicals(known.gb) =>
             Valid([known EXCEPT !.flags = AssignRadicalFalse(@)])
        /\ [known EXCEPT !.flags = AssignRadicalFalse(@)].gens = o.gens
    <3> HIDE DEF known, f, o, general
    <3> QED BY <2>0, <2>1, <2>2, FlagsKeepValid
  <2>4. ASSUME general, NEW r \in Radicals_0dim(known)
        PROVE  Valid([r EXCEPT !.flags = AssignRadicalTrue(@)])
    <3>1. Sound(myAdd(known, New(Radicals(known.gb))))
      BY <2>1, NewIsSound, OperationsKeepSound DEF Operated, Operations, Valid
    <3>2. Sound(r)
      BY <3>1, NewIsSound DEF Radicals_0dim, Sound
    <3>3. Fresh(known) /\ o.gens # {}
      BY <2>1, <2>4 DEF Valid
    <3> HIDE DEF known, o, general
    <3>4. Fresh(r)
      BY <2>0, <2>4, <3>3, RadicalIsFresh
    <3>5. Consistent(AssignRadicalTrue(r.flags))
      BY <3>2, TrueKeepsClosed DEF Sound
    <3>6. r.flags = NoFlags /\ RightFlags(AssignRadicalTrue(r.flags), r.suspect, r.gens)
      BY <2>0, <2>4
    <3>7. Right(r)
      BY <3>6, NoFlagsAreRight DEF Right
    <3> QED BY <3>2, <3>4, <3>5, <3>6, <3>7, FlagsKeepValid DEF Valid
  <2>5. (IhaveMonomialGens(o) => Valid(radical_MonId(o))) /\ Valid(New({Unit}))
    <3>1. {Unit} \in SUBSET PPs
      BY DEF Unit, PPs
    <3> QED BY <2>1, <3>1, OperationsKeepValid, NewIsValid
  <2>6. CASE o.flags.radical = "true" \/ o.gens = {}
    BY <1>3, <1>10, <2>6 DEF radical
  <2>7. CASE ~(o.flags.radical = "true" \/ o.gens = {}) /\ IhaveMonomialGens(o)
    <3>1. PICK i \in Free :
            Commit([at EXCEPT ![h] = i], [obj EXCEPT ![at[k]] = mono, ![i] = radical_MonId(o)])
      BY <1>10, <2>7 DEF radical
    <3> HIDE DEF o, mono
    <3> QED BY <1>0, <2>1, <2>5, <2>7, <3>1, StoreIsGood DEF o
  <2>8. CASE /\ ~(o.flags.radical = "true" \/ o.gens = {}) /\ ~IhaveMonomialGens(o)
             /\ known.gb = {Unit}
    <3>1. PICK i \in Free :
            Commit([at EXCEPT ![h] = i], [obj EXCEPT ![at[k]] = known, ![i] = New({Unit})])
      BY <1>10, <2>8 DEF radical
    <3> HIDE DEF known
    <3> QED BY <1>0, <2>1, <2>5, <3>1, StoreIsGood
  <2>9. CASE /\ ~(o.flags.radical = "true" \/ o.gens = {}) /\ ~IhaveMonomialGens(o)
             /\ known.gb # {Unit} /\ known.gb = Radicals(known.gb)
    <3>1. PICK a \in {at, [at EXCEPT ![h] = at[k]]} :
            Commit(a, [obj EXCEPT ![at[k]] = [known EXCEPT !.flags = Caught(f)]])
      BY <1>10, <2>9 DEF radical
    <3>2. a \in [Handles -> Ids] /\ \A l \in Handles \ {h} : a[l] = at[l]
      BY <1>0 DEF IInv
    <3> DEFINE n == [known EXCEPT !.flags = Caught(f)]
    <3> HIDE DEF known, f, n
    <3>3. Commit(a, [obj EXCEPT ![at[k]] = n])
      BY <3>1 DEF n
    <3>4. Valid(n) /\ n.gens = obj[at[k]].gens
      BY <2>3, <2>9 DEF n
    <3> QED BY <3>2, <3>3, <3>4, LearnIsGood
  <2>10. CASE /\ ~(o.flags.radical = "true" \/ o.gens = {}) /\ ~IhaveMonomialGens(o)
              /\ known.gb # {Unit} /\ known.gb # Radicals(known.gb)
    <3>1. PICK i \in Free, r \in Radicals_0dim(known) :
            Commit([at EXCEPT ![h] = i],
              [obj EXCEPT ![at[k]] = [known EXCEPT !.flags = AssignRadicalFalse(@)],
                          ![i] = [r EXCEPT !.flags = AssignRadicalTrue(@)]])
      BY <1>10, <2>10 DEF radical
    <3> DEFINE n == [known EXCEPT !.flags = AssignRadicalFalse(@)]
               m == [r EXCEPT !.flags = AssignRadicalTrue(@)]
    <3>2. Valid(m)
      BY <2>4, <2>10
    <3>3. Valid(n) /\ n.gens = obj[at[k]].gens
      BY <2>3, <2>10
    <3> HIDE DEF known, f, n, m
    <3>4. Commit([at EXCEPT ![h] = i], [obj EXCEPT ![at[k]] = n, ![i] = m])
      BY <3>1 DEF n, m
    <3> QED BY <1>0, <3>2, <3>3, <3>4, StoreIsGood
  <2> QED BY <2>6, <2>7, <2>8, <2>9, <2>10
<1>11. ASSUME NEW h \in Handles, NEW p \in Props, Ask(h, p) PROVE GoodStep(h)
  <2> DEFINE o == WithGBasis(obj[at[h]])
             n == IF p = "radical" THEN WithMono(o) ELSE o
  <2>1. Valid(o) /\ Valid(n) /\ o.gens = obj[at[h]].gens /\ n.gens = obj[at[h]].gens
    BY <1>0, QueriesKeepValid
  <2>2. CASE Crash
    BY <1>1, <2>2 DEF GoodStep
  <2>3. CASE Learn(h, o)
    <3> HIDE DEF o
    <3> QED BY <2>1, <2>3, LearnIsGood DEF Learn, IInv
  <2>4. CASE ~IamOne(o) /\ \E f \in Tested(o, p) : Learn(h, [n EXCEPT !.flags = Caught(f)])
    <3>1. PICK f \in Tested(o, p) : Commit(at, [obj EXCEPT ![at[h]] = [n EXCEPT !.flags = Caught(f)]])
      BY <2>4 DEF Learn
    <3>2. Consistent(Caught(f)) /\ ~Caught(f).raised
      <4>1. Consistent(f)
        BY <2>1, TestsKeepClosed DEF Valid
      <4> QED BY <4>1, AssignKeepsClosed DEF Props, Consistent, FlagRecord, Caught
    <3>3. RightFlags(Caught(f), n.suspect, n.gens)
      <4> DEFINE T == ReducedGB(o.gens)
      <4>1. n.suspect = o.suspect /\ n.gens = o.gens
        BY <2>1, QueriesKeepRight DEF Valid
      <4>2. o.gens \in SUBSET PPs /\ o.haveGB /\ ~IamOne(o)
        BY <1>0, <2>1, <2>4, QueriesKeepFresh DEF Valid, Fresh
      <4>3. CASE "gens" \in o.suspect
        <5> HIDE DEF o, n
        <5> QED BY <3>2, <4>1, <4>3 DEF RightFlags
      <4>4. CASE "gens" \notin o.suspect
        <5>1. o.gb = T
          BY <2>1, <4>2, <4>4 DEF Valid, Fresh, Current
        <5>2. Unit \notin T /\ T \in SUBSET PPs
          BY <4>2, <5>1, BasisFacts DEF IamOne
        <5>3. Basis(o, T)
          <6>1. ~IhaveMonomialGens(o) => Univariate
            BY <2>1, MonoIsKnown DEF Valid
          <6> QED BY <2>1, <4>2, <5>1, <5>2, <6>1 DEF Basis, Valid, Sound
        <5>4. o.suspect \cap {"kept", "lied", "gens"} # {} \/ Truth(o.flags, T)
          BY <2>1, <5>2 DEF Valid, Right, RightFlags
        <5>5. Truth(o.flags, T) => Truth(Caught(f), T)
          <6> HIDE DEF o, T
          <6> QED BY <5>3, TestsTellTheTruth, CaughtIsTrue
        <5> HIDE DEF o, n
        <5> QED BY <3>2, <4>1, <5>4, <5>5 DEF RightFlags
      <4> QED BY <4>3, <4>4
    <3> DEFINE m == [n EXCEPT !.flags = Caught(f)]
    <3> HIDE DEF n
    <3>4. Valid(m) /\ m.gens = obj[at[h]].gens
      BY <2>1, <3>2, <3>3, FlagsKeepValid
    <3> HIDE DEF m
    <3>5. Commit(at, [obj EXCEPT ![at[h]] = m])
      BY <3>1 DEF m
    <3> QED BY <3>4, <3>5, LearnIsGood DEF IInv
  <2> QED BY <1>11, <2>2, <2>3, <2>4 DEF Ask
<1>12. ASSUME NEW h \in Handles, NEW p \in Props, NEW b \in BOOLEAN, AssertFlag(h, p, b)
       PROVE  GoodStep(h)
  <2> DEFINE o == obj[at[h]]
             f == AssignFlag(o.flags, p, b)
             s == o.suspect \cup (IF f.raised \/ b = Holds(p, o.gens) THEN {} ELSE {"lied"})
             n == [o EXCEPT !.flags = Caught(f), !.suspect = s]
  <2>1. Valid(o)
    BY <1>0
  <2>2. Consistent(Caught(f))
    BY <2>1, AssignKeepsClosed DEF Valid, Sound
  <2>3. Valid(n) /\ n.gens = o.gens
    <3>1. StillSuspect(o.suspect, s)
      BY DEF StillSuspect
    <3> DEFINE T == ReducedGB(o.gens)
    <3>2. Consistent(o.flags) /\ Consistent(f) /\ ~o.flags.raised /\ o.gens \in SUBSET PPs
          /\ \/ o.suspect \cap {"kept", "lied", "gens"} # {}
             \/ Unit \in T
             \/ Truth(o.flags, T)
      BY <2>1, AssignKeepsClosed DEF Valid, Sound, Fresh, Right, RightFlags
    <3>3. o.suspect \cap {"kept", "lied", "gens"} \subseteq s \cap {"kept", "lied", "gens"}
      OBVIOUS
    <3>4. f.raised \/ b = Holds(p, o.gens) \/ "lied" \in s
      OBVIOUS
    <3> HIDE DEF s, o
    <3>5. f.raised => Caught(f) = o.flags
      BY <3>2, ThrownChangesNothing
    <3>6. ASSUME Truth(o.flags, T), Unit \notin T, b = Holds(p, o.gens)
          PROVE  Truth(Caught(f), T)
      <4>1. Proper(o.gens) /\ T \in SUBSET PPs
        BY <3>2, <3>6, BasisFacts DEF Proper
      <4>2. b = Is(p, T)
        BY <3>6, <4>1, HoldsIs
      <4> QED BY <3>6, <4>1, <4>2, AssignTruth, CaughtIsTrue
    <3>7. ~Caught(f).raised
      BY <3>2 DEF Consistent, FlagRecord, Caught
    <3>8. RightFlags(Caught(f), s, o.gens)
      <4> HIDE DEF f
      <4> QED BY <3>2, <3>3, <3>4, <3>5, <3>6, <3>7 DEF RightFlags
    <3> HIDE DEF f
    <3> QED BY <2>1, <2>2, <3>1, <3>8, FlagsKeepValid
  <2>4. Commit(at, [obj EXCEPT ![at[h]] = n])
    BY <1>12 DEF AssertFlag
  <2> HIDE DEF n
  <2> QED BY <2>3, <2>4, LearnIsGood DEF IInv
<1>13. CASE Make \/ MakeAssertion
  BY <1>13, <1>2, <1>4, <1>5, <1>6, <1>8, <1>9, <1>10, <1>12 DEF Make, MakeAssertion
<1>14. CASE CopyOrQuery
  BY <1>14, <1>3, <1>7, <1>11 DEF CopyOrQuery, Copy
<1>15. CASE \E h \in Handles : AddToItself(h)
  BY <1>1, <1>15 DEF AddToItself
<1> QED BY <1>1, <1>13, <1>14, <1>15 DEF Next

LEMMA NextKeepsIInv == IInv /\ [Next]_vars => IInv'
  BY EveryStepIsGood DEF GoodStep

\* ideal.C:414-495: after any calls, false assertions and unfinished tests
\* included, the four flags of every ideal agree.
THEOREM FlagsAlwaysAgree == Spec => []FlagsAgree
<1>1. IInv => FlagsAgree
  BY DEF IInv, Valid, Sound, Consistent, FlagsAgree
<1> QED BY InitIsValid, NextKeepsIInv, <1>1, PTL DEF Spec

\* What true flags say of a proper ideal.
LEMMA TruthIsTrue ==
  ASSUME NEW o, o.gens \in SUBSET PPs, Right(o), Proper(o.gens), NEW p \in Props
  PROVE  \/ o.suspect \cap {"kept", "lied", "gens"} # {}
         \/ o.gens = {} /\ Univariate /\ p \in {"prime", "maximal"}
         \/ FlagIsTrue(o, p)
<1> DEFINE T == ReducedGB(o.gens)
<1>1. Unit \notin T
  BY BasisFacts DEF Proper
<1>2. T = {} /\ Univariate => o.gens = {}
  BY DEF ReducedGB
<1>3. Holds(p, o.gens) = Is(p, T)
  BY HoldsIs
<1>4. o.suspect \cap {"kept", "lied", "gens"} # {} \/ Truth(o.flags, T)
  BY <1>1 DEF Right, RightFlags
<1> HIDE DEF T
<1>5. ASSUME Truth(o.flags, T), ~(o.gens = {} /\ Univariate /\ p \in {"prime", "maximal"})
      PROVE  Agrees(o.flags[p], Is(p, T))
  BY <1>2, <1>5 DEF Truth, Match, Is, Props
<1> QED BY <1>3, <1>4, <1>5 DEF FlagIsTrue, Agrees

\* SparsePolyOps-ideal.C:382: flags that a test has found, or a client
\* asserted rightly, are true through all the calls that reset them, share
\* them, or learn more.
THEOREM FlagsAreAlwaysTrueUnlessKept == Spec => []FlagsAreTrueUnlessKept
<1>1. ASSUME IInv PROVE FlagsAreTrueUnlessKept
  <2> SUFFICES ASSUME NEW i \in Ids, NEW p \in Props, Proper(obj[i].gens)
               PROVE  \/ obj[i].suspect \cap {"kept", "lied", "gens"} # {}
                      \/ obj[i].gens = {} /\ Univariate /\ p \in {"prime", "maximal"}
                      \/ FlagIsTrue(obj[i], p)
    BY DEF FlagsAreTrueUnlessKept
  <2>1. obj[i].gens \in SUBSET PPs /\ Right(obj[i])
    BY <1>1 DEF IInv, Valid, Fresh
  <2> QED BY <2>1, TruthIsTrue
<1> QED BY InitIsValid, NextKeepsIInv, <1>1, PTL DEF Spec

\* SparsePolyOps-ideal.C:725: whatever operations and queries went before, by
\* whichever handles, a cached Groebner basis is of the present generators, and
\* what is believed of these is true; except in an ideal whose generators were
\* replaced, by IdealOfMinGens, by minimal ones that an operation on monomial
\* generators had left stale, and as long as it has those.
THEOREM CachesAreAlwaysCurrent == Spec => []CachesAreCurrent
<1>1. IInv => CachesAreCurrent
  BY DEF IInv, Valid, Fresh, Current, AllSqFree, CachesAreCurrent
<1> QED BY InitIsValid, NextKeepsIInv, <1>1, PTL DEF Spec

\* ideal.C:147: no call changes the ideals of two handles, for any number of
\* handles that share objects.
THEOREM HandlesAlwaysAreValues == Spec => HandlesAreValues
<1>1. IInv /\ [Next]_vars =>
        [\A h, k \in Handles : h # k => Value(h)' = Value(h) \/ Value(k)' = Value(k)]_vars
  BY EveryStepIsGood DEF GoodStep
<1> QED BY InitIsValid, NextKeepsIInv, <1>1, PTL DEF Spec, HandlesAreValues
=============================================================================
