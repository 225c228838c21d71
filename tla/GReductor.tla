----------------------------- MODULE GReductor -----------------------------
(***************************************************************************)
(* Buchberger's algorithm as TmpGReductor.C runs it: a queue of pairs, of  *)
(* which criteria keep only some, and a basis that grows by what the       *)
(* S-polynomials reduce to.  A polynomial is its leading power product and *)
(* component; what a reduction yields is left open (zero, or any leading   *)
(* term that no reducer divides and that the ordering allows), so the      *)
(* model has the runs of every ideal and coefficient field.  The sugar is  *)
(* not modelled: where it decides, any queued pair may come first.         *)
(***************************************************************************)
EXTENDS Integers, FiniteSets, SequencesExt

CONSTANTS Monomials,      \* exponent vectors, closed under division and lcm
          Before(_, _),   \* the term ordering on Monomials
          Components,     \* the generators of a module
          InputLists,     \* lists of leading terms of input polynomials; the
                          \* component is 0 when they generate an ideal
          Modes,          \* records of alg and homog
          TruncDegs,      \* values of mySetTruncDeg, or ourNoTruncValue
          ElimInds,       \* the product of the indeterminates to eliminate
          MaxGB(_)        \* bound on the length of the basis, for each mode

ASSUME MonomialsAreVectors ==
  /\ Monomials # {} /\ Monomials \subseteq Seq(Nat)
  /\ \A a, b \in Monomials : Len(a) = Len(b)
ASSUME InputsAreTerms ==
  InputLists \subseteq Seq([pp : Monomials, comp : Components \union {0}])
ASSUME ModesAreRecords ==
  Modes \subseteq [alg : {"standard", "saturating", "radical", "elimFirst"},
                   homog : BOOLEAN]
ASSUME TruncDegsAreDegrees == TruncDegs \subseteq Nat \union {-1}

VARIABLES mode, inputs, myGB, myPairs, myTruncDeg, phase,
          answer,         \* what myDoGBasisElimFirst returned: <<>> or <<term>>
          treated         \* pairs whose S-polynomial was reduced (history)
vars == <<mode, inputs, myGB, myPairs, myTruncDeg, phase, answer, treated>>

ourNoTruncValue == -1

(***************************************************************************)
(* Power products.                                                         *)
(***************************************************************************)
Indets == 1..Len(CHOOSE m \in Monomials : TRUE)
One == [i \in Indets |-> 0]
Deg(m) ==
  LET sum[i \in 0..Len(m)] == IF i = 0 THEN 0 ELSE sum[i - 1] + m[i]
  IN  sum[Len(m)]
Divides(a, b) == \A i \in Indets : a[i] <= b[i]
Lcm(a, b) == [i \in Indets |-> IF a[i] < b[i] THEN b[i] ELSE a[i]]
IsCoprime(a, b) == \A i \in Indets : a[i] = 0 \/ b[i] = 0
Reduces(g, t) == g.comp = t.comp /\ Divides(g.pp, t.pp)

\* The coprime criterion "works only for REAL ideals" (myPrepareGBasis).
IamModule == \E i \in DOMAIN inputs : inputs[i].comp # 0
myCoprime == ~IamModule

(***************************************************************************)
(* Pairs.  An input pair stands for inputs[first]; an S-pair is two basis  *)
(* elements.                                                               *)
(***************************************************************************)
IsInputPoly(p) == p.second = 0
InputPair(i) == [first |-> i, second |-> 0]
GPair(i, j) == [first |-> i, second |-> j]
LCM(p) == IF IsInputPoly(p) THEN inputs[p.first].pp
          ELSE Lcm(myGB[p.first].pp, myGB[p.second].pp)
WDeg(p) == Deg(LCM(p))

\* GPair::operator< when degrees decide: equal degrees put S-pairs first.
Bug_InputsFirst(p, q) ==
  \/ WDeg(p) < WDeg(q)
  \/ WDeg(p) = WDeg(q) /\ IsInputPoly(p) /\ ~IsInputPoly(q)
Less(p, q) ==
  \/ WDeg(p) < WDeg(q)
  \/ WDeg(p) = WDeg(q) /\ ~IsInputPoly(p) /\ IsInputPoly(q)
  \/ /\ WDeg(p) = WDeg(q) /\ IsInputPoly(p) = IsInputPoly(q)
     /\ Before(LCM(p), LCM(q))
ByDegree == mode.homog /\ mode.alg \in {"standard", "elimFirst"}
MayBeFront(p) == ByDegree => \A q \in myPairs : ~Less(q, p)

(***************************************************************************)
(* New pairs of the last element of a basis gb with the active ones before *)
(* it.  myGMInsert keeps, among pairs whose lcms divide one another, the   *)
(* one with the smallest; of equal ones a coprime pair is kept, since it   *)
(* costs nothing.                                                          *)
(***************************************************************************)
NewLcm(gb, i) == Lcm(gb[i].pp, Last(gb).pp)
NewCoprime(gb, i) == IsCoprime(gb[i].pp, Last(gb).pp)
GMInsert(gb, L, i) ==
  LET dividing == {k \in L : Divides(NewLcm(gb, k), NewLcm(gb, i))}
      equal    == {k \in dividing : NewLcm(gb, k) = NewLcm(gb, i)}
  IN  CASE dividing = {} ->
             {k \in L : ~Divides(NewLcm(gb, i), NewLcm(gb, k))} \union {i}
        [] equal # {} /\ NewCoprime(gb, i) -> (L \ equal) \union {i}
        [] OTHER -> L

BuildNewPairs(gb) ==
  LET n == Len(gb)
      kept[i \in 0..n - 1] ==
        IF i = 0 THEN {}
        ELSE IF gb[i].active /\ gb[i].comp = gb[n].comp THEN GMInsert(gb, kept[i - 1], i)
        ELSE kept[i - 1]
  IN  {GPair(i, n) : i \in {k \in kept[n - 1] : ~(myCoprime /\ NewCoprime(gb, k))}}

\* The new polynomial stands between the two of an older pair, strictly.
Bug_BCriterionNotStrict(new, p) ==
  /\ ~IsInputPoly(p)
  /\ myGB[p.first].comp = new.comp
  /\ Divides(new.pp, LCM(p))
BCriterionKills(new, p) ==
  /\ ~IsInputPoly(p)
  /\ myGB[p.first].comp = new.comp
  /\ Divides(new.pp, LCM(p))
  /\ Lcm(myGB[p.second].pp, new.pp) # LCM(p)
  /\ Lcm(myGB[p.first].pp, new.pp) # LCM(p)

\* Older elements whose leading term the new one divides make no more pairs.
Deactivated(gb, new) ==
  [i \in DOMAIN gb |-> [gb[i] EXCEPT !.active = @ /\ ~Reduces(new, gb[i])]]

Element(t, isMinimal) ==
  [pp |-> t.pp, comp |-> t.comp, active |-> TRUE, minimal |-> isMinimal]

WithTreated(p) ==
  IF IsInputPoly(p) THEN treated ELSE treated \union {{p.first, p.second}}

\* myUpdateBasisAndPairs for the result t of pair p.  The partners of new pairs
\* are those that were active before.
UpdateBasisAndPairs(p, t) ==
  LET new == Element(t, IsInputPoly(p))
      gb  == Append(myGB, new)
  IN  IF t.pp = One /\ ~IamModule
      THEN /\ myGB' = <<new>>
           /\ myPairs' = {}
           /\ treated' = {}
      ELSE /\ myGB' = Append(Deactivated(myGB, new), new)
           /\ myPairs' = {q \in myPairs \ {p} : ~BCriterionKills(new, q)}
                           \union BuildNewPairs(gb)
           /\ treated' = WithTreated(p)

(***************************************************************************)
(* Reductions.                                                             *)
(***************************************************************************)
Terms == [pp : Monomials, comp : IF IamModule THEN Components ELSE {0}]
Irreducible(t) == \A i \in DOMAIN myGB : ~Reduces(myGB[i], t)
Start(p) == IF IsInputPoly(p) THEN inputs[p.first]
            ELSE [pp |-> LCM(p), comp |-> myGB[p.first].comp]

\* What the leading term of pair p may be reduced to, if not to zero.  An input
\* polynomial keeps its leading term when nothing reduces it.
Reductions(p) ==
  IF IsInputPoly(p) /\ Irreducible(Start(p)) THEN {Start(p)}
  ELSE {t \in Terms : /\ Irreducible(t)
                      /\ (t.comp # Start(p).comp \/ Before(t.pp, Start(p).pp))
                      /\ (mode.homog => Deg(t.pp) = Deg(Start(p).pp))}
RoomInGB == Len(myGB) < MaxGB(mode)
MayVanish(p) == IsInputPoly(p) => ~Irreducible(Start(p))

\* smart_dehomog divides by a power of the last indeterminate; RealRadical(f)
\* is some divisor of f's radical, 1 included.
H == Len(One)
Improved(t) ==
  CASE mode.alg = "saturating" ->
         {[t EXCEPT !.pp[H] = k] : k \in 0..t.pp[H]}
    [] mode.alg = "radical" ->
         {[t EXCEPT !.pp = d] : d \in {m \in Monomials : Divides(m, t.pp)}}
    [] OTHER -> {t}

(***************************************************************************)
(* The main loops.  They differ in what is done with a nonzero result and, *)
(* for myDoGBasis, in the truncation.                                      *)
(***************************************************************************)
Init ==
  /\ mode \in Modes
  /\ inputs \in InputLists
  /\ myGB = <<>>
  /\ myPairs = {InputPair(i) : i \in DOMAIN inputs}
  /\ myTruncDeg \in IF mode.homog /\ mode.alg = "standard" THEN TruncDegs
                    ELSE {ourNoTruncValue}
  /\ phase = "loop"
  /\ answer = <<>>
  /\ treated = {}

\* After each pair: the basis is complete, or the next pair has a degree beyond
\* the truncation (the degrees are those of the updated basis and pairs).
IncomingWDeg == CHOOSE d \in {WDeg(p) : p \in myPairs} : \A p \in myPairs : d <= WDeg(p)
Truncated == myTruncDeg # ourNoTruncValue /\ myTruncDeg < IncomingWDeg
Bug_TruncDegKept ==
  /\ myTruncDeg' = myTruncDeg
  /\ phase' = IF IF myPairs' = {} THEN TRUE ELSE Truncated' THEN "final" ELSE "loop"
EndOfLoop ==
  IF myPairs' = {}
  THEN phase' = "final" /\ myTruncDeg' = ourNoTruncValue
  ELSE /\ UNCHANGED myTruncDeg
       /\ phase' = IF Truncated' THEN "final" ELSE "loop"

ReduceToZero(p) ==
  /\ MayVanish(p)
  /\ myPairs' = myPairs \ {p}
  /\ treated' = WithTreated(p)
  /\ UNCHANGED <<myGB, answer>>
  /\ EndOfLoop

NewPolyInGB(p) ==
  (RoomInGB \/ IsInputPoly(p)) /\ \E t \in Reductions(p) :
    /\ ~(mode.alg = "elimFirst" /\ IsCoprime(t.pp, ElimInds))
    /\ \E u \in Improved(t) : UpdateBasisAndPairs(p, u)
    /\ UNCHANGED answer
    /\ EndOfLoop

\* myDoGBasisElimFirst returns the first polynomial free of ElimInds.
FirstElimPolyFound(p) ==
  /\ mode.alg = "elimFirst"
  /\ \E t \in Reductions(p) :
       IsCoprime(t.pp, ElimInds) /\ answer' = <<t>>
  /\ myPairs' = myPairs \ {p}
  /\ phase' = "found"
  /\ UNCHANGED <<myGB, myTruncDeg, treated>>

\* myFinalizeGBasis: unless degrees made it superfluous, elements which another
\* usable reducer reduces are erased, one after another.
Bug_ErasedAtOnce ==
  {i \in DOMAIN myGB : \E k \in DOMAIN myGB : Reduces(myGB[k], myGB[i])}
Erased ==
  LET gone[i \in 0..Len(myGB)] ==
        IF i = 0 THEN {}
        ELSE IF \E k \in DOMAIN myGB \ (gone[i - 1] \union {i}) : Reduces(myGB[k], myGB[i])
        THEN gone[i - 1] \union {i}
        ELSE gone[i - 1]
  IN  gone[Len(myGB)]
FinalizeGBasis ==
  /\ phase = "final"
  /\ phase' = "done"
  /\ myGB' = IF mode.homog /\ mode.alg # "saturating" THEN myGB
             ELSE [i \in DOMAIN myGB |->
                     [myGB[i] EXCEPT !.active = @ /\ i \notin Erased]]
  /\ UNCHANGED <<myPairs, myTruncDeg, answer, treated>>

ReduceCurrentSPoly ==
  /\ phase = "loop"
  /\ \E p \in myPairs :
       /\ MayBeFront(p)
       /\ ReduceToZero(p) \/ NewPolyInGB(p) \/ FirstElimPolyFound(p)

Next ==
  /\ UNCHANGED <<mode, inputs>>
  /\ ReduceCurrentSPoly \/ FinalizeGBasis

Spec == Init /\ [][Next]_vars

(***************************************************************************)
(* Properties.                                                             *)
(***************************************************************************)

\* Two elements of a basis are joined below t when a chain of elements dividing
\* t leads from one to the other, each pair of neighbours having an S-polynomial
\* that vanishes modulo smaller terms: it was treated, or the two are coprime
\* (in an ideal), or it is still queued.  Stated by cuts instead of chains.
Linked(i, j, t) ==
  /\ Divides(Lcm(myGB[i].pp, myGB[j].pp), t)
  /\ \/ {i, j} \in treated
     \/ myCoprime /\ IsCoprime(myGB[i].pp, myGB[j].pp)
     \/ \E p \in myPairs : ~IsInputPoly(p) /\ {p.first, p.second} = {i, j}
Joined(i, j) ==
  LET t       == Lcm(myGB[i].pp, myGB[j].pp)
      between == {k \in DOMAIN myGB : myGB[k].comp = myGB[i].comp /\ Divides(myGB[k].pp, t)}
  IN  \A S \in SUBSET between :
        i \in S /\ j \notin S => \E a \in S, b \in between \ S : Linked(a, b, t)

\* Whatever pairs myGMInsert, the B-criterion, the coprime criterion and the
\* deactivation of elements have dropped, in whatever order, each S-polynomial is
\* a consequence of pairs treated or still to be treated.  With no pair left
\* this is Buchberger's criterion: the result is a Groebner basis.
EveryPairAccounted ==
  phase # "found" =>
    \A i, j \in DOMAIN myGB : i < j /\ myGB[i].comp = myGB[j].comp => Joined(i, j)

\* Homogeneous input is worked off degree by degree: nothing of a lower degree
\* than what is in the basis, or than the answer, is ever queued, and when an
\* input polynomial is made a minimal generator no S-polynomial of its degree
\* is left that could still reduce it.
DegreeByDegree ==
  ByDegree =>
    \A p \in myPairs :
      /\ \A i \in DOMAIN myGB :
           /\ WDeg(p) >= Deg(myGB[i].pp)
           /\ myGB[i].minimal /\ ~IsInputPoly(p) => WDeg(p) > Deg(myGB[i].pp)
      /\ \A i \in DOMAIN answer : WDeg(p) >= Deg(answer[i].pp)

\* The truncation degree at the end tells the caller whether the basis is
\* complete; if not, it is at least complete up to that degree, and the minimal
\* generators which ComputeGBasisTrunc2 exports are all known.
Exported == {i \in DOMAIN myGB : myGB[i].active}
MinGensExported == \A i \in DOMAIN inputs : Deg(inputs[i].pp) <= myTruncDeg
TruncationIsReported ==
  phase = "done" =>
    /\ myTruncDeg = ourNoTruncValue <=> myPairs = {}
    /\ \A p \in myPairs : WDeg(p) > myTruncDeg
    /\ myPairs # {} /\ MinGensExported => \A p \in myPairs : ~IsInputPoly(p)

\* What is exported in the end has the leading terms of a reduced basis: none
\* divides another, and together they divide every leading term ever found.
ExportIsReduced ==
  phase = "done" =>
    /\ \A i, j \in Exported : i # j => ~Reduces(myGB[i], myGB[j])
    /\ \A k \in DOMAIN myGB : \E i \in Exported : Reduces(myGB[i], myGB[k])
=============================================================================
