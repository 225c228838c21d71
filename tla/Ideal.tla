------------------------------- MODULE Ideal -------------------------------
(***************************************************************************)
(* Ideals of a polynomial ring over a field, as class ideal hands them to  *)
(* clients (ideal.C) and as SparsePolyRingBase::IdealImpl keeps them       *)
(* (SparsePolyOps-ideal.C and its monomial and zero-dimensional parts).    *)
(*                                                                         *)
(* An ideal is a handle on a shared, reference counted object.  Beside its *)
(* generators the object keeps what has been found out about them: a       *)
(* Groebner basis, minimal generators, three-valued flags on the           *)
(* generators, and four three-valued flags on the ideal.  These are        *)
(* mutable: a query through any handle fills them in for all the handles.  *)
(*                                                                         *)
(* A ring has one indeterminate or two.  A polynomial is <<a, b>>: it is   *)
(* x^a (x-1)^b in K[x], so that every ideal has one generator and may be   *)
(* monomial or not, and x^a y^b in K[x,y], where all are monomial.         *)
(***************************************************************************)
EXTENDS Integers, FiniteSetsExt

CONSTANTS
  Handles,    \* variables of type ideal
  Ids,        \* addresses of IdealImpl objects
  MaxExp,     \* bound: the largest exponent of a generator
  Rings       \* each with the number of its indeterminates; with the lists of
              \* generators from which clients make ideals; with a bound on
              \* calls that make ideals or assert flags, and whether any assert

VARIABLES
  P,          \* the ring of all the ideals
  at,         \* at[h]: the object handle h points to
  obj,        \* the objects
  crashed,    \* a step had undefined behaviour, and the program died of it
  calls       \* how many calls have made ideals or asserted flags

vars == <<P, at, obj, crashed, calls>>

Poly == {<<m, n>> : m, n \in 0 .. MaxExp}
Unit == <<0, 0>>
Bool3 == {"true", "false", "uncertain"}
Verdict(b) == IF b THEN "true" ELSE "false"
Univariate == P.indets = 1

ASSUME NoMoreLiveObjects == Cardinality(Handles) < Cardinality(Ids)
ASSUME BoundsAreNats ==
  /\ MaxExp \in Nat
  /\ Rings \subseteq [indets : {1, 2}, inputs : SUBSET SUBSET Poly,
                     calls : Nat, asserted : BOOLEAN]

(***************************************************************************)
(* The algebra the library computes.                                       *)
(***************************************************************************)
Divides(s, t) == s[1] <= t[1] /\ s[2] <= t[2]
Times(s, t) == <<s[1] + t[1], s[2] + t[2]>>
SqFree(t) == t[1] <= 1 /\ t[2] <= 1
Indets == {<<1, 0>>, <<0, 1>>}       \* in K[x], the irreducible x and x-1
IsMonomial(t) == Univariate => t[2] = 0

interreduce(G) == {t \in G : \A s \in G \ {t} : ~Divides(s, t)}

ReducedGB(G) ==
  IF Univariate /\ G # {}
  THEN {<<Min({t[1] : t \in G}), Min({t[2] : t \in G})>>}
  ELSE interreduce(G)

IsElem(t, GB) == \E s \in GB : Divides(s, t)

Products(G, H) == {Times(s, t) : s \in G, t \in H}
ComputeIntersection(G, H) ==
  LET I == ReducedGB(G)  J == ReducedGB(H) IN
  interreduce({t \in Poly : IsElem(t, I) /\ IsElem(t, J)})
ComputeColon(G, H) ==
  LET I == ReducedGB(G) IN
  interreduce({t \in Poly : \A s \in H : IsElem(Times(t, s), I)})
ComputeSaturation(G, H) ==
  LET I == ReducedGB(G) IN
  interreduce({t \in Poly : \A s \in H :
    IsElem(<<t[1] + MaxExp * s[1], t[2] + MaxExp * s[2]>>, I)})

(***************************************************************************)
(* What is true of an ideal, by definition.  The flags say what the        *)
(* library believes.                                                       *)
(***************************************************************************)
Holds(p, G) ==
  LET T == ReducedGB(G) IN
  /\ T # {Unit}
  /\ CASE p = "maximal" -> IF Univariate THEN T # {} /\ T \subseteq Indets
                                         ELSE T = Indets
       [] p = "prime"   -> T \subseteq Indets
       [] p = "primary" -> \A k \in {1, 2} : (\E t \in T : t[k] > 0) =>
                             \E t \in T : t[k] > 0 /\ t[3 - k] = 0
       [] p = "radical" -> \A t \in T : SqFree(t)

(***************************************************************************)
(* The four flags.  raised tells that an assignment has thrown             *)
(* "Contradictory user assertion": the assignments after it are not made.  *)
(***************************************************************************)
Props == {"maximal", "prime", "primary", "radical"}

NoFlags == [maximal |-> "uncertain", prime |-> "uncertain",
            primary |-> "uncertain", radical |-> "uncertain", raised |-> FALSE]

Settled(f, p) == f.raised \/ f[p] # "uncertain"
Checked(f, p, v) == [f EXCEPT !.raised = @ \/ f[p] # v]

AssignRadicalTrue(f) ==
  IF Settled(f, "radical") THEN Checked(f, "radical", "true")
  ELSE [f EXCEPT !.radical = "true"]
AssignPrimaryTrue(f) ==
  IF Settled(f, "primary") THEN Checked(f, "primary", "true")
  ELSE [f EXCEPT !.primary = "true"]
AssignPrimeTrue(f) ==
  IF Settled(f, "prime") THEN Checked(f, "prime", "true")
  ELSE AssignRadicalTrue(AssignPrimaryTrue(
         [f EXCEPT !.prime = "true", !.maximal = IF Univariate THEN "true" ELSE @]))
AssignMaximalTrue(f) ==
  IF Settled(f, "maximal") THEN Checked(f, "maximal", "true")
  ELSE AssignPrimeTrue([f EXCEPT !.maximal = "true"])

\* A mistake: as if every ring were a PID.
Bug_PIDEverywhere(f) ==
  IF Settled(f, "maximal") THEN Checked(f, "maximal", "false")
  ELSE [f EXCEPT !.maximal = "false", !.prime = "false"]

AssignMaximalFalse(f) ==
  IF Settled(f, "maximal") THEN Checked(f, "maximal", "false")
  ELSE [f EXCEPT !.maximal = "false", !.prime = IF Univariate THEN "false" ELSE @]
AssignPrimeFalse(f) ==
  IF Settled(f, "prime") THEN Checked(f, "prime", "false")
  ELSE AssignMaximalFalse([f EXCEPT !.prime = "false"])
AssignPrimaryFalse(f) ==
  IF Settled(f, "primary") THEN Checked(f, "primary", "false")
  ELSE AssignPrimeFalse([f EXCEPT !.primary = "false"])
\* A mistake: not radical, but maybe prime.
Bug_NotPrimeForgotten(f) ==
  IF Settled(f, "radical") THEN Checked(f, "radical", "false")
  ELSE [f EXCEPT !.radical = "false"]

AssignRadicalFalse(f) ==
  IF Settled(f, "radical") THEN Checked(f, "radical", "false")
  ELSE AssignPrimeFalse([f EXCEPT !.radical = "false"])

AssignFlag(f, p, b) ==
  CASE p = "maximal" -> IF b THEN AssignMaximalTrue(f) ELSE AssignMaximalFalse(f)
    [] p = "prime"   -> IF b THEN AssignPrimeTrue(f) ELSE AssignPrimeFalse(f)
    [] p = "primary" -> IF b THEN AssignPrimaryTrue(f) ELSE AssignPrimaryFalse(f)
    [] p = "radical" -> IF b THEN AssignRadicalTrue(f) ELSE AssignRadicalFalse(f)

Caught(f) == [f EXCEPT !.raised = FALSE]

(***************************************************************************)
(* An object.  suspect is not in the code: it tells why the flags may be   *)
(* wrong, taken over from another ideal ("kept") or asserted by a client   *)
(* that was mistaken ("lied"); that the minimal generators have been taken *)
(* over ("mins"); and that these have then become the generators ("gens"). *)
(***************************************************************************)
New(G) ==
  [gens |-> IF Unit \in G THEN {Unit} ELSE G,
   haveGB |-> FALSE, gb |-> {}, min |-> {}, flags |-> NoFlags,
   mono |-> "uncertain", sqf |-> "uncertain", suspect |-> {}]

\* myReset, after the generators have become G.
Reset(G) == [New({}) EXCEPT !.gens = G]

AreMonomials(G) == \A t \in G : IsMonomial(t)
IhaveMonomialGens(o) ==
  IF o.mono = "uncertain" THEN AreMonomials(o.gens) ELSE o.mono = "true"
WithMono(o) == [o EXCEPT !.mono = Verdict(IhaveMonomialGens(o))]

\* Which case myGBasis takes: only the last may be interrupted or time out.
GeneralCase(o) ==
  ~o.haveGB /\ ~IhaveMonomialGens(o) /\ Cardinality(o.gens) > 1

WithGBasis(o) ==
  IF o.haveGB THEN o
  ELSE [WithMono(o) EXCEPT
          !.haveGB = TRUE, !.gb = ReducedGB(o.gens),
          !.min = IF ~IhaveMonomialGens(o) /\ Cardinality(o.gens) = 1
                  THEN o.gens ELSE @]

WithSqFree(o) ==
  IF o.sqf # "uncertain" THEN o
  ELSE [WithMono(o) EXCEPT
          !.sqf = Verdict(IhaveMonomialGens(o) /\ \A t \in o.gens : SqFree(t))]

(***************************************************************************)
(* The tests.  Each takes an object whose Groebner basis is known, and     *)
(* gives the flags it may leave; one that throws "not yet implemented"     *)
(* leaves them alone.  In K[x,y] the minimal polynomial of an              *)
(* indeterminate is its power in the basis.                                *)
(***************************************************************************)
IamZeroDim(o) == \A k \in {1, 2} : \E t \in o.gb : t[k] > 0 /\ t[3 - k] = 0

Exponents(t) == {t[1], t[2]} \ {0}          \* of the factors of t
Factors(t) == Cardinality({k \in {1, 2} : t[k] > 0})

TestIsMaximal(o) ==
  IF o.gens = {} THEN AssignMaximalFalse(o.flags)
  ELSE IF Univariate THEN AssignFlag(o.flags, "maximal", o.gb \subseteq Indets)
  ELSE IF ~IamZeroDim(o) THEN AssignMaximalFalse(o.flags)
  ELSE IF o.gb = Indets THEN AssignMaximalTrue(o.flags)
  ELSE AssignPrimeFalse(o.flags)

TestIsPrimary_0dim(o) ==
  LET f == IF o.gb = Indets THEN AssignMaximalTrue(o.flags)
           ELSE IF \A t \in o.gb : t \notin Indets THEN AssignRadicalFalse(o.flags)
           ELSE o.flags
  IN AssignPrimaryTrue(f)

TestIsPrimary(o) ==
  IF ~Univariate
  THEN {IF IamZeroDim(o) THEN TestIsPrimary_0dim(o) ELSE o.flags}
  ELSE {IF Factors(t) = 1
        THEN AssignFlag(AssignPrimaryTrue(o.flags), "maximal", t \in Indets)
        ELSE AssignPrimaryFalse(o.flags) : t \in o.gb}

TestIsPrime(o) == IF Univariate THEN TestIsMaximal(o) ELSE o.flags

\* The order of the factors is not specified: e is the first one's exponent.
TestIsRadical(o) ==
  IF IhaveMonomialGens(o)
  THEN {AssignFlag(o.flags, "radical", \A t \in o.gb : SqFree(t))}
  ELSE UNION {{LET f == IF Factors(t) # 1 THEN AssignPrimeFalse(o.flags) ELSE o.flags
               IN IF e = 1 THEN AssignMaximalTrue(f) ELSE f : e \in Exponents(t)} :
              t \in o.gb}

Tested(o, p) ==
  CASE p = "maximal" -> {TestIsMaximal(o)}
    [] p = "prime"   -> {TestIsPrime(o)}
    [] p = "primary" -> TestIsPrimary(o)
    [] p = "radical" -> TestIsRadical(o)

(***************************************************************************)
(* The operations: the left operand's object after it, given both.         *)
(***************************************************************************)
IamOne(o) == o.haveGB /\ o.gb = {Unit}

myAdd(o, j) ==
  IF j.gens = {} \/ o.gens = {Unit} THEN o
  ELSE IF IamOne(o) \/ IamOne(j) THEN Reset({Unit})
  ELSE [Reset(IF Unit \in j.gens THEN {Unit} ELSE o.gens \cup j.gens) EXCEPT
          !.mono = IF o.mono = "true" THEN j.mono ELSE o.mono,
          !.sqf = IF o.sqf = "true" THEN j.sqf ELSE o.sqf]

TakenOver(o) == (o.suspect \ {"gens"}) \cup (IF o.flags = NoFlags THEN {} ELSE {"kept"})
                                      \cup (IF o.min = {} THEN {} ELSE {"mins"})

\* A mistake: the old Groebner basis stays.
Bug_BasisKept(o, G, sqf) ==
  [WithMono(o) EXCEPT !.gens = G, !.sqf = sqf, !.suspect = TakenOver(o)]

\* The monomial cases keep the flags of the old generators, and the old
\* minimal generators, although the ideal becomes another.
Monomial(o, G, sqf) ==
  [WithMono(o) EXCEPT !.gens = G, !.haveGB = TRUE, !.gb = G, !.sqf = sqf,
                      !.suspect = TakenOver(o)]

BothMonomial(o, j) == IhaveMonomialGens(o) /\ IhaveMonomialGens(j)

myMul(o, j) ==
  IF ~BothMonomial(o, j) THEN Reset(Products(o.gens, j.gens))
  ELSE IF o.gens = {} THEN WithMono(o)
  ELSE Monomial(o, interreduce(Products(o.gens, j.gens)), "uncertain")

\* intersect has dealt with zero ideals.
myIntersect(o, j) ==
  LET G == ComputeIntersection(o.gens, j.gens) IN
  IF ~BothMonomial(o, j) THEN Reset(G)
  ELSE Monomial(o, G, IF o.sqf = "true" /\ j.sqf = "true" THEN "true" ELSE "uncertain")

myColon(o, j) ==
  LET G == ComputeColon(o.gens, j.gens) IN
  IF j.gens = {} THEN Reset({Unit})
  ELSE IF ~BothMonomial(o, j) THEN Reset(G)
  ELSE IF o.gens = {} THEN WithMono(o)
  ELSE Monomial(o, G, IF o.sqf = "true" THEN "true" ELSE "uncertain")

mySaturate(o, j) ==
  Reset(IF j.gens = {} THEN {Unit} ELSE ComputeSaturation(o.gens, j.gens))

Operations == {"+", "*", "intersect", "colon", "saturate"}

Operated(op, o, j) ==
  CASE op = "+" -> myAdd(o, j)
    [] op = "*" -> myMul(o, j)
    [] op = "intersect" -> IF o.gens = {} \/ j.gens = {} THEN New({}) ELSE myIntersect(o, j)
    [] op = "colon" -> myColon(o, j)
    [] op = "saturate" -> mySaturate(o, j)

\* The right operand is asked for monomial generators when the left has them.
RightAfter(op, o, j) ==
  IF /\ IhaveMonomialGens(o)
     /\ \/ op = "*"
        \/ op = "intersect" /\ o.gens # {} /\ j.gens # {}
        \/ op = "colon" /\ j.gens # {}
  THEN WithMono(j) ELSE j

\* The ideal left when the indeterminates in X are eliminated.
Eliminated(o, X) ==
  IF IhaveMonomialGens(o)
  THEN LET G == interreduce({t \in o.gens : \A x \in X : ~Divides(x, t)})
       IN [New(G) EXCEPT !.haveGB = TRUE, !.gb = G, !.mono = "true"]
  ELSE New(ReducedGB(o.gens) \cap {Unit})

Radicals(G) == {<<Min({1, t[1]}), Min({1, t[2]})>> : t \in G}

radical_MonId(o) ==
  LET G == interreduce(Radicals(o.gens)) IN
  [New(G) EXCEPT !.haveGB = TRUE, !.gb = G, !.mono = "true", !.sqf = "true",
                 !.flags = AssignRadicalTrue(@)]

\* Its Groebner basis is found, or runs out of time.
Radicals_0dim(o) ==
  LET G == Radicals(o.gb) IN
  {[New(G) EXCEPT !.haveGB = TRUE, !.gb = G], myAdd(o, New(G))}

\* myMinGens, when the basis is known and is of monomials: the noted minimal
\* generators if there are any, be they of the present ideal or not.
MinGens(o) == IF o.min # {} THEN o.min ELSE o.gb

\* IdealOfMinGens: these become the generators, what is known stays.
myMinimalize(o) ==
  LET Forget(v) == IF v = "false" THEN "uncertain" ELSE v IN
  [o EXCEPT !.gens = MinGens(o), !.mono = Forget(@), !.sqf = Forget(@),
            !.suspect = IF o.min # {} /\ "mins" \in @ THEN @ \cup {"gens"} ELSE @]

(***************************************************************************)
(* The clients' calls.                                                     *)
(***************************************************************************)
Used(a) == {a[h] : h \in Handles}
Free == Ids \ Used(at)
Sole(h) == \A k \in Handles \ {h} : at[k] # at[h]

\* The objects become o and the handles a; unreferenced objects are deleted.
Commit(a, o) ==
  /\ at' = a
  /\ obj' = [i \in Ids |-> IF i \in Used(a) THEN o[i] ELSE New({})]
  /\ UNCHANGED <<P, crashed>>

Learn(h, o) == Commit(at, [obj EXCEPT ![at[h]] = o]) /\ UNCHANGED calls
MakeNew(h, o) ==
  \E i \in Free : Commit([at EXCEPT ![h] = i], [obj EXCEPT ![i] = o])

Crash == crashed' = TRUE /\ UNCHANGED <<P, at, obj, calls>>

Init ==
  /\ P \in Rings
  /\ \E i \in Ids : at = [h \in Handles |-> i]
  /\ obj = [i \in Ids |-> New({})]
  /\ crashed = FALSE
  /\ calls = 0

Construct(h) ==
  \E G \in P.inputs : MakeNew(h, New(G))

Copy(h, k) == Commit([at EXCEPT ![h] = at[k]], obj) /\ UNCHANGED calls

\* A mistake: a shared object is changed in place.
Bug_SharedChanged(h, i) == i = at[h]

\* MakeUnique: the object h may change, its own or a clone.
Unique(h, i) == IF Sole(h) THEN i = at[h] ELSE i \in Free

\* h += k and h *= k; the right operand may be h itself.
OpAssign(h, k, op) ==
  LET o == Operated(op, obj[at[h]], obj[at[k]]) IN
  /\ op \in {"+", "*"}
  /\ o.gens \subseteq Poly
  /\ \E i \in Ids :
       /\ Unique(h, i)
       /\ Commit([at EXCEPT ![h] = i],
                 [obj EXCEPT ![at[k]] = IF k = h THEN @ ELSE RightAfter(op, obj[at[h]], @),
                             ![i] = o])

\* I += I appends to the vector of generators it is iterating over.
AddToItself(h) ==
  /\ obj[at[h]].gens \notin {{}, {Unit}}
  /\ ~IamOne(obj[at[h]])
  /\ Crash

\* h = op(k, l): the operation is made on a copy of k, which h then takes.
Combine(h, k, l, op) ==
  LET o == Operated(op, obj[at[k]], obj[at[l]]) IN
  /\ o.gens \subseteq Poly
  /\ \E i \in Free :
       Commit([at EXCEPT ![h] = i],
              [obj EXCEPT ![at[l]] = RightAfter(op, obj[at[k]], @), ![i] = o])

IndetSets == IF Univariate THEN {{<<1, 0>>}} ELSE SUBSET Indets \ {{}}

elim(h, k) ==
  \E X \in IndetSets :
    LET o == obj[at[k]] IN
    IF o.gens = {} THEN Commit([at EXCEPT ![h] = at[k]], obj)
    ELSE \E i \in Free : Commit([at EXCEPT ![h] = i],
           [obj EXCEPT ![at[k]] = WithMono(o), ![i] = Eliminated(o, X)])

GBasis(h) == Learn(h, WithGBasis(obj[at[h]]))

\* A Groebner basis interrupted or out of time, here or in any call below.
GBasisAbandoned(h) ==
  /\ GeneralCase(obj[at[h]])
  /\ Learn(h, WithMono(obj[at[h]]))

AreGensSqFreeMonomial(h) == Learn(h, WithSqFree(obj[at[h]]))

IdealOfGBasis(h, k) ==
  LET o == WithGBasis(obj[at[k]]) IN
  \E i \in Free : Commit([at EXCEPT ![h] = i],
    [obj EXCEPT ![at[k]] = o, ![i] = [New(o.gb) EXCEPT !.haveGB = TRUE, !.gb = o.gb]])

\* Homogeneous ideals only, that is monomial ones; others are refused.
IdealOfMinGens(h, k) ==
  LET o == obj[at[k]]
      mono == IF o.haveGB /\ o.min # {} THEN o ELSE WithMono(o)
      known == WithGBasis(mono) IN
  IF ~AreMonomials(o.gens)
  THEN Commit(at, [obj EXCEPT ![at[k]] = IF GeneralCase(mono) THEN mono ELSE known])
  ELSE \E i \in Free : Commit([at EXCEPT ![h] = i],
         [obj EXCEPT ![at[k]] = IF o.gens = {} THEN mono ELSE known,
                     ![i] = myMinimalize(known)])

radical(h, k) ==
  LET o == obj[at[k]]
      known == WithGBasis(WithMono(o)) IN
  IF o.flags.radical = "true" \/ o.gens = {} THEN Commit([at EXCEPT ![h] = at[k]], obj)
  ELSE IF IhaveMonomialGens(o)
  THEN \E i \in Free : Commit([at EXCEPT ![h] = i],
         [obj EXCEPT ![at[k]] = WithMono(o), ![i] = radical_MonId(o)])
  ELSE IF known.gb = {Unit}
  THEN \E i \in Free : Commit([at EXCEPT ![h] = i],
         [obj EXCEPT ![at[k]] = known, ![i] = New({Unit})])
  ELSE IF known.gb = Radicals(known.gb)
  THEN LET f == AssignRadicalTrue(o.flags) IN
       Commit(IF f.raised THEN at ELSE [at EXCEPT ![h] = at[k]],
              [obj EXCEPT ![at[k]] = [known EXCEPT !.flags = Caught(f)]])
  ELSE \E i \in Free, r \in Radicals_0dim(known) : Commit([at EXCEPT ![h] = i],
         [obj EXCEPT ![at[k]] = [known EXCEPT !.flags = AssignRadicalFalse(@)],
                     ![i] = [r EXCEPT !.flags = AssignRadicalTrue(@)]])

\* IsMaximal, IsPrime, IsPrimary, IsRadical.
Ask(h, p) ==
  LET o == WithGBasis(obj[at[h]]) IN
  IF IamOne(o) \/ o.flags[p] # "uncertain" THEN Learn(h, o)
  ELSE IF p = "primary" /\ Univariate /\ o.gb = {}
  THEN Crash                          \* reads the first of no basis elements
  ELSE \E f \in Tested(o, p) :
         Learn(h, [(IF p = "radical" THEN WithMono(o) ELSE o) EXCEPT !.flags = Caught(f)])

\* The client asserts that the ideal has the property, or that it has not.
AssertFlag(h, p, b) ==
  LET o == obj[at[h]]
      f == AssignFlag(o.flags, p, b) IN
  Commit(at, [obj EXCEPT ![at[h]] =
    [o EXCEPT !.flags = Caught(f),
              !.suspect = @ \cup
                 (IF f.raised \/ b = Holds(p, o.gens) THEN {} ELSE {"lied"})]])

\* Ideals are made, or flags asserted: a bounded number of times.
Counted == calls < P.calls /\ calls' = calls + 1

Make ==
  \E h, k \in Handles :
    \/ Construct(h)
    \/ \E op \in Operations : OpAssign(h, k, op)
    \/ \E l \in Handles, op \in Operations : Combine(h, k, l, op)
    \/ elim(h, k)
    \/ IdealOfGBasis(h, k)
    \/ IdealOfMinGens(h, k)
    \/ radical(h, k)
MakeAssertion ==
  P.asserted /\ \E h \in Handles, p \in Props, b \in BOOLEAN : AssertFlag(h, p, b)

\* Something is found out of an ideal, or the handle of one copied.
CopyOrQuery ==
  \E h, k \in Handles :
    \/ Copy(h, k)
    \/ GBasis(h)
    \/ GBasisAbandoned(h)
    \/ AreGensSqFreeMonomial(h)
    \/ \E p \in Props : Ask(h, p)

Next ==
  /\ ~crashed
  /\ \/ Counted /\ Make
     \/ Counted /\ MakeAssertion
     \/ CopyOrQuery
     \/ \E h \in Handles : AddToItself(h)

Spec == Init /\ [][Next]_vars

(***************************************************************************)
(* Properties.                                                             *)
(***************************************************************************)
Proper(G) == ReducedGB(G) # {Unit}

\* Variables have their types.
TypeOK ==
  /\ P \in Rings
  /\ at \in [Handles -> Ids]
  /\ crashed \in BOOLEAN
  /\ calls \in 0 .. P.calls
  /\ obj \in [Ids ->
       [gens : SUBSET Poly, haveGB : BOOLEAN, gb : SUBSET Poly, min : SUBSET Poly,
        flags : [maximal : Bool3, prime : Bool3, primary : Bool3, radical : Bool3,
                 raised : {FALSE}],
        mono : Bool3, sqf : Bool3, suspect : SUBSET {"kept", "lied", "mins", "gens"}]]

\* The flags of f do not contradict one another, and whatever follows from
\* one of them has been noted.
Closed(f) ==
  /\ f.maximal = "true" => f.prime = "true"
  /\ f.prime = "true" => f.primary = "true" /\ f.radical = "true"
  /\ "false" \in {f.primary, f.radical} => f.prime = "false"
  /\ f.prime = "false" => f.maximal = "false"
  /\ Univariate => f.maximal = f.prime

\* myAssign...Flag (ideal.C:414-495): after any queries and any assertions,
\* right, wrong or refused half way, the four flags of every ideal agree.
FlagsAgree == \A i \in Ids : Closed(obj[i].flags)

FlagIsTrue(o, p) ==
  /\ o.flags[p] = "true" => Holds(p, o.gens)
  /\ o.flags[p] = "false" => ~Holds(p, o.gens)

\* myReset (SparsePolyOps-ideal.C:382) and the tests: flags found by tests,
\* or asserted rightly, are true of the ideal that has them, through every
\* operation that forgets them or leaves the ideal as it is.  The exceptions
\* are the zero ideal of K[x], which is prime but not maximal, and an ideal
\* whose generators have been replaced by those of another.
FlagsAreTrueUnlessKept ==
  \A i \in Ids, p \in Props :
    LET o == obj[i] IN
    \/ o.suspect \cap {"kept", "lied", "gens"} # {}
    \/ ~Proper(o.gens)
    \/ o.gens = {} /\ Univariate /\ p \in {"prime", "maximal"}
    \/ FlagIsTrue(o, p)

\* ideal.txt:142: the flags are to be updated in the member functions that
\* change the ideal, so that they are true unless the client has lied.
FlagsAreTrue ==
  \A i \in Ids, p \in Props :
    Proper(obj[i].gens) /\ "lied" \notin obj[i].suspect => FlagIsTrue(obj[i], p)

\* myGBasis (SparsePolyOps-ideal.C:725), myMinGens: the cached Groebner basis
\* and minimal generators are of the present ideal, whatever operations,
\* shared queries and abandoned computations went before; and generators
\* believed monomial, or square free, are.  The exception is an operation on
\* monomial generators whose left operand has minimal generators noted: these
\* are then stale, and if they are made the generators all else is.
CachesAreCurrent ==
  \A i \in Ids :
    LET o == obj[i] IN
    /\ "gens" \notin o.suspect => o.gb = IF o.haveGB THEN ReducedGB(o.gens) ELSE {}
    /\ o.min # {} /\ "mins" \notin o.suspect => ReducedGB(o.min) = ReducedGB(o.gens)
    /\ o.mono = "true" => AreMonomials(o.gens)
    /\ o.sqf = "true" /\ "gens" \notin o.suspect =>
         AreMonomials(o.gens) /\ \A t \in o.gens : SqFree(t)

Value(h) == ReducedGB(obj[at[h]].gens)

\* MakeUnique (ideal.C:147): ideals behave as values: a call changes the
\* ideal of one handle at most, although handles share objects and queries
\* write into them.
HandlesAreValues ==
  [][\A h, k \in Handles : h # k => Value(h)' = Value(h) \/ Value(k)' = Value(k)]_vars

\* ideal.txt:45: I += J is equivalent to I = I+J, for J = I too.
NeverUndefined == ~crashed

=============================================================================
