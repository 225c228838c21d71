----------------------------- MODULE Geobucket -----------------------------
(***************************************************************************)
(* The geobucket of geobucket.C: a polynomial kept as a sum of buckets of  *)
(* geometrically growing capacity, so that adding many short polynomials   *)
(* to a long one is cheap.  A bucket is a coefficient times a polynomial,  *)
(* with a bound on the polynomial's length which is cheap to keep up to    *)
(* date.  The leading term of the sum is brought into the first bucket     *)
(* only when it is asked for (mySetLM); IhaveLM says that it is there.     *)
(*                                                                         *)
(* bs[i] is the code's myBuckets[i - 1].  Lengths which callers pass are   *)
(* the true ones: every caller in the library passes NumTerms.             *)
(***************************************************************************)
EXTENDS Integers, FiniteSets, Sequences

CONSTANTS p, MaxDeg, Addends,
          gbk_minlen, gbk_factor,
          MaxOps             \* bound on the number of operations

VARIABLES bs, IhaveLM, ops
vars == <<bs, IhaveLM, ops>>

\* The polynomial which the buckets add up to.
P == INSTANCE PolySum WITH total <- 0
Value(buckets) ==
  LET sum[n \in 0..Len(buckets)] ==
        IF n = 0 THEN P!ZeroPoly
        ELSE P!Plus(sum[n - 1], P!Times(buckets[n].coeff, buckets[n].poly))
  IN  sum[Len(buckets)]
Sum == INSTANCE PolySum WITH total <- Value(bs)

\* The coefficients are a field: p is a prime.
ASSUME FieldAssumption ==
  /\ p \in Nat /\ p >= 2
  /\ \A c \in 1..p - 1 : \E d \in 1..p - 1 : (c * d) % p = 1
ASSUME GeobucketAssumption ==
  /\ gbk_minlen \in Nat /\ gbk_minlen >= 1
  /\ gbk_factor \in Nat /\ gbk_factor >= 2
  /\ MaxDeg \in Nat /\ MaxOps \in Nat
  /\ Addends \subseteq P!Poly

IsZero(b) == b.poly = P!ZeroPoly

(***************************************************************************)
(* Buckets.                                                                *)
(***************************************************************************)
ZeroBucket(maxLen) ==
  [coeff |-> 1, poly |-> P!ZeroPoly, maxLen |-> maxLen, approx |-> 0]

Normalized(b) == [b EXCEPT !.coeff = 1, !.poly = P!Times(b.coeff, @)]
Bug_NotNormalized(b, f, flen) == [b EXCEPT !.poly = P!Plus(@, f), !.approx = @ + flen]
Added(b, f, flen) ==
  [Normalized(b) EXCEPT !.poly = P!Plus(@, f), !.approx = @ + flen]
Emptied(b) == [b EXCEPT !.coeff = 1, !.poly = P!ZeroPoly, !.approx = 0]

Shortened(b) == [Normalized(b) EXCEPT !.poly = P!Tail(@), !.approx = @ - 1]

\* Bucket j is added to bucket i, and becomes zero.
Bug_BoundNotRaised(buckets, i, j) ==
  [buckets EXCEPT ![i] = Added(@, Normalized(buckets[j]).poly, 0), ![j] = Emptied(@)]
Merged(buckets, i, j) ==
  [buckets EXCEPT ![i] = Added(@, Normalized(buckets[j]).poly, buckets[j].approx),
                  ![j] = Emptied(@)]

\* The leading term of bucket j moves to the front of the first bucket.
LMMoved(buckets, j) ==
  [buckets EXCEPT ![1] = Added(@, P!LM(Normalized(buckets[j]).poly), 1),
                  ![j] = Shortened(@)]

\* The leading terms of the first bucket and of bucket j are like terms: they
\* are added in the first bucket, where the sum may vanish.
Cancels(b, c) ==
  P!Plus(P!LM(Normalized(b).poly), P!LM(Normalized(c).poly)) = P!ZeroPoly
LCsAdded(buckets, j) ==
  LET lost == IF Cancels(buckets[1], buckets[j]) THEN -1 ELSE 0
  IN  [buckets EXCEPT ![1] = Added(@, P!LM(Normalized(buckets[j]).poly), lost),
                      ![j] = Shortened(@)]

(***************************************************************************)
(* mySetLM.  A short bucket is absorbed whole, from a long one only the    *)
(* leading term is taken.  A pass ends early when two leading terms have   *)
(* cancelled; then another pass is made.                                   *)
(***************************************************************************)
Absorb(buckets, j) ==
  IF buckets[j].approx < gbk_minlen THEN Merged(buckets, 1, j) ELSE buckets
Take(buckets, j) ==
  IF buckets[j].approx < gbk_minlen THEN Merged(buckets, 1, j) ELSE LMMoved(buckets, j)

\* The first bucket, when zero, takes from the first bucket which is not.
Refilled(buckets) ==
  LET zeroed  == [buckets EXCEPT ![1].approx = 0]
      nonzero == {j \in 2..Len(buckets) : ~IsZero(buckets[j])}
  IN  IF ~IsZero(buckets[1]) THEN buckets
      ELSE IF nonzero = {} THEN zeroed
      ELSE Take(zeroed, CHOOSE j \in nonzero : \A k \in nonzero : j <= k)

\* One step of a pass: the first bucket meets bucket j.
Bug_NoSecondPass(pass, j) ==
  LET first == P!LPP(pass.bs[1].poly)
      other == P!LPP(pass.bs[j].poly)
  IN  IF IsZero(pass.bs[j]) \/ first > other THEN pass
      ELSE IF first < other THEN [pass EXCEPT !.bs = Take(@, j)]
      ELSE [pass EXCEPT !.bs = Absorb(LCsAdded(@, j), j)]
Compare(pass, j) ==
  LET first == P!LPP(pass.bs[1].poly)
      other == P!LPP(pass.bs[j].poly)
      both  == LCsAdded(pass.bs, j)
  IN  IF pass.cancelled \/ IsZero(pass.bs[j]) \/ first > other THEN pass
      ELSE IF first < other THEN [pass EXCEPT !.bs = Take(@, j)]
      ELSE IF Cancels(pass.bs[1], pass.bs[j])
        THEN [bs |-> Absorb(both, j), cancelled |-> TRUE]
        ELSE [pass EXCEPT !.bs = both]

\* A bucket met again after Refilled has taken from it has a smaller leading
\* term or none, so the pass may start from the second bucket in every case.
Pass(buckets) ==
  LET after[j \in 1..Len(buckets)] ==
        IF j = 1 THEN [bs |-> Refilled(buckets), cancelled |-> FALSE]
        ELSE Compare(after[j - 1], j)
  IN  after[Len(buckets)]

\* Every pass but the last makes at least two terms vanish.
MaxPasses == (Len(bs) * (MaxDeg + 1)) \div 2 + 1
Passes ==
  LET start == [bs EXCEPT ![1] = Normalized(@)]
      after[n \in 1..MaxPasses] ==
        IF n = 1 THEN Pass(start)
        ELSE LET last == after[n - 1]
             IN  IF last.cancelled THEN Pass(last.bs) ELSE last
  IN  IF Len(bs) = 1 THEN [bs |-> start, cancelled |-> FALSE] ELSE after[MaxPasses]

\* The buckets as a query of the leading term finds or makes them.
WithLM == IF IhaveLM THEN bs ELSE Passes.bs

(***************************************************************************)
(* Choosing a bucket for a polynomial, and the cascade of a full bucket    *)
(* into the next one.                                                      *)
(***************************************************************************)
Pushed(buckets, maxLen) == Append(buckets, ZeroBucket(maxLen))

Capacity[i \in Nat] == IF i <= 1 THEN gbk_minlen ELSE gbk_factor * Capacity[i - 1]
BucketIndex(len) == CHOOSE i \in 1..len + 1 :
                      /\ len <= Capacity[i]
                      /\ \A j \in 1..i - 1 : len > Capacity[j]
Grown(buckets, i) ==
  [j \in DOMAIN buckets \cup 1..i |->
     IF j \in DOMAIN buckets THEN buckets[j] ELSE ZeroBucket(Capacity[j])]

IsFull(b) == b.approx > 3 * b.maxLen

\* The step of myCascadeFrom at bucket i.  When the bucket is full its length is
\* counted anew; if it really is too long it is added to the next bucket, and
\* the cascade goes on from there.
Counted(b) == [b EXCEPT !.approx = P!NumTerms(b.poly)]
Spill(cascade, i) ==
  LET b       == cascade.bs
      counted == [b EXCEPT ![i] = Counted(@)]
      room    == IF i = Len(b) THEN Pushed(counted, b[i].maxLen * gbk_factor) ELSE counted
  IN  IF ~cascade.goingOn \/ ~IsFull(b[i]) THEN [bs |-> b, goingOn |-> FALSE]
      ELSE IF counted[i].approx <= 2 * b[i].maxLen THEN [bs |-> counted, goingOn |-> FALSE]
      ELSE [bs |-> Merged(room, i + 1, i), goingOn |-> TRUE]

\* Every step but the last meets a bucket of more than two terms.
CascadedFrom(buckets, i) ==
  LET after[k \in i - 1..i + MaxDeg] ==
        IF k = i - 1 THEN [bs |-> buckets, goingOn |-> TRUE] ELSE Spill(after[k - 1], k)
  IN  after[i + MaxDeg].bs

\* buckets after myAddMulLM of the polynomial h, which is a multiple of g or of
\* its tail: g's length chooses the bucket, h's is added to the bound.
AddedMul(buckets, glen, h, hlen) ==
  LET i == BucketIndex(glen)
      b == Grown(buckets, i)
  IN  CascadedFrom([b EXCEPT ![i] = Added(@, h, hlen)], i)

(***************************************************************************)
(* The operations.                                                         *)
(***************************************************************************)
Init ==
  /\ bs = <<ZeroBucket(gbk_minlen)>>
  /\ IhaveLM = TRUE
  /\ ops = 0

Step == ops < MaxOps /\ ops' = ops + 1

AddClearInto ==
  /\ Step
  /\ \E f \in Addends :
       LET i == BucketIndex(P!NumTerms(f))
       IN  bs' = [Grown(bs, i) EXCEPT ![i] = Added(@, f, P!NumTerms(f))]
  /\ IhaveLM' = FALSE

AddMulLM ==
  /\ Step
  /\ \E g \in Addends, c \in 1..p - 1, d \in 0..MaxDeg :
       /\ P!MayShift(g, d)
       /\ bs' = AddedMul(bs, P!NumTerms(g), P!Shift(c, d, g), P!NumTerms(g))
  /\ IhaveLM' = FALSE

\* LPP, LC and IsZero bring the leading term into the first bucket.
SetLM ==
  /\ Step
  /\ ~IhaveLM
  /\ bs' = Passes.bs
  /\ IhaveLM' = ~Passes.cancelled

DeleteLM ==
  /\ Step
  /\ IhaveLM /\ ~IsZero(bs[1])
  /\ bs' = [bs EXCEPT ![1].poly = P!Tail(@), ![1].approx = @ - 1]
  /\ IhaveLM' = FALSE

\* MoveLMToFront and MoveLMToBack: the leading term of the first bucket's
\* polynomial goes to f; the bound on the length is not lowered.
MovedLM == P!LM(WithLM[1].poly)
MoveLMOut ==
  /\ Step
  /\ ~IsZero(WithLM[1])
  /\ bs' = [WithLM EXCEPT ![1].poly = P!Tail(@)]
  /\ IhaveLM' = FALSE

MulByCoeff ==
  /\ Step
  /\ \E c \in 2..p - 1 :
       bs' = [i \in DOMAIN bs |-> [bs[i] EXCEPT !.coeff = (@ * c) % p]]
  /\ UNCHANGED IhaveLM

DivByCoeff ==
  /\ Step
  /\ \E c \in 2..p - 1 :
       bs' = [i \in DOMAIN bs |->
                [Normalized(bs[i]) EXCEPT !.poly = P!Times(P!Inverse(c), @)]]
  /\ UNCHANGED IhaveLM

\* The leading term is deleted, then the multiple of g's tail is added which
\* would have cancelled it.
ReductionStep ==
  /\ Step
  /\ IhaveLM /\ ~IsZero(bs[1])
  /\ \E g \in Addends \ {P!ZeroPoly} :
       LET f == Normalized(bs[1]).poly
           d == P!LPP(f) - P!LPP(g)
           c == (p - P!LC(f)) * P!Inverse(P!LC(g))
           deleted == [bs EXCEPT ![1] = Shortened(@)]
       IN  /\ d >= 0
           /\ bs' = AddedMul(deleted, P!NumTerms(g),
                             P!Shift(c, d, P!Tail(g)), P!NumTerms(g) - 1)
  /\ IhaveLM' = FALSE

\* AddClear(f, gbk): everything goes to f.
AddClearOut ==
  /\ Step
  /\ bs' = [i \in DOMAIN bs |-> Emptied(bs[i])]
  /\ IhaveLM' = TRUE

Next ==
  \/ AddClearInto \/ AddMulLM \/ SetLM \/ DeleteLM \/ MoveLMOut
  \/ MulByCoeff \/ DivByCoeff \/ ReductionStep \/ AddClearOut

Spec == Init /\ [][Next]_vars

(***************************************************************************)
(* Properties.                                                             *)
(***************************************************************************)

\* The buckets are well formed, and their capacities form the geometric
\* progression which myBucketIndex counts on, however they were pushed.
TypeOK ==
  /\ \A i \in DOMAIN bs :
       /\ bs[i].coeff \in 1..p - 1
       /\ bs[i].poly \in P!Poly
       /\ bs[i].approx \in Nat
       /\ bs[i].maxLen = Capacity[i]
  /\ Len(bs) >= 1
  /\ IhaveLM \in BOOLEAN
  /\ ops \in 0..MaxOps

\* "true if certified that LM(gbk) = LM(gbk[0])": when IhaveLM holds the first
\* bucket's leading term is above every other bucket's, so nothing can cancel
\* it, and the first bucket is zero only if the whole sum is.
LMCertified ==
  IhaveLM => \A i \in 2..Len(bs) :
               IsZero(bs[i]) \/ P!LPP(bs[i].poly) < P!LPP(bs[1].poly)

\* The length kept with a bucket is "an upper bound for the current length":
\* the cascade never overlooks a bucket which is too long.
ApproxIsBound == \A i \in DOMAIN bs : P!NumTerms(bs[i].poly) <= bs[i].approx

\* Seen from outside, through the sum of its buckets, a geobucket is a single
\* polynomial: cascades, delayed coefficients and moved terms change nothing.
ImplementsPolySum == Sum!Spec

\* What geobucket.txt says of the buckets: myBuckets[i] "contains at most
\* gbk_minlen * gbk_factor^i summands".
BucketsStayShort == \A i \in DOMAIN bs : P!NumTerms(bs[i].poly) <= Capacity[i]

\* "MoveLMToFront(f, gbk) -- moves the LM of gbk to f": what f gets is what the
\* sum loses.
MovesTheLM == [][ MoveLMOut => Value(bs) = P!Plus(Value(bs'), MovedLM) ]_vars
=============================================================================
