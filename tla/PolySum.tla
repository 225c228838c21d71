------------------------------ MODULE PolySum ------------------------------
(***************************************************************************)
(* What a geobucket stands for: one polynomial, to which multiples of      *)
(* polynomials are added and from which the leading term is taken away.    *)
(* Polynomials have one indeterminate and coefficients modulo a prime p:   *)
(* a function from the exponents 0..MaxDeg.                                *)
(***************************************************************************)
EXTENDS Integers, FiniteSets

CONSTANTS p, MaxDeg, Addends

Exponents == 0..MaxDeg
Coeffs == 0..p - 1
Poly == [Exponents -> Coeffs]
ZeroPoly == [e \in Exponents |-> 0]

Support(f) == {e \in Exponents : f[e] # 0}
NumTerms(f) == Cardinality(Support(f))
LPP(f) == IF f = ZeroPoly THEN -1
          ELSE CHOOSE e \in Support(f) : \A d \in Support(f) : d <= e
LC(f) == f[LPP(f)]

Plus(f, g) == [e \in Exponents |-> (f[e] + g[e]) % p]
Times(c, f) == [e \in Exponents |-> (c * f[e]) % p]
LM(f) == [e \in Exponents |-> IF e = LPP(f) THEN f[e] ELSE 0]
Tail(f) == [e \in Exponents |-> IF e = LPP(f) THEN 0 ELSE f[e]]
Inverse(c) == CHOOSE d \in Coeffs : (c * d) % p = 1

\* The multiple of f by c*x^d, if its degree is in bounds.
MayShift(f, d) == f = ZeroPoly \/ LPP(f) + d <= MaxDeg
Shift(c, d, f) == [e \in Exponents |-> IF e < d THEN 0 ELSE (c * f[e - d]) % p]

VARIABLE total

Init == total = ZeroPoly
Add == total' \in {Plus(total, Shift(m[1], m[2], m[3])) :
                     m \in {n \in Coeffs \X Exponents \X Addends : MayShift(n[3], n[2])}}
Scale == total' \in {Times(c, total) : c \in Coeffs \ {0}}
DropLM == total # ZeroPoly /\ total' = Tail(total)
Reduce == total' \in {Plus(total, Shift((p - LC(total)) * Inverse(LC(g)),
                                        LPP(total) - LPP(g), g)) :
                        g \in {h \in Addends \ {ZeroPoly} : LPP(total) >= LPP(h)}}
TakeAll == total' = ZeroPoly

Next == Add \/ Scale \/ DropLM \/ Reduce \/ TakeAll
Spec == Init /\ [][Next]_total
=============================================================================
