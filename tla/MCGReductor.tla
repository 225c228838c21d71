---------------------------- MODULE MCGReductor ----------------------------
\* Power products of three indeterminates with small exponents, in lexicographic order.
EXTENDS GReductor

MCMonomials == {m \in [1..3 -> 0..3] : m[1] <= 2}
MCBefore(a, b) ==
  \E i \in 1..3 : a[i] < b[i] /\ \A k \in 1..i - 1 : a[k] = b[k]
MCElimInds == <<1, 0, 0>>
MCTruncDegs == {ourNoTruncValue, 2, 3}

Mode(alg, homog) == [alg |-> alg, homog |-> homog]
MCModes == {Mode(a, TRUE) : a \in {"standard", "saturating", "radical", "elimFirst"}}
             \union {Mode(a, FALSE) : a \in {"standard", "saturating", "radical"}}

\* Degrees leave few choices, so homogeneous bases may grow longer.
MCMaxGB(m) == IF m.homog /\ m.alg \in {"standard", "elimFirst"} THEN 7 ELSE 4

Ideal(list) == [i \in DOMAIN list |-> [pp |-> list[i], comp |-> 0]]
x  == <<1, 0, 0>>
xx == <<2, 0, 0>>
xy == <<1, 1, 0>>
yz == <<0, 1, 1>>
yyz == <<0, 2, 1>>
MCInputLists ==
  {Ideal(<<xx, xy>>), Ideal(<<xy, yz, xx>>), Ideal(<<xx, xy, yyz>>),
   <<[pp |-> xy, comp |-> 1], [pp |-> yz, comp |-> 1], [pp |-> x, comp |-> 2]>>}
=============================================================================
