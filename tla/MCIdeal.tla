------------------------------ MODULE MCIdeal ------------------------------
EXTENDS Ideal, TLC

Symmetry == Permutations(Handles) \cup Permutations(Ids)

\* <x, y>, <x^2, xy> and <xy^2>.
Plane == [indets |-> 2, inputs |-> {{<<1, 0>>, <<0, 1>>}, {<<2, 0>>, <<1, 1>>}, {<<1, 2>>}},
          calls |-> 3, asserted |-> TRUE]

\* x, given by x^2 and x(x-1); and x(x-1)^2.
Line == [indets |-> 1, inputs |-> {{<<2, 0>>, <<1, 1>>}, {<<1, 2>>}},
         calls |-> 3, asserted |-> TRUE]

\* More calls, none of which asserts anything, from one ideal alone: that of
\* x(x-1), given by x^2(x-1) and x(x-1)^2.
LongLine == [indets |-> 1, inputs |-> {{<<2, 1>>, <<1, 2>>}}, calls |-> 6, asserted |-> FALSE]

MCRings == {Plane, Line, LongLine}
PlaneOnly == {Plane}
=============================================================================
