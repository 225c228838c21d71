---------------------------- MODULE MCGeobucket ----------------------------
\* Small polynomials for Geobucket: degree up to 4.
EXTENDS Geobucket

\* A binomial 1 + x and a trinomial -1 + x + x^2.
MCAddends == {[e \in 0..MaxDeg |-> IF e <= 1 THEN 1 ELSE 0],
              [e \in 0..MaxDeg |-> IF e = 0 THEN p - 1 ELSE IF e <= 2 THEN 1 ELSE 0]}
=============================================================================
