---------------------------- MODULE MCMemPoolFast ----------------------------
(* Loaf sizes scaled down with the formulas of LoafSizes: slices of 2      *)
(* bytes, loaves of 4 and then 8 bytes with an allowance of 1, hence one   *)
(* slice in the first loaf and three in the next.                          *)
EXTENDS MemPoolFast

MCFirstLoafSlices == 1
MCIncrLoafSlices(n) == IF n = 1 THEN 3 ELSE n
=============================================================================
