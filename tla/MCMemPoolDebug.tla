---------------------------- MODULE MCMemPoolDebug ----------------------------
(* A loaf of one slice, then one of two; margins of two words, the         *)
(* smallest for which every loop over margins runs.  With one word of data *)
(* a slice is as large as the inner pool takes, with two it is too large.  *)
EXTENDS MemPoolDebug

MCIncrLoafSlices(n) == 2
================================================================================
