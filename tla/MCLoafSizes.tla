----------------------------- MODULE MCLoafSizes -----------------------------
(* The constants of MemPool.C themselves, every slice size a pool handles,  *)
(* and some that it forwards to the system.                                 *)
EXTENDS LoafSizes
MCRequests == (1..256) \cup {257, 4000, 32768, 32769, 70000}
=============================================================================
