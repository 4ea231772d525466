------------------------------ MODULE MCBufCache ------------------------------
(***************************************************************************)
(* Instances of BufCache for TLC.                                          *)
(***************************************************************************)
EXTENDS BufCache, TLC

Symmetric == Permutations(Procs) \union Permutations(Values)
===============================================================================
