-------------------------------- MODULE MCLog ---------------------------------
(***************************************************************************)
(* Instances of Log for TLC.                                               *)
(***************************************************************************)
EXTENDS Log, TLC

Symmetric == Permutations(Procs) \union Permutations(Blocks)
===============================================================================
