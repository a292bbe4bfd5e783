---------------------------- MODULE MCCollection ----------------------------
(***************************************************************************)
(* Collections of one source on small instances, one set of faults per run.*)
(***************************************************************************)
EXTENDS Collection, TLC

\* Collectors are interchangeable.
Symmetry == Permutations(Collectors)
=============================================================================
