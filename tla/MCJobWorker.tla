----------------------------- MODULE MCJobWorker -----------------------------
(***************************************************************************)
(* The collection worker on small instances, one set of faults per run.    *)
(***************************************************************************)
EXTENDS JobWorker, TLC

\* Workers are interchangeable.
Symmetry == Permutations(Workers)
=============================================================================
