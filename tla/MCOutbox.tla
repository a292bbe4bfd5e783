------------------------------ MODULE MCOutbox ------------------------------
(***************************************************************************)
(* The outbox on small instances: what its callers and its dispatchers may *)
(* never observe, and what must eventually happen to every accepted event. *)
(***************************************************************************)
EXTENDS Outbox, TLC

\* Requesters and dispatchers are interchangeable.
Symmetry == Permutations(Requesters) \cup Permutations(Dispatchers)
=============================================================================
