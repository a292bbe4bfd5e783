----------------------------- MODULE MCRequests -----------------------------
EXTENDS Requests, TLC

\* The handlers are goroutines that differ in nothing.
HandlerSymmetry == Permutations(Handlers)
=============================================================================
