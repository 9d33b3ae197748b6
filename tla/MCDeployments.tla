--------------------------- MODULE MCDeployments ---------------------------
(* TLC instances of Deployments.  Requests are interchangeable. *)
EXTENDS Deployments, TLC

RequestSymmetry == Permutations(Requests)
=============================================================================
