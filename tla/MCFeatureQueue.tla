--------------------------- MODULE MCFeatureQueue ---------------------------
EXTENDS FeatureQueue, TLC

(* Web requests in flight are interchangeable.                             *)
HandlerSymmetry == Permutations(Handlers)
=============================================================================
