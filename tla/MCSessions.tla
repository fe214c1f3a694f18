----------------------------- MODULE MCSessions -----------------------------
EXTENDS Sessions, TLC

(* Requests in flight are interchangeable: no property names one.  Used    *)
(* where no property looks further than one step.                          *)
HandlerSymmetry == Permutations(Handlers)
=============================================================================
