-------------------------- MODULE MCEnablerUpgrade --------------------------
EXTENDS EnablerUpgrade

CONSTANTS node, web, scanner

(* A daemon web-gui depends on, web-gui itself, and an optional service,   *)
(* in the order of UPGRADE_KEYS.                                           *)
MCOrder == <<node, web, scanner>>
=============================================================================
