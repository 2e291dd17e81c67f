---------------------------- MODULE MCRouterHook ----------------------------
(* Model-checking instances of RouterHook: surfaces are interchangeable,    *)
(* and so are sessions.                                                     *)
EXTENDS RouterHook, TLC

Symmetry == Permutations(Surface) \cup Permutations(Session)
=============================================================================
