--------------------------- MODULE MCOutboundRelay ---------------------------
(* Model-checking instances of OutboundRelay: the surfaces, and the relays, *)
(* play the same role, so the safety runs may exchange them.                *)
EXTENDS OutboundRelay, TLC

Symmetry == Permutations(Surface) \cup Permutations(Relay)
=============================================================================
