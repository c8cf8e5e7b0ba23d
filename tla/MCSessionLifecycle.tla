------------------------- MODULE MCSessionLifecycle -------------------------
(* Sessions of one or two pairs.                                            *)
EXTENDS SessionLifecycle, TLC

Symmetry == Permutations(Pairs)
==============================================================================
