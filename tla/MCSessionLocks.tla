---------------------------- MODULE MCSessionLocks ----------------------------
(* Instances of SessionLocks for TLC.                                        *)
EXTENDS SessionLocks

CONSTANTS c1, c2, d1, d2

MCChunks == {c1, c2}
MCDirects == {d1, d2}
MCListeners == MCChunks \cup MCDirects
==============================================================================
