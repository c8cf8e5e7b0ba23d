--------------------------- MODULE MCRecoveryBarrier ---------------------------
(* The instance of RecoveryBarrier for TLC. No symmetry: the run checks      *)
(* liveness, for which symmetry is unsound.                                  *)
EXTENDS RecoveryBarrier

CONSTANTS l1, l2, l3, r1, r2, r3

MCListeners == {l1, l2, l3}
MCRecoveries == {r1, r2, r3}
==============================================================================
