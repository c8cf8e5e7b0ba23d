--------------------------- MODULE MCMonitorReplay ---------------------------
(* Two pairs that compete for one place.                                      *)
EXTENDS MonitorReplay

CONSTANTS a, b

MCInitially == [p \in {a, b} |-> IF p = a THEN "HOLDING" ELSE "WAITING"]
==============================================================================
