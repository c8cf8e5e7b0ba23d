---------------------------- MODULE MCExitPolicy -----------------------------
(* Small instances of ExitPolicy: a whole of 10 basis points, a position that *)
(* cost 100.                                                                  *)
EXTENDS ExitPolicy

CONSTANT a

Calm == [trailing |-> FALSE, activation |-> 3, drawdown |-> 2, stopLoss |-> 4, takeProfit |-> 5,
         liquidityDrop |-> 5, gasRatio |-> 2, emergencyGas |-> 15, buffer |-> 0, target |-> 2]
Trailing == [Calm EXCEPT !.trailing = TRUE, !.target = 1]

Level == [readable |-> TRUE, quote |-> 110, liquidity |-> 10, gas |-> 5, tax |-> 0, probe |-> "SAFE"]
High == [Level EXCEPT !.quote = 160]
Low == [Level EXCEPT !.quote = 60]
Drained == [Level EXCEPT !.liquidity = 4]
Costly == [Low EXCEPT !.gas = 20, !.liquidity = 4]
Jammed == [Level EXCEPT !.probe = "UNKNOWN"]
Dark == [Level EXCEPT !.readable = FALSE]

MCPolicies == {Calm, Trailing}
MCMarkets == {High, Low, Drained, Costly, Jammed, Dark}
==============================================================================
