-------------------------- MODULE MCSwapIngestion --------------------------
(* Two pairs, two blocks, two logs of one transaction.                      *)
EXTENDS SwapIngestion

CONSTANTS a, b

Swap(p, block, tx, kind) == [pair |-> p, block |-> block, tx |-> tx, kind |-> kind]

MCPairs == {a, b}
MCLog == <<Swap(a, 1, 1, "BUY"), Swap(a, 1, 1, "BUY"), Swap(b, 1, 2, "SELL"),
           Swap(a, 2, 3, "BUY"), Swap(a, 2, 4, "BUY")>>
=============================================================================
