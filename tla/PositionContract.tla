--------------------------- MODULE PositionContract ---------------------------
(****************************************************************************)
(* What the bot promises of a position, whatever happens inside: a token is *)
(* bought at most once and sold at most once, it is sold only after its     *)
(* entry is in the book, and the book holds an entry, or an exit, only once *)
(* the chain has done it, and for good.                                     *)
(****************************************************************************)
EXTENDS Naturals

CONSTANT Pairs

VARIABLES
  buys,    \* purchases of the token of a pair that the chain has accepted
  sales,   \* sales that the chain has accepted
  entry,   \* the book holds the entry of the position
  exit     \* the book holds its exit

contractVars == <<buys, sales, entry, exit>>

ContractInit ==
  /\ buys = [p \in Pairs |-> 0]
  /\ sales = [p \in Pairs |-> 0]
  /\ entry = [p \in Pairs |-> FALSE]
  /\ exit = [p \in Pairs |-> FALSE]

Bought(p) ==
  /\ buys[p] = 0
  /\ buys' = [buys EXCEPT ![p] = 1]
  /\ UNCHANGED <<sales, entry, exit>>

Entered(p) ==
  /\ buys[p] = 1 /\ ~entry[p]
  /\ entry' = [entry EXCEPT ![p] = TRUE]
  /\ UNCHANGED <<buys, sales, exit>>

Sold(p) ==
  /\ entry[p] /\ sales[p] = 0
  /\ sales' = [sales EXCEPT ![p] = 1]
  /\ UNCHANGED <<buys, entry, exit>>

Exited(p) ==
  /\ sales[p] = 1 /\ ~exit[p]
  /\ exit' = [exit EXCEPT ![p] = TRUE]
  /\ UNCHANGED <<buys, sales, entry>>

ContractNext == \E p \in Pairs : Bought(p) \/ Entered(p) \/ Sold(p) \/ Exited(p)

ContractSpec == ContractInit /\ [][ContractNext]_contractVars
==============================================================================
