-------------------------- MODULE MCCanonicalChain --------------------------
(* One pair on a chain of three blocks and three forks: 2 creates the pair, *)
(* 4 and 5 are buys on it.                                                  *)
EXTENDS CanonicalChain

CONSTANTS a, b

MCPairs == {a}
MCEvents == {2, 4, 5}
MCPairOf == [e \in MCEvents |-> a]
MCCreated == {2}
\* The second fork swaps the buys; on the third one the pair is created later.
MCContent ==
  << [f \in Labels |-> <<>>],
     [f \in Labels |-> IF f = 3 THEN <<>> ELSE <<2>>],
     [f \in Labels |-> IF f = 1 THEN <<4, 5>> ELSE IF f = 2 THEN <<5, 4>> ELSE <<2>>] >>

\* One block more: the entry and the buy after it are in different blocks.
MCLonger ==
  << [f \in Labels |-> <<>>],
     [f \in Labels |-> <<2>>],
     [f \in Labels |-> <<4>>],
     [f \in Labels |-> IF f = 1 THEN <<5>> ELSE <<>>] >>

\* Two pairs in one grouped pass: 2 creates a and 3 creates b; 4, 5 and 6 are buys on a.
MCTwo == {a, b}
MCEventsOfTwo == {2, 3, 4, 5, 6}
MCPairOfTwo == [e \in MCEventsOfTwo |-> IF e = 3 THEN b ELSE a]
MCCreatedTwo == {2, 3}
MCContentOfTwo ==
  << [f \in Labels |-> <<>>],
     [f \in Labels |-> <<2, 3>>],
     [f \in Labels |-> IF f = 1 THEN <<4>> ELSE <<6>>],
     [f \in Labels |-> IF f = 1 THEN <<5>> ELSE <<>>] >>
=============================================================================
