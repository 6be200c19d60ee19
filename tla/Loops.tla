--------------------------------- MODULE Loops ---------------------------------
(***************************************************************************)
(* What loops of the game do.  They go through a list, of characters,      *)
(* items, clients or functions, and do something for each; or they take    *)
(* some out of a list, and the rest stays in its order.                    *)
(***************************************************************************)
EXTENDS Naturals, Sequences, FiniteSets, Functions

\* The elements of S, in one order or another.
Orders(S) == Bijection(1..Cardinality(S), S)

\* What comes of at when step[x] is done for each x of s, one after the other.
InTurn(step, at, s) ==
    LET upTo[n \in 0..Len(s)] ==
          IF n = 0 THEN at ELSE step[s[n]][upTo[n - 1]]
    IN upTo[Len(s)]

\* The list s without those of G
Without(s, G) ==
    LET upTo[n \in 0..Len(s)] ==
          IF n = 0 THEN <<>>
          ELSE IF s[n] \in G THEN upTo[n - 1] ELSE Append(upTo[n - 1], s[n])
    IN upTo[Len(s)]
=============================================================================
