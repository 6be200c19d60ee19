-------------------------------- MODULE MCTrade --------------------------------
(* Two or three players with a few things; "chest" is as heavy as two others. *)
EXTENDS Trade

CONSTANTS ann, bob, cid, ring, cup, chest

JustTwo == {ann, bob}
Three == {ann, bob, cid}

Things == {ring, cup, chest}
TwoThings == {ring, chest}
JustRing == {ring}
TheWeights == [i \in Items |-> IF i = chest THEN 2 ELSE 1]

\* Ann can carry everything twice, Bob and Cid not even everything.
TheStrength == [c \in Chars |-> IF c = ann THEN 8 ELSE 3]

\* What scripts may refuse
NoRing == {<<ann, ring>>}
BobsWindow == {<<bob, ann>>}

NoGold == {[c \in Chars |-> 0]}
AnnHasOne == {[c \in Chars |-> IF c = ann THEN 1 ELSE 0]}
=============================================================================
