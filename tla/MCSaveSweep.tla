---------------------------- MODULE MCSaveSweep ----------------------------
(* A player, an item, and an item that is not made yet, for TLC. *)
EXTENDS SaveSweep

CONSTANTS player, item, later

Player == {player}
TheItems == {item, later}
TheStart == [o \in {player, item} |-> IF o = player THEN 1 ELSE 2]

\* The default, with and without ForceGarbageCollect, and stages in ticks.
AtOnce(collect) ==
    [background |-> FALSE, collect |-> collect, dynamic |-> FALSE]
InTicks(dynamic) ==
    [background |-> TRUE, collect |-> FALSE, dynamic |-> dynamic]

\* With many sectors in a stage there may be one, too.
BothWays == {AtOnce(TRUE), InTicks(TRUE)}
JustInTicks == {InTicks(FALSE)}
=============================================================================
