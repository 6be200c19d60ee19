-------------------------------- MODULE Fifo --------------------------------
(***************************************************************************)
(* What sphere/containers.h promises of ThreadSafeQueue: a first-in        *)
(* first-out queue.  Elements are numbered in the order they are pushed,   *)
(* so element i is the i-th value ever handed to push().                   *)
(***************************************************************************)
EXTENDS Naturals, Sequences

VARIABLES
    queue,      \* the elements pushed and not yet taken, oldest first
    taken       \* the elements the consumers were given, in that order

vars == <<queue, taken>>

Pushed == Len(taken) + Len(queue)

Init ==
    /\ queue = <<>>
    /\ taken = <<>>

Push ==
    /\ queue' = Append(queue, Pushed + 1)
    /\ UNCHANGED taken

Take ==
    /\ queue # <<>>
    /\ taken' = Append(taken, Head(queue))
    /\ queue' = Tail(queue)

Next == Push \/ Take

Spec == Init /\ [][Next]_vars
=============================================================================
