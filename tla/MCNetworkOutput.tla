---------------------------- MODULE MCNetworkOutput ----------------------------
(***************************************************************************)
(* The ways in which the server runs, for the runs of NetworkOutput: in    *)
(* one thread or with a network thread, with the priorities that are sent  *)
(* when UsePacketPriority is 0, as it is by default, or with one more.     *)
(***************************************************************************)
EXTENDS NetworkOutput

Default == {NORMAL, HIGHEST}
Three == {IDLE, NORMAL, HIGHEST}

OneThread(used, transactions) ==
    [threaded |-> FALSE, used |-> used, transactions |-> transactions]
TwoThreads == [threaded |-> TRUE, used |-> Default, transactions |-> 1]

BothWays == {OneThread(Three, 1), OneThread(Default, 2), TwoThreads}
JustOneThread == {OneThread(Default, 1)}
JustTwoThreads == {TwoThreads}
=============================================================================
