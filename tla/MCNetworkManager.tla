--------------------------- MODULE MCNetworkManager ---------------------------
(* Network threads for TLC. *)
EXTENDS NetworkManager

CONSTANTS net1, net2

OneThread == {net1}

TwoThreads == {net1, net2}
=============================================================================
