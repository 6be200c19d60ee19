-------------------------- MODULE MCThreadSafeQueue --------------------------
(* The two threads that pop from a NetState's queues, for TLC.             *)
EXTENDS ThreadSafeQueue

CONSTANTS main, net

OneReader == {main}

TwoReaders == {main, net}
=============================================================================
