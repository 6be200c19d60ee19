-------------------------- MODULE MCThreadLifecycle --------------------------
(***************************************************************************)
(* The threads of the server for TLC: the main loop, a network thread,     *)
(* which sleeps until it is woken, and the PingServer, which may end.      *)
(***************************************************************************)
EXTENDS ThreadLifecycle

MainLoop(windows) ==
    [windows |-> windows, main |-> TRUE, sleeps |-> FALSE, mayQuit |-> FALSE]
Sleeper(windows) ==
    [windows |-> windows, main |-> FALSE, sleeps |-> TRUE, mayQuit |-> FALSE]
Ping(windows) ==
    [windows |-> windows, main |-> FALSE, sleeps |-> FALSE, mayQuit |-> TRUE]

LoopOnWindows == {MainLoop(TRUE)}
LoopOnUnix == {MainLoop(FALSE)}
SleeperOnUnix == {Sleeper(FALSE)}
AllThree == {MainLoop(TRUE), MainLoop(FALSE), Sleeper(TRUE)}
PingOnUnix == {Ping(FALSE)}
=============================================================================
