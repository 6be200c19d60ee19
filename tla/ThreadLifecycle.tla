--------------------------- MODULE ThreadLifecycle ---------------------------
(***************************************************************************)
(* The life of one AbstractThread (sphere/threads.cpp): the parent thread, *)
(* which starts it, watches it when it is g_Main                           *)
(* (Sphere_MainMonitorLoop) and closes it at the end (Sphere_ExitServer),  *)
(* and the operating system's threads that run its ticks.                  *)
(*                                                                         *)
(* Time is not modelled: the parent's 60 seconds for a thread to close,    *)
(* and its periods between two looks at m_hangCheck, are longer than       *)
(* anything that a thread does unless it hangs.                            *)
(***************************************************************************)
EXTENDS Naturals, FiniteSets

CONSTANTS
    MaxThreads, \* bound on the threads that the operating system is asked for
    MaxHangs,   \* bound on the ticks that hang
    Builds      \* the kinds of threads, and of systems to run them on

\*  windows:  its threads and events, or those of pthread
\*  main:     the thread is g_Main
\*  sleeps:   IThread::Disabled: it waits to be woken between its ticks
\*  mayQuit:  the PingServer, which ends when its socket does not open
Build == [windows : BOOLEAN, main : BOOLEAN, sleeps : BOOLEAN,
          mayQuit : BOOLEAN]

ASSUME BoundsAssumption == MaxThreads \in Nat \ {0} /\ MaxHangs \in Nat
ASSUME BuildsAssumption == Builds \subseteq Build

None == 0
Workers == 1..MaxThreads
Parent == MaxThreads + 1
Threads == Workers \cup {Parent}

VARIABLES
    build,      \* which of them this is
    pc,         \* what each thread of the operating system is doing
    handle,     \* m_handle
    id,         \* m_id
    hangCheck,  \* m_hangCheck
    request,    \* m_terminateRequested
    ended,      \* m_terminateEvent
    awake,      \* m_sleepEvent, where an event keeps a signal
    wasCurrent, \* wasCurrentThread of the parent's terminate()
    registered, \* how often the thread is in ThreadHolder::m_threads
    exitFlag,   \* g_Serv.m_iExitFlag
    exiting,    \* SERVMODE_Exiting
    everHung,   \* the threads of which a tick has hung
    forced      \* the threads terminated by another one

objectVars == <<handle, id, hangCheck, request, ended, awake>>
serverVars == <<build, exitFlag, exiting>>
ghostVars == <<everHung, forced>>
otherVars == <<registered, wasCurrent, serverVars, ghostVars>>
vars == <<pc, objectVars, otherVars>>

Init ==
    /\ build \in Builds
    /\ pc = [t \in Threads |-> IF t = Parent THEN "start" ELSE "new"]
    /\ handle = None /\ id = None
    /\ hangCheck = "ok" /\ request = TRUE
    /\ ended = FALSE /\ awake = FALSE
    /\ wasCurrent = FALSE /\ registered = 0
    /\ exitFlag = FALSE /\ exiting = FALSE
    /\ everHung = {} /\ forced = {}

Goto(t, label) == pc' = [pc EXCEPT ![t] = label]

\* An exception that nobody catches, or a cancellation that somebody does,
\* ends the process.
Aborted == \E t \in Threads : pc[t] \in {"throws", "aborts"}

-----------------------------------------------------------------------------
(* start() *)

\* _beginthreadex() returns the handle, and pthread_create() writes it.
Create(t) ==
    /\ pc[Parent] = "start"
    /\ pc[t] = "new" /\ \A u \in Workers : u < t => pc[u] # "new"
    /\ pc' = [pc EXCEPT ![t] = "created",
                        ![Parent] = IF build.windows THEN "handle"
                                    ELSE "reset"]
    /\ handle' = IF build.windows THEN handle ELSE t
    /\ UNCHANGED <<id, hangCheck, request, ended, awake, otherVars>>

SetHandle ==
    /\ pc[Parent] = "handle"
    /\ handle' = CHOOSE t \in Workers :
                     pc[t] # "new" /\ \A u \in Workers : u > t => pc[u] = "new"
    /\ Goto(Parent, "reset")
    /\ UNCHANGED <<id, hangCheck, request, ended, awake, otherVars>>

\* A variant for NeverForcedElsewhere: the event of an earlier end stays set.
ResetNothing ==
    /\ pc[Parent] = "reset"
    /\ Goto(Parent, "push")
    /\ UNCHANGED <<objectVars, otherVars>>

ResetEvent ==
    /\ pc[Parent] = "reset"
    /\ ended' = FALSE
    /\ Goto(Parent, "push")
    /\ UNCHANGED <<handle, id, hangCheck, request, awake, otherVars>>

Push ==
    /\ pc[Parent] = "push"
    /\ registered' = registered + 1
    /\ Goto(Parent, "watch")
    /\ UNCHANGED <<objectVars, wasCurrent, serverVars, ghostVars>>

-----------------------------------------------------------------------------
(* run(), by a worker, or by the parent after a hang *)

OnStart(t) ==
    /\ pc[t] = "created"
    /\ id' = t
    /\ request' = FALSE
    /\ Goto(t, "loop")
    /\ UNCHANGED <<handle, hangCheck, ended, awake, otherVars>>

BeginTick(t) ==
    /\ pc[t] = "loop"
    /\ hangCheck' = "ok"
    /\ Goto(t, "tick")
    /\ UNCHANGED <<handle, id, request, ended, awake, otherVars>>

EndTick(t) ==
    /\ pc[t] = "tick"
    /\ Goto(t, "check")
    /\ UNCHANGED <<objectVars, otherVars>>

\* The tick hangs, say in an endless loop of a script ...
Hang(t) ==
    /\ pc[t] = "tick"
    /\ MaxHangs > 0 /\ Cardinality(everHung) < MaxHangs
    /\ everHung' = everHung \cup {t}
    /\ Goto(t, "hung")
    /\ UNCHANGED <<objectVars, registered, wasCurrent, serverVars, forced>>

\* ... or is only very slow.
Recover(t) ==
    /\ pc[t] = "hung"
    /\ Goto(t, "check")
    /\ UNCHANGED <<objectVars, otherVars>>

\* shouldExit(), of g_Main and of the PingServer too
ShouldExit == request \/ exiting \/ (build.main /\ exitFlag)

\* The parent goes on to checkStuck()'s start().
LeaveRun(t) == Goto(t, IF t = Parent THEN "start" ELSE "ending")

Check(t) ==
    /\ pc[t] = "check"
    /\ \/ (ShouldExit \/ build.mayQuit) /\ LeaveRun(t)
       \/ ~ShouldExit /\ Goto(t, IF build.sleeps THEN "sleep" ELSE "loop")
    /\ UNCHANGED <<objectVars, otherVars>>

\* AutoResetEvent::wait(): a signal given before is lost with pthread.
Sleep(t) ==
    /\ pc[t] = "sleep"
    /\ Goto(t, IF build.windows /\ awake THEN "loop" ELSE "waiting")
    /\ awake' = FALSE
    /\ UNCHANGED <<handle, id, hangCheck, request, ended, otherVars>>

\* awaken(), AutoResetEvent::signal()
Signal(label) ==
    /\ pc' = [t \in Threads |-> IF t = Parent THEN label
                                ELSE IF pc[t] = "waiting" THEN "loop"
                                ELSE pc[t]]
    /\ awake' = (build.windows /\ \A t \in Threads : pc[t] # "waiting")

\* Other parts of the server wake the thread too, for its work.
Awaken ==
    /\ build.sleeps
    /\ Signal(pc[Parent])
    /\ UNCHANGED <<handle, id, hangCheck, request, ended, otherVars>>

-----------------------------------------------------------------------------
(* terminate() *)

\* runner(): terminate(true), when the thread is active
Ending(t) ==
    /\ pc[t] = "ending"
    /\ Goto(t, IF handle = None THEN "done" ELSE "pop")
    /\ UNCHANGED <<objectVars, otherVars>>

\* isCurrentThread(), asked by the parent
IsCurrentThread == build.windows /\ id = Parent

\* A variant for OneTickerOnWindows: the hung thread is forgotten, not
\* terminated.
KillNobody ==
    /\ pc[Parent] = "kill"
    /\ Goto(Parent, IF handle # None THEN "pop"
                    ELSE IF exiting THEN "closed" ELSE "created")
    /\ wasCurrent' = IsCurrentThread
    /\ UNCHANGED <<objectVars, registered, serverVars, ghostVars>>

\* terminate(false) by the parent.  TerminateThread() works at once,
\* pthread_cancel() at the next cancellation point.
Kill ==
    /\ pc[Parent] = "kill"
    /\ LET alive == /\ handle # None /\ ~IsCurrentThread
                    /\ pc[handle] \notin {"done", "dead"}
       IN  /\ pc' = [t \in Threads |->
                        IF t = Parent
                        THEN IF handle # None THEN "pop"
                             ELSE IF exiting THEN "closed" ELSE "created"
                        ELSE IF build.windows /\ alive /\ t = handle
                        THEN "dead"
                        ELSE pc[t]]
           /\ forced' = forced \cup (IF alive THEN {handle} ELSE {})
    /\ wasCurrent' = IsCurrentThread
    /\ UNCHANGED <<objectVars, registered, serverVars, everHung>>

\* ThreadHolder::pop().  What it throws is caught in
\* Sphere_MainMonitorLoop(), but neither in runner() nor at exit.
Pop(t) ==
    /\ pc[t] = "pop"
    /\ \/ /\ registered > 0
          /\ registered' = registered - 1
          /\ Goto(t, "clear")
       \/ /\ registered = 0
          /\ UNCHANGED registered
          /\ Goto(t, IF t = Parent /\ ~exiting THEN "watch" ELSE "throws")
    /\ UNCHANGED <<objectVars, wasCurrent, serverVars, ghostVars>>

\* A variant for ExitsElsewhere: nobody is told.
ClearSilently(t) ==
    /\ pc[t] = "clear"
    /\ handle' = None /\ id' = None
    /\ Goto(t, IF t # Parent THEN "done"
               ELSE IF ~exiting THEN "created"
               ELSE IF wasCurrent THEN "done"
               ELSE "closed")
    /\ UNCHANGED <<hangCheck, request, ended, awake, otherVars>>

\* The rest of terminate(), which ends the current thread: for the parent in
\* checkStuck() run() comes next.
Clear(t) ==
    /\ pc[t] = "clear"
    /\ handle' = None /\ id' = None
    /\ ended' = TRUE
    /\ Goto(t, IF t # Parent THEN "done"
               ELSE IF ~exiting THEN "created"
               ELSE IF wasCurrent THEN "done"
               ELSE "closed")
    /\ UNCHANGED <<hangCheck, request, awake, otherVars>>

\* A cancelled thread meets a cancellation point.  In a tick the unwinding may
\* end in a catch (...) that does not throw on, which aborts the process.
Cancelled(t) ==
    /\ ~build.windows /\ t \in forced
    /\ \/ pc[t] \in {"tick", "hung", "sleep", "waiting"} /\ Goto(t, "dead")
       \/ pc[t] \in {"tick", "hung"} /\ Goto(t, "aborts")
    /\ UNCHANGED <<objectVars, otherVars>>

-----------------------------------------------------------------------------
(* The parent *)

\* A variant for HangsEndOnWindows: the second look is like the first.
CheckStuckAgain ==
    /\ pc[Parent] = "watch"
    /\ build.main /\ handle # None
    /\ hangCheck = "ok"
    /\ hangCheck' = "dead"
    /\ UNCHANGED <<pc, handle, id, request, ended, awake, otherVars>>

\* checkStuck(), once in a period of Sphere_MainMonitorLoop().  A thread that
\* does not hang has answered in the time between.
CheckStuck ==
    /\ pc[Parent] = "watch"
    /\ build.main /\ handle # None
    /\ hangCheck = "ok" \/ pc[handle] \in {"hung", "done", "dead"}
    /\ \/ hangCheck = "ok" /\ hangCheck' = "dead" /\ UNCHANGED pc
       \/ hangCheck = "dead" /\ hangCheck' = "deaddead" /\ UNCHANGED pc
       \/ hangCheck = "deaddead" /\ Goto(Parent, "kill") /\ UNCHANGED hangCheck
    /\ UNCHANGED <<handle, id, request, ended, awake, otherVars>>

\* Sphere_ExitServer(), with f_onserver_exit first
BeginExit ==
    /\ pc[Parent] = "watch"
    /\ exitFlag
    /\ Goto(Parent, "script")
    /\ UNCHANGED <<objectVars, otherVars>>

SetExiting ==
    /\ pc[Parent] = "script"
    /\ exiting' = TRUE
    /\ Goto(Parent, "close")
    /\ UNCHANGED <<build, objectVars, wasCurrent, registered, exitFlag,
                   ghostVars>>

\* A variant for ClosedOnWindows: the thread is asked and not waited for.
AskToClose ==
    /\ pc[Parent] = "close"
    /\ IF handle # None
       THEN request' = TRUE /\ Signal("closed")
       ELSE Goto(Parent, "closed") /\ UNCHANGED <<request, awake>>
    /\ UNCHANGED <<handle, id, hangCheck, ended, otherVars>>

\* waitForClose()
WaitForClose ==
    /\ pc[Parent] = "close"
    /\ IF handle # None /\ ~IsCurrentThread
       THEN request' = TRUE /\ Signal("wait")
       ELSE /\ Goto(Parent, IF handle = None THEN "closed" ELSE "kill")
            /\ UNCHANGED <<request, awake>>
    /\ UNCHANGED <<handle, id, hangCheck, ended, otherVars>>

\* m_terminateEvent.wait(THREADJOIN_TIMEOUT)
Wait ==
    /\ pc[Parent] = "wait"
    /\ \/ ended
       \/ handle # None /\ pc[handle] \in {"hung", "waiting", "done", "dead"}
    /\ Goto(Parent, "kill")
    /\ UNCHANGED <<objectVars, otherVars>>

\* SHUTDOWN, a key of the console, a signal
SetExitFlag ==
    /\ ~exitFlag
    /\ exitFlag' = TRUE
    /\ UNCHANGED <<build, pc, objectVars, wasCurrent, registered, exiting,
                   ghostVars>>

-----------------------------------------------------------------------------
Run(t) ==
    \/ OnStart(t) \/ BeginTick(t) \/ EndTick(t) \/ Check(t) \/ Sleep(t)
    \/ Ending(t) \/ Pop(t) \/ Clear(t)

ParentStep ==
    \/ \E t \in Workers : Create(t)
    \/ SetHandle \/ ResetEvent \/ Push
    \/ CheckStuck \/ Kill \/ BeginExit \/ SetExiting \/ WaitForClose \/ Wait

Next ==
    /\ ~Aborted
    /\ \/ \E t \in Threads :
              Run(t) \/ Hang(t) \/ Recover(t) \/ Cancelled(t)
       \/ ParentStep \/ Awaken \/ SetExitFlag

Spec == Init /\ [][Next]_vars

\* The operating system runs every thread.
FairSpec ==
    /\ Spec
    /\ \A t \in Threads : WF_vars(~Aborted /\ Run(t))
    /\ WF_vars(~Aborted /\ ParentStep)

-----------------------------------------------------------------------------
Ticking == {t \in Threads : pc[t] \in {"tick", "hung"}}

\* The build in which the parent may take itself for the thread, once it has
\* run the main loop.
MainOnWindows == build.main /\ build.windows

\* The type invariant.
TypeOK ==
    /\ build \in Builds
    /\ pc \in [Threads ->
           {"new", "start", "handle", "reset", "push", "watch", "created",
            "loop", "tick", "hung", "check", "sleep", "waiting", "ending",
            "kill", "pop", "clear", "script", "close", "wait", "closed",
            "done", "dead", "throws", "aborts"}]
    /\ handle \in Workers \cup {None} /\ id \in Threads \cup {None}
    /\ hangCheck \in {"ok", "dead", "deaddead"}
    /\ registered \in 0..1
    /\ {request, ended, awake, wasCurrent, exitFlag, exiting}
           \subseteq BOOLEAN
    /\ everHung \subseteq Threads /\ forced \subseteq Workers

\* After a restart there is one main loop, never two ("This should be the
\* parent thread. try to restart it if it is not.").  Where a thread can be
\* ended at once, it is so.
OneTicker == Cardinality(Ticking) <= 1
OneTickerOnWindows == build.windows => OneTicker

\* The world and its scripts are one thread's at a time, when the server
\* exits too.
OneInWorld == pc[Parent] = "script" => Ticking = {}

\* waitForClose() returns when no tick runs any more: Sphere_ExitServer() goes
\* on to close the sockets and the world.
ClosedOnReturn == pc[Parent] = "closed" => Ticking = {}
ClosedOnWindows == build.windows => ClosedOnReturn

\* A thread that does not hang closes on its own and is not terminated.
NeverForced == forced \subseteq everHung
NeverForcedElsewhere == ~MainOnWindows => NeverForced

\* A thread that ends finds itself in ThreadHolder's list.
PopFinds == \A t \in Threads : pc[t] # "throws"

\* The server that shall exit closes the thread.
Exited == pc[Parent] = "closed" \/ Aborted
EveryExitFinishes == exitFlag ~> Exited

\* It does, but for the main loop on Windows (Sphere_ExitServer(),
\* waitForClose()).
ExitsElsewhere == (exitFlag /\ ~MainOnWindows) ~> Exited

\* A main loop that hangs is noticed and does not hang for ever.
EveryHangEnds ==
    \A t \in Threads : pc[t] = "hung" ~> (pc[t] # "hung" \/ exitFlag)

\* It is so where a thread can be ended at once (checkStuck(), terminate()).
HangsEndOnWindows ==
    \A t \in Threads :
        (pc[t] = "hung" /\ MainOnWindows) ~> (pc[t] # "hung" \/ exitFlag)
=============================================================================
