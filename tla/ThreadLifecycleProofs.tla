------------------------ MODULE ThreadLifecycleProofs ------------------------
(***************************************************************************)
(* For every number of system threads and of hangs, and for every kind of  *)
(* thread: on Windows no two of them ever tick at once, through hangs,     *)
(* restarts and the exit, and waitForClose() returns to a closing server   *)
(* only when none ticks.  And where no signal is lost, a thread is         *)
(* terminated only if one of its ticks has hung.                           *)
(***************************************************************************)
EXTENDS ThreadLifecycle, FiniteSetTheorems, TLAPS

Idle(t) == pc[t] \in {"new", "done", "dead"}
InRun == {"created", "loop", "tick", "hung", "check", "sleep", "waiting"}

\* The parent has a thread that it watches, or is about to.
Watching == {"reset", "push", "watch", "script", "close", "wait", "kill"}

\* The last one that was created
Latest(t) == pc[t] # "new" /\ \A u \in Workers : u > t => pc[u] = "new"

\* The system's threads are used one after the other; the parent is none.
Numbered ==
    /\ \A t, u \in Workers : t < u /\ pc[t] = "new" => pc[u] = "new"
    /\ pc[Parent] \notin {"new", "ending", "dead", "aborts"}
    /\ pc[Parent] = "handle" =>
           build.windows /\ \E t \in Workers : Latest(t)
    /\ handle # None => pc[handle] # "new"

\* ThreadHolder's list has the thread from push() to the one pop() that
\* finds it, and whoever that was clears the handle next.
RegisteredOnce ==
    /\ registered = 1 => /\ pc[Parent] \in {"watch", "script", "close", "wait",
                                            "kill", "pop", "closed", "done",
                                            "throws"}
                         /\ handle # None
                         /\ \A t \in Threads : pc[t] # "clear"
    /\ pc[Parent] \in {"reset", "push"} => handle # None
    /\ \A t \in Threads :
           pc[t] = "clear" =>
               /\ pc[Parent] \in {"watch", "script", "close", "wait", "kill",
                                  "pop", "clear", "closed", "done", "throws"}
               /\ handle # None
               /\ \A u \in Threads : pc[u] = "clear" => u = t

\* On Windows at most one worker is not idle, and none while the parent runs
\* the loop; when the parent watches one, its handle is that one's.
OneAlive ==
    /\ \A t, u \in Workers : ~Idle(t) /\ ~Idle(u) => t = u
    /\ pc[Parent] \in InRun \cup {"start"} =>
           handle = None /\ \A t \in Workers : Idle(t)
    /\ pc[Parent] = "handle" =>
           /\ handle = None
           /\ \A t \in Workers :
                  /\ ~Idle(t) => Latest(t) /\ pc[t] \notin {"pop", "clear"}
                  /\ id = Parent /\ Latest(t) => pc[t] = "created"
    /\ pc[Parent] \in Watching =>
           \A t \in Workers : t # handle => Idle(t)
    /\ pc[Parent] \in {"pop", "clear"} /\ ~wasCurrent =>
           \A t \in Workers : Idle(t)
    /\ pc[Parent] = "closed" => \A t \in Workers : Idle(t)

\* The parent takes itself for the thread only before the new one has begun,
\* so that it does not terminate itself before the exit.
NotItself ==
    /\ pc[Parent] \in Watching /\ id = Parent =>
           /\ handle # None /\ pc[handle] = "created"
           /\ pc[Parent] = "kill" => exiting
           /\ pc[Parent] # "wait"
    /\ pc[Parent] \in {"close", "wait"} => exiting
    /\ pc[Parent] \in {"pop", "clear"} /\ (wasCurrent \/ id = Parent) =>
           exiting

OnWindows == build.windows => OneAlive /\ NotItself

IInv == TypeOK /\ Numbered /\ RegisteredOnce /\ OnWindows

-----------------------------------------------------------------------------
\* Events keep their signals where threads sleep.
SignalsKept == \A b \in Builds : b.sleeps => b.windows

\* Only threads that hang, that are gone or that have told of their end are
\* terminated.
ToKill ==
    /\ \A t \in Threads : pc[t] = "hung" => t \in everHung
    /\ pc[Parent] \in {"push", "watch", "script", "close", "wait", "kill",
                       "pop", "clear"} /\ ended => handle = None
    /\ pc[Parent] \in {"close", "wait"} => exiting
    /\ ~build.sleeps => \A t \in Threads : pc[t] \notin {"sleep", "waiting"}
    /\ ~build.main => /\ pc[Parent] \notin InRun /\ id # Parent
                      /\ pc[Parent] \in {"kill", "pop", "clear"} => exiting
    /\ build.windows /\ ~build.main /\ pc[Parent] = "wait" =>
           \A t \in Workers :
               pc[t] # "waiting" /\ (pc[t] = "sleep" => awake)
    /\ ~MainOnWindows =>
           /\ forced \subseteq everHung
           /\ pc[Parent] = "kill" => \/ handle = None \/ handle \in everHung
                                     \/ pc[handle] \in {"done", "dead"}

-----------------------------------------------------------------------------
LEMMA Apart ==
  /\ Threads = Workers \cup {Parent} /\ Parent \notin Workers
  /\ None \notin Threads /\ Workers \subseteq Nat /\ Parent \in Nat
  BY BoundsAssumption DEF Threads, Workers, Parent, None

LEMMA PcIsFunction == TypeOK => \E S : pc \in [Threads -> S]
  BY DEF TypeOK

LEMMA Pointers ==
  TypeOK => /\ handle \in Workers \cup {None} /\ id \in Threads \cup {None}
            /\ forced \subseteq Workers
            /\ registered \in 0..1 /\ build \in Builds
  BY DEF TypeOK

LEMMA InitIInv == Init => IInv /\ ToKill
<1> SUFFICES ASSUME Init PROVE IInv /\ ToKill
  OBVIOUS
<1> USE Apart DEF Init
<1>1. TypeOK
  <2>1. {request, ended, awake, wasCurrent, exitFlag, exiting}
           \subseteq BOOLEAN
    BY Zenon
  <2>2. QED
    BY <2>1 DEF TypeOK
<1>2. Numbered /\ RegisteredOnce
  BY DEF Numbered, RegisteredOnce
<1>3. OnWindows
  BY DEF OnWindows, OneAlive, NotItself, Idle, InRun, Watching
<1>4. ToKill
  BY DEF ToKill, InRun
<1>5. QED
  BY <1>1, <1>2, <1>3, <1>4 DEF IInv

LEMMA TypeKept ==
  ASSUME TypeOK, Numbered, RegisteredOnce, Next
  PROVE  TypeOK'
<1> USE Apart, BuildsAssumption, BoundsAssumption
    DEF TypeOK, Numbered, RegisteredOnce, Goto, objectVars, otherVars,
        serverVars, ghostVars
<1>1. ASSUME NEW t \in Threads, OnStart(t) PROVE TypeOK'
  BY <1>1 DEF OnStart
<1>2. ASSUME NEW t \in Threads, BeginTick(t) PROVE TypeOK'
  BY <1>2 DEF BeginTick
<1>3. ASSUME NEW t \in Threads, EndTick(t) PROVE TypeOK'
  BY <1>3 DEF EndTick
<1>4. ASSUME NEW t \in Threads, Check(t) PROVE TypeOK'
  BY <1>4 DEF Check, LeaveRun, ShouldExit
<1>5. ASSUME NEW t \in Threads, Sleep(t) PROVE TypeOK'
  BY <1>5 DEF Sleep
<1>6. ASSUME NEW t \in Threads, Ending(t) PROVE TypeOK'
  BY <1>6 DEF Ending
<1>7. ASSUME NEW t \in Threads, Pop(t) PROVE TypeOK'
  BY <1>7 DEF Pop
<1>8. ASSUME NEW t \in Threads, Clear(t) PROVE TypeOK'
  BY <1>8 DEF Clear
<1>9. ASSUME NEW t \in Threads, Hang(t) PROVE TypeOK'
  BY <1>9 DEF Hang
<1>10. ASSUME NEW t \in Threads, Recover(t) PROVE TypeOK'
  BY <1>10 DEF Recover
<1>11. ASSUME NEW t \in Threads, Cancelled(t) PROVE TypeOK'
  BY <1>11 DEF Cancelled
<1>12. ASSUME NEW t \in Workers, Create(t) PROVE TypeOK'
  BY <1>12 DEF Create
<1>13. CASE SetHandle
  BY <1>13 DEF SetHandle
<1>14. CASE ResetEvent
  BY <1>14 DEF ResetEvent
<1>15. CASE Push
  BY <1>15 DEF Push
<1>16. CASE CheckStuck
  BY <1>16 DEF CheckStuck
<1>17. CASE Kill
  BY <1>17 DEF Kill, IsCurrentThread
<1>18. CASE BeginExit
  BY <1>18 DEF BeginExit
<1>19. CASE SetExiting
  BY <1>19 DEF SetExiting
<1>20. CASE WaitForClose
  <2>1. CASE handle # None /\ ~IsCurrentThread
    BY <1>20, <2>1 DEF WaitForClose, Signal
  <2>2. CASE ~(handle # None /\ ~IsCurrentThread)
    BY <1>20, <2>2 DEF WaitForClose, IsCurrentThread
  <2>3. QED
    BY <2>1, <2>2
<1>21. CASE Wait
  BY <1>21 DEF Wait
<1>22. CASE Awaken
  BY <1>22 DEF Awaken, Signal
<1>23. CASE SetExitFlag
  BY <1>23 DEF SetExitFlag
<1>24. QED
  BY <1>1, <1>2, <1>3, <1>4, <1>5, <1>6, <1>7, <1>8, <1>9, <1>10, <1>11,
     <1>12, <1>13, <1>14, <1>15, <1>16, <1>17, <1>18, <1>19, <1>20, <1>21,
     <1>22, <1>23 DEF Next, Run, ParentStep

LEMMA NumberedKept ==
  ASSUME TypeOK, Numbered, Next
  PROVE  Numbered'
<1> USE Apart, PcIsFunction, Pointers
    DEF Numbered, Latest, Goto, objectVars, otherVars, serverVars, ghostVars
<1>1. ASSUME NEW t \in Threads, OnStart(t) PROVE Numbered'
  BY <1>1 DEF OnStart
<1>2. ASSUME NEW t \in Threads, BeginTick(t) PROVE Numbered'
  BY <1>2 DEF BeginTick
<1>3. ASSUME NEW t \in Threads, EndTick(t) PROVE Numbered'
  BY <1>3 DEF EndTick
<1>4. ASSUME NEW t \in Threads, Check(t) PROVE Numbered'
  BY <1>4 DEF Check, LeaveRun, ShouldExit
<1>5. ASSUME NEW t \in Threads, Sleep(t) PROVE Numbered'
  BY <1>5 DEF Sleep
<1>6. ASSUME NEW t \in Threads, Ending(t) PROVE Numbered'
  BY <1>6 DEF Ending
<1>7. ASSUME NEW t \in Threads, Pop(t) PROVE Numbered'
  BY <1>7 DEF Pop
<1>8. ASSUME NEW t \in Threads, Clear(t) PROVE Numbered'
  BY <1>8 DEF Clear
<1>9. ASSUME NEW t \in Threads, Hang(t) PROVE Numbered'
  BY <1>9 DEF Hang
<1>10. ASSUME NEW t \in Threads, Recover(t) PROVE Numbered'
  BY <1>10 DEF Recover
<1>11. ASSUME NEW t \in Threads, Cancelled(t) PROVE Numbered'
  BY <1>11 DEF Cancelled
<1>12. ASSUME NEW t \in Workers, Create(t) PROVE Numbered'
  BY <1>12 DEF Create
<1>13. CASE SetHandle
  BY <1>13 DEF SetHandle
<1>14. CASE ResetEvent
  BY <1>14 DEF ResetEvent
<1>15. CASE Push
  BY <1>15 DEF Push
<1>16. CASE CheckStuck
  BY <1>16 DEF CheckStuck
<1>17. CASE Kill
  BY <1>17 DEF Kill, IsCurrentThread
<1>18. CASE BeginExit
  BY <1>18 DEF BeginExit
<1>19. CASE SetExiting
  BY <1>19 DEF SetExiting
<1>20. CASE WaitForClose
  BY <1>20 DEF WaitForClose, IsCurrentThread, Signal
<1>21. CASE Wait
  BY <1>21 DEF Wait
<1>22. CASE Awaken
  BY <1>22 DEF Awaken, Signal
<1>23. CASE SetExitFlag
  BY <1>23 DEF SetExitFlag
<1>24. QED
  BY <1>1, <1>2, <1>3, <1>4, <1>5, <1>6, <1>7, <1>8, <1>9, <1>10, <1>11,
     <1>12, <1>13, <1>14, <1>15, <1>16, <1>17, <1>18, <1>19, <1>20, <1>21,
     <1>22, <1>23 DEF Next, Run, ParentStep

LEMMA RegisteredKept ==
  ASSUME TypeOK, Numbered, RegisteredOnce, Next
  PROVE  RegisteredOnce'
<1> USE Apart, PcIsFunction, Pointers
    DEF RegisteredOnce, Numbered, Goto, objectVars, otherVars, serverVars,
        ghostVars
<1>1. ASSUME NEW t \in Threads, OnStart(t) PROVE RegisteredOnce'
  BY <1>1 DEF OnStart
<1>2. ASSUME NEW t \in Threads, BeginTick(t) PROVE RegisteredOnce'
  BY <1>2 DEF BeginTick
<1>3. ASSUME NEW t \in Threads, EndTick(t) PROVE RegisteredOnce'
  BY <1>3 DEF EndTick
<1>4. ASSUME NEW t \in Threads, Check(t) PROVE RegisteredOnce'
  BY <1>4 DEF Check, LeaveRun, ShouldExit
<1>5. ASSUME NEW t \in Threads, Sleep(t) PROVE RegisteredOnce'
  BY <1>5 DEF Sleep
<1>6. ASSUME NEW t \in Threads, Ending(t) PROVE RegisteredOnce'
  BY <1>6 DEF Ending
<1>7. ASSUME NEW t \in Threads, Pop(t) PROVE RegisteredOnce'
  BY <1>7 DEF Pop
<1>8. ASSUME NEW t \in Threads, Clear(t) PROVE RegisteredOnce'
  BY <1>8 DEF Clear
<1>9. ASSUME NEW t \in Threads, Hang(t) PROVE RegisteredOnce'
  BY <1>9 DEF Hang
<1>10. ASSUME NEW t \in Threads, Recover(t) PROVE RegisteredOnce'
  BY <1>10 DEF Recover
<1>11. ASSUME NEW t \in Threads, Cancelled(t) PROVE RegisteredOnce'
  BY <1>11 DEF Cancelled
<1>12. ASSUME NEW t \in Workers, Create(t) PROVE RegisteredOnce'
  BY <1>12 DEF Create
<1>13. CASE SetHandle
  <2>1. PICK t \in Workers : Latest(t)
    BY <1>13 DEF SetHandle
  <2>2. \A u \in Workers : Latest(u) => u = t
    BY <2>1 DEF Latest
  <2>3. handle' = CHOOSE u \in Workers : Latest(u)
    BY <1>13 DEF SetHandle, Latest
  <2>4. handle' = t
    BY <2>1, <2>2, <2>3
  <2>5. QED
    BY <1>13, <2>1, <2>2, <2>4 DEF SetHandle
<1>14. CASE ResetEvent
  BY <1>14 DEF ResetEvent
<1>15. CASE Push
  BY <1>15 DEF Push
<1>16. CASE CheckStuck
  BY <1>16 DEF CheckStuck
<1>17. CASE Kill
  BY <1>17 DEF Kill, IsCurrentThread
<1>18. CASE BeginExit
  BY <1>18 DEF BeginExit
<1>19. CASE SetExiting
  BY <1>19 DEF SetExiting
<1>20. CASE WaitForClose
  BY <1>20 DEF WaitForClose, IsCurrentThread, Signal
<1>21. CASE Wait
  BY <1>21 DEF Wait
<1>22. CASE Awaken
  BY <1>22 DEF Awaken, Signal
<1>23. CASE SetExitFlag
  BY <1>23 DEF SetExitFlag
<1>24. QED
  BY <1>1, <1>2, <1>3, <1>4, <1>5, <1>6, <1>7, <1>8, <1>9, <1>10, <1>11,
     <1>12, <1>13, <1>14, <1>15, <1>16, <1>17, <1>18, <1>19, <1>20, <1>21,
     <1>22, <1>23 DEF Next, Run, ParentStep

LEMMA OneAliveKept ==
  ASSUME IInv, build.windows, Next
  PROVE  OneAlive'
<1> USE Apart, PcIsFunction, Pointers
    DEF IInv, OnWindows, OneAlive, NotItself, Numbered, Idle, Latest, InRun,
        Watching, Goto, objectVars, otherVars, serverVars, ghostVars
<1>1. ASSUME NEW t \in Threads, OnStart(t) PROVE OneAlive'
  BY <1>1 DEF OnStart
<1>2. ASSUME NEW t \in Threads, BeginTick(t) PROVE OneAlive'
  BY <1>2 DEF BeginTick
<1>3. ASSUME NEW t \in Threads, EndTick(t) PROVE OneAlive'
  BY <1>3 DEF EndTick
<1>4. ASSUME NEW t \in Threads, Check(t) PROVE OneAlive'
  BY <1>4 DEF Check, LeaveRun, ShouldExit
<1>5. ASSUME NEW t \in Threads, Sleep(t) PROVE OneAlive'
  BY <1>5 DEF Sleep
<1>6. ASSUME NEW t \in Threads, Ending(t) PROVE OneAlive'
  BY <1>6 DEF Ending
<1>7. ASSUME NEW t \in Threads, Pop(t) PROVE OneAlive'
  BY <1>7 DEF Pop
<1>8. ASSUME NEW t \in Threads, Clear(t) PROVE OneAlive'
  BY <1>8 DEF Clear
<1>9. ASSUME NEW t \in Threads, Hang(t) PROVE OneAlive'
  BY <1>9 DEF Hang
<1>10. ASSUME NEW t \in Threads, Recover(t) PROVE OneAlive'
  BY <1>10 DEF Recover
<1>11. ASSUME NEW t \in Threads, Cancelled(t) PROVE OneAlive'
  BY <1>11 DEF Cancelled
<1>12. ASSUME NEW t \in Workers, Create(t) PROVE OneAlive'
  BY <1>12 DEF Create
<1>13. CASE SetHandle
  <2>1. PICK t \in Workers : Latest(t)
    BY <1>13 DEF SetHandle
  <2>2. \A u \in Workers : Latest(u) => u = t
    BY <2>1 DEF Latest
  <2>3. handle' = CHOOSE u \in Workers : Latest(u)
    BY <1>13 DEF SetHandle, Latest
  <2>4. handle' = t
    BY <2>1, <2>2, <2>3
  <2>5. QED
    BY <1>13, <2>1, <2>2, <2>4 DEF SetHandle
<1>14. CASE ResetEvent
  BY <1>14 DEF ResetEvent
<1>15. CASE Push
  BY <1>15 DEF Push
<1>16. CASE CheckStuck
  BY <1>16 DEF CheckStuck
<1>17. CASE Kill
  BY <1>17 DEF Kill, IsCurrentThread
<1>18. CASE BeginExit
  BY <1>18 DEF BeginExit
<1>19. CASE SetExiting
  BY <1>19 DEF SetExiting
<1>20. CASE WaitForClose
  BY <1>20 DEF WaitForClose, IsCurrentThread, Signal
<1>21. CASE Wait
  BY <1>21 DEF Wait
<1>22. CASE Awaken
  BY <1>22 DEF Awaken, Signal
<1>23. CASE SetExitFlag
  BY <1>23 DEF SetExitFlag
<1>24. QED
  BY <1>1, <1>2, <1>3, <1>4, <1>5, <1>6, <1>7, <1>8, <1>9, <1>10, <1>11,
     <1>12, <1>13, <1>14, <1>15, <1>16, <1>17, <1>18, <1>19, <1>20, <1>21,
     <1>22, <1>23 DEF Next, Run, ParentStep

LEMMA NotItselfKept ==
  ASSUME IInv, build.windows, Next
  PROVE  NotItself'
<1> USE Apart, PcIsFunction, Pointers
    DEF IInv, OnWindows, OneAlive, NotItself, Numbered, Idle, Latest, InRun,
        Watching, Goto, objectVars, otherVars, serverVars, ghostVars
<1>1. ASSUME NEW t \in Threads, OnStart(t) PROVE NotItself'
  BY <1>1 DEF OnStart
<1>2. ASSUME NEW t \in Threads, BeginTick(t) PROVE NotItself'
  BY <1>2 DEF BeginTick
<1>3. ASSUME NEW t \in Threads, EndTick(t) PROVE NotItself'
  BY <1>3 DEF EndTick
<1>4. ASSUME NEW t \in Threads, Check(t) PROVE NotItself'
  BY <1>4 DEF Check, LeaveRun, ShouldExit
<1>5. ASSUME NEW t \in Threads, Sleep(t) PROVE NotItself'
  BY <1>5 DEF Sleep
<1>6. ASSUME NEW t \in Threads, Ending(t) PROVE NotItself'
  BY <1>6 DEF Ending
<1>7. ASSUME NEW t \in Threads, Pop(t) PROVE NotItself'
  BY <1>7 DEF Pop
<1>8. ASSUME NEW t \in Threads, Clear(t) PROVE NotItself'
  BY <1>8 DEF Clear
<1>9. ASSUME NEW t \in Threads, Hang(t) PROVE NotItself'
  BY <1>9 DEF Hang
<1>10. ASSUME NEW t \in Threads, Recover(t) PROVE NotItself'
  BY <1>10 DEF Recover
<1>11. ASSUME NEW t \in Threads, Cancelled(t) PROVE NotItself'
  BY <1>11 DEF Cancelled
<1>12. ASSUME NEW t \in Workers, Create(t) PROVE NotItself'
  BY <1>12 DEF Create
<1>13. CASE SetHandle
  BY <1>13 DEF SetHandle
<1>14. CASE ResetEvent
  BY <1>14 DEF ResetEvent
<1>15. CASE Push
  BY <1>15 DEF Push
<1>16. CASE CheckStuck
  BY <1>16 DEF CheckStuck
<1>17. CASE Kill
  BY <1>17 DEF Kill, IsCurrentThread
<1>18. CASE BeginExit
  BY <1>18 DEF BeginExit
<1>19. CASE SetExiting
  BY <1>19 DEF SetExiting
<1>20. CASE WaitForClose
  <2>1. CASE handle # None /\ ~IsCurrentThread
    BY <1>20, <2>1 DEF WaitForClose, IsCurrentThread, Signal
  <2>2. CASE ~(handle # None /\ ~IsCurrentThread)
    BY <1>20, <2>2 DEF WaitForClose, IsCurrentThread
  <2>3. QED
    BY <2>1, <2>2
<1>21. CASE Wait
  BY <1>21 DEF Wait
<1>22. CASE Awaken
  BY <1>22 DEF Awaken, Signal
<1>23. CASE SetExitFlag
  BY <1>23 DEF SetExitFlag
<1>24. QED
  BY <1>1, <1>2, <1>3, <1>4, <1>5, <1>6, <1>7, <1>8, <1>9, <1>10, <1>11,
     <1>12, <1>13, <1>14, <1>15, <1>16, <1>17, <1>18, <1>19, <1>20, <1>21,
     <1>22, <1>23 DEF Next, Run, ParentStep

LEMMA ToKillKept ==
  ASSUME IInv, SignalsKept, ToKill, Next
  PROVE  ToKill'
<1> USE Apart, PcIsFunction, Pointers
    DEF IInv, OnWindows, OneAlive, RegisteredOnce, Numbered, ToKill, Idle,
        InRun, Watching, SignalsKept, MainOnWindows, Goto, objectVars,
        otherVars, serverVars, ghostVars
<1>1. ASSUME NEW t \in Threads, OnStart(t) PROVE ToKill'
  BY <1>1 DEF OnStart
<1>2. ASSUME NEW t \in Threads, BeginTick(t) PROVE ToKill'
  BY <1>2 DEF BeginTick
<1>3. ASSUME NEW t \in Threads, EndTick(t) PROVE ToKill'
  BY <1>3 DEF EndTick
<1>4. ASSUME NEW t \in Threads, Check(t) PROVE ToKill'
  BY <1>4 DEF Check, LeaveRun, ShouldExit
<1>5. ASSUME NEW t \in Threads, Sleep(t) PROVE ToKill'
  BY <1>5 DEF Sleep
<1>6. ASSUME NEW t \in Threads, Ending(t) PROVE ToKill'
  BY <1>6 DEF Ending
<1>7. ASSUME NEW t \in Threads, Pop(t) PROVE ToKill'
  BY <1>7 DEF Pop
<1>8. ASSUME NEW t \in Threads, Clear(t) PROVE ToKill'
  BY <1>8 DEF Clear
<1>9. ASSUME NEW t \in Threads, Hang(t) PROVE ToKill'
  BY <1>9 DEF Hang
<1>10. ASSUME NEW t \in Threads, Recover(t) PROVE ToKill'
  BY <1>10 DEF Recover
<1>11. ASSUME NEW t \in Threads, Cancelled(t) PROVE ToKill'
  BY <1>11 DEF Cancelled
<1>12. ASSUME NEW t \in Workers, Create(t) PROVE ToKill'
  BY <1>12 DEF Create
<1>13. CASE SetHandle
  BY <1>13 DEF SetHandle
<1>14. CASE ResetEvent
  BY <1>14 DEF ResetEvent
<1>15. CASE Push
  BY <1>15 DEF Push
<1>16. CASE CheckStuck
  BY <1>16 DEF CheckStuck
<1>17. CASE Kill
  BY <1>17 DEF Kill, IsCurrentThread
<1>18. CASE BeginExit
  BY <1>18 DEF BeginExit
<1>19. CASE SetExiting
  BY <1>19 DEF SetExiting
<1>20. CASE WaitForClose
  <2>1. CASE handle # None /\ ~IsCurrentThread
    <3>1. /\ pc' = [t \in Threads |-> IF t = Parent THEN "wait"
                                      ELSE IF pc[t] = "waiting" THEN "loop"
                                      ELSE pc[t]]
          /\ awake' = (build.windows /\ \A t \in Threads : pc[t] # "waiting")
          /\ UNCHANGED <<handle, id, ended, otherVars>>
      BY <1>20, <2>1 DEF WaitForClose, Signal
    <3>2. \A t \in Workers : pc'[t] # "waiting"
      BY <3>1
    <3>3. ASSUME build.windows, NEW t \in Workers, pc'[t] = "sleep"
          PROVE  awake'
      <4>1. pc[t] = "sleep" /\ ~Idle(t)
        BY <3>1, <3>3
      <4>2. \A u \in Workers : pc[u] # "waiting"
        BY <3>3, <4>1
      <4>3. pc[Parent] # "waiting"
        BY <1>20 DEF WaitForClose
      <4>4. QED
        BY <3>1, <3>3, <4>2, <4>3
    <3>4. QED
      BY <1>20, <3>1, <3>2, <3>3 DEF WaitForClose
  <2>2. CASE ~(handle # None /\ ~IsCurrentThread)
    BY <1>20, <2>2 DEF WaitForClose, IsCurrentThread
  <2>3. QED
    BY <2>1, <2>2
<1>21. CASE Wait
  BY <1>21 DEF Wait
<1>22. CASE Awaken
  BY <1>22 DEF Awaken, Signal
<1>23. CASE SetExitFlag
  BY <1>23 DEF SetExitFlag
<1>24. QED
  BY <1>1, <1>2, <1>3, <1>4, <1>5, <1>6, <1>7, <1>8, <1>9, <1>10, <1>11,
     <1>12, <1>13, <1>14, <1>15, <1>16, <1>17, <1>18, <1>19, <1>20, <1>21,
     <1>22, <1>23 DEF Next, Run, ParentStep

LEMMA NextIInv == IInv /\ [Next]_vars => IInv'
<1> SUFFICES ASSUME IInv, [Next]_vars PROVE IInv'
  OBVIOUS
<1>1. CASE Next
  <2>1. TypeOK' /\ Numbered' /\ RegisteredOnce'
    BY <1>1, TypeKept, NumberedKept, RegisteredKept DEF IInv
  <2>2. build' = build
    BY <1>1 DEF Next, Run, ParentStep, OnStart, BeginTick, EndTick, Check,
       Sleep, Ending, Pop, Clear, Hang, Recover, Cancelled, Create, SetHandle,
       ResetEvent, Push, CheckStuck, Kill, BeginExit, SetExiting,
       WaitForClose, Wait, Awaken, SetExitFlag, otherVars, serverVars
  <2>3. OnWindows'
    BY <1>1, <2>2, OneAliveKept, NotItselfKept DEF OnWindows
  <2>4. QED
    BY <2>1, <2>3 DEF IInv
<1>2. CASE UNCHANGED vars
  BY <1>2 DEF vars, objectVars, otherVars, serverVars, ghostVars, IInv, TypeOK,
              Numbered, Latest, RegisteredOnce, OnWindows, OneAlive, NotItself,
              Idle
<1>3. QED
  BY <1>1, <1>2

LEMMA Invariance == Spec => []IInv
  BY InitIInv, NextIInv, PTL DEF Spec

-----------------------------------------------------------------------------
\* Every variable keeps its type, whatever a thread, its parent and the system
\* do; above all, the thread is never twice in ThreadHolder's list.
THEOREM TypeCorrect == Spec => []TypeOK
<1>1. IInv => TypeOK
  BY DEF IInv
<1>2. QED
  BY <1>1, Invariance, PTL

\* On Windows at most one thread of the system is in a tick of one
\* AbstractThread, for any number of hangs and restarts: checkStuck()
\* terminates the old main loop before the parent takes its place.
THEOREM NeverTwoTickers == Spec => []OneTickerOnWindows
<1>1. IInv => OneTickerOnWindows
  <2> SUFFICES ASSUME IInv, build.windows PROVE OneTicker
    BY DEF OneTickerOnWindows
  <2>1. \A t, u \in Ticking : t = u
    BY Apart DEF IInv, OnWindows, OneAlive, Ticking, Idle, InRun
  <2>2. CASE Ticking = {}
    BY <2>2, FS_EmptySet DEF OneTicker
  <2>3. CASE Ticking # {}
    <3>1. PICK t \in Ticking : TRUE
      BY <2>3
    <3>2. Ticking = {t}
      BY <2>1
    <3>3. Cardinality(Ticking) = 1
      BY <3>2, FS_Singleton, Zenon
    <3>4. QED
      BY <3>3 DEF OneTicker
  <2>4. QED
    BY <2>2, <2>3
<1>2. QED
  BY <1>1, Invariance, PTL

\* On Windows waitForClose() returns to Sphere_ExitServer() only when no tick
\* runs any more: the thread has ended, or was terminated.
THEOREM ClosedBeforeExit == Spec => []ClosedOnWindows
<1>1. IInv => ClosedOnWindows
  BY Apart DEF IInv, OnWindows, OneAlive, Ticking, Idle, ClosedOnWindows,
     ClosedOnReturn
<1>2. QED
  BY <1>1, Invariance, PTL

\* A thread is terminated by its parent only if a tick of it has hung: at the
\* exit it had its signal, and a hang check never takes one for another.  But
\* for the main loop on Windows (NotItself), and but for threads that sleep
\* on an event that keeps no signal.
THEOREM ForcedOnlyIfHung == SignalsKept => (Spec => []NeverForcedElsewhere)
<1> SUFFICES ASSUME SignalsKept PROVE Spec => []NeverForcedElsewhere
  OBVIOUS
<1>1. Init => ToKill
  BY InitIInv
<1>2. IInv /\ ToKill /\ [Next]_vars => ToKill'
  <2>1. ASSUME IInv, ToKill, UNCHANGED vars PROVE ToKill'
    BY <2>1 DEF vars, objectVars, otherVars, serverVars, ghostVars, ToKill,
                MainOnWindows
  <2>2. QED
    BY <2>1, ToKillKept
<1>3. ToKill => NeverForcedElsewhere
  BY DEF ToKill, NeverForcedElsewhere, NeverForced
<1>4. QED
  BY <1>1, <1>2, <1>3, Invariance, PTL DEF Spec
=============================================================================
