---------------------------- MODULE TimedFunctions ----------------------------
(***************************************************************************)
(* TIMERF: script functions that an object asks to have called in some     *)
(* seconds.  CTimedFunctionHandler (game/CWorld.cpp) keeps them in as many *)
(* lists as there are ticks in a second.  OnTick() goes over the list of   *)
(* its tick, counts what is in it down and calls what is due; and what it  *)
(* calls may ask for more, stop others or remove the object.               *)
(*                                                                         *)
(* One thread does all this: what scripts do, in a function that OnTick()  *)
(* calls or between two ticks, are whole calls.  FORTIMERF and ISTIMERF,   *)
(* which change nothing, have no action.                                   *)
(***************************************************************************)
EXTENDS Integers, Loops

CONSTANTS
    TicksPerSec,    \* TICK_PER_SEC
    Uids, Funcs,    \* of the objects, and the names of the functions
    Seconds,        \* how many seconds are asked for
    MaxAsks,        \* bound on how many functions are asked for
    MaxFaults       \* bound on ticks given up, and on restarts

ASSUME TicksAssumption == TicksPerSec \in Nat \ {0}
ASSUME SecondsAssumption == Seconds \subseteq Nat
ASSUME AsksAssumption == {MaxAsks, MaxFaults} \subseteq Nat

Slots == 0..TicksPerSec - 1
Asks == 1..MaxAsks

VARIABLES
    timedFunctions, \* m_timedFunctions: a list for each tick of a second
    queuedToBeAdded,\* m_tFqueuedToBeAdded
    curTick,        \* m_curTick
    isBeingProcessed,
    pc,             \* where OnTick() is: idle, loop, run (in a function); or
                    \* broken, when nothing is known any more
    it,             \* its iterator, as a position in the list
    theEnd,         \* the list was found to be empty then
    running,        \* the entry whose function runs
    object,         \* of each UID: here, deleted (in m_ObjDelete) or none
    \* What the properties need to remember, of what was asked for, by number:
    asked,          \* how many there were
    stopped,        \* taken out of the lists by a script
    overlooked,     \* the ones that a script should have stopped in the queue
    orphans,        \* asked for by an object after it was removed
    delayed,        \* the ones that a tick did not come to, or added too late
    lost,           \* the ones that a restart did not find in the save
    faults          \* how many ticks were given up, and restarts

listVars == <<timedFunctions, queuedToBeAdded>>
tickVars == <<curTick, isBeingProcessed, pc, it, theEnd, running>>
ghostVars == <<asked, stopped, overlooked, orphans, delayed, lost, faults>>
timedVars == <<listVars, tickVars, object, ghostVars>>

\* An entry: its number, uid, funcname, elapsed, and in how many ticks it
\* should run, which the code does not know.
NoEntry == [ask |-> 0, uid |-> 0, func |-> 0, elapsed |-> 0, wait |-> 0]

TimedInit ==
    /\ timedFunctions = [s \in Slots |-> <<>>]
    /\ queuedToBeAdded = <<>>
    /\ curTick = 0 /\ isBeingProcessed = FALSE
    /\ pc = "idle" /\ it = 1 /\ theEnd = FALSE /\ running = NoEntry
    /\ object = [u \in Uids |-> "here"]
    /\ asked = 0 /\ faults = 0
    /\ stopped = {} /\ overlooked = {} /\ orphans = {}
    /\ delayed = {} /\ lost = {}

List == timedFunctions[curTick]

AsksIn(entries) == {entries[i].ask : i \in DOMAIN entries}

\* How many entries the tick in progress has passed, and the ones that it has
\* not come to.
Passed == IF it - 1 <= Len(List) THEN it - 1 ELSE Len(List)
NotReached ==
    IF pc = "idle" THEN {} ELSE {List[i].ask : i \in it..Len(List)}

-----------------------------------------------------------------------------
(* OnTick() *)

Waited(entries) ==
    [i \in DOMAIN entries |-> [entries[i] EXCEPT !.wait = @ - 1]]

BeginTick ==
    /\ pc = "idle"
    /\ pc' = "loop"
    /\ isBeingProcessed' = TRUE
    /\ curTick' = IF curTick + 1 >= TicksPerSec THEN 0 ELSE curTick + 1
    /\ timedFunctions' = [s \in Slots |-> Waited(timedFunctions[s])]
    /\ queuedToBeAdded' = Waited(queuedToBeAdded)
    /\ UNCHANGED <<it, theEnd, running, object, ghostVars>>

\* The entry at the iterator is counted down, and is not due.
CountDown ==
    /\ pc = "loop" /\ it \in DOMAIN List
    /\ List[it].elapsed - 1 > 0
    /\ timedFunctions' = [timedFunctions EXCEPT ![curTick][it].elapsed = @ - 1]
    /\ it' = it + 1
    /\ UNCHANGED <<queuedToBeAdded, curTick, isBeingProcessed, pc, theEnd,
                   running, object, ghostVars>>

RemoveNth(entries, n) ==
    SubSeq(entries, 1, n - 1) \o SubSeq(entries, n + 1, Len(entries))

\* A variant for OnTime: the iterator goes on after the entry was taken out.
CallAndAdvance ==
    /\ pc = "loop" /\ it \in DOMAIN List
    /\ List[it].elapsed - 1 <= 0
    /\ timedFunctions' = [timedFunctions EXCEPT ![curTick] = RemoveNth(@, it)]
    /\ theEnd' = (Len(List) <= it)
    /\ it' = it + 1
    /\ IF object[List[it].uid] # "none"
       THEN pc' = "run" /\ running' = List[it]
       ELSE UNCHANGED <<pc, running>>
    /\ UNCHANGED <<queuedToBeAdded, curTick, isBeingProcessed, object,
                   ghostVars>>

\* It is due: it is taken out, and its function called if it has an object.
Call ==
    /\ pc = "loop" /\ it \in DOMAIN List
    /\ List[it].elapsed - 1 <= 0
    /\ timedFunctions' = [timedFunctions EXCEPT ![curTick] = RemoveNth(@, it)]
    /\ theEnd' = (Len(List) = 1)
    /\ IF object[List[it].uid] # "none"
       THEN pc' = "run" /\ running' = List[it]
       ELSE UNCHANGED <<pc, running>>
    /\ UNCHANGED <<queuedToBeAdded, curTick, isBeingProcessed, it, object,
                   ghostVars>>

Return ==
    /\ pc = "run"
    /\ pc' = "loop" /\ running' = NoEntry
    /\ UNCHANGED <<listVars, curTick, isBeingProcessed, it, theEnd, object,
                   ghostVars>>

NewestFirst(entries) ==
    [i \in DOMAIN entries |-> entries[Len(entries) + 1 - i]]

\* A variant for EveryCalled: only the newest is added.
EndTickNewest ==
    /\ pc = "loop"
    /\ theEnd \/ it = Len(List) + 1
    /\ pc' = "idle" /\ isBeingProcessed' = FALSE
    /\ it' = 1 /\ theEnd' = FALSE
    /\ timedFunctions' =
            [timedFunctions EXCEPT
                ![curTick] = @ \o SubSeq(NewestFirst(queuedToBeAdded), 1,
                                  IF queuedToBeAdded = <<>> THEN 0 ELSE 1)]
    /\ queuedToBeAdded' = <<>>
    /\ UNCHANGED <<curTick, running, object, ghostVars>>

\* The loop ends; what was asked for in it is added, the newest first.
EndTick ==
    /\ pc = "loop"
    /\ theEnd \/ it = Len(List) + 1
    /\ pc' = "idle" /\ isBeingProcessed' = FALSE
    /\ it' = 1 /\ theEnd' = FALSE
    /\ timedFunctions' = [timedFunctions EXCEPT
                            ![curTick] = @ \o NewestFirst(queuedToBeAdded)]
    /\ queuedToBeAdded' = <<>>
    /\ UNCHANGED <<curTick, running, object, ghostVars>>

\* The iterator is beyond the end, where the comparison does not find it.
Overrun ==
    /\ pc = "loop" /\ ~theEnd /\ it > Len(List) + 1
    /\ pc' = "broken"
    /\ UNCHANGED <<listVars, curTick, isBeingProcessed, it, theEnd, running,
                   object, ghostVars>>

\* The function throws out of OnTick(), or hangs and its thread is replaced.
GiveUp ==
    /\ pc = "run" /\ faults < MaxFaults
    /\ pc' = "idle" /\ it' = 1 /\ theEnd' = FALSE /\ running' = NoEntry
    /\ faults' = faults + 1
    /\ delayed' = delayed \cup NotReached \cup AsksIn(queuedToBeAdded)
    /\ UNCHANGED <<listVars, curTick, isBeingProcessed, object, asked, stopped,
                   overlooked, orphans, lost>>

-----------------------------------------------------------------------------
(* What scripts do, in a function that OnTick() calls or between two ticks. *)

ScriptTurn == pc \in {"idle", "run"}

\* TIMERF n,function: of an object that the script may have removed just now.
Add(u, seconds, f) ==
    /\ ScriptTurn
    /\ asked < MaxAsks /\ object[u] # "none"
    /\ asked' = asked + 1
    /\ LET e == [ask |-> asked + 1, uid |-> u, func |-> f, elapsed |-> seconds,
                 wait |-> TicksPerSec * (IF seconds = 0 THEN 1 ELSE seconds)]
       IN IF isBeingProcessed
          THEN /\ queuedToBeAdded' = Append(queuedToBeAdded, e)
               /\ UNCHANGED timedFunctions
          ELSE /\ timedFunctions' = [timedFunctions EXCEPT
                                       ![curTick] = Append(@, e)]
               /\ UNCHANGED queuedToBeAdded
    /\ orphans' = IF object[u] = "here" THEN orphans
                  ELSE orphans \cup {asked + 1}
    /\ delayed' = IF isBeingProcessed /\ pc = "idle"
                  THEN delayed \cup {asked + 1} ELSE delayed
    /\ UNCHANGED <<tickVars, object, stopped, overlooked, lost, faults>>

\* The entries of the object with one of these functions
Matching(entries, u, fs) ==
    {entries[i] : i \in {j \in DOMAIN entries :
                            entries[j].uid = u /\ entries[j].func \in fs}}
AsksOf(entries, u, fs) == {e.ask : e \in Matching(entries, u, fs)}

\* A variant for StoppedStays: only the list of this tick is looked through.
TakeOutOfTick(u, fs) ==
    /\ timedFunctions' = [timedFunctions EXCEPT
                            ![curTick] = Without(@, Matching(@, u, fs))]
    /\ stopped' = stopped \cup UNION {AsksOf(timedFunctions[s], u, fs) :
                                        s \in Slots}
    /\ overlooked' = overlooked \cup AsksOf(queuedToBeAdded, u, fs)
    /\ delayed' = IF \E i \in 1..Passed : List[i] \in Matching(List, u, fs)
                  THEN delayed \cup NotReached ELSE delayed

\* The entries of the object with one of these functions are taken out of the
\* lists.  The iterator of OnTick() stays where it is, and the queue is not
\* looked at.
TakeOut(u, fs) ==
    /\ timedFunctions' =
            [s \in Slots |-> Without(timedFunctions[s],
                                     Matching(timedFunctions[s], u, fs))]
    /\ stopped' = stopped \cup UNION {AsksOf(timedFunctions[s], u, fs) :
                                        s \in Slots}
    /\ overlooked' = overlooked \cup AsksOf(queuedToBeAdded, u, fs)
    /\ delayed' = IF \E i \in 1..Passed : List[i] \in Matching(List, u, fs)
                  THEN delayed \cup NotReached ELSE delayed

\* TIMERF STOP,function
Stop(u, f) ==
    /\ ScriptTurn /\ object[u] # "none"
    /\ TakeOut(u, {f})
    /\ UNCHANGED <<queuedToBeAdded, tickVars, object, asked, orphans, lost,
                   faults>>

\* TIMERF CLEAR
Erase(u) ==
    /\ ScriptTurn /\ object[u] # "none"
    /\ TakeOut(u, Funcs)
    /\ UNCHANGED <<queuedToBeAdded, tickVars, object, asked, orphans, lost,
                   faults>>

\* The object is removed; its UID is free when the list of such is emptied.
Delete(u) ==
    /\ ScriptTurn /\ object[u] = "here"
    /\ object' = [object EXCEPT ![u] = "deleted"]
    /\ TakeOut(u, Funcs)
    /\ UNCHANGED <<queuedToBeAdded, tickVars, asked, orphans, lost, faults>>

DeleteAll ==
    /\ pc = "idle"
    /\ \E u \in Uids : object[u] = "deleted"
    /\ object' = [u \in Uids |-> IF object[u] = "deleted" THEN "none"
                                 ELSE object[u]]
    /\ UNCHANGED <<listVars, tickVars, ghostVars>>

\* A new object is given a UID that was used before.
Create(u) ==
    /\ ScriptTurn /\ object[u] = "none"
    /\ object' = [object EXCEPT ![u] = "here"]
    /\ UNCHANGED <<listVars, tickVars, ghostVars>>

\* The world is saved now (a script may ask for that), and the server starts
\* from this save later: the lists and m_curTick are in it.
Restart ==
    /\ ScriptTurn /\ faults < MaxFaults
    /\ faults' = faults + 1
    /\ queuedToBeAdded' = <<>>
    /\ isBeingProcessed' = FALSE
    /\ pc' = "idle" /\ it' = 1 /\ theEnd' = FALSE /\ running' = NoEntry
    /\ object' = [u \in Uids |-> IF object[u] = "deleted" THEN "none"
                                 ELSE object[u]]
    /\ lost' = lost \cup AsksIn(queuedToBeAdded)
    /\ delayed' = delayed \cup NotReached
    /\ UNCHANGED <<timedFunctions, curTick, asked, stopped, overlooked,
                   orphans>>

-----------------------------------------------------------------------------
OnTick == BeginTick \/ CountDown \/ Call \/ Return \/ EndTick \/ Overrun

Script ==
    \/ \E u \in Uids, f \in Funcs, n \in Seconds : Add(u, n, f)
    \/ \E u \in Uids, f \in Funcs : Stop(u, f)
    \/ \E u \in Uids : Erase(u) \/ Delete(u) \/ Create(u)
    \/ DeleteAll

TimedNext == OnTick \/ GiveUp \/ Script \/ Restart

TimedSpec == TimedInit /\ [][TimedNext]_timedVars

\* CWorld::OnTick() comes again and again, and functions return.
TimedFairSpec == TimedSpec /\ WF_timedVars(OnTick)

-----------------------------------------------------------------------------
Entry == [ask : Asks, uid : Uids, func : Funcs, elapsed : Nat, wait : Int]

TimedTypeOK ==
    /\ timedFunctions \in [Slots -> Seq(Entry)]
    /\ queuedToBeAdded \in Seq(Entry)
    /\ curTick \in Slots /\ isBeingProcessed \in BOOLEAN
    /\ pc \in {"idle", "loop", "run", "broken"}
    /\ it \in 1..MaxAsks + 1 /\ theEnd \in BOOLEAN
    /\ IF pc = "run" THEN running \in Entry ELSE running = NoEntry
    /\ object \in [Uids -> {"here", "deleted", "none"}]
    /\ asked \in 0..MaxAsks /\ faults \in 0..MaxFaults
    /\ {stopped, overlooked, orphans, delayed, lost} \subseteq SUBSET (1..asked)

\* No function is called before the seconds that were asked for are over, and
\* each is called then, to the tick, whether it was asked for between two ticks
\* or in one: unless a tick was given up, or a script took something out of the
\* list that OnTick() had passed already, and only those that this tick had
\* still to come to are late.
OnTime ==
    pc = "run" =>
        /\ running.wait <= 0
        /\ running.ask \notin delayed => running.wait = 0

\* What was in one of the lists when a script stopped it, or removed the object
\* that it was for, is not called any more, whatever object has the UID then.
\* This says nothing of what was still in m_tFqueuedToBeAdded, where neither
\* Stop() nor Erase() looks: that goes on (StopStops).
StoppedStays == pc = "run" => running.ask \notin stopped

Waits(a) ==
    \/ a \in AsksIn(queuedToBeAdded)
    \/ \E s \in Slots : a \in AsksIn(timedFunctions[s])

\* Everything that waits is called at last, through ticks given up, functions
\* that take out others and restarts, unless it is stopped or was in the queue
\* at a restart.  (What was asked for of a removed object is not called.)
EveryCalled ==
    \A a \in Asks :
        Waits(a) ~> \/ running.ask = a
                    \/ a \in stopped \cup overlooked \cup orphans \cup lost
                    \/ pc = "broken"

\* "vector::erase crashes if the iterator is pointing at the only thing left in
\* the list. So, we check if size is 1 and do pop_back instead"
\* (CWorld.cpp:265): OnTick() stays within its list.  (It does not.)
StaysInList == pc # "broken"

\* "TIMERF STOP,functionname to stop a specific timerf"
\* (Changelog-56c-PreRelease.txt:24), and CLEAR all of them
\* (Changelog-56b-PreRelease.txt:2675).  (What is queued goes on, also when the
\* object is removed: it is called on the one that gets its UID.)
StopStops == pc = "run" => running.ask \notin stopped \cup overlooked

\* "Entire list is now saved and loaded upon startup."
\* (Changelog-56b-PreRelease.txt:1855)  (But for the queue.)
AllSaved == lost = {}

\* FORTIMERF (CWorld.cpp:403) uses what ObjFind() returns untested: each entry
\* of the lists has an object.  (Not what was overlooked, nor orphans.)
LoopFinds ==
    \A s \in Slots : \A i \in DOMAIN timedFunctions[s] :
        object[timedFunctions[s][i].uid] # "none"
=============================================================================
