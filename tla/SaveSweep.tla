------------------------------ MODULE SaveSweep ------------------------------
(***************************************************************************)
(* The save of the world in stages, as memory sees it: CWorld::Save(),     *)
(* SaveStage() and SaveForce() (game/CWorld.cpp) go over the sectors while *)
(* the objects move between them, and a bit in the world, in each sector   *)
(* and in each character tells what was saved already.                     *)
(*                                                                         *)
(* One thread does all this: what runs in between are whole calls, of the  *)
(* ticks and the clients, from one stage to the next.  An object stands    *)
(* for what it carries too.  What lands on the disk, and what a start      *)
(* makes of it, is the subject of SaveFiles.                               *)
(***************************************************************************)
EXTENDS Integers

CONSTANTS
    SectorsQty,     \* m_SectorsQty
    Chars, Items,   \* the characters, and the items on the ground
    Players,        \* the characters that are somebody's, who may be away
    Uids,           \* m_UIDs without its entry 0
    StartUid,       \* the objects that the world has at first, and their UIDs
    Free, Held,     \* NULL and UID_PLACE_HOLDER there
    NoUid,          \* of an object that is not made yet
    Settings,       \* the settings of Sphere.ini to check
    MaxSaves        \* bound on the saves that begin

Objects == Chars \cup Items
Sectors == 0..SectorsQty - 1

\*  background:  SaveBackground: a stage at a time, in ticks of their own
\*  collect:     ForceGarbageCollect: in the beginning, not in a stage
\*  dynamic:     EF_Dynamic_Backsave: some sectors in a stage, not one
Setting == [background : BOOLEAN, collect : BOOLEAN, dynamic : BOOLEAN]

ASSUME SectorsAssumption == SectorsQty \in Nat \ {0}
ASSUME ObjectsAssumption ==
    /\ Players \subseteq Chars
    /\ Chars \cap Items = {}
    /\ {Free, Held} \cap Objects = {} /\ Free # Held /\ NoUid \notin Uids
ASSUME StartAssumption ==
    /\ DOMAIN StartUid \subseteq Objects
    /\ \A o, p \in DOMAIN StartUid :
           StartUid[o] \in Uids /\ (StartUid[o] = StartUid[p] => o = p)
ASSUME SettingsAssumption == Settings \subseteq Setting
ASSUME SavesAssumption == MaxSaves \in Nat

\* The stages after the sectors, and what m_iSaveStage is past the last one.
CollectStage == -1
DataStage == SectorsQty
ServersStage == SectorsQty + 1
AccountsStage == SectorsQty + 2
LastStage == SectorsQty + 3
Past == SectorsQty + 4

VARIABLES
    setting,        \* which of them this is
    open,           \* IsSaving()
    stage,          \* m_iSaveStage
    forcing,        \* in SaveForce()
    worldParity,    \* CWorld::m_fSaveParity
    sectorParity,   \* CSector::m_fSaveParity
    charParity,     \* STATF_SaveParity
    life,           \* unborn, new (m_ObjNew), placed, deleted (m_ObjDelete)
                    \* or gone
    place,          \* the sector of an object that is placed
    uid,            \* its UID, even when it is gone
    slot,           \* m_UIDs
    written,        \* how often it is in the files of this save; 2: or more
    kept,           \* the objects in the world since this save began
    stray, faulty,  \* the saves, this one too, that may miss an object, or
                    \* any object, for what happened in one
    begun           \* the number of saves that began

saveVars == <<open, stage, forcing, worldParity, sectorParity>>
objectVars == <<life, place, uid, slot>>
writtenVars == <<charParity, written>>
ghostVars == <<kept, stray, faulty, begun>>
vars == <<setting, saveVars, objectVars, writtenVars, ghostVars>>

Lives == {"unborn", "new", "placed", "deleted", "gone"}

TypeOK ==
    /\ setting \in Settings
    /\ open \in BOOLEAN /\ forcing \in BOOLEAN
    /\ stage \in CollectStage..Past
    /\ worldParity \in BOOLEAN
    /\ sectorParity \in [Sectors -> BOOLEAN]
    /\ charParity \in [Chars -> BOOLEAN]
    /\ life \in [Objects -> Lives]
    /\ place \in [Objects -> Sectors]
    /\ uid \in [Objects -> Uids \cup {NoUid}]
    /\ slot \in [Uids -> Objects \cup {Free, Held}]
    /\ written \in [Objects -> 0..2]
    /\ kept \subseteq Objects
    /\ stray \in [Objects -> 0..2] /\ faulty \in 0..3
    /\ begun \in 0..MaxSaves

Init ==
    /\ setting \in Settings
    /\ open = FALSE /\ forcing = FALSE /\ stage = Past
    /\ worldParity = FALSE
    /\ sectorParity = [s \in Sectors |-> FALSE]
    /\ charParity = [c \in Chars |-> FALSE]
    /\ life = [o \in Objects |->
                 IF o \in DOMAIN StartUid THEN "placed" ELSE "unborn"]
    /\ place = [o \in Objects |-> 0]
    /\ uid = [o \in Objects |-> IF o \in DOMAIN StartUid THEN StartUid[o]
                               ELSE NoUid]
    /\ slot \in [Uids -> DOMAIN StartUid \cup {Free}]
    /\ \A o \in DOMAIN StartUid, u \in Uids : slot[u] = o <=> uid[o] = u
    /\ written = [o \in Objects |-> 0]
    /\ kept = {}
    /\ stray = [o \in Objects |-> 0] /\ faulty = 0
    /\ begun = 0

Less(n) == IF n = 0 THEN 0 ELSE n - 1

-----------------------------------------------------------------------------
(* What is written. *)

\* A variant for CharsOnce: only the sector's bit counts.
ToWriteAnyChar(S) ==
    {o \in Objects :
        /\ life[o] = "placed" /\ place[o] \in S
        /\ sectorParity[place[o]] # worldParity}

\* The objects that r_Write() of the sectors S has to write: a sector is not
\* written twice, and neither is a character, r_WriteParity().
ToWrite(S) ==
    {o \in Objects :
        /\ life[o] = "placed" /\ place[o] \in S
        /\ sectorParity[place[o]] # worldParity
        /\ o \in Chars => charParity[o] # worldParity}

Write(W) ==
    /\ written' = [o \in Objects |-> IF o \in W /\ written[o] < 2
                                     THEN written[o] + 1 ELSE written[o]]
    /\ charParity' = [c \in Chars |-> IF c \in W THEN worldParity
                                      ELSE charParity[c]]

MarkSectors(S) ==
    sectorParity' = [s \in Sectors |-> IF s \in S THEN worldParity
                                       ELSE sectorParity[s]]

\* A variant for UidsOfOne: the UIDs are free at once.
DestroyAndFree(D) ==
    /\ life' = [o \in Objects |-> IF o \in D THEN "gone" ELSE life[o]]
    /\ slot' = [u \in Uids |-> IF slot[u] \in D THEN Free ELSE slot[u]]

\* Objects are destroyed: DeleteAll() of m_ObjDelete or m_ObjNew.  FreeUID()
\* keeps their UIDs back while the world is being saved.
Destroy(D) ==
    /\ life' = [o \in Objects |-> IF o \in D THEN "gone" ELSE life[o]]
    /\ slot' = [u \in Uids |-> IF slot[u] \in D
                               THEN IF open THEN Held ELSE Free
                               ELSE slot[u]]

\* GarbageCollection_New()
Garbage == {o \in Objects : life[o] \in {"new", "deleted"}}

-----------------------------------------------------------------------------
(* A save. *)

\* Save() when none is open, for a tick or, with force, for an operator.
Begin(force) ==
    /\ ~open /\ ~forcing /\ begun < MaxSaves
    /\ begun' = begun + 1
    /\ IF setting.collect THEN Destroy(Garbage) ELSE UNCHANGED <<life, slot>>
    /\ open' = TRUE
    /\ worldParity' = ~worldParity
    /\ stage' = CollectStage
    /\ forcing' = (force \/ ~setting.background)
    /\ kept' = {o \in Objects : life[o] = "placed"}
    /\ stray' = [o \in Objects |-> Less(stray[o])]
    /\ faulty' = Less(faulty)
    /\ UNCHANGED <<setting, sectorParity, writtenVars, place, uid>>

\* Save(TRUE) when one is: SaveForce() runs the stages that are left.
SaveForce ==
    /\ open /\ ~forcing
    /\ forcing' = TRUE
    /\ UNCHANGED <<setting, open, stage, worldParity, sectorParity,
                   objectVars, writtenVars, ghostVars>>

\* SaveStage() is called: by SaveForce(), or by a tick.
Running == open /\ (forcing \/ setting.background)

NextStage == stage' = stage + 1

\* SaveForce() stops when a stage returns false.
Failed == forcing' = FALSE

Collect ==
    /\ Running /\ stage = CollectStage
    /\ IF setting.collect THEN UNCHANGED <<life, slot>> ELSE Destroy(Garbage)
    /\ NextStage
    /\ UNCHANGED <<setting, open, forcing, worldParity, sectorParity,
                   place, uid, writtenVars, ghostVars>>

\* Sectors up to last are written in this stage.
WriteSectors(last) ==
    /\ Running /\ stage \in Sectors
    /\ last \in stage..SectorsQty - 1 /\ (last > stage => setting.dynamic)
    /\ MarkSectors(stage..last)
    /\ Write(ToWrite(stage..last))
    /\ stage' = last + 1
    /\ UNCHANGED <<setting, open, forcing, worldParity, objectVars, ghostVars>>

\* A variant for EverySaveEnds: the stage is tried again.
TrapInSectorAgain(last, missed) ==
    /\ Running /\ stage \in Sectors
    /\ last \in stage..SectorsQty - 1 /\ (last > stage => setting.dynamic)
    /\ missed \subseteq ToWrite({last})
    /\ MarkSectors(stage..last)
    /\ Write(ToWrite(stage..last) \ missed)
    /\ UNCHANGED stage
    /\ Failed
    /\ faulty' = IF faulty = 3 THEN 3 ELSE 2
    /\ UNCHANGED <<setting, open, worldParity, objectVars,
                   kept, stray, begun>>

\* Something throws in r_Write() of the last of them, with some of its objects
\* written; SaveStage() catches it.
TrapInSector(last, missed) ==
    /\ Running /\ stage \in Sectors
    /\ last \in stage..SectorsQty - 1 /\ (last > stage => setting.dynamic)
    /\ missed \subseteq ToWrite({last})
    /\ MarkSectors(stage..last)
    /\ Write(ToWrite(stage..last) \ missed)
    /\ stage' = IF last = stage THEN stage + 1 ELSE last
    /\ Failed
    /\ faulty' = IF faulty = 3 THEN 3 ELSE 2
    /\ UNCHANGED <<setting, open, worldParity, objectVars,
                   kept, stray, begun>>

\* The stages that write no objects.  The one of the global variables may
\* trap, and Account_SaveAll() may fail.
OtherStage ==
    /\ Running /\ stage \in {DataStage, ServersStage, AccountsStage}
    /\ NextStage
    /\ \/ UNCHANGED forcing
       \/ stage # ServersStage /\ Failed
    /\ UNCHANGED <<setting, open, worldParity, sectorParity, objectVars,
                   writtenVars, ghostVars>>

\* The files are closed.
Forget == written' = [o \in Objects |-> 0] /\ kept' = {}

\* The last stage, and SaveThreadClose().
Finish ==
    /\ Running /\ stage = LastStage
    /\ slot' = [u \in Uids |-> IF slot[u] = Held THEN Free ELSE slot[u]]
    /\ open' = FALSE /\ forcing' = FALSE
    /\ stage' = Past
    /\ Forget
    /\ UNCHANGED <<setting, worldParity, sectorParity, life, place, uid,
                   charParity, stray, faulty, begun>>

\* Something throws there, before the files are closed.
TrapInLastStage ==
    /\ Running /\ stage = LastStage
    /\ NextStage /\ Failed
    /\ UNCHANGED <<setting, open, worldParity, sectorParity, objectVars,
                   writtenVars, ghostVars>>

\* Save() catches what nobody caught before it reached SaveTry(), and closes
\* the files.
Abort ==
    /\ open /\ ~forcing
    /\ open' = FALSE
    /\ Forget
    /\ faulty' = 3
    /\ UNCHANGED <<setting, stage, forcing, worldParity, sectorParity,
                   objectVars, charParity, stray, begun>>

-----------------------------------------------------------------------------
(* The world, between two stages.  Nothing runs in between in SaveForce(). *)

\* AllocUID() takes an entry that is NULL.  The saved bit of a character is
\* that of the world.
Create(o, u) ==
    /\ ~forcing
    /\ life[o] = "unborn" /\ slot[u] = Free
    /\ life' = [life EXCEPT ![o] = "new"]
    /\ uid' = [uid EXCEPT ![o] = u]
    /\ slot' = [slot EXCEPT ![u] = o]
    /\ charParity' = [c \in Chars |-> IF c = o THEN worldParity
                                      ELSE charParity[c]]
    /\ UNCHANGED <<setting, saveVars, place, written, ghostVars>>

Put(o, s) ==
    /\ life[o] \in {"new", "placed"}
    /\ life' = [life EXCEPT ![o] = "placed"]
    /\ place' = [place EXCEPT ![o] = s]

\* A variant for SavedOnce: the bits are not compared.
MoveCharJust(c, s) ==
    /\ ~forcing
    /\ Put(c, s)
    /\ UNCHANGED <<setting, saveVars, uid, slot, writtenVars, ghostVars>>

\* MoveCharToSector(): to another sector, or back from among the disconnected
\* of its own.  When the saved bits of the two differ, one of them is written.
MoveChar(c, s) ==
    /\ ~forcing
    /\ Put(c, s)
    /\ IF ~open \/ charParity[c] = sectorParity[s]
       THEN UNCHANGED <<sectorParity, writtenVars>>
       ELSE IF sectorParity[s] = worldParity
       THEN Write({c}) /\ UNCHANGED sectorParity
       ELSE MarkSectors({s}) /\ Write(ToWrite({s}))
    /\ UNCHANGED <<setting, open, stage, forcing, worldParity, uid, slot,
                   ghostVars>>

\* MoveToChar() of a player who is away, on a ship that sails: it goes straight
\* to the disconnected of the other sector.
MoveAway(c, s) ==
    /\ ~forcing
    /\ life[c] = "placed" /\ s # place[c]
    /\ Put(c, s)
    /\ stray' = IF open /\ charParity[c] # sectorParity[s]
                THEN [stray EXCEPT ![c] = 2] ELSE stray
    /\ UNCHANGED <<setting, saveVars, uid, slot, writtenVars,
                   kept, faulty, begun>>

\* An item has no saved bit.
MoveItem(i, s) ==
    /\ ~forcing
    /\ Put(i, s)
    /\ stray' = IF /\ open /\ life[i] = "placed"
                   /\ sectorParity[place[i]] # sectorParity[s]
                THEN [stray EXCEPT ![i] = 2] ELSE stray
    /\ UNCHANGED <<setting, saveVars, uid, slot, writtenVars,
                   kept, faulty, begun>>

\* CObjBase::Delete()
Delete(o) ==
    /\ ~forcing
    /\ life[o] \in {"new", "placed"}
    /\ life' = [life EXCEPT ![o] = "deleted"]
    /\ place' = [place EXCEPT ![o] = 0]
    /\ kept' = kept \ {o}
    /\ stray' = [stray EXCEPT ![o] = 0]
    /\ UNCHANGED <<setting, saveVars, uid, slot, writtenVars, faulty, begun>>

\* OnTick() empties m_ObjDelete.
DeleteAll ==
    /\ ~forcing
    /\ \E o \in Objects : life[o] = "deleted"
    /\ Destroy({o \in Objects : life[o] = "deleted"})
    /\ UNCHANGED <<setting, saveVars, place, uid, writtenVars, ghostVars>>

-----------------------------------------------------------------------------

SaveStage ==
    \/ Collect
    \/ \E last \in Sectors : WriteSectors(last)
    \/ \E last \in Sectors, missed \in SUBSET Objects :
         TrapInSector(last, missed)
    \/ OtherStage
    \/ Finish
    \/ TrapInLastStage

World ==
    \/ \E o \in Objects, u \in Uids : Create(o, u)
    \/ \E c \in Chars, s \in Sectors : MoveChar(c, s)
    \/ \E c \in Players, s \in Sectors : MoveAway(c, s)
    \/ \E i \in Items, s \in Sectors : MoveItem(i, s)
    \/ \E o \in Objects : Delete(o)
    \/ DeleteAll

Next ==
    \/ \E force \in BOOLEAN : Begin(force)
    \/ SaveForce
    \/ SaveStage
    \/ Abort
    \/ World

Spec == Init /\ [][Next]_vars

\* The clock ticks, and SaveForce() goes on.
FairSpec == Spec /\ WF_vars(SaveStage)

-----------------------------------------------------------------------------
(* Properties. *)

\* When its sectors are done, a save has each object that was in the world all
\* the time exactly once, wherever it went and whatever else was moved, made
\* or deleted in between (CSector::r_Write(), MoveCharToSector(),
\* CChar::r_WriteParity()).  Not so for items and absent players that crossed
\* over between saved and other sectors, for whom nothing cares; after a trap
\* the next save may miss objects too, and after an abandoned save the next
\* two.
SavedOnce ==
    open /\ stage \in DataStage..LastStage /\ faulty = 0
        => \A o \in kept : stray[o] = 0 => written[o] = 1

\* Whatever happens, no character is twice in one save, which would load as
\* two characters with one UID.
CharsOnce == \A c \in Chars : written[c] < 2

\* Nor are two objects of which the one was given the UID of the other, which
\* was deleted: UIDs are not given out again before the save is over
\* (FreeUID(), SaveThreadClose()), not even if it takes two calls to end it.
UidsOfOne ==
    open => \A o, p \in Objects :
        written[o] > 0 /\ written[p] > 0 /\ uid[o] = uid[p] => o = p

\* A save ends, however many of its stages fail, unless it was the last one
\* that did; or it is left open for good, in a stage that failed with
\* SaveBackground=0, until it is forced (SaveStage(): "to avoid loops, we need
\* to skip the current operation in world save").
EverySaveEnds == open ~> (~open \/ stage = Past \/ ~Running)

\* Nobody who was there all the time is missed in a save in which nothing
\* fails ("Save out the CChar now. the sector has already been saved.").
NobodyMissed ==
    open /\ stage \in DataStage..LastStage /\ faulty = 0
        => \A c \in kept \cap Chars : written[c] = 1
=============================================================================
