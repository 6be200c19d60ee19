--------------------------- MODULE SaveSweepProofs ---------------------------
(***************************************************************************)
(* For every number of sectors, objects, UIDs and saves: a save in stages  *)
(* has each object that was there all the time once, has no character      *)
(* twice, and has no two objects of one UID.                               *)
(***************************************************************************)
EXTENDS SaveSweep, TLAPS

\* The traces that the saves before leave on o: none, or the shallow ones.
Clean(o) == faulty = 0 /\ stray[o] = 0
Settled(o) == faulty <= 1 /\ stray[o] <= 1

\* SaveForce() runs within a save, and a save begins with faulty below 3.
Nested == (forcing => open) /\ (open => faulty <= 2)

\* Between two saves every bit is that of the last one, as far as nothing
\* went wrong then.
Between == ~open =>
    /\ written = [o \in Objects |-> 0] /\ kept = {}
    /\ faulty <= 2 => /\ \A s \in Sectors : sectorParity[s] = worldParity
                      /\ \A c \in Chars : life[c] = "new"
                                          => charParity[c] = worldParity
    /\ \A c \in Chars : life[c] = "placed" /\ Settled(c)
                        => charParity[c] = worldParity

\* The sectors before the stage are done.
Swept == open => \A s \in Sectors : s < stage => sectorParity[s] = worldParity

\* What is new after the garbage was collected was made in this save.
NewBits == open /\ (stage >= 0 \/ setting.collect) =>
    \A c \in Chars : life[c] = "new" => charParity[c] = worldParity

\* The bits of characters follow those of their sectors.
Follow == open => \A c \in Chars : life[c] = "placed" =>
    /\ Settled(c) /\ sectorParity[place[c]] = worldParity
           => charParity[c] = worldParity
    /\ Clean(c) => charParity[c] = sectorParity[place[c]]

\* A character that was written has the bit.
Bits == open => \A c \in Chars :
    /\ written[c] <= 1
    /\ written[c] > 0 => charParity[c] = worldParity

\* The bits tell who was written.
Told == open => \A o \in kept : Clean(o) =>
    /\ o \in Chars =>
         written[o] = IF charParity[o] = worldParity THEN 1 ELSE 0
    /\ o \in Items =>
         written[o] = IF sectorParity[place[o]] = worldParity THEN 1 ELSE 0

KeptPlaced == \A o \in kept : life[o] = "placed"

\* A live object has its entry of m_UIDs; the entry of one that was written
\* and is gone is held back.
Entries == \A o \in Objects :
    /\ life[o] \in {"new", "placed", "deleted"}
           => uid[o] \in Uids /\ slot[uid[o]] = o
    /\ life[o] = "unborn" => written[o] = 0
    /\ open /\ written[o] > 0 => uid[o] \in Uids /\ slot[uid[o]] \in {o, Held}

IInv ==
    /\ TypeOK /\ Nested /\ Between /\ Swept /\ NewBits /\ Follow /\ Bits
    /\ Told /\ KeptPlaced /\ Entries /\ UidsOfOne

\* The parts of TypeOK
SaveTyped ==
    /\ setting \in Settings
    /\ open \in BOOLEAN /\ forcing \in BOOLEAN
    /\ stage \in CollectStage..Past
    /\ worldParity \in BOOLEAN
    /\ sectorParity \in [Sectors -> BOOLEAN]
    /\ faulty \in 0..3 /\ begun \in 0..MaxSaves
ObjectsTyped ==
    /\ life \in [Objects -> Lives]
    /\ place \in [Objects -> Sectors]
    /\ uid \in [Objects -> Uids \cup {NoUid}]
    /\ slot \in [Uids -> Objects \cup {Free, Held}]
    /\ kept \subseteq Objects /\ stray \in [Objects -> 0..2]
WrittenTyped ==
    /\ charParity \in [Chars -> BOOLEAN]
    /\ written \in [Objects -> 0..2]

LEMMA TypedInParts == TypeOK <=> SaveTyped /\ ObjectsTyped /\ WrittenTyped
  BY DEF TypeOK, SaveTyped, ObjectsTyped, WrittenTyped

-----------------------------------------------------------------------------
(* What the operators do *)

LEMMA StagesOrdered ==
  /\ SectorsQty \in Nat \ {0} /\ 0 \in Sectors
  /\ \A s \in Sectors : s \in CollectStage..Past /\ s + 1 \in CollectStage..Past
  /\ \A s \in Sectors, n \in {DataStage, ServersStage, AccountsStage, LastStage,
                              Past} : s < n /\ n >= 0
  /\ {DataStage, ServersStage, AccountsStage, LastStage, Past, CollectStage}
         \subseteq CollectStage..Past
  BY SectorsAssumption
     DEF Sectors, CollectStage, DataStage, ServersStage, AccountsStage,
         LastStage, Past

LEMMA WriteTyped ==
  ASSUME TypeOK, NEW W \in SUBSET Objects, Write(W)
  PROVE  WrittenTyped'
  BY DEF TypeOK, Write, WrittenTyped

LEMMA WriteEffect ==
  ASSUME TypeOK, NEW W \in SUBSET Objects, Write(W), NEW o \in Objects
  PROVE  /\ o \notin W => written'[o] = written[o]
         /\ o \in W /\ written[o] <= 1 => written'[o] = written[o] + 1
         /\ o \in Chars => charParity'[o] = IF o \in W THEN worldParity
                                            ELSE charParity[o]
  BY DEF TypeOK, Write

LEMMA MarkTyped ==
  ASSUME TypeOK, NEW S \in SUBSET Sectors, MarkSectors(S)
  PROVE  /\ sectorParity' \in [Sectors -> BOOLEAN]
         /\ \A s \in Sectors : sectorParity'[s] = IF s \in S THEN worldParity
                                                ELSE sectorParity[s]
  BY DEF TypeOK, MarkSectors

LEMMA DestroyEffect ==
  ASSUME TypeOK, NEW D \in SUBSET Objects, Destroy(D)
  PROVE  /\ life' \in [Objects -> Lives]
         /\ slot' \in [Uids -> Objects \cup {Free, Held}]
         /\ \A o \in Objects : life'[o] = IF o \in D THEN "gone" ELSE life[o]
         /\ \A u \in Uids : slot[u] \notin D => slot'[u] = slot[u]
         /\ \A u \in Uids : open /\ slot[u] \in D => slot'[u] = Held
  BY DEF TypeOK, Destroy, Lives

\* Who has not the bit may be written.
LEMMA WriteKeepsBits ==
  ASSUME TypeOK, Bits, NEW W \in SUBSET Objects, Write(W),
         open' => open, worldParity' = worldParity,
         \A c \in W \cap Chars : charParity[c] # worldParity
  PROVE  Bits'
<1> SUFFICES ASSUME open, NEW c \in Chars
             PROVE  /\ written'[c] <= 1
                    /\ written'[c] > 0 => charParity'[c] = worldParity
  BY DEF Bits
<1>1. /\ c \in Objects /\ written[c] \in 0..2 /\ written[c] <= 1
      /\ written[c] > 0 => charParity[c] = worldParity
  BY DEF TypeOK, Bits, Objects
<1>2. CASE c \in W
  BY <1>1, <1>2, WriteEffect
<1>3. CASE c \notin W
  BY <1>1, <1>3, WriteEffect
<1> QED
  BY <1>2, <1>3

\* A live object may be written: its entry of m_UIDs is its own.
LEMMA WriteKeepsUids ==
  ASSUME TypeOK, Entries, UidsOfOne, open,
         NEW W \in SUBSET Objects, Write(W),
         \A o \in W : life[o] \in {"new", "placed"}
  PROVE  /\ \A o \in Objects : written'[o] > 0
                => uid[o] \in Uids /\ slot[uid[o]] \in {o, Held}
         /\ \A o, p \in Objects :
              written'[o] > 0 /\ written'[p] > 0 /\ uid[o] = uid[p] => o = p
<1>1. \A o \in Objects : written'[o] > 0 => written[o] > 0 \/ o \in W
  BY WriteEffect
<1>2. \A o \in W : uid[o] \in Uids /\ slot[uid[o]] = o /\ o # Held
  BY ObjectsAssumption DEF Entries
<1>3. \A o \in Objects : written[o] > 0
          => uid[o] \in Uids /\ slot[uid[o]] \in {o, Held}
  BY DEF Entries
<1>4. \A o, p \in Objects :
          written[o] > 0 /\ written[p] > 0 /\ uid[o] = uid[p] => o = p
  BY DEF UidsOfOne
<1> QED
  BY <1>1, <1>2, <1>3, <1>4

-----------------------------------------------------------------------------
(* The invariant *)

LEMMA InitIInv == Init => IInv
<1> SUFFICES ASSUME Init PROVE IInv
  OBVIOUS
<1>1. SaveTyped
  <2>1. /\ open \in BOOLEAN /\ forcing \in BOOLEAN /\ worldParity \in BOOLEAN
        /\ sectorParity \in [Sectors -> BOOLEAN]
    BY DEF Init
  <2>2. /\ setting \in Settings /\ stage \in CollectStage..Past
        /\ faulty \in 0..3 /\ begun \in 0..MaxSaves
    BY StagesOrdered, SavesAssumption DEF Init
  <2> QED
    BY <2>1, <2>2 DEF SaveTyped
<1>2. ObjectsTyped /\ WrittenTyped
  <2>1. life \in [Objects -> Lives]
    BY DEF Init, Lives
  <2>2. /\ uid \in [Objects -> Uids \cup {NoUid}]
        /\ slot \in [Uids -> Objects \cup {Free, Held}]
    BY StartAssumption DEF Init
  <2> QED
    BY <2>1, <2>2, StagesOrdered DEF Init, ObjectsTyped, WrittenTyped
<1>3. /\ Nested /\ Between /\ Swept /\ NewBits /\ Follow /\ Bits /\ Told
      /\ KeptPlaced /\ UidsOfOne
  BY DEF Init, Nested, Between, Swept, NewBits, Follow, Bits, Told,
         KeptPlaced, UidsOfOne, Objects
<1>4. Entries
  BY StartAssumption DEF Init, Entries, Objects
<1> QED
  BY <1>1, <1>2, <1>3, <1>4, TypedInParts DEF IInv

\* A save begins.
LEMMA BeginStep ==
  ASSUME IInv, NEW force \in BOOLEAN, Begin(force)
  PROVE  IInv'
<1> USE DEF IInv
<1>1. /\ Destroy(Garbage) \/ UNCHANGED <<life, slot>>
      /\ Garbage \in SUBSET Objects
  BY DEF Begin, Garbage
<1>2. TypeOK'
  <2>1. SaveTyped'
    BY StagesOrdered, SavesAssumption DEF Begin, TypeOK, SaveTyped, Less
  <2>2. ObjectsTyped' /\ WrittenTyped'
    BY <1>1, DestroyEffect
       DEF Begin, TypeOK, ObjectsTyped, WrittenTyped, Less, writtenVars
  <2> QED
    BY <2>1, <2>2, TypedInParts DEF TypeOK, SaveTyped, ObjectsTyped,
                                    WrittenTyped
<1>3. Nested' /\ Between' /\ Bits'
  BY DEF Begin, TypeOK, Nested, Between, Bits, Less, writtenVars, Objects
<1>4. Swept'
  BY SectorsAssumption DEF Begin, Swept, CollectStage, Sectors
<1>5. NewBits'
  BY DEF Begin, TypeOK, NewBits, Destroy, Garbage, CollectStage, Objects
<1>6. Follow' /\ Told' /\ KeptPlaced'
  BY DEF Begin, TypeOK, Between, Follow, Told, KeptPlaced, Settled, Clean, Less,
         Destroy, Garbage, writtenVars, Objects
<1>7. Entries' /\ UidsOfOne'
  BY DEF Begin, TypeOK, Between, Entries, UidsOfOne, Destroy, Garbage,
         writtenVars
<1> QED
  BY <1>2, <1>3, <1>4, <1>5, <1>6, <1>7

\* SaveForce() takes a save over that is open.
LEMMA SaveForceStep ==
  ASSUME IInv, SaveForce
  PROVE  IInv'
<1> USE DEF IInv, SaveForce, objectVars, writtenVars, ghostVars
<1>1. TypeOK'
  BY DEF TypeOK
<1>2. Nested' /\ Between' /\ Swept' /\ NewBits' /\ Follow' /\ Bits' /\ Told'
  BY DEF Nested, Between, Swept, NewBits, Follow, Bits, Told, Settled, Clean
<1>3. KeptPlaced' /\ Entries' /\ UidsOfOne'
  BY DEF KeptPlaced, Entries, UidsOfOne
<1> QED
  BY <1>1, <1>2, <1>3

\* The stages that write no objects, and the last one that throws, change
\* nothing but the stage.
LEMMA OtherStageStep ==
  ASSUME IInv, OtherStage \/ TrapInLastStage
  PROVE  IInv'
<1> USE DEF IInv, objectVars, writtenVars, ghostVars
<1>1. /\ stage \in {DataStage, ServersStage, AccountsStage, LastStage}
      /\ stage' = stage + 1
      /\ forcing' = forcing \/ forcing' = FALSE
      /\ UNCHANGED <<setting, open, worldParity, sectorParity, objectVars,
                     writtenVars, ghostVars>>
  <2>1. CASE OtherStage
    BY <2>1 DEF OtherStage, NextStage, Failed
  <2>2. CASE TrapInLastStage
    BY <2>2 DEF TrapInLastStage, NextStage, Failed
  <2> QED
    BY <2>1, <2>2
<1>2. stage' \in {ServersStage, AccountsStage, LastStage, Past}
  BY <1>1, SectorsAssumption DEF DataStage, ServersStage, AccountsStage,
                                 LastStage, Past
<1>3. TypeOK'
  <2>1. stage' \in CollectStage..Past
    BY <1>2, StagesOrdered
  <2>2. forcing' \in BOOLEAN
    BY <1>1 DEF TypeOK
  <2> QED
    BY <1>1, <2>1, <2>2 DEF TypeOK
<1>4. Nested'
  <2>1. CASE forcing' = forcing
    BY <1>1, <2>1 DEF Nested
  <2>2. CASE forcing' = FALSE
    BY <1>1, <2>2 DEF Nested
  <2> QED
    BY <1>1, <2>1, <2>2
<1>5. Between' /\ Follow' /\ Bits' /\ Told'
  BY <1>1 DEF Between, Follow, Bits, Told, Settled, Clean
<1>6. Swept' /\ NewBits'
  BY <1>1, StagesOrdered DEF Swept, NewBits
<1>7. KeptPlaced' /\ Entries' /\ UidsOfOne'
  BY <1>1 DEF KeptPlaced, Entries, UidsOfOne
<1> QED
  BY <1>3, <1>4, <1>5, <1>6, <1>7

\* The garbage is collected.
LEMMA CollectStep ==
  ASSUME IInv, Collect
  PROVE  IInv'
<1> USE DEF IInv, writtenVars, ghostVars
<1>1. /\ Destroy(Garbage) \/ (setting.collect /\ UNCHANGED <<life, slot>>)
      /\ Garbage \in SUBSET Objects
      /\ open /\ stage = CollectStage /\ stage' = stage + 1
      /\ UNCHANGED <<setting, open, forcing, worldParity, sectorParity,
                     place, uid, writtenVars, ghostVars>>
  <2>1. Garbage \in SUBSET Objects
    BY DEF Garbage
  <2>2. Destroy(Garbage) \/ (setting.collect /\ UNCHANGED <<life, slot>>)
    BY DEF Collect
  <2>3. open /\ stage = CollectStage /\ stage' = stage + 1
    BY DEF Collect, Running, NextStage
  <2> QED
    BY <2>1, <2>2, <2>3 DEF Collect
<1> stage' = 0
  BY <1>1 DEF CollectStage
<1>2. TypeOK'
  BY <1>1, DestroyEffect, StagesOrdered DEF TypeOK, Sectors
<1>3. Nested' /\ Between' /\ Bits'
  BY <1>1 DEF Nested, Between, Bits
<1>4. Swept'
  BY <1>1, SectorsAssumption DEF Swept, Sectors
<1>5. NewBits'
  BY <1>1, DestroyEffect DEF TypeOK, NewBits, Garbage, Objects
<1>6. Follow'
  BY <1>1, DestroyEffect DEF TypeOK, Follow, Settled, Clean, Objects
<1>7. Told' /\ KeptPlaced'
  BY <1>1, DestroyEffect DEF TypeOK, Told, KeptPlaced, Clean, Garbage
<1>8. Entries' /\ UidsOfOne'
  BY <1>1, DestroyEffect, ObjectsAssumption
     DEF TypeOK, Entries, UidsOfOne, Garbage
<1> QED
  BY <1>2, <1>3, <1>4, <1>5, <1>6, <1>7, <1>8

\* Sectors are written.
LEMMA WriteSectorsStep ==
  ASSUME IInv, NEW last \in Sectors, WriteSectors(last)
  PROVE  IInv'
<1> DEFINE S == stage..last
           W == ToWrite(S)
<1> USE DEF IInv, objectVars, ghostVars
<1>1. /\ open /\ stage \in Sectors
      /\ stage' = last + 1 /\ stage' \in CollectStage..Past
      /\ MarkSectors(S) /\ Write(W) /\ S \in SUBSET Sectors
      /\ UNCHANGED <<setting, open, forcing, worldParity, objectVars,
                     ghostVars>>
  BY StagesOrdered DEF WriteSectors, Running, Sectors
<1>2. /\ W \in SUBSET Objects /\ \A o \in W : life[o] = "placed"
      /\ \A c \in W \cap Chars : charParity[c] # worldParity
  BY DEF ToWrite
<1>3. \A o \in Objects : o \in W <=>
        /\ life[o] = "placed" /\ place[o] \in S
        /\ sectorParity[place[o]] # worldParity
        /\ o \in Chars => charParity[o] # worldParity
  BY DEF ToWrite
<1>4. Swept'
  BY <1>1, MarkTyped DEF Swept, Sectors
<1> HIDE DEF S, W
<1>5. /\ sectorParity' \in [Sectors -> BOOLEAN]
      /\ \A s \in S : sectorParity'[s] = worldParity
      /\ \A s \in Sectors : s \notin S => sectorParity'[s] = sectorParity[s]
  BY <1>1, MarkTyped
<1>6. /\ WrittenTyped'
      /\ \A o \in Objects : o \notin W => written'[o] = written[o]
      /\ \A o \in W : written[o] <= 1 => written'[o] = written[o] + 1
      /\ \A c \in Chars : c \in W => charParity'[c] = worldParity
      /\ \A c \in Chars : c \notin W => charParity'[c] = charParity[c]
  BY <1>1, <1>2, WriteTyped, WriteEffect DEF Objects
<1>7. TypeOK'
  BY <1>1, <1>5, <1>6 DEF TypeOK, WrittenTyped
<1>8. Nested' /\ Between' /\ KeptPlaced'
  BY <1>1 DEF Nested, Between, KeptPlaced
<1>9. NewBits'
  BY <1>1, <1>6 DEF NewBits, Sectors
<1>10. Follow'
  <2> SUFFICES ASSUME NEW c \in Chars, life[c] = "placed"
               PROVE  /\ /\ Settled(c)
                         /\ sectorParity'[place[c]] = worldParity
                         => charParity'[c] = worldParity
                      /\ Clean(c) => charParity'[c] = sectorParity'[place[c]]
    BY <1>1 DEF Follow, Settled, Clean
  <2>1. c \in Objects /\ place[c] \in Sectors
    BY DEF TypeOK, Objects
  <2>2. CASE c \in W
    BY <1>3, <1>5, <1>6, <2>1, <2>2
  <2>3. CASE c \notin W
    BY <1>1, <1>3, <1>5, <1>6, <2>1, <2>3 DEF Follow, Settled, Clean
  <2> QED
    BY <2>2, <2>3
<1>11. Bits'
  BY <1>1, <1>2, WriteKeepsBits
<1>12. Told'
  <2> SUFFICES ASSUME NEW o \in kept, Clean(o)
               PROVE  /\ o \in Chars =>
                           written'[o] = IF charParity'[o] = worldParity
                                         THEN 1 ELSE 0
                      /\ o \in Items =>
                           written'[o] =
                               IF sectorParity'[place[o]] = worldParity
                               THEN 1 ELSE 0
    BY <1>1 DEF Told, Clean
  <2>1. o \in Objects /\ life[o] = "placed" /\ place[o] \in Sectors
    BY DEF TypeOK, KeptPlaced
  <2>2. /\ o \in Chars =>
             written[o] = IF charParity[o] = worldParity THEN 1 ELSE 0
        /\ o \in Items =>
             written[o] = IF sectorParity[place[o]] = worldParity THEN 1 ELSE 0
        /\ o \in Chars => charParity[o] = sectorParity[place[o]]
    BY <1>1, <2>1 DEF Told, Follow
  <2>3. CASE o \in W
    <3>1. written[o] = 0
      BY <1>3, <2>1, <2>2, <2>3 DEF Objects
    <3> QED
      BY <1>3, <1>5, <1>6, <2>1, <2>3, <3>1
  <2>4. CASE o \notin W
    <3>1. place[o] \in S => sectorParity[place[o]] = worldParity
      BY <1>3, <2>1, <2>2, <2>4
    <3>2. sectorParity'[place[o]] = sectorParity[place[o]]
      BY <1>5, <2>1, <3>1
    <3> QED
      BY <1>6, <2>1, <2>2, <2>4, <3>2
  <2> QED
    BY <2>3, <2>4
<1>13. Entries' /\ UidsOfOne'
  BY <1>1, <1>2, <1>6, WriteKeepsUids DEF Entries, UidsOfOne
<1> QED
  BY <1>4, <1>7, <1>8, <1>9, <1>10, <1>11, <1>12, <1>13

\* Something throws in a sector: the save is faulty.
LEMMA TrapInSectorStep ==
  ASSUME IInv, NEW last \in Sectors, NEW missed \in SUBSET Objects,
         TrapInSector(last, missed)
  PROVE  IInv'
<1> DEFINE S == stage..last
           W == ToWrite(S) \ missed
<1> USE DEF IInv, objectVars
<1>1. /\ open /\ stage \in Sectors
      /\ MarkSectors(S) /\ Write(W) /\ S \in SUBSET Sectors
      /\ UNCHANGED <<setting, open, worldParity, objectVars, kept, stray,
                     begun>>
  <2>1. open /\ stage \in Sectors
    BY DEF TrapInSector, Running
  <2>2. S \in SUBSET Sectors
    BY <2>1, StagesOrdered DEF Sectors
  <2> QED
    BY <2>1, <2>2 DEF TrapInSector
<1>2. /\ stage' \in CollectStage..Past /\ stage' >= 0
      /\ \A s \in Sectors : s < stage' => s < stage \/ s \in S
  BY StagesOrdered DEF TrapInSector, Sectors
<1>3. forcing' = FALSE /\ faulty' = 2
  BY <1>1 DEF TrapInSector, Failed, Nested, TypeOK
<1>4. /\ W \in SUBSET Objects /\ \A o \in W : life[o] = "placed"
      /\ \A c \in W \cap Chars : charParity[c] # worldParity
  BY DEF ToWrite
<1>5. TypeOK'
  <2>1. sectorParity' \in [Sectors -> BOOLEAN] /\ WrittenTyped'
    BY <1>1, <1>4, MarkTyped, WriteTyped
  <2>2. SaveTyped'
    <3>1. forcing' \in BOOLEAN
      BY <1>3
    <3>2. faulty' \in 0..3
      BY <1>3
    <3> QED
      BY <1>1, <1>2, <2>1, <3>1, <3>2 DEF TypeOK, SaveTyped
  <2>3. ObjectsTyped'
    BY <1>1 DEF TypeOK, ObjectsTyped
  <2> QED
    BY <2>1, <2>2, <2>3 DEF TypeOK, SaveTyped, ObjectsTyped, WrittenTyped
<1>6. Nested' /\ Between' /\ Follow' /\ Told' /\ KeptPlaced'
  BY <1>1, <1>3 DEF Nested, Between, Follow, Told, KeptPlaced, Settled, Clean
<1>7. Swept'
  BY <1>1, <1>2, MarkTyped DEF Swept
<1>8. NewBits'
  BY <1>1, <1>4, WriteEffect, StagesOrdered DEF NewBits, Objects, Sectors
<1>9. Bits'
  BY <1>1, <1>4, WriteKeepsBits
<1>10. Entries' /\ UidsOfOne'
  BY <1>1, <1>4, WriteKeepsUids, WriteEffect DEF Entries, UidsOfOne
<1> QED
  BY <1>5, <1>6, <1>7, <1>8, <1>9, <1>10

\* The files are closed after the last stage.
LEMMA FinishStep ==
  ASSUME IInv, Finish
  PROVE  IInv'
<1> USE DEF IInv
<1>1. /\ open /\ stage = LastStage
      /\ open' = FALSE /\ forcing' = FALSE /\ stage' = Past /\ Forget
      /\ slot' = [u \in Uids |-> IF slot[u] = Held THEN Free ELSE slot[u]]
      /\ UNCHANGED <<setting, worldParity, sectorParity, life, place, uid,
                     charParity, stray, faulty, begun>>
  BY DEF Finish, Running
<1>2. TypeOK'
  <2>1. slot' \in [Uids -> Objects \cup {Free, Held}]
    BY <1>1 DEF TypeOK
  <2>2. written' \in [Objects -> 0..2] /\ kept' \in SUBSET Objects
    BY <1>1 DEF Forget
  <2> QED
    BY <1>1, <2>1, <2>2, StagesOrdered DEF TypeOK
<1>3. \A s \in Sectors : sectorParity[s] = worldParity
  BY <1>1, StagesOrdered DEF Swept
<1>4. /\ \A c \in Chars : life[c] = "new" => charParity[c] = worldParity
      /\ \A c \in Chars : life[c] = "placed" /\ Settled(c)
                          => charParity[c] = worldParity
  BY <1>1, <1>3, StagesOrdered DEF NewBits, Follow, TypeOK, Objects
<1>5. Between'
  BY <1>1, <1>3, <1>4 DEF Between, Forget, Settled
<1>6. /\ Nested' /\ Swept' /\ NewBits' /\ Follow' /\ Bits' /\ Told'
      /\ KeptPlaced' /\ UidsOfOne'
  BY <1>1 DEF Nested, Swept, NewBits, Follow, Bits, Told, KeptPlaced, Forget,
              UidsOfOne
<1>7. Entries'
  BY <1>1, ObjectsAssumption DEF Entries, Forget
<1> QED
  BY <1>2, <1>5, <1>6, <1>7

\* A save is given up.
LEMMA AbortStep ==
  ASSUME IInv, Abort
  PROVE  IInv'
<1> USE DEF IInv, Abort, Forget, objectVars
<1>1. TypeOK'
  <2>1. SaveTyped'
    <3>1. open' \in BOOLEAN
      OBVIOUS
    <3>2. faulty' \in 0..3
      OBVIOUS
    <3> QED
      BY <3>1, <3>2 DEF TypeOK, SaveTyped
  <2>2. ObjectsTyped' /\ WrittenTyped'
    BY DEF TypeOK, ObjectsTyped, WrittenTyped
  <2> QED
    BY <2>1, <2>2 DEF TypeOK, SaveTyped, ObjectsTyped, WrittenTyped
<1>2. /\ Nested' /\ Between' /\ Swept' /\ NewBits' /\ Follow' /\ Bits'
      /\ Told' /\ KeptPlaced' /\ UidsOfOne'
  BY DEF Nested, Between, Swept, NewBits, Follow, Bits, Told, KeptPlaced,
         UidsOfOne, Settled
<1>3. Entries'
  BY DEF Entries
<1> QED
  BY <1>1, <1>2, <1>3

\* An object is made.
LEMMA CreateStep ==
  ASSUME IInv, NEW o \in Objects, NEW u \in Uids, Create(o, u)
  PROVE  IInv'
<1> USE DEF IInv, Create, saveVars, ghostVars
<1>1. TypeOK'
  BY DEF TypeOK, Lives
<1>2. Nested' /\ Swept' /\ KeptPlaced'
  BY DEF TypeOK, Nested, Swept, KeptPlaced
<1>3. Between' /\ NewBits'
  BY DEF TypeOK, Between, NewBits, Settled, Objects
<1>4. Follow' /\ Bits'
  BY DEF TypeOK, Follow, Bits, Entries, Settled, Clean, Objects
<1>5. Told'
  <2>1. o \notin kept
    BY DEF KeptPlaced
  <2>2. \A c \in Chars : c # o => charParity'[c] = charParity[c]
    OBVIOUS
  <2> QED
    BY <2>1, <2>2 DEF Told, Clean
<1>6. Entries'
  BY ObjectsAssumption DEF TypeOK, Entries
<1>7. UidsOfOne'
  <2>1. written[o] = 0 /\ \A p \in Objects : p # o => uid'[p] = uid[p]
    BY DEF TypeOK, Entries
  <2> QED
    BY <2>1 DEF UidsOfOne
<1> QED
  BY <1>1, <1>2, <1>3, <1>4, <1>5, <1>6, <1>7

\* An object is put somewhere: its place and its life are what changes.
LEMMA PutEffect ==
  ASSUME TypeOK, NEW o \in Objects, NEW s \in Sectors, Put(o, s)
  PROVE  /\ life[o] \in {"new", "placed"} /\ life'[o] = "placed"
         /\ place'[o] = s
         /\ \A p \in Objects : p # o => life'[p] = life[p]
                                        /\ place'[p] = place[p]
         /\ life' \in [Objects -> Lives] /\ place' \in [Objects -> Sectors]
  BY DEF TypeOK, Put, Lives

\* A character moves to a sector.
LEMMA MoveCharStep ==
  ASSUME IInv, NEW c \in Chars, NEW s \in Sectors, MoveChar(c, s)
  PROVE  IInv'
<1> USE DEF IInv
<1>1. /\ c \in Objects /\ Put(c, s)
      /\ UNCHANGED <<setting, open, stage, forcing, worldParity, uid, slot,
                     ghostVars>>
  BY DEF MoveChar, Objects
<1> USE DEF ghostVars
<1>2. /\ life[c] \in {"new", "placed"} /\ life'[c] = "placed"
      /\ place'[c] = s
      /\ \A p \in Objects : p # c => life'[p] = life[p] /\ place'[p] = place[p]
      /\ life' \in [Objects -> Lives] /\ place' \in [Objects -> Sectors]
  BY <1>1, PutEffect
<1>3. CASE UNCHANGED <<sectorParity, writtenVars>>
           /\ (~open \/ charParity[c] = sectorParity[s])
  <2> USE DEF writtenVars
  <2>1. TypeOK'
    BY <1>1, <1>2, <1>3 DEF TypeOK
  <2>2. Nested' /\ Swept' /\ Bits' /\ KeptPlaced'
    BY <1>1, <1>2, <1>3 DEF TypeOK, Nested, Swept, Bits, KeptPlaced
  <2>3. Between'
    <3>1. /\ ~open /\ life[c] = "placed" /\ Settled(c)
             => charParity[c] = worldParity
          /\ ~open /\ life[c] = "new" /\ faulty <= 2
             => charParity[c] = worldParity
      BY DEF Between
    <3> QED
      BY <1>1, <1>2, <1>3, <3>1 DEF Between, Settled, Objects, TypeOK
  <2>4. NewBits' /\ Follow'
    BY <1>1, <1>2, <1>3 DEF NewBits, Follow, Settled, Clean, Objects
  <2>5. Told'
    BY <1>1, <1>2, <1>3, ObjectsAssumption DEF TypeOK, Told, Clean
  <2>6. Entries' /\ UidsOfOne'
    BY <1>1, <1>2, <1>3 DEF Entries, UidsOfOne
  <2> QED
    BY <2>1, <2>2, <2>3, <2>4, <2>5, <2>6
<1>4. CASE /\ open /\ charParity[c] # sectorParity[s]
           /\ sectorParity[s] = worldParity
           /\ Write({c}) /\ UNCHANGED sectorParity
  <2>1. /\ WrittenTyped' /\ charParity'[c] = worldParity
        /\ \A o \in Objects : o # c => written'[o] = written[o]
        /\ written[c] <= 1 => written'[c] = written[c] + 1
        /\ \A d \in Chars : d # c => charParity'[d] = charParity[d]
    BY <1>1, <1>4, WriteTyped, WriteEffect DEF Objects
  <2>2. TypeOK'
    BY <1>1, <1>2, <1>4, <2>1 DEF TypeOK, WrittenTyped
  <2>3. Nested' /\ Between' /\ Swept' /\ KeptPlaced'
    BY <1>1, <1>2, <1>4 DEF TypeOK, Nested, Between, Swept, KeptPlaced
  <2>4. Bits'
    BY <1>1, <1>4, WriteKeepsBits
  <2>5. NewBits' /\ Follow'
    BY <1>1, <1>2, <1>4, <2>1 DEF NewBits, Follow, Settled, Clean, Objects
  <2>6. Told'
    <3>1. c \in kept /\ Clean(c) => written'[c] = 1
      BY <1>1, <1>4, <2>1 DEF Told
    <3> QED
      BY <1>1, <1>2, <1>4, <2>1, <3>1, ObjectsAssumption
         DEF TypeOK, Told, Clean
  <2>7. Entries' /\ UidsOfOne'
    BY <1>1, <1>2, <1>4, <2>1, WriteKeepsUids DEF Entries, UidsOfOne
  <2> QED
    BY <2>2, <2>3, <2>4, <2>5, <2>6, <2>7
<1>5. CASE /\ open /\ charParity[c] # sectorParity[s]
           /\ sectorParity[s] # worldParity
           /\ MarkSectors({s}) /\ Write(ToWrite({s}))
  <2> DEFINE W == ToWrite({s})
  <2>1. \A o \in Objects : o \in W <=>
          /\ life[o] = "placed" /\ place[o] = s
          /\ o \in Chars => charParity[o] # worldParity
    BY <1>5 DEF ToWrite
  <2>2. /\ W \in SUBSET Objects /\ \A o \in W : life[o] = "placed"
        /\ \A d \in W \cap Chars : charParity[d] # worldParity
    BY DEF ToWrite
  <2>3. Write(W)
    BY <1>5
  <2>4. charParity[c] = worldParity /\ worldParity \in BOOLEAN
    BY <1>5 DEF TypeOK
  <2> HIDE DEF W
  <2>5. /\ sectorParity' \in [Sectors -> BOOLEAN]
        /\ sectorParity'[s] = worldParity
        /\ \A r \in Sectors : r # s => sectorParity'[r] = sectorParity[r]
    BY <1>5, MarkTyped
  <2>6. /\ WrittenTyped'
        /\ \A o \in Objects : o \notin W => written'[o] = written[o]
        /\ \A o \in W : written[o] <= 1 => written'[o] = written[o] + 1
        /\ \A d \in Chars : d \in W => charParity'[d] = worldParity
        /\ \A d \in Chars : d \notin W => charParity'[d] = charParity[d]
    BY <2>2, <2>3, WriteTyped, WriteEffect DEF Objects
  <2>7. TypeOK'
    BY <1>1, <1>2, <2>5, <2>6 DEF TypeOK, WrittenTyped
  <2>8. Nested' /\ Between' /\ Swept' /\ KeptPlaced'
    BY <1>1, <1>2, <1>5, <2>5
       DEF TypeOK, Nested, Between, Swept, KeptPlaced
  <2>9. Bits'
    BY <1>1, <2>2, <2>3, WriteKeepsBits
  <2>10. NewBits'
    BY <1>1, <1>2, <2>6 DEF NewBits, Objects
  <2>11. Follow'
    <3> SUFFICES ASSUME NEW d \in Chars, life'[d] = "placed"
                 PROVE  /\ /\ Settled(d)
                           /\ sectorParity'[place'[d]] = worldParity
                           => charParity'[d] = worldParity
                        /\ Clean(d) =>
                             charParity'[d] = sectorParity'[place'[d]]
      BY <1>1 DEF Follow, Settled, Clean
    <3>1. CASE d = c
      BY <1>2, <2>2, <2>4, <2>5, <2>6, <3>1
    <3>2. CASE d # c /\ place[d] = s
      BY <1>2, <2>1, <2>5, <2>6, <3>2 DEF Objects
    <3>3. CASE d # c /\ place[d] # s
      BY <1>2, <1>5, <2>1, <2>5, <2>6, <3>3 DEF TypeOK, Follow, Objects
    <3> QED
      BY <3>1, <3>2, <3>3
  <2>12. Told'
    <3> SUFFICES ASSUME NEW o \in kept, Clean(o)
                 PROVE  /\ o \in Chars =>
                             written'[o] = IF charParity'[o] = worldParity
                                           THEN 1 ELSE 0
                        /\ o \in Items =>
                             written'[o] =
                                 IF sectorParity'[place'[o]] = worldParity
                                 THEN 1 ELSE 0
      BY <1>1 DEF Told, Clean
    <3>1. o \in Objects /\ life[o] = "placed" /\ place[o] \in Sectors
      BY DEF TypeOK, KeptPlaced
    <3>2. /\ o \in Chars =>
               written[o] = IF charParity[o] = worldParity THEN 1 ELSE 0
          /\ o \in Items =>
               written[o] = IF sectorParity[place[o]] = worldParity
                            THEN 1 ELSE 0
      BY <1>5 DEF Told
    <3>3. o \in Items => o # c
      BY ObjectsAssumption
    <3>4. CASE o \in W
      <4>1. written[o] = 0
        BY <1>5, <2>1, <3>1, <3>2, <3>4 DEF Objects
      <4> QED
        BY <1>2, <2>1, <2>5, <2>6, <3>1, <3>3, <3>4, <4>1
    <3>5. CASE o \notin W
      BY <1>2, <2>1, <2>5, <2>6, <3>1, <3>2, <3>3, <3>5, ObjectsAssumption
    <3> QED
      BY <3>4, <3>5
  <2>13. Entries' /\ UidsOfOne'
    BY <1>1, <1>2, <1>5, <2>2, <2>3, <2>6, WriteKeepsUids
       DEF Entries, UidsOfOne
  <2> QED
    BY <2>7, <2>8, <2>9, <2>10, <2>11, <2>12, <2>13
<1> QED
  BY <1>3, <1>4, <1>5 DEF MoveChar

\* A player who is away, or an item, moves to a sector: nothing is written, and
\* stray tells if it crossed over.
LEMMA MoveAwayStep ==
  ASSUME IInv, NEW c \in Players, NEW s \in Sectors, MoveAway(c, s)
  PROVE  IInv'
<1> USE DEF IInv, saveVars, writtenVars
<1>1. /\ c \in Chars /\ c \in Objects /\ Put(c, s) /\ life[c] = "placed"
      /\ stray' = IF open /\ charParity[c] # sectorParity[s]
                  THEN [stray EXCEPT ![c] = 2] ELSE stray
      /\ UNCHANGED <<setting, saveVars, uid, slot, writtenVars, kept, faulty,
                     begun>>
  BY ObjectsAssumption DEF MoveAway, Objects
<1>2. /\ life'[c] = "placed" /\ place'[c] = s
      /\ \A p \in Objects : p # c => life'[p] = life[p] /\ place'[p] = place[p]
      /\ life' \in [Objects -> Lives] /\ place' \in [Objects -> Sectors]
  BY <1>1, PutEffect
<1>3. /\ \A o \in Objects : stray'[o] = stray[o] \/ stray'[o] = 2
      /\ stray' \in [Objects -> 0..2]
      /\ \A o \in Objects : o # c => stray'[o] = stray[o]
      /\ open /\ charParity[c] # sectorParity[s] => stray'[c] = 2
  BY <1>1 DEF TypeOK
<1>4. TypeOK'
  BY <1>1, <1>2, <1>3 DEF TypeOK
<1>5. Nested' /\ Swept' /\ Bits' /\ KeptPlaced'
  BY <1>1, <1>2 DEF TypeOK, Nested, Swept, Bits, KeptPlaced
<1>6. Between' /\ NewBits'
  BY <1>1, <1>2, <1>3 DEF TypeOK, Between, NewBits, Settled, Objects
<1>7. Follow'
  BY <1>1, <1>2, <1>3 DEF TypeOK, Follow, Settled, Clean, Objects
<1>8. Told'
  BY <1>1, <1>2, <1>3, ObjectsAssumption DEF TypeOK, Told, Clean
<1>9. Entries' /\ UidsOfOne'
  BY <1>1, <1>2 DEF Entries, UidsOfOne
<1> QED
  BY <1>4, <1>5, <1>6, <1>7, <1>8, <1>9

LEMMA MoveItemStep ==
  ASSUME IInv, NEW i \in Items, NEW s \in Sectors, MoveItem(i, s)
  PROVE  IInv'
<1> USE DEF IInv, saveVars, writtenVars
<1>1. /\ i \notin Chars /\ i \in Objects /\ Put(i, s)
      /\ stray' = IF /\ open /\ life[i] = "placed"
                     /\ sectorParity[place[i]] # sectorParity[s]
                  THEN [stray EXCEPT ![i] = 2] ELSE stray
      /\ UNCHANGED <<setting, saveVars, uid, slot, writtenVars, kept, faulty,
                     begun>>
  BY ObjectsAssumption DEF MoveItem, Objects
<1>2. /\ life[i] \in {"new", "placed"} /\ life'[i] = "placed"
      /\ place'[i] = s
      /\ \A p \in Objects : p # i => life'[p] = life[p] /\ place'[p] = place[p]
      /\ life' \in [Objects -> Lives] /\ place' \in [Objects -> Sectors]
  BY <1>1, PutEffect
<1>3. /\ \A o \in Objects : stray'[o] = stray[o] \/ stray'[o] = 2
      /\ stray' \in [Objects -> 0..2]
      /\ \A o \in Objects : o # i => stray'[o] = stray[o]
      /\ open /\ life[i] = "placed" /\ sectorParity[place[i]] # sectorParity[s]
             => stray'[i] = 2
  BY <1>1 DEF TypeOK
<1>4. TypeOK'
  BY <1>1, <1>2, <1>3 DEF TypeOK
<1>5. Nested' /\ Swept' /\ Bits' /\ KeptPlaced'
  BY <1>1, <1>2 DEF TypeOK, Nested, Swept, Bits, KeptPlaced
<1>6. Between' /\ NewBits' /\ Follow'
  BY <1>1, <1>2, <1>3
     DEF TypeOK, Between, NewBits, Follow, Settled, Clean, Objects
<1>7. Told'
  <2>1. \A o \in kept : Clean(o)' => Clean(o)
    BY <1>1, <1>3 DEF TypeOK, Clean
  <2>2. open /\ i \in kept /\ Clean(i)'
            => sectorParity[place[i]] = sectorParity[s]
    BY <1>1, <1>3 DEF Clean, KeptPlaced
  <2> QED
    BY <1>1, <1>2, <2>1, <2>2 DEF TypeOK, Told
<1>8. Entries' /\ UidsOfOne'
  BY <1>1, <1>2 DEF Entries, UidsOfOne
<1> QED
  BY <1>4, <1>5, <1>6, <1>7, <1>8

\* An object is deleted, and later the deleted ones are destroyed.
LEMMA DeleteStep ==
  ASSUME IInv, NEW o \in Objects, Delete(o)
  PROVE  IInv'
<1> USE DEF IInv, Delete, saveVars, writtenVars
<1>1. TypeOK'
  BY StagesOrdered DEF TypeOK, Lives
<1>2. Nested' /\ Swept' /\ Bits' /\ KeptPlaced'
  BY DEF TypeOK, Nested, Swept, Bits, KeptPlaced
<1>3. Between' /\ NewBits' /\ Follow'
  BY DEF TypeOK, Between, NewBits, Follow, Settled, Clean, Objects
<1>4. Told'
  BY DEF TypeOK, Told, Clean
<1>5. Entries' /\ UidsOfOne'
  BY DEF TypeOK, Entries, UidsOfOne
<1> QED
  BY <1>1, <1>2, <1>3, <1>4, <1>5

LEMMA DeleteAllStep ==
  ASSUME IInv, DeleteAll
  PROVE  IInv'
<1> DEFINE D == {o \in Objects : life[o] = "deleted"}
<1> USE DEF IInv, saveVars, writtenVars, ghostVars
<1>1. /\ Destroy(D) /\ D \in SUBSET Objects
      /\ UNCHANGED <<setting, saveVars, place, uid, writtenVars, ghostVars>>
  BY DEF DeleteAll
<1>2. TypeOK'
  BY <1>1, DestroyEffect DEF TypeOK
<1>3. Nested' /\ Swept' /\ Bits' /\ KeptPlaced'
  BY <1>1, DestroyEffect DEF TypeOK, Nested, Swept, Bits, KeptPlaced
<1>4. Between' /\ NewBits' /\ Follow' /\ Told'
  BY <1>1, DestroyEffect
     DEF TypeOK, Between, NewBits, Follow, Told, Settled, Clean, Objects
<1>5. Entries' /\ UidsOfOne'
  BY <1>1, DestroyEffect, ObjectsAssumption DEF TypeOK, Entries, UidsOfOne
<1> QED
  BY <1>2, <1>3, <1>4, <1>5

-----------------------------------------------------------------------------
(* The theorems *)

LEMMA StutterStep ==
  ASSUME IInv, UNCHANGED vars
  PROVE  IInv'
<1> USE DEF IInv, vars, saveVars, objectVars, writtenVars, ghostVars
<1>1. TypeOK' /\ Nested' /\ Between' /\ Swept' /\ NewBits'
  BY DEF TypeOK, Nested, Between, Swept, NewBits, Settled
<1>2. Follow' /\ Bits' /\ Told' /\ KeptPlaced' /\ Entries' /\ UidsOfOne'
  BY DEF Follow, Bits, Told, KeptPlaced, Entries, UidsOfOne, Settled, Clean
<1> QED
  BY <1>1, <1>2

LEMMA NextIInv ==
  ASSUME IInv, [Next]_vars
  PROVE  IInv'
<1>1. ASSUME NEW force \in BOOLEAN, Begin(force)
      PROVE  IInv'
  BY <1>1, BeginStep
<1>2. CASE SaveForce
  BY <1>2, SaveForceStep
<1>3. CASE SaveStage
  BY <1>3, CollectStep, WriteSectorsStep, TrapInSectorStep, OtherStageStep,
     FinishStep DEF SaveStage
<1>4. CASE Abort
  BY <1>4, AbortStep
<1>5. CASE World
  <2>1. ASSUME NEW o \in Objects, NEW u \in Uids, Create(o, u)
        PROVE  IInv'
    BY <2>1, CreateStep
  <2>2. ASSUME NEW c \in Chars, NEW s \in Sectors, MoveChar(c, s)
        PROVE  IInv'
    BY <2>2, MoveCharStep
  <2>3. ASSUME NEW c \in Players, NEW s \in Sectors, MoveAway(c, s)
        PROVE  IInv'
    BY <2>3, MoveAwayStep
  <2>4. ASSUME NEW i \in Items, NEW s \in Sectors, MoveItem(i, s)
        PROVE  IInv'
    BY <2>4, MoveItemStep
  <2>5. ASSUME NEW o \in Objects, Delete(o)
        PROVE  IInv'
    BY <2>5, DeleteStep
  <2>6. CASE DeleteAll
    BY <2>6, DeleteAllStep
  <2> QED
    BY <1>5, <2>1, <2>2, <2>3, <2>4, <2>5, <2>6 DEF World
<1>6. CASE UNCHANGED vars
  BY <1>6, StutterStep
<1> QED
  BY <1>1, <1>2, <1>3, <1>4, <1>5, <1>6 DEF Next

LEMMA IInvAlways == Spec => []IInv
  BY InitIInv, NextIInv, PTL DEF Spec

\* The state keeps its type.
THEOREM TypeCorrect == Spec => []TypeOK
<1>1. IInv => TypeOK
  BY DEF IInv
<1> QED
  BY <1>1, IInvAlways, PTL

\* Who was in the world all the time is in the save once: the bits told so,
\* and they are all set when the sectors are done.
THEOREM AllSavedOnce == Spec => []SavedOnce
<1>1. IInv => SavedOnce
  <2> SUFFICES ASSUME IInv, open, stage \in DataStage..LastStage, faulty = 0,
                      NEW o \in kept, stray[o] = 0
               PROVE  written[o] = 1
    BY DEF SavedOnce
  <2>1. o \in Objects /\ life[o] = "placed" /\ place[o] \in Sectors
    BY DEF IInv, TypeOK, KeptPlaced
  <2>2. sectorParity[place[o]] = worldParity
    BY <2>1, SectorsAssumption
       DEF IInv, Swept, Sectors, DataStage, LastStage
  <2>3. o \in Chars => charParity[o] = worldParity
    BY <2>1, <2>2 DEF IInv, Follow, Settled
  <2> QED
    BY <2>1, <2>2, <2>3 DEF IInv, Told, Clean, Objects
<1> QED
  BY <1>1, IInvAlways, PTL

\* No character is twice in a save: the bit that is set when one is written is
\* asked for before one is.
THEOREM NoCharTwice == Spec => []CharsOnce
<1>1. IInv => CharsOnce
  <2> SUFFICES ASSUME IInv, NEW c \in Chars PROVE written[c] < 2
    BY DEF CharsOnce
  <2>1. CASE open
    BY <2>1 DEF IInv, TypeOK, Bits, Objects
  <2>2. CASE ~open
    BY <2>2 DEF IInv, Between, Objects
  <2> QED
    BY <2>1, <2>2
<1> QED
  BY <1>1, IInvAlways, PTL

\* No two objects in a save have one UID: it is held back until the save is
\* over.
THEOREM UidsNotReused == Spec => []UidsOfOne
<1>1. IInv => UidsOfOne
  BY DEF IInv
<1> QED
  BY <1>1, IInvAlways, PTL
=============================================================================
