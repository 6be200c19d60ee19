--------------------------- MODULE SaveFilesProofs ---------------------------
(***************************************************************************)
(* For every number of saves and of backup levels, and whatever the        *)
(* counter is at first, as long as no rename fails: a save that does not   *)
(* end leaves the last one that did on the disk until the next save        *)
(* begins, a server that was killed in its stages starts with that one or  *)
(* with a newer one, and the characters that it starts with are never from *)
(* another save than the items.  What a rename that failed has spoilt is   *)
(* over with the next save that is completed.                              *)
(***************************************************************************)
EXTENDS SaveFiles, WellFoundedInduction, TLAPS

-----------------------------------------------------------------------------
(* The invariant *)

\* Every save that was begun and not completed since the last one that was, is
\* counted once.
Counted ==
    /\ newest + unfinished <= saves
    /\ pc \in Saving => newest + unfinished < saves

\* The files that a start needs, and their places in Order
Needed == {"world", "chars"}
Place(k) == IF k = "data" THEN 1
            ELSE IF k = "world" THEN 2 ELSE IF k = "chars" THEN 3 ELSE 4

\* Is there a new file of this kind, and was the old one renamed before?
Made(k) ==
    \/ pc \in {"remove", "rename", "open"} /\ at > Place(k)
    \/ pc \in {"header", "stages", "close"}
Moved(k) == pc = "open" /\ at = Place(k)

\* What is in the new files
Written ==
    /\ \A k \in Needed :
          Made(k) => /\ disk[Now][k].save = saves
                     /\ pc = "close" /\ at > Place(k) => disk[Now][k].whole
    /\ pc = "header" => \A i \in 1..at - 1 : disk[Now][Order[i]].count = count
    /\ pc = "stages" => at = 1

\* The last save that was completed has its file of this kind here.
Kept(k, n) == disk[n][k].save = newest /\ disk[n][k].whole

\* The headers of the new files have this count; the old ones got the name that
\* goes with it.
Headed(c) == \A k \in Kinds : disk[Now][k].count = c
Backed(c) == \A k \in Needed : Kept(k, BackupName(c))

\* While no save was given up, the last one is where a start looks first,
Fresh ==
    unfinished = 0 /\ pc \notin Saving =>
        /\ \A k \in Needed : Kept(k, Now)
        /\ pc = "load" => name = Now

\* until its files are renamed, one after the other, if that does not fail.
Renamed ==
    unfinished = 0 /\ unrenamed = 0 =>
        /\ pc \in {"remove", "rename", "open"} =>
              \A k \in Needed :
                 Kept(k, IF Made(k) \/ Moved(k) THEN BackupName(count) ELSE Now)
        /\ pc = "header" => Backed(count)
        /\ pc = "stages" => Headed(count) /\ Backed(count)
        /\ pc = "close" => \E c \in Nat : Headed(c) /\ Backed(c)

\* When one was given up, it is on the disk, and where the next start looks if
\* that one's headers were written.
Left ==
    unfinished = 1 /\ unrenamed = 0 /\ pc \notin Saving =>
        /\ \A k \in Needed : \E n \in Names : Kept(k, n)
        /\ ~cutOpening =>
              \E c \in Nat :
                 /\ Headed(c) /\ Backed(c)
                 /\ newest <= disk[Now]["world"].save
                 /\ pc = "load" => name \in {Now, BackupName(c)}

\* The world and the chars of one name are from one save, and when they are not
\* whole, all their headers name the same backup, one of these.
Whole(f) == f["world"].whole /\ f["chars"].whole
Sound(f, G) ==
    IF Whole(f)
    THEN f["world"].save = f["chars"].save
    ELSE \E c \in Nat : /\ BackupName(c) \in G
                        /\ \A k \in Kinds : f[k].count = c

\* The files that the name Now had when this save began, wherever they are
Before == [k \in Kinds |->
             disk[IF Made(k) \/ Moved(k) THEN BackupName(count) ELSE Now][k]]

\* These names are all that a start comes to.
Tried(G) ==
    /\ \A n \in G \ {Now, BackupName(count)} : Sound(disk[n], G)
    /\ pc \notin Saving =>
          /\ Now \in G /\ (pc = "load" => name \in G)
          /\ \A n \in G : Sound(disk[n], G)
    /\ pc \in {"remove", "rename", "open"} =>
          BackupName(count) \in G /\ Sound(Before, G)
    /\ pc \in {"header", "stages"} =>
          BackupName(count) \in G /\ Sound(disk[BackupName(count)], G)
    /\ pc = "stages" => Headed(count)
    /\ pc = "close" =>
          /\ \E c \in Nat : Headed(c) /\ BackupName(c) \in G
          /\ \A n \in G \ {Now} : Sound(disk[n], G)
Chained == Clean => \E G \in SUBSET Names : Tried(G)

IInv == TypeOK /\ Counted /\ Written /\ Fresh /\ Renamed /\ Left /\ Chained

-----------------------------------------------------------------------------
(* The names and the files *)

File == [save : 0..MaxSaves, count : Nat \cup {NoCount}, whole : BOOLEAN]
OnDisk == disk \in [Names -> [Kinds -> File]]

LEMMA Ordered ==
  /\ DOMAIN Order = 1..4 /\ Len(Order) = 4
  /\ Order[1] = "data" /\ Order[2] = "world"
  /\ Order[3] = "chars" /\ Order[4] = "multis"
  BY DEF Order

\* A set of numbers that is not empty has a least one, as GetBackupName() needs.
LEMMA Least ==
  ASSUME NEW S \in SUBSET Nat, S # {}
  PROVE  \E s \in S : \A r \in S : s <= r
<1> DEFINE R == OpToRel(<, Nat)
<1>1. IsWellFoundedOn(R, Nat)
  BY NatLessThanWellFounded
<1>2. \A r, q \in Nat : r < q => <<r, q>> \in R
  BY DEF OpToRel
<1> HIDE DEF R
<1>3. PICK s \in S : \A r \in S : ~(<<r, s>> \in R)
  BY <1>1, WFMin
<1>4. ASSUME NEW r \in S PROVE s <= r
  <2>1. ~(r < s)
    BY <1>2, <1>3
  <2>2. QED
    BY <2>1
<1>5. QED
  BY <1>4

\* GetBackupName() gives the name of a backup, whatever the counter is.
LEMMA BackupNamed ==
  ASSUME NEW c \in Nat
  PROVE  BackupName(c) \in Names \ {Now}
<1> DEFINE digit(l) == (c \div Radix^l) % Radix
           Last(l) == /\ l = BackupLevels \/ digit(l) # 0
                      /\ \A k \in 0..l - 1 : digit(k) = 0
           ends == {l \in 0..BackupLevels : l = BackupLevels \/ digit(l) # 0}
<1>1. BackupLevels \in Nat /\ Radix \in Nat \ {0, 1}
  BY LevelsAssumption, RadixAssumption
<1>2. \A l \in Nat : digit(l) \in 0..Radix - 1
  <2>1. \A l \in Nat : Radix^l \in Int
    BY <1>1
  <2>2. \A x \in Int : (c \div x) % Radix \in 0..Radix - 1
    BY <1>1
  <2>3. QED
    BY <2>1, <2>2
<1> HIDE DEF digit
<1>3. ends # {} /\ ends \in SUBSET Nat
  BY <1>1
<1>4. PICK l \in ends : \A k \in ends : l <= k
  BY <1>3, Least
<1>5. l \in 0..BackupLevels /\ Last(l)
  <2>1. ASSUME NEW k \in 0..l - 1 PROVE digit(k) = 0
    <3>1. k \notin ends /\ k \in 0..BackupLevels
      BY <1>1, <1>3, <1>4
    <3>2. QED
      BY <3>1
  <2>2. QED
    BY <1>4, <2>1
<1> DEFINE level == CHOOSE m \in 0..BackupLevels : Last(m)
<1>6. level \in 0..BackupLevels
  BY <1>5
<1>7. BackupName(c) = <<level, digit(level)>>
  BY DEF BackupName, digit
<1> HIDE DEF level
<1>8. digit(level) \in 0..Radix - 1
  BY <1>1, <1>2, <1>6
<1>9. <<level, digit(level)>> # Now
  BY <1>6 DEF Now
<1>10. QED
  BY <1>6, <1>7, <1>8, <1>9 DEF Names

-----------------------------------------------------------------------------
(* What the steps do to the files *)

\* TypeOK in parts
ServerTyped ==
    /\ pc \in {"down", "load", "failed", "up"} \cup Saving
    /\ at \in 1..4
    /\ name \in Names /\ count \in Nat
    /\ saves \in 1..MaxSaves /\ newest \in 1..MaxSaves
    /\ loaded \in [{"world", "chars"} -> 0..MaxSaves]
    /\ unfinished \in 0..MaxSaves
    /\ cutOpening \in BOOLEAN
    /\ unrenamed \in 0..MaxFailures

LEMMA Parts == TypeOK <=> OnDisk /\ ServerTyped
  BY Ordered DEF TypeOK, OnDisk, File, ServerTyped

\* Which file has its turn
LEMMA Turn ==
  ASSUME at \in 1..4
  PROVE  /\ Kind \in Kinds /\ Kind = Order[at]
         /\ \A k \in Needed :
               k \in Kinds /\ (k = Kind <=> at = Place(k))
  BY Ordered DEF Kind, Kinds, Needed, Place

\* Files have their turns one after the other.
LEMMA NextTurn ==
  ASSUME at \in 1..4, NEW again, NEW next, NextFile(again, next)
  PROVE  \/ at = 4 /\ pc' = next /\ at' = 1
         \/ at \in 1..3 /\ pc' = again /\ at' = at + 1
  BY Ordered DEF NextFile

\* Remove takes away a backup of the file that has its turn, or nothing.
LEMMA RemoveDoes ==
  ASSUME TypeOK, Remove
  PROVE  /\ OnDisk'
         /\ \A n \in Names, k \in Kinds :
               n # BackupName(count) \/ k # Kind => disk'[n][k] = disk[n][k]
<1>1. OnDisk /\ at \in 1..4 /\ count \in Nat
  BY Parts DEF ServerTyped
<1>2. NoFile \in File
  BY SavesAssumption DEF File, NoFile
<1>3. PICK n \in Names, k \in Kinds : n = BackupName(count) /\ k = Kind
  BY <1>1, Turn, BackupNamed
<1>4. disk' = [disk EXCEPT ![n][k] = NoFile] \/ disk' = disk
  BY <1>3 DEF Remove
<1>5. QED
  BY <1>1, <1>2, <1>3, <1>4 DEF OnDisk

\* Rename gives it the name of the backup.
LEMMA RenameDoes ==
  ASSUME TypeOK, Rename
  PROVE  /\ OnDisk'
         /\ disk'[BackupName(count)][Kind] = disk[Now][Kind]
         /\ \A n \in Names, k \in Kinds :
               k # Kind => disk'[n][k] = disk[n][k]
         /\ \A n \in Names \ {Now, BackupName(count)} : disk'[n] = disk[n]
<1>1. OnDisk /\ at \in 1..4 /\ count \in Nat
  BY Parts DEF ServerTyped
<1>2. NoFile \in File
  BY SavesAssumption DEF File, NoFile
<1>3. BackupName(count) \in Names \ {Now} /\ Now \in Names /\ Kind \in Kinds
  BY <1>1, Turn, BackupNamed DEF Names
<1>4. disk' = [disk EXCEPT ![BackupName(count)][Kind] = disk[Now][Kind],
                           ![Now][Kind] = NoFile]
  BY DEF Rename
<1>5. QED
  BY <1>1, <1>2, <1>3, <1>4 DEF OnDisk

\* What Open, WriteHeader and CloseFile make of a file
LEMMA SaveSet ==
  ASSUME NEW f \in File, NEW s \in 0..MaxSaves
  PROVE  [f EXCEPT !.save = s] \in File /\ [f EXCEPT !.save = s].save = s
  BY DEF File

LEMMA CountSet ==
  ASSUME NEW f \in File, NEW c \in Nat
  PROVE  /\ [f EXCEPT !.count = c] \in File
         /\ [f EXCEPT !.count = c].save = f.save
         /\ [f EXCEPT !.count = c].count = c
  BY DEF File

LEMMA WholeSet ==
  ASSUME NEW f \in File
  PROVE  /\ [f EXCEPT !.whole = TRUE] \in File
         /\ [f EXCEPT !.whole = TRUE].save = f.save
         /\ [f EXCEPT !.whole = TRUE].count = f.count
         /\ [f EXCEPT !.whole = TRUE].whole
  BY DEF File

\* Open makes it anew.
LEMMA OpenDoes ==
  ASSUME TypeOK, Open
  PROVE  /\ OnDisk'
         /\ disk'[Now][Kind].save = saves
         /\ \A n \in Names, k \in Kinds :
               n # Now \/ k # Kind => disk'[n][k] = disk[n][k]
<1>1. OnDisk /\ at \in 1..4 /\ saves \in 0..MaxSaves
  BY Parts, SavesAssumption DEF ServerTyped
<1>2. NoFile \in File
  BY SavesAssumption DEF File, NoFile
<1>3. Now \in Names /\ Kind \in Kinds
  BY <1>1, Turn DEF Names
<1>4. PICK f \in File : f = [NoFile EXCEPT !.save = saves] /\ f.save = saves
  <2>1. PICK g \in File, s \in 0..MaxSaves : g = NoFile /\ s = saves
    BY <1>1, <1>2
  <2>2. QED
    BY <2>1, SaveSet
<1>5. disk' = [disk EXCEPT ![Now][Kind] = f]
  BY <1>4 DEF Open
<1>6. QED
  BY <1>1, <1>3, <1>4, <1>5 DEF OnDisk

\* WriteHeader only writes its header.
LEMMA HeaderDoes ==
  ASSUME TypeOK, WriteHeader
  PROVE  /\ OnDisk'
         /\ \A n \in Names \ {Now} : disk'[n] = disk[n]
         /\ disk'[Now][Kind].count = count
         /\ \A k \in Kinds :
               /\ disk'[Now][k].save = disk[Now][k].save
               /\ k # Kind => disk'[Now][k].count = disk[Now][k].count
<1>1. OnDisk /\ at \in 1..4 /\ count \in Nat /\ saves \in 0..MaxSaves
  BY Parts, SavesAssumption DEF ServerTyped
<1>2. Now \in Names /\ Kind \in Kinds
  BY <1>1, Turn DEF Names
<1>3. disk[Now][Kind] \in File
  BY <1>1, <1>2 DEF OnDisk
<1>4. PICK f \in File : /\ f = [disk[Now][Kind] EXCEPT !.count = count]
                        /\ f.save = disk[Now][Kind].save
                        /\ f.count = count
  <2>1. PICK g \in File, c \in Nat : g = disk[Now][Kind] /\ c = count
    BY <1>1, <1>3
  <2>2. QED
    BY <2>1, CountSet
<1>5. disk' = [disk EXCEPT ![Now][Kind] = f]
  BY <1>4 DEF WriteHeader
<1>6. QED
  BY <1>1, <1>2, <1>4, <1>5 DEF OnDisk

\* CloseFile makes it whole.
LEMMA CloseDoes ==
  ASSUME TypeOK, CloseFile
  PROVE  /\ OnDisk'
         /\ \A n \in Names \ {Now} : disk'[n] = disk[n]
         /\ \A k \in Kinds :
               /\ disk'[Now][k].save = disk[Now][k].save
               /\ disk'[Now][k].count = disk[Now][k].count
               /\ k = Kind \/ disk[Now][k].whole => disk'[Now][k].whole
<1>1. OnDisk /\ at \in 1..4 /\ count \in Nat /\ saves \in 0..MaxSaves
  BY Parts, SavesAssumption DEF ServerTyped
<1>2. Now \in Names /\ Kind \in Kinds
  BY <1>1, Turn DEF Names
<1>3. disk[Now][Kind] \in File
  BY <1>1, <1>2 DEF OnDisk
<1>4. PICK f \in File : /\ f = [disk[Now][Kind] EXCEPT !.whole = TRUE]
                        /\ f.save = disk[Now][Kind].save
                        /\ f.count = disk[Now][Kind].count /\ f.whole
  BY <1>3, WholeSet
<1>5. disk' = [disk EXCEPT ![Now][Kind] = f]
  BY <1>4 DEF CloseFile
<1>6. QED
  BY <1>1, <1>2, <1>4, <1>5 DEF OnDisk

\* The counter that is read from the headers is a counter.
LEMMA CountReadTyped ==
  ASSUME TypeOK
  PROVE  CountRead \in Nat
<1>1. OnDisk /\ name \in Names /\ count \in Nat
  BY Parts DEF ServerTyped
<1> DEFINE read == IF IsWholeWorld THEN <<"chars", "world", "multis", "data">>
                   ELSE <<"world", "multis", "data">>
           headed == {i \in DOMAIN read : disk[name][read[i]].count # NoCount}
           last == CHOOSE i \in headed : \A j \in headed : i <= j
<1>2. \A i \in DOMAIN read : i \in Nat /\ read[i] \in Kinds
  <2>1. CASE IsWholeWorld
    BY <2>1 DEF Kinds
  <2>2. CASE ~IsWholeWorld
    BY <2>2 DEF Kinds
  <2>3. QED
    BY <2>1, <2>2
<1>3. CountRead = IF headed = {} THEN count ELSE disk[name][read[last]].count
  BY DEF CountRead
<1> HIDE DEF read
<1>4. headed \in SUBSET Nat /\ headed \subseteq DOMAIN read
  BY <1>2
<1>5. ASSUME headed # {} PROVE disk[name][read[last]].count \in Nat
  <2>1. \E i \in headed : \A j \in headed : i <= j
    BY <1>4, <1>5, Least
  <2>2. last \in headed
    BY <2>1
  <2> HIDE DEF last
  <2>3. /\ read[last] \in Kinds
        /\ disk[name][read[last]].count # NoCount
    BY <1>2, <2>2
  <2>4. QED
    BY <1>1, <2>3 DEF OnDisk, File
<1>6. QED
  BY <1>1, <1>3, <1>5

-----------------------------------------------------------------------------
(* Every step keeps the invariant *)

LEMMA TypesKept ==
  ASSUME TypeOK, Counted, Next
  PROVE  TypeOK' /\ Counted'
<1>1. OnDisk /\ ServerTyped
  BY Parts
<1>2. MaxSaves \in Nat /\ MaxFailures \in Nat
  BY SavesAssumption, FailuresAssumption
<1>g. SUFFICES OnDisk' /\ ServerTyped' /\ Counted'
  BY Ordered DEF TypeOK, OnDisk, File, ServerTyped
<1> USE <1>1, <1>2 DEF ServerTyped, Counted, Saving, Opening, ghostVars
<1>3. CASE Start
  <2>1. Now \in Names
    BY DEF Names
  <2>2. UNCHANGED disk
    BY <1>3 DEF Start
  <2>3. QED
    BY <1>3, <2>1, <2>2 DEF Start, OnDisk
<1>4. CASE LoadWorld
  <2>1. CountRead \in Nat
    BY CountReadTyped
  <2>2. BackupName(CountRead) \in Names
    BY <2>1, BackupNamed
  <2>3. loaded' \in [{"world", "chars"} -> 0..MaxSaves]
    <3>1. \A k \in {"world", "chars"} : disk[name][k].save \in 0..MaxSaves
      BY DEF OnDisk, File, Kinds
    <3>2. QED
      BY <1>4, <3>1 DEF LoadWorld
  <2>4. /\ UNCHANGED <<disk, at, saves, newest, unfinished, cutOpening,
                      unrenamed>>
        /\ pc = "load" /\ pc' \in {"load", "up", "failed"}
        /\ name' \in {name, BackupName(CountRead)} /\ count' = CountRead
    BY <1>4 DEF LoadWorld
  <2>5. QED
    BY <2>1, <2>2, <2>3, <2>4 DEF OnDisk
<1>5. CASE Begin
  BY <1>5 DEF Begin, OnDisk
<1>6. CASE Remove
  BY <1>6, RemoveDoes DEF Remove
<1>7. CASE Rename
  BY <1>7, RenameDoes DEF Rename
<1>8. CASE Open
  BY <1>8, OpenDoes, NextTurn DEF Open
<1>9. CASE WriteHeader
  BY <1>9, HeaderDoes, NextTurn DEF WriteHeader
<1>10. CASE CountSave
  BY <1>10 DEF CountSave, OnDisk
<1>11. CASE CloseFile
  <2>1. \/ at = 4 /\ pc' = "up" /\ at' = 1
        \/ at \in 1..3 /\ pc' = "close" /\ at' = at + 1
    BY <1>11, NextTurn DEF CloseFile
  <2>2. IF at = 4
        THEN /\ newest' = saves /\ unfinished' = 0
             /\ cutOpening' = FALSE /\ unrenamed' = 0
        ELSE UNCHANGED <<newest, unfinished, cutOpening, unrenamed>>
    BY <1>11, Ordered DEF CloseFile
  <2>3. UNCHANGED <<name, count, saves, loaded>> /\ pc = "close" /\ OnDisk'
    BY <1>11, CloseDoes DEF CloseFile
  <2>4. CASE at = 4
    <3>1. /\ pc' = "up" /\ at' = 1 /\ newest' = saves /\ unfinished' = 0
          /\ cutOpening' = FALSE /\ unrenamed' = 0
      BY <2>1, <2>2, <2>4
    <3>2. OnDisk' /\ ServerTyped'
      <4>1. OnDisk' /\ UNCHANGED <<name, count, saves, loaded>>
        BY <2>3
      <4>2. pc' \in {"up"} /\ at' \in 1..4 /\ unfinished' \in 0..MaxSaves
        BY <3>1
      <4>3. newest' \in 1..MaxSaves /\ cutOpening' \in BOOLEAN
        BY <3>1
      <4>4. unrenamed' \in 0..MaxFailures
        BY <3>1
      <4>5. QED
        BY <4>1, <4>2, <4>3, <4>4
    <3>3. Counted'
      BY <2>3, <3>1
    <3>4. QED
      BY <3>2, <3>3
  <2>5. CASE at \in 1..3
    BY <2>1, <2>2, <2>3, <2>5
  <2>6. QED
    BY <2>1, <2>4, <2>5
<1>12. CASE OpenFails
  BY <1>12 DEF OpenFails, OnDisk
<1>13. CASE Abandon
  BY <1>13 DEF Abandon, OnDisk
<1>14. CASE Crash
  BY <1>14 DEF Crash, OnDisk
<1>15. CASE RenameFails
  BY <1>15 DEF RenameFails, OnDisk
<1>16. QED
  BY <1>3, <1>4, <1>5, <1>6, <1>7, <1>8, <1>9, <1>10, <1>11, <1>12, <1>13,
     <1>14, <1>15 DEF Next, Save, Fault

LEMMA WrittenKept ==
  ASSUME TypeOK, Written, Next
  PROVE  Written'
<1>1. at \in 1..4
  BY Parts DEF ServerTyped
<1>2. /\ \A k \in Needed : k \in Kinds /\ (k = Kind <=> at = Place(k))
      /\ \A k \in Needed : Place(k) \in 1..4
      /\ Now \in Names /\ count \in Nat
      /\ BackupName(count) # Now
  BY <1>1, Turn, Parts, BackupNamed DEF Place, Names, ServerTyped
<1>3. CASE Start \/ LoadWorld \/ OpenFails \/ Abandon \/ Crash
  BY <1>3 DEF Start, LoadWorld, OpenFails, Abandon, Crash, Written, Made
<1>5. CASE Begin
  <2>1. pc' = "remove" /\ at' = 1
    BY <1>5 DEF Begin
  <2>2. \A k \in Needed : ~Made(k)'
    BY <1>2, <2>1 DEF Made, Place
  <2>3. QED
    BY <2>1, <2>2 DEF Written
<1>6. CASE Remove
  <2>1. /\ pc = "remove" /\ pc' = "rename"
        /\ UNCHANGED <<at, count, saves>>
    BY <1>6 DEF Remove
  <2>2. \A k \in Kinds : disk'[Now][k] = disk[Now][k]
    BY <1>2, <1>6, RemoveDoes
  <2>3. \A k \in Needed : Made(k)' => Made(k)
    BY <2>1 DEF Made, Place
  <2>4. QED
    BY <1>2, <2>1, <2>2, <2>3 DEF Written
<1>7. CASE Rename
  <2>1. /\ pc = "rename" /\ pc' = "open"
        /\ UNCHANGED <<at, count, saves>>
    BY <1>7 DEF Rename
  <2>2. \A k \in Kinds : k # Kind => disk'[Now][k] = disk[Now][k]
    BY <1>2, <1>7, RenameDoes
  <2>3. \A k \in Needed : Made(k)' => Made(k) /\ at # Place(k)
    BY <1>1, <2>1 DEF Made, Place
  <2>4. QED
    BY <1>2, <2>1, <2>2, <2>3 DEF Written
<1>8. CASE Open
  <2>1. /\ pc = "open" /\ UNCHANGED <<count, saves>>
        /\ \/ at = 4 /\ pc' = "header" /\ at' = 1
           \/ at \in 1..3 /\ pc' = "remove" /\ at' = at + 1
    BY <1>1, <1>8, NextTurn DEF Open
  <2>2. /\ disk'[Now][Kind].save = saves
        /\ \A k \in Kinds : k # Kind => disk'[Now][k] = disk[Now][k]
    BY <1>2, <1>8, OpenDoes
  <2>3. \A k \in Needed : Made(k)' => Made(k) \/ at = Place(k)
    BY <2>1 DEF Made, Place
  <2>4. QED
    BY <1>2, <2>1, <2>2, <2>3 DEF Written
<1>9. CASE WriteHeader
  <2>1. /\ pc = "header" /\ UNCHANGED <<count, saves>>
        /\ \/ at = 4 /\ pc' = "stages" /\ at' = 1
           \/ at \in 1..3 /\ pc' = "header" /\ at' = at + 1
    BY <1>1, <1>9, NextTurn DEF WriteHeader
  <2>2. /\ disk'[Now][Kind].count = count
        /\ \A k \in Kinds :
              /\ disk'[Now][k].save = disk[Now][k].save
              /\ k # Kind => disk'[Now][k].count = disk[Now][k].count
    BY <1>9, HeaderDoes
  <2>3. \A k \in Needed : Made(k)
    BY <2>1 DEF Made
  <2>4. \A i \in 1..at : disk'[Now][Order[i]].count = count
    <3>1. ASSUME NEW i \in 1..at PROVE disk'[Now][Order[i]].count = count
      <4>1. Order[i] \in Kinds /\ (Order[i] = Kind <=> i = at)
        BY <1>1, Ordered DEF Kind, Kinds
      <4>2. CASE i = at
        BY <2>2, <4>1, <4>2
      <4>3. CASE i # at
        <5>1. i \in 1..at - 1
          BY <1>1, <4>3
        <5>2. QED
          BY <2>1, <2>2, <4>1, <4>3, <5>1 DEF Written
      <4>4. QED
        BY <4>2, <4>3
    <3>2. QED
      BY <3>1
  <2>5. at' = at + 1 => 1..at' - 1 = 1..at
    BY <1>1
  <2>6. QED
    BY <1>2, <2>1, <2>2, <2>3, <2>4, <2>5 DEF Written
<1>10. CASE CountSave
  <2>1. /\ pc = "stages" /\ pc' = "close" /\ UNCHANGED <<disk, at, saves>>
        /\ at = 1
    BY <1>10 DEF CountSave, Written
  <2>2. \A k \in Needed : Made(k) /\ ~(at' > Place(k))
    BY <2>1 DEF Made, Place
  <2>3. QED
    BY <2>1, <2>2 DEF Written
<1>11. CASE CloseFile
  <2>1. /\ pc = "close" /\ UNCHANGED saves
        /\ \/ at = 4 /\ pc' = "up" /\ at' = 1
           \/ at \in 1..3 /\ pc' = "close" /\ at' = at + 1
    BY <1>1, <1>11, NextTurn DEF CloseFile
  <2>2. \A k \in Kinds :
           /\ disk'[Now][k].save = disk[Now][k].save
           /\ k = Kind \/ disk[Now][k].whole => disk'[Now][k].whole
    BY <1>11, CloseDoes
  <2>3. \A k \in Needed :
           /\ Made(k)
           /\ pc' = "close" /\ at' > Place(k) => at > Place(k) \/ k = Kind
    BY <1>2, <2>1 DEF Made, Place
  <2>4. ASSUME NEW k \in Needed, Made(k)'
        PROVE  /\ disk'[Now][k].save = saves'
               /\ pc' = "close" /\ at' > Place(k) => disk'[Now][k].whole
    BY <1>2, <2>1, <2>2, <2>3, <2>4 DEF Written
  <2>5. pc' # "header" /\ pc' # "stages"
    BY <2>1
  <2>6. QED
    BY <2>4, <2>5 DEF Written
<1>12. CASE RenameFails
  <2>1. /\ pc = "rename" /\ pc' = "open"
        /\ UNCHANGED <<disk, at, count, saves>>
    BY <1>12 DEF RenameFails
  <2>2. \A k \in Needed : Made(k)' <=> Made(k)
    BY <2>1 DEF Made, Place
  <2>3. QED
    BY <2>1, <2>2 DEF Written
<1>13. QED
  BY <1>3, <1>5, <1>6, <1>7, <1>8, <1>9, <1>10, <1>11, <1>12
     DEF Next, Save, Fault

\* When all the headers have the same count, that one is read.
LEMMA CountReadHeaded ==
  ASSUME TypeOK, NEW c \in Nat, \A k \in Kinds : disk[name][k].count = c
  PROVE  CountRead = c
<1> DEFINE read == IF IsWholeWorld THEN <<"chars", "world", "multis", "data">>
                   ELSE <<"world", "multis", "data">>
           headed == {i \in DOMAIN read : disk[name][read[i]].count # NoCount}
           last == CHOOSE i \in headed : \A j \in headed : i <= j
<1>1. /\ \A i \in DOMAIN read : i \in Nat /\ read[i] \in Kinds
      /\ DOMAIN read # {}
  <2>1. CASE IsWholeWorld
    BY <2>1 DEF Kinds
  <2>2. CASE ~IsWholeWorld
    BY <2>2 DEF Kinds
  <2>3. QED
    BY <2>1, <2>2
<1>2. CountRead = IF headed = {} THEN count ELSE disk[name][read[last]].count
  BY DEF CountRead
<1> HIDE DEF read
<1>3. c # NoCount
  BY DEF NoCount
<1>4. \A i \in DOMAIN read : disk[name][read[i]].count = c
  BY <1>1
<1>5. headed # {} /\ headed \in SUBSET Nat /\ headed \subseteq DOMAIN read
  BY <1>1, <1>3, <1>4
<1>6. \E i \in headed : \A j \in headed : i <= j
  BY <1>5, Least
<1>7. last \in headed
  BY <1>6
<1> HIDE DEF last
<1>8. QED
  BY <1>2, <1>4, <1>5, <1>7

LEMMA Places ==
  /\ Needed \subseteq Kinds
  /\ "world" \in Needed /\ "chars" \in Needed
  /\ \A k \in Needed : Place(k) \in 2..3
  /\ Now \in Names
  BY DEF Needed, Kinds, Place, Names

LEMMA FreshKept ==
  ASSUME TypeOK, Written, Fresh, Next
  PROVE  Fresh'
<1> USE DEF Saving, Opening, ghostVars
<1>1. at \in 1..4 /\ unfinished \in Nat
  BY Parts, SavesAssumption DEF ServerTyped
<1>2. ASSUME pc \notin Saving,
             UNCHANGED <<disk, newest, unfinished>>,
             pc' = "load" => name' = Now
      PROVE  Fresh'
  BY <1>2 DEF Fresh, Kept
<1>3. CASE Start
  BY <1>2, <1>3 DEF Start
<1>4. CASE LoadWorld
  <2>1. pc = "load" /\ UNCHANGED <<disk, newest, unfinished>>
    BY <1>4 DEF LoadWorld
  <2>2. ASSUME unfinished = 0 PROVE pc' = "up"
    <3>1. name = Now /\ Kept("world", Now) /\ Kept("chars", Now)
      BY <2>1, <2>2, Places DEF Fresh
    <3>2. IsWhole
      BY <3>1 DEF IsWhole, IsWholeWorld, Kept
    <3>3. QED
      BY <1>4, <3>2 DEF LoadWorld
  <2>3. QED
    BY <2>1, <2>2 DEF Fresh, Kept
<1>5. CASE Begin \/ Remove \/ Rename \/ RenameFails \/ CountSave
  BY <1>5 DEF Begin, Remove, Rename, RenameFails, CountSave, Fresh
<1>6. CASE Open
  BY <1>1, <1>6, NextTurn DEF Open, Fresh
<1>7. CASE WriteHeader
  BY <1>1, <1>7, NextTurn DEF WriteHeader, Fresh
<1>8. CASE CloseFile
  <2>1. CASE at = 4
    <3>1. /\ pc = "close" /\ pc' = "up"
          /\ UNCHANGED saves /\ newest' = saves
      BY <1>1, <1>8, <2>1, NextTurn, Ordered DEF CloseFile
    <3>2. \A k \in Needed : /\ disk[Now][k].save = saves
                            /\ disk[Now][k].whole
      BY <2>1, <3>1, Places DEF Written, Made
    <3>3. \A k \in Needed : /\ disk'[Now][k].save = saves
                            /\ disk'[Now][k].whole
      BY <1>8, <3>2, CloseDoes, Places
    <3>4. QED
      BY <3>1, <3>3 DEF Fresh, Kept
  <2>2. CASE at # 4
    <3>1. pc' = "close"
      BY <1>1, <1>8, <2>2, NextTurn DEF CloseFile
    <3>2. QED
      BY <3>1 DEF Fresh
  <2>3. QED
    BY <2>1, <2>2
<1>9. CASE OpenFails \/ Abandon
  BY <1>1, <1>9 DEF OpenFails, Abandon, Fresh
<1>10. CASE Crash
  <2>1. pc' = "down" /\ UNCHANGED <<disk, newest>>
    BY <1>10 DEF Crash
  <2>2. CASE pc \in Saving
    <3>1. unfinished' # 0
      BY <1>1, <1>10, <2>2 DEF Crash
    <3>2. QED
      BY <3>1 DEF Fresh
  <2>3. CASE pc \notin Saving
    <3>1. UNCHANGED unfinished
      BY <1>10, <2>3 DEF Crash
    <3>2. QED
      BY <1>2, <2>1, <2>3, <3>1
  <2>4. QED
    BY <2>2, <2>3
<1>11. QED
  BY <1>3, <1>4, <1>5, <1>6, <1>7, <1>8, <1>9, <1>10 DEF Next, Save, Fault

\* When the last header is written, all of them are.
LEMMA HeadersWritten ==
  ASSUME TypeOK, Written, WriteHeader, at = 4
  PROVE  Headed(count)'
<1>1. pc = "header" /\ UNCHANGED count
  BY DEF WriteHeader
<1>2. SUFFICES ASSUME NEW k \in Kinds
               PROVE  disk'[Now][k].count = count
  BY <1>1 DEF Headed
<1>3. PICK i \in 1..4 : k = Order[i]
  BY Ordered DEF Kinds
<1>4. Kind = Order[4]
  BY DEF Kind
<1>5. CASE i = 4
  BY <1>3, <1>4, <1>5, HeaderDoes
<1>6. CASE i \in 1..3
  <2>1. disk[Now][k].count = count
    BY <1>1, <1>3, <1>6 DEF Written
  <2>2. k # Kind
    BY <1>3, <1>4, <1>6, Ordered
  <2>3. QED
    BY <2>1, <2>2, HeaderDoes
<1>7. QED
  BY <1>5, <1>6

LEMMA RenamedKept ==
  ASSUME TypeOK, Written, Fresh, Renamed, Next
  PROVE  Renamed'
<1>1. /\ at \in 1..4 /\ unfinished \in Nat /\ count \in Nat
      /\ unrenamed \in Nat
      /\ BackupName(count) \in Names \ {Now}
  BY Parts, SavesAssumption, FailuresAssumption, BackupNamed DEF ServerTyped
<1>2. \A k \in Needed : k = Kind <=> at = Place(k)
  BY <1>1, Turn
<1>3. CASE Start \/ LoadWorld \/ OpenFails \/ Abandon \/ Crash
  BY <1>3 DEF Start, LoadWorld, OpenFails, Abandon, Crash, Renamed
<1>4. CASE Begin
  <2>1. /\ pc = "up" /\ pc' = "remove" /\ at' = 1
        /\ UNCHANGED <<disk, newest, unfinished, unrenamed>>
    BY <1>4 DEF Begin, ghostVars
  <2>2. \A k \in Needed : ~(Made(k) \/ Moved(k))'
    BY <2>1, Places DEF Made, Moved
  <2>3. unfinished = 0 /\ unrenamed = 0 => \A k \in Needed : Kept(k, Now)'
    BY <2>1 DEF Fresh, Kept, Saving, Opening
  <2>4. QED
    BY <2>1, <2>2, <2>3 DEF Renamed
<1>5. CASE Remove
  <2>1. /\ pc = "remove" /\ pc' = "rename"
        /\ UNCHANGED <<at, count, newest, unfinished, unrenamed>>
    BY <1>5 DEF Remove, ghostVars
  <2> DEFINE n(k) == IF Made(k) \/ Moved(k) THEN BackupName(count) ELSE Now
  <2>2. ASSUME NEW k \in Needed, unfinished = 0, unrenamed = 0
        PROVE  Kept(k, n(k))'
    <3>1. (Made(k)' <=> Made(k)) /\ ~Moved(k) /\ ~Moved(k)'
      BY <2>1 DEF Made, Moved
    <3>2. Kept(k, n(k))
      BY <2>1, <2>2 DEF Renamed
    <3>3. disk'[n(k)][k] = disk[n(k)][k]
      <4>1. Made(k) => k # Kind
        BY <1>1, <1>2, <2>1, Places DEF Made
      <4>2. QED
        BY <1>1, <1>5, <3>1, <4>1, RemoveDoes, Places
    <3>4. QED
      BY <2>1, <3>1, <3>2, <3>3 DEF Kept
  <2>3. QED
    BY <2>1, <2>2 DEF Renamed
<1>6. CASE Rename
  <2>1. /\ pc = "rename" /\ pc' = "open"
        /\ UNCHANGED <<at, count, newest, unfinished, unrenamed>>
    BY <1>6 DEF Rename, ghostVars
  <2> DEFINE n(k) == IF Made(k) \/ Moved(k) THEN BackupName(count) ELSE Now
  <2>2. ASSUME NEW k \in Needed, unfinished = 0, unrenamed = 0
        PROVE  Kept(k, n(k))'
    <3>1. (Made(k)' <=> Made(k)) /\ ~Moved(k) /\ (Moved(k)' <=> k = Kind)
      BY <1>2, <2>1 DEF Made, Moved
    <3>2. Kept(k, n(k))
      BY <2>1, <2>2 DEF Renamed
    <3>3. CASE k = Kind
      <4>1. ~Made(k)
        BY <1>1, <1>2, <2>1, <3>3, Places DEF Made
      <4>2. disk'[BackupName(count)][k] = disk[Now][k]
        BY <1>6, <3>3, RenameDoes
      <4>3. QED
        BY <2>1, <3>1, <3>2, <3>3, <4>1, <4>2 DEF Kept
    <3>4. CASE k # Kind
      <4>1. disk'[n(k)][k] = disk[n(k)][k]
        BY <1>1, <1>6, <3>4, RenameDoes, Places
      <4>2. QED
        BY <2>1, <3>1, <3>2, <3>4, <4>1 DEF Kept
    <3>5. QED
      BY <3>3, <3>4
  <2>3. QED
    BY <2>1, <2>2 DEF Renamed
<1>7. CASE Open
  <2>1. /\ pc = "open" /\ UNCHANGED <<count, newest, unfinished, unrenamed>>
        /\ \/ at = 4 /\ pc' = "header"
           \/ at \in 1..3 /\ pc' = "remove" /\ at' = at + 1
    BY <1>1, <1>7, NextTurn DEF Open, ghostVars
  <2> DEFINE n(k) == IF Made(k) \/ Moved(k) THEN BackupName(count) ELSE Now
  <2>2. ASSUME NEW k \in Needed, unfinished = 0, unrenamed = 0
        PROVE  /\ Kept(k, n(k)) /\ disk'[n(k)][k] = disk[n(k)][k]
               /\ Made(k)' <=> Made(k) \/ Moved(k)
               /\ ~Moved(k)'
    <3>1. Kept(k, n(k))
      BY <2>1, <2>2 DEF Renamed
    <3>2. k = Kind => Moved(k)
      BY <1>2, <2>1 DEF Moved
    <3>3. disk'[n(k)][k] = disk[n(k)][k]
      BY <1>1, <1>7, <3>2, OpenDoes, Places
    <3>4. (Made(k)' <=> Made(k) \/ Moved(k)) /\ ~Moved(k)'
      BY <1>1, <2>1, Places DEF Made, Moved
    <3>5. QED
      BY <3>1, <3>3, <3>4
  <2>3. ASSUME NEW k \in Needed, unfinished = 0, unrenamed = 0
        PROVE  Kept(k, n(k))'
    BY <2>1, <2>2, <2>3 DEF Kept
  <2>4. CASE at \in 1..3
    BY <2>1, <2>3, <2>4 DEF Renamed
  <2>5. CASE at = 4
    <3>1. pc' = "header" /\ UNCHANGED <<count, unfinished, unrenamed>>
      BY <2>1, <2>5
    <3>2. \A k \in Needed : Made(k)'
      BY <3>1 DEF Made
    <3>3. unfinished = 0 /\ unrenamed = 0 => Backed(count)'
      BY <2>3, <3>1, <3>2 DEF Backed
    <3>4. QED
      BY <3>1, <3>3 DEF Renamed
  <2>6. QED
    BY <1>1, <2>4, <2>5
<1>8. CASE WriteHeader
  <2>1. /\ pc = "header" /\ UNCHANGED <<count, newest, unfinished, unrenamed>>
        /\ pc' = "header" \/ (pc' = "stages" /\ at = 4)
    BY <1>1, <1>8, NextTurn DEF WriteHeader, ghostVars
  <2>2. unfinished = 0 /\ unrenamed = 0 => Backed(count)'
    <3>1. disk'[BackupName(count)] = disk[BackupName(count)]
      BY <1>1, <1>8, HeaderDoes
    <3>2. QED
      BY <2>1, <3>1 DEF Renamed, Backed, Kept
  <2>3. at = 4 => Headed(count)'
    BY <1>8, HeadersWritten
  <2>4. QED
    BY <2>1, <2>2, <2>3 DEF Renamed
<1>9. CASE CountSave
  <2>1. /\ pc = "stages" /\ pc' = "close"
        /\ UNCHANGED <<disk, newest, unfinished, unrenamed>>
    BY <1>9 DEF CountSave, ghostVars
  <2>2. unfinished = 0 /\ unrenamed = 0 => Headed(count) /\ Backed(count)
    BY <2>1 DEF Renamed
  <2>3. ASSUME NEW c \in Nat, Headed(c) /\ Backed(c)
        PROVE  Headed(c)' /\ Backed(c)'
    BY <2>1, <2>3 DEF Headed, Backed, Kept
  <2>4. QED
    BY <1>1, <2>1, <2>2, <2>3 DEF Renamed
<1>10. CASE CloseFile
  <2>1. CASE at = 4
    <3>1. pc' = "up"
      BY <1>1, <1>10, <2>1, NextTurn DEF CloseFile
    <3>2. QED
      BY <3>1 DEF Renamed
  <2>2. CASE at # 4
    <3>1. /\ pc = "close" /\ pc' = "close"
          /\ UNCHANGED <<newest, unfinished, unrenamed>>
      BY <1>1, <1>10, <2>2, NextTurn, Ordered DEF CloseFile, ghostVars
    <3>2. ASSUME NEW c \in Nat, Headed(c) /\ Backed(c)
          PROVE  Headed(c)' /\ Backed(c)'
      <4>1. BackupName(c) \in Names \ {Now}
        BY BackupNamed
      <4>2. disk'[BackupName(c)] = disk[BackupName(c)]
        BY <1>10, <4>1, CloseDoes
      <4>3. Backed(c)'
        BY <3>1, <3>2, <4>2 DEF Backed, Kept
      <4>4. Headed(c)'
        BY <1>10, <3>2, CloseDoes DEF Headed
      <4>5. QED
        BY <4>3, <4>4
    <3>3. QED
      BY <3>1, <3>2 DEF Renamed
  <2>3. QED
    BY <2>1, <2>2
<1>11. CASE RenameFails
  <2>1. unrenamed' # 0
    BY <1>1, <1>11 DEF RenameFails
  <2>2. QED
    BY <2>1 DEF Renamed
<1>12. QED
  BY <1>3, <1>4, <1>5, <1>6, <1>7, <1>8, <1>9, <1>10, <1>11
     DEF Next, Save, Fault

\* A save that is given up, or killed, leaves the last one that was completed.
LEMMA GivenUp ==
  ASSUME TypeOK, Written, Counted, Renamed,
         unfinished = 0, unrenamed = 0, pc \in Saving
  PROVE  /\ \A k \in Needed : \E n \in Names : Kept(k, n)
         /\ pc \notin Opening =>
               \E c \in Nat : /\ Headed(c) /\ Backed(c)
                              /\ newest <= disk[Now]["world"].save
<1>1. /\ count \in Nat /\ newest \in Nat /\ saves \in Nat
      /\ BackupName(count) \in Names /\ Now \in Names
  BY Parts, SavesAssumption, BackupNamed, Places DEF ServerTyped
<1>2. pc \in {"stages", "close"} => newest <= disk[Now]["world"].save
  <2>1. newest < saves \/ pc \notin Saving
    BY <1>1 DEF Counted
  <2>2. pc \in {"stages", "close"} => disk[Now]["world"].save = saves
    BY Places DEF Written, Made
  <2>3. QED
    BY <1>1, <2>1, <2>2 DEF Saving
<1>3. CASE pc \in {"remove", "rename", "open"}
  BY <1>1, <1>3 DEF Renamed, Opening
<1>4. CASE pc = "header"
  BY <1>1, <1>4 DEF Renamed, Backed, Opening
<1>5. CASE pc \in {"stages", "close"}
  <2>1. PICK c \in Nat : Headed(c) /\ Backed(c)
    BY <1>1, <1>5 DEF Renamed
  <2>2. BackupName(c) \in Names
    BY BackupNamed
  <2>3. QED
    BY <1>2, <1>5, <2>1, <2>2 DEF Backed
<1>6. QED
  BY <1>3, <1>4, <1>5 DEF Saving, Opening

LEMMA LeftKept ==
  ASSUME TypeOK, Counted, Written, Renamed, Left, Next
  PROVE  Left'
<1> USE DEF Saving, Opening, ghostVars
<1>1. at \in 1..4 /\ unfinished \in Nat
  BY Parts, SavesAssumption DEF ServerTyped
<1>2. ASSUME UNCHANGED <<disk, newest>>
      PROVE  /\ \A k, n : Kept(k, n)' <=> Kept(k, n)
             /\ \A c : Headed(c)' <=> Headed(c)
             /\ \A c : Backed(c)' <=> Backed(c)
  BY <1>2 DEF Kept, Headed, Backed
<1>3. CASE Start
  BY <1>2, <1>3 DEF Start, Left
<1>4. CASE LoadWorld
  <2>1. pc = "load" /\ UNCHANGED <<disk, newest, unfinished, cutOpening, unrenamed>>
    BY <1>4 DEF LoadWorld
  <2>2. ASSUME NEW c \in Nat, Headed(c), Backed(c),
               name \in {Now, BackupName(c)}, pc' = "load"
        PROVE  name' = BackupName(c)
    <3>1. ~IsWhole /\ name' = BackupName(CountRead)
      BY <1>4, <2>2 DEF LoadWorld
    <3>2. name # BackupName(c)
      BY <2>2, <3>1, Places DEF Backed, Kept, IsWhole, IsWholeWorld
    <3>3. CountRead = c
      BY <2>2, <3>2, CountReadHeaded DEF Headed
    <3>4. QED
      BY <3>1, <3>3
  <2>3. QED
    BY <1>2, <2>1, <2>2 DEF Left
<1>5. CASE Begin \/ Remove \/ Rename \/ RenameFails \/ CountSave
  BY <1>5 DEF Begin, Remove, Rename, RenameFails, CountSave, Left
<1>6. CASE Open
  BY <1>1, <1>6, NextTurn DEF Open, Left
<1>7. CASE WriteHeader
  BY <1>1, <1>7, NextTurn DEF WriteHeader, Left
<1>8. CASE CloseFile
  <2>1. CASE at = 4
    <3>1. unfinished' = 0
      BY <1>8, <2>1, Ordered DEF CloseFile
    <3>2. QED
      BY <3>1 DEF Left
  <2>2. CASE at # 4
    <3>1. pc' = "close"
      BY <1>1, <1>8, <2>2, NextTurn DEF CloseFile
    <3>2. QED
      BY <3>1 DEF Left
  <2>3. QED
    BY <2>1, <2>2
<1>9. CASE OpenFails \/ Abandon
  <2>1. /\ pc \in Saving /\ pc' = "up"
        /\ UNCHANGED <<disk, newest, unrenamed>>
        /\ unfinished' = unfinished + 1
        /\ cutOpening' \/ pc \notin Opening
    BY <1>9 DEF OpenFails, Abandon
  <2>2. QED
    BY <1>1, <1>2, <2>1, GivenUp DEF Left
<1>10. CASE Crash
  <2>1. pc' = "down" /\ UNCHANGED <<disk, newest, unrenamed>>
    BY <1>10 DEF Crash
  <2>2. CASE pc \in Saving
    <3>1. unfinished' = unfinished + 1 /\ (cutOpening' \/ pc \notin Opening)
      BY <1>10, <2>2 DEF Crash
    <3>2. QED
      BY <1>1, <1>2, <2>1, <2>2, <3>1, GivenUp DEF Left
  <2>3. CASE pc \notin Saving
    <3>1. UNCHANGED unfinished /\ (~cutOpening' => ~cutOpening)
      BY <1>10, <2>3 DEF Crash
    <3>2. QED
      BY <1>2, <2>1, <2>3, <3>1 DEF Left
  <2>4. QED
    BY <2>2, <2>3
<1>11. QED
  BY <1>3, <1>4, <1>5, <1>6, <1>7, <1>8, <1>9, <1>10 DEF Next, Save, Fault

\* A sound set of files stays so when it is somewhere else, or when there are
\* more names.
LEMMA SoundStays ==
  ASSUME NEW f, NEW g, NEW G, NEW H, G \subseteq H,
         \A k \in Kinds : g[k] = f[k], Sound(f, G)
  PROVE  Sound(g, H)
<1>1. "world" \in Kinds /\ "chars" \in Kinds
  BY DEF Kinds
<1>2. Whole(f) <=> Whole(g)
  BY <1>1 DEF Whole
<1>3. QED
  BY <1>1, <1>2 DEF Sound

\* A save that is given up once its headers are written leads a start on.
LEMMA CutSound ==
  ASSUME TypeOK, Written, NEW G \in SUBSET Names, Tried(G),
         pc \in {"stages", "close"}
  PROVE  LET H == G \cup {Now} IN \A n \in H : Sound(disk[n], H)
<1> DEFINE H == G \cup {Now}
<1>1. count \in Nat
  BY Parts DEF ServerTyped
<1>2. disk[Now]["world"].save = saves /\ disk[Now]["chars"].save = saves
  BY Places DEF Written, Made
<1>3. \E c \in Nat : Headed(c) /\ BackupName(c) \in G
  BY <1>1 DEF Tried
<1>4. Sound(disk[Now], H)
  BY <1>2, <1>3 DEF Sound, Headed
<1>5. \A n \in G \ {Now} : Sound(disk[n], G)
  BY DEF Tried
<1>6. \A n \in G \ {Now} : Sound(disk[n], H)
  BY <1>5, SoundStays
<1>7. QED
  BY <1>4, <1>6

LEMMA ChainedKept ==
  ASSUME TypeOK, Written, Chained, Next
  PROVE  Chained'
<1> USE DEF ghostVars, Clean
<1>1. /\ at \in 1..4 /\ count \in Nat /\ unrenamed \in Nat /\ Kind \in Kinds
      /\ BackupName(count) \in Names \ {Now} /\ Now \in Names
      /\ \A k \in Kinds : k = Kind <=> at = Place(k)
  BY Parts, FailuresAssumption, BackupNamed, Places, Turn, Ordered
     DEF ServerTyped, Kind, Kinds, Place
<1>2. ASSUME NEW G \in SUBSET Names, Now \in G, UNCHANGED disk,
             \A n \in G : Sound(disk[n], G),
             pc' \in {"down", "up"}
      PROVE  Tried(G)'
  BY <1>2 DEF Tried, Sound, Whole
<1>3. CASE Start
  BY <1>3 DEF Start, Chained, Tried, Sound, Whole, Saving, Opening
<1>4. CASE LoadWorld
  <2>1. /\ pc = "load" /\ pc' \in {"load", "up", "failed"}
        /\ UNCHANGED <<disk, cutOpening, unrenamed>>
    BY <1>4 DEF LoadWorld
  <2>2. ASSUME NEW G \in SUBSET Names, Tried(G)
        PROVE  Tried(G)'
    <3>1. name \in G /\ Sound(disk[name], G)
      BY <2>1, <2>2 DEF Tried, Saving, Opening
    <3>2. ASSUME pc' = "load" PROVE name' \in G
      <4>1. ~IsWhole /\ name' = BackupName(CountRead)
        BY <1>4, <3>2 DEF LoadWorld
      <4>2. PICK c \in Nat : /\ BackupName(c) \in G
                             /\ \A k \in Kinds : disk[name][k].count = c
        BY <3>1, <4>1 DEF Sound, Whole, IsWhole, IsWholeWorld
      <4>3. CountRead = c
        BY <4>2, CountReadHeaded
      <4>4. QED
        BY <4>1, <4>2, <4>3
    <3>3. QED
      BY <2>1, <2>2, <3>2 DEF Tried, Sound, Whole, Saving, Opening
  <2>3. QED
    BY <2>1, <2>2 DEF Chained
<1>5. CASE Begin
  <2>1. /\ pc = "up" /\ pc' = "remove" /\ at' = 1
        /\ UNCHANGED <<disk, count, cutOpening, unrenamed>>
    BY <1>5 DEF Begin
  <2>2. ASSUME NEW G \in SUBSET Names, Tried(G)
        PROVE  Tried(G \cup {BackupName(count)})'
    <3> DEFINE H == G \cup {BackupName(count)}
    <3>1. Now \in G /\ \A n \in G : Sound(disk[n], G)
      BY <2>1, <2>2 DEF Tried, Saving, Opening
    <3>2. \A n \in G : Sound(disk[n], H)
      BY <3>1, SoundStays
    <3>3. \A k \in Kinds : Before'[k] = disk[Now][k]
      BY <2>1, Places DEF Before, Made, Moved, Place
    <3>4. Sound(Before', H)
      BY <3>1, <3>3, SoundStays
    <3>5. QED
      BY <2>1, <3>2, <3>4 DEF Tried, Sound, Whole, Saving, Opening
  <2>3. QED
    BY <1>1, <2>1, <2>2 DEF Chained
<1>6. CASE Remove \/ Rename \/ Open
  <2>1. /\ pc \in {"remove", "rename", "open"}
        /\ UNCHANGED <<count, cutOpening, unrenamed>>
        /\ pc' \in {"rename", "open", "remove", "header"}
    BY <1>1, <1>6, NextTurn DEF Remove, Rename, Open
  <2>2. \A n \in Names \ {Now, BackupName(count)}, k \in Kinds :
           disk'[n][k] = disk[n][k]
    <3>1. CASE Remove
      BY <3>1, RemoveDoes
    <3>2. CASE Rename
      BY <3>2, RenameDoes
    <3>3. CASE Open
      BY <3>3, OpenDoes
    <3>4. QED
      BY <1>6, <3>1, <3>2, <3>3
  <2> DEFINE n(k) == IF Made(k) \/ Moved(k) THEN BackupName(count) ELSE Now
  <2>3. ASSUME NEW k \in Kinds
        PROVE  disk'[n(k)'][k] = disk[n(k)][k]
    <3>1. CASE Remove
      <4>1. n(k)' = n(k) /\ (n(k) = BackupName(count) => k # Kind)
        BY <1>1, <3>1 DEF Remove, Made, Moved
      <4>2. QED
        BY <1>1, <3>1, <4>1, RemoveDoes
    <3>2. CASE Rename
      <4>1. /\ ~Moved(k) /\ (Made(k) => k # Kind)
            /\ Made(k)' <=> Made(k)
            /\ Moved(k)' <=> k = Kind
            /\ UNCHANGED count
        BY <1>1, <3>2 DEF Rename, Made, Moved
      <4>2. QED
        BY <1>1, <3>2, <4>1, RenameDoes
    <3>3. CASE Open
      <4>1. /\ k = Kind => Moved(k)
            /\ Made(k)' <=> Made(k) \/ Moved(k)
            /\ ~Moved(k)'
            /\ UNCHANGED count
        <5>1. /\ pc = "open" /\ UNCHANGED count
              /\ \/ at = 4 /\ pc' = "header"
                 \/ at \in 1..3 /\ pc' = "remove" /\ at' = at + 1
          BY <1>1, <3>3, NextTurn DEF Open
        <5>2. Place(k) \in 1..4
          BY DEF Place
        <5>3. QED
          BY <1>1, <5>1, <5>2 DEF Made, Moved
      <4>2. QED
        BY <1>1, <3>3, <4>1, OpenDoes
    <3>4. QED
      BY <1>6, <3>1, <3>2, <3>3
  <2>4. \A k \in Kinds : Before'[k] = Before[k]
    BY <2>3 DEF Before
  <2>5. ASSUME NEW G \in SUBSET Names, Tried(G)
        PROVE  Tried(G)'
    <3>1. /\ BackupName(count) \in G /\ Sound(Before, G)
          /\ \A m \in G \ {Now, BackupName(count)} : Sound(disk[m], G)
      BY <2>1, <2>5 DEF Tried
    <3>2. Sound(Before', G)
      BY <2>4, <3>1, SoundStays
    <3>3. \A m \in G \ {Now, BackupName(count)} : Sound(disk'[m], G)
      BY <2>2, <3>1, SoundStays
    <3>4. CASE pc' # "header"
      BY <2>1, <3>1, <3>2, <3>3, <3>4
         DEF Tried, Sound, Whole, Saving, Opening
    <3>5. CASE pc' = "header"
      <4>1. \A k \in Kinds : disk'[BackupName(count)][k] = Before'[k]
        BY <2>1, <3>5 DEF Before, Made
      <4>2. Sound(disk'[BackupName(count)], G)
        BY <3>2, <4>1, SoundStays
      <4>3. QED
        BY <2>1, <3>1, <3>3, <3>5, <4>2
           DEF Tried, Sound, Whole, Saving, Opening
    <3>6. QED
      BY <3>4, <3>5
  <2>6. QED
    BY <2>1, <2>5 DEF Chained
<1>7. CASE WriteHeader
  <2>1. /\ pc = "header" /\ UNCHANGED <<count, cutOpening, unrenamed>>
        /\ pc' = "header" \/ (pc' = "stages" /\ at = 4)
    BY <1>1, <1>7, NextTurn DEF WriteHeader
  <2>2. \A m \in Names \ {Now} : disk'[m] = disk[m]
    BY <1>7, HeaderDoes
  <2>3. at = 4 => Headed(count)'
    BY <1>7, HeadersWritten
  <2>4. ASSUME NEW G \in SUBSET Names, Tried(G)
        PROVE  Tried(G)'
    <3>1. /\ BackupName(count) \in G /\ Sound(disk[BackupName(count)], G)
          /\ \A m \in G \ {Now, BackupName(count)} : Sound(disk[m], G)
      BY <2>1, <2>4 DEF Tried
    <3>2. /\ Sound(disk'[BackupName(count)], G)
          /\ \A m \in G \ {Now, BackupName(count)} : Sound(disk'[m], G)
      BY <1>1, <2>2, <3>1
    <3>3. QED
      BY <2>1, <2>3, <3>1, <3>2 DEF Tried, Sound, Whole, Saving, Opening
  <2>5. QED
    BY <2>1, <2>4 DEF Chained
<1>8. CASE CountSave
  <2>1. /\ pc = "stages" /\ pc' = "close" /\ UNCHANGED <<disk, cutOpening, unrenamed>>
    BY <1>8 DEF CountSave
  <2>2. ASSUME NEW G \in SUBSET Names, Tried(G)
        PROVE  Tried(G)'
    <3>1. /\ Headed(count) /\ BackupName(count) \in G
          /\ \A m \in G \ {Now} : Sound(disk[m], G)
      BY <2>1, <2>2 DEF Tried
    <3>2. \E c \in Nat : Headed(c)' /\ BackupName(c) \in G
      BY <1>1, <2>1, <3>1 DEF Headed
    <3>3. \A m \in G \ {Now} : Sound(disk'[m], G)
      BY <2>1, <3>1
    <3>4. QED
      BY <2>1, <3>2, <3>3 DEF Tried, Sound, Whole, Saving, Opening
  <2>3. QED
    BY <2>1, <2>2 DEF Chained
<1>9. CASE CloseFile
  <2>1. CASE at = 4
    <3>1. /\ pc = "close" /\ pc' = "up" /\ UNCHANGED saves
      BY <1>1, <1>9, <2>1, NextTurn DEF CloseFile
    <3>2. \A k \in Needed : disk[Now][k].save = saves /\ disk[Now][k].whole
      BY <2>1, <3>1, Places DEF Written, Made
    <3>3. \A k \in Needed : disk'[Now][k].save = saves /\ disk'[Now][k].whole
      BY <1>9, <3>2, CloseDoes, Places
    <3>4. Sound(disk'[Now], {Now})
      BY <3>3, Places DEF Sound, Whole
    <3>5. Tried({Now})'
      BY <3>1, <3>4 DEF Tried, Sound, Whole
    <3>6. QED
      BY <1>1, <3>5 DEF Chained
  <2>2. CASE at # 4
    <3>1. pc = "close" /\ pc' = "close" /\ UNCHANGED <<cutOpening, unrenamed, count>>
      BY <1>1, <1>9, <2>2, NextTurn, Ordered DEF CloseFile
    <3>2. \A m \in Names \ {Now} : disk'[m] = disk[m]
      BY <1>9, CloseDoes
    <3>3. \A c : Headed(c) => Headed(c)'
      BY <1>9, CloseDoes DEF Headed
    <3>4. ASSUME NEW G \in SUBSET Names, Tried(G)
          PROVE  Tried(G)'
      <4>1. /\ \E c \in Nat : Headed(c) /\ BackupName(c) \in G
            /\ \A m \in G \ {Now} : Sound(disk[m], G)
        BY <3>1, <3>4 DEF Tried
      <4>2. \A m \in G \ {Now} : Sound(disk'[m], G)
        BY <3>2, <4>1
      <4>3. \E c \in Nat : Headed(c)' /\ BackupName(c) \in G
        BY <3>3, <4>1
      <4>4. QED
        BY <3>1, <4>2, <4>3 DEF Tried, Sound, Whole, Saving, Opening
    <3>5. QED
      BY <3>1, <3>4 DEF Chained
  <2>3. QED
    BY <2>1, <2>2
<1>10. CASE OpenFails
  BY <1>10 DEF OpenFails, Chained
<1>11. CASE Abandon \/ Crash
  <2>1. pc' \in {"down", "up"} /\ UNCHANGED disk
    BY <1>11 DEF Abandon, Crash
  <2>2. SUFFICES ASSUME Clean' PROVE Chained'
    BY DEF Chained
  <2>3. Clean /\ pc \notin Opening
    <3>1. CASE Abandon
      BY <2>2, <3>1 DEF Abandon, Opening
    <3>2. CASE Crash
      BY <2>2, <3>2 DEF Crash
    <3>3. QED
      BY <1>11, <3>1, <3>2
  <2>4. PICK G \in SUBSET Names : Tried(G)
    BY <2>3 DEF Chained
  <2>5. CASE pc \in {"stages", "close"}
    <3>1. Tried(G \cup {Now})'
      BY <1>1, <1>2, <2>1, <2>4, <2>5, CutSound
    <3>2. QED
      BY <1>1, <3>1 DEF Chained
  <2>6. CASE pc \notin Saving
    <3>1. Tried(G)'
      BY <1>2, <2>1, <2>4, <2>6 DEF Tried
    <3>2. QED
      BY <3>1 DEF Chained
  <2>7. QED
    BY <2>3, <2>5, <2>6 DEF Saving
<1>12. CASE RenameFails
  <2>1. unrenamed' # 0
    BY <1>1, <1>12 DEF RenameFails
  <2>2. QED
    BY <2>1 DEF Chained
<1>13. QED
  BY <1>3, <1>4, <1>5, <1>6, <1>7, <1>8, <1>9, <1>10, <1>11, <1>12
     DEF Next, Save, Fault

LEMMA Initial == Init => IInv
<1> SUFFICES ASSUME Init PROVE IInv
  OBVIOUS
<1>1. PICK first \in FirstCounts :
         disk = [n \in Names |-> [k \in Kinds |->
                   IF n = Now
                   THEN [save |-> 1, count |-> first, whole |-> TRUE]
                   ELSE NoFile]]
  BY DEF Init
<1>2. MaxSaves \in Nat \ {0} /\ first \in Nat
  BY SavesAssumption, CountsAssumption
<1>3. OnDisk
  <2>1. [save |-> 1, count |-> first, whole |-> TRUE] \in File
    BY <1>2 DEF File
  <2>2. NoFile \in File
    BY <1>2 DEF NoFile, File
  <2>3. QED
    BY <1>1, <2>1, <2>2 DEF OnDisk
<1>4. ServerTyped
  <2>1. /\ pc \in {"down"} /\ at = 1 /\ name = Now /\ count = 0
        /\ saves = 1 /\ newest = 1 /\ unfinished = 0
    BY DEF Init
  <2>2. loaded \in [{"world", "chars"} -> 0..MaxSaves]
    BY <1>2 DEF Init
  <2>3. cutOpening \in BOOLEAN
    BY DEF Init
  <2>4. unrenamed \in 0..MaxFailures
    BY FailuresAssumption DEF Init
  <2>5. QED
    BY <1>2, <2>1, <2>2, <2>3, <2>4, Places DEF ServerTyped
<1>5. \A k \in Needed : Kept(k, Now)
  BY <1>1, Places DEF Init, Kept
<1>6. pc = "down" /\ saves = 1 /\ newest = 1 /\ unfinished = 0
  BY DEF Init
<1>7. Counted /\ Written /\ Renamed /\ Left
  BY <1>6 DEF Counted, Written, Made, Renamed, Left, Saving, Opening
<1>8. Fresh
  BY <1>5, <1>6 DEF Fresh
<1>9. Chained
  <2>1. Sound(disk[Now], {Now})
    BY <1>5, Places DEF Sound, Whole, Kept
  <2>2. Tried({Now})
    BY <1>6, <2>1 DEF Tried
  <2>3. QED
    BY <2>2, Places DEF Chained
<1>10. QED
  BY <1>3, <1>4, <1>7, <1>8, <1>9, Parts DEF IInv

LEMMA Invariance == Spec => []IInv
<1>1. IInv /\ [Next]_vars => IInv'
  <2>1. ASSUME IInv, Next PROVE IInv'
    BY <2>1, TypesKept, WrittenKept, FreshKept, RenamedKept, LeftKept,
       ChainedKept DEF IInv
  <2>2. ASSUME IInv, UNCHANGED vars PROVE IInv'
    <3>1. UNCHANGED <<disk, pc, at, name, count, saves, loaded, newest,
                      unfinished, cutOpening, unrenamed>>
      BY <2>2 DEF vars, ghostVars
    <3>2. TypeOK' /\ Counted'
      BY <2>2, <3>1 DEF IInv, TypeOK, Counted
    <3>3. Written'
      BY <2>2, <3>1 DEF IInv, Written, Made
    <3>4. Fresh'
      BY <2>2, <3>1 DEF IInv, Fresh, Kept
    <3>5. Renamed'
      BY <2>2, <3>1 DEF IInv, Renamed, Made, Moved, Headed, Backed, Kept
    <3>6. Left'
      BY <2>2, <3>1 DEF IInv, Left, Headed, Backed, Kept
    <3>7. Chained'
      BY <2>2, <3>1 DEF IInv, Chained, Clean, Tried, Sound, Whole, Headed, Before,
                        Made, Moved
    <3>8. QED
      BY <3>2, <3>3, <3>4, <3>5, <3>6, <3>7 DEF IInv
  <2>3. QED
    BY <2>1, <2>2
<1>2. QED
  BY Initial, <1>1, PTL DEF Spec

-----------------------------------------------------------------------------
(* Theorems *)

\* The files and the server's own state are always of their types:
\* GetBackupName() gives a name and LoadFile() a counter of which there is one.
THEOREM TypeCorrect == Spec => []TypeOK
<1>1. IInv => TypeOK
  BY DEF IInv
<1>2. QED
  BY <1>1, Invariance, PTL

\* A save that does not end, wherever it does not, leaves the files of the last
\* one that was completed on the disk until the next one begins, unless one of
\* them was not renamed (SaveTry(), OpenScriptBackup()).
THEOREM NeverLost == Spec => []NewestKept
<1>1. IInv => NewestKept
  <2> SUFFICES ASSUME IInv, unrenamed = 0 PROVE LastKept
    BY DEF NewestKept
  <2>1. newest \in newest..saves
    BY Parts, SavesAssumption DEF IInv, Counted, ServerTyped
  <2>2. ASSUME unfinished = 0 \/ (unfinished = 1 /\ pc \notin Saving)
        PROVE  \A k \in Needed : \E n \in Names : Kept(k, n)
    <3>1. CASE unfinished = 0 /\ pc \in Saving
      BY <3>1, GivenUp DEF IInv
    <3>2. CASE unfinished = 0 /\ pc \notin Saving
      BY <3>2, Places DEF IInv, Fresh
    <3>3. CASE unfinished = 1 /\ pc \notin Saving
      BY <3>3 DEF IInv, Left
    <3>4. QED
      BY <2>2, <3>1, <3>2, <3>3
  <2>3. ASSUME unfinished = 0 \/ (unfinished = 1 /\ pc \notin Saving)
        PROVE  \E n, m \in Names :
                  /\ disk[n]["world"].save = newest
                  /\ disk[n]["world"].whole
                  /\ disk[m]["chars"].save = newest
                  /\ disk[m]["chars"].whole
    BY <2>2, <2>3, Places DEF Kept
  <2>4. QED
    BY <2>1, <2>3 DEF LastKept
<1>2. QED
  BY <1>1, Invariance, PTL

\* A server that was killed in the stages of a save, or in closing its files,
\* starts with the last save that was completed or with a newer one, if all its
\* files had been renamed, from whatever counter other than 0 and with however
\* many levels of backups (LoadWorld()).
THEOREM KilledInStages == Spec => LoadsNewest
<1> DEFINE A == LoadWorld /\ Killable /\ pc' # "load"
                   => pc' = "up" /\ loaded'["world"] >= newest
<1>1. IInv /\ [Next]_vars => [A]_vars
  <2> SUFFICES ASSUME IInv, LoadWorld, Killable, pc' # "load"
               PROVE  pc' = "up" /\ loaded'["world"] >= newest
    OBVIOUS
  <2>1. /\ pc = "load" /\ pc \notin Saving
        /\ newest \in Nat /\ unfinished \in Nat /\ name \in Names
    BY Parts, SavesAssumption
       DEF IInv, LoadWorld, Saving, Opening, ServerTyped
  <2>2. ASSUME IsWhole PROVE pc' = "up"
                             /\ loaded'["world"] = disk[name]["world"].save
    BY <2>2 DEF LoadWorld
  <2>3. ASSUME NEW n \in Names, \A k \in Needed : Kept(k, n), name = n
        PROVE  IsWhole /\ disk[name]["world"].save = newest
    BY <2>3, Places DEF IsWhole, IsWholeWorld, Kept
  <2>4. CASE unfinished = 0
    <3>1. name = Now /\ \A k \in Needed : Kept(k, Now)
      BY <2>1, <2>4 DEF IInv, Fresh
    <3>2. QED
      BY <2>1, <2>2, <2>3, <3>1, Places
  <2>5. CASE unfinished = 1
    <3>1. PICK c \in Nat : /\ Headed(c) /\ Backed(c)
                           /\ newest <= disk[Now]["world"].save
                           /\ name \in {Now, BackupName(c)}
      BY <2>1, <2>5 DEF IInv, Left, Killable, Clean
    <3>2. CASE name = BackupName(c)
      BY <2>1, <2>2, <2>3, <3>1, <3>2 DEF Backed
    <3>3. CASE name = Now
      <4>1. CountRead = c /\ BackupName(c) # Now
        BY <3>1, <3>3, CountReadHeaded, BackupNamed DEF IInv, Headed
      <4>2. c # 0
        BY <3>1, Places DEF Headed, Killable
      <4>3. ~IsBust
        BY <3>3, <4>1, <4>2 DEF IsBust
      <4>4. IsWhole
        BY <4>3 DEF LoadWorld
      <4>5. disk[Now]["world"].save \in Nat
        BY Parts, Places, SavesAssumption DEF IInv, OnDisk, File
      <4>6. QED
        BY <2>1, <2>2, <3>1, <3>3, <4>4, <4>5
    <3>4. QED
      BY <3>1, <3>2, <3>3
  <2>6. QED
    BY <2>1, <2>4, <2>5 DEF Killable
<1>2. QED
  BY <1>1, Invariance, PTL DEF Spec, LoadsNewest

\* However many saves in a row were killed or given up after their headers were
\* written, if all their files were renamed, the characters and the items of a
\* start are from the same one (LoadWorld()).
THEOREM StartsSynced == Spec => SyncedAfterStages
<1> DEFINE A == LoadWorld /\ Clean
                  => loaded'["world"] = loaded'["chars"] \/ UNCHANGED loaded
<1>1. IInv /\ [Next]_vars => [A]_vars
  <2> SUFFICES ASSUME IInv, LoadWorld, Clean
               PROVE  loaded'["world"] = loaded'["chars"] \/ UNCHANGED loaded
    OBVIOUS
  <2>1. pc = "load"
    BY DEF LoadWorld
  <2>2. PICK G \in SUBSET Names : Tried(G)
    BY DEF IInv, Chained
  <2>3. Sound(disk[name], G)
    BY <2>1, <2>2 DEF Tried, Saving, Opening
  <2>4. CASE IsWhole
    <3>1. disk[name]["world"].save = disk[name]["chars"].save
      BY <2>3, <2>4 DEF IsWhole, IsWholeWorld, Sound, Whole
    <3>2. QED
      BY <2>4, <3>1 DEF LoadWorld
  <2>5. CASE ~IsWhole
    BY <2>5 DEF LoadWorld
  <2>6. QED
    BY <2>4, <2>5
<1>2. QED
  BY <1>1, Invariance, PTL DEF Spec, SyncedAfterStages
=============================================================================
