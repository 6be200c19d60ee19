------------------------------ MODULE SaveFiles ------------------------------
(***************************************************************************)
(* The files of a save and what a start makes of them: CWorld::SaveTry()   *)
(* renames the last save to the name of a backup, which a counter gives,   *)
(* and writes the new one under the same names as ever; LoadWorld() goes   *)
(* back from there when a file does not end as it should                   *)
(* (game/CWorld.cpp).  The server may be killed between any two steps.     *)
(*                                                                         *)
(* What is in a file is one of its saves, the whole of it or not; what     *)
(* the stages of a save write is the subject of SaveSweep.  The statics,   *)
(* which an operator saves, and the accounts are not modelled.             *)
(***************************************************************************)
EXTENDS Integers, Sequences

CONSTANTS
    Radix,          \* how many numbers a level of backups has: 8
    BackupLevels,   \* m_iSaveBackupLevels
    FirstCounts,    \* what m_iSaveCountID may be in the first files
    MaxSaves,       \* bound on the saves, those first files too
    MaxFailures     \* bound on the renames that fail between two whole saves

ASSUME RadixAssumption == Radix \in Nat \ {0, 1}
ASSUME LevelsAssumption == BackupLevels \in Nat
ASSUME CountsAssumption == FirstCounts \subseteq Nat
ASSUME SavesAssumption == MaxSaves \in Nat \ {0}
ASSUME FailuresAssumption == MaxFailures \in Nat

\* The order in which the files are renamed, written and closed.
Order == <<"data", "world", "chars", "multis">>
Kinds == {"data", "world", "chars", "multis"}

\* GetBackupName(): the counter in the numerals of Radix, without its last
\* zeros; how many these were is the level, up to the last one.
BackupName(count) ==
    LET digit(level) == (count \div Radix^level) % Radix
        level == CHOOSE l \in 0..BackupLevels :
                    /\ l = BackupLevels \/ digit(l) # 0
                    /\ \A k \in 0..l - 1 : digit(k) = 0
    IN <<level, digit(level)>>

Now == <<-1, 0>>    \* the name without a number
Names == {Now} \cup ((0..BackupLevels) \X (0..Radix - 1))

\* A file: which save it is from, the SAVECOUNT of its header once that is
\* written, and whether it ends with [EOF].
NoCount == -1
NoFile == [save |-> 0, count |-> NoCount, whole |-> FALSE]

VARIABLES
    disk,       \* the files
    pc,         \* what the server is at
    at,         \* with which of the files, a position in Order
    name,       \* the names that LoadWorld() tries
    count,      \* m_iSaveCountID
    saves,      \* the number of saves so far, and the last one's
    loaded,     \* the saves from which the world and the chars came
    newest,     \* the last save that was completed
    unfinished, \* how many were not, since then
    cutOpening, \* did one of these end before its headers were written?
    unrenamed   \* how many renames failed, since then

ghostVars == <<newest, unfinished, cutOpening, unrenamed>>
vars == <<disk, pc, at, name, count, saves, loaded, ghostVars>>

Opening == {"remove", "rename", "open", "header"}
Saving == Opening \cup {"stages", "close"}

TypeOK ==
    /\ disk \in [Names -> [Kinds -> [save : 0..MaxSaves,
                                     count : Nat \cup {NoCount},
                                     whole : BOOLEAN]]]
    /\ pc \in {"down", "load", "failed", "up"} \cup Saving
    /\ at \in DOMAIN Order
    /\ name \in Names
    /\ count \in Nat
    /\ saves \in 1..MaxSaves /\ newest \in 1..MaxSaves
    /\ loaded \in [{"world", "chars"} -> 0..MaxSaves]
    /\ unfinished \in 0..MaxSaves
    /\ cutOpening \in BOOLEAN /\ unrenamed \in 0..MaxFailures

Init ==
    /\ \E first \in FirstCounts :
          disk = [n \in Names |-> [k \in Kinds |->
                    IF n = Now
                    THEN [save |-> 1, count |-> first, whole |-> TRUE]
                    ELSE NoFile]]
    /\ pc = "down" /\ at = 1 /\ name = Now /\ count = 0
    /\ saves = 1
    /\ loaded = [k \in {"world", "chars"} |-> 0]
    /\ newest = 1 /\ unfinished = 0
    /\ cutOpening = FALSE /\ unrenamed = 0

-----------------------------------------------------------------------------
(* The start. *)

\* CWorld::CWorld(), and LoadWorld() begins with the last save.
Start ==
    /\ pc = "down"
    /\ pc' = "load"
    /\ name' = Now /\ count' = 0
    /\ UNCHANGED <<disk, at, saves, loaded, ghostVars>>

\* The items may be whole without the characters.
IsWholeWorld == disk[name]["world"].whole

\* LoadFile() takes SAVECOUNT from each header that it reads: from the data,
\* the multis, the world and, if that ends with [EOF], from the chars.
CountRead ==
    LET read == IF IsWholeWorld
                THEN <<"chars", "world", "multis", "data">>
                ELSE <<"world", "multis", "data">>
        headed == {i \in DOMAIN read : disk[name][read[i]].count # NoCount}
        last == CHOOSE i \in headed : \A j \in headed : i <= j
    IN IF headed = {} THEN count ELSE disk[name][read[last]].count

\* A variant for LoadEnds: the same names are tried again.
IsBustAtZero == CountRead = 0

\* LoadWorld() gives up: no header was read that counts (iPrevSaveCount is
\* from before the first file), or the names are the same again.
IsBust == CountRead = 0 \/ BackupName(CountRead) = name

IsWhole == IsWholeWorld /\ disk[name]["chars"].whole

\* A variant for SyncedAfterStages: when just the chars are bust, theirs is the
\* file that is taken from the backup.
LoadCharsAlone ==
    LET backup == BackupName(CountRead)
    IN  /\ pc = "load"
        /\ count' = CountRead
        /\ pc' = IF IsWholeWorld THEN "up" ELSE "failed"
        /\ loaded' = IF ~IsWholeWorld THEN loaded
                     ELSE [k \in {"world", "chars"} |->
                             IF k = "chars" /\ ~IsWhole
                             THEN disk[backup][k].save ELSE disk[name][k].save]
        /\ UNCHANGED <<disk, at, name, saves, ghostVars>>

\* One turn of LoadWorld()'s loop.
LoadWorld ==
    /\ pc = "load"
    /\ count' = CountRead
    /\ IF IsWhole
       THEN /\ pc' = "up"
            /\ loaded' = [k \in {"world", "chars"} |-> disk[name][k].save]
            /\ UNCHANGED name
       ELSE /\ pc' = IF IsBust THEN "failed" ELSE "load"
            /\ name' = IF IsBust THEN name ELSE BackupName(CountRead)
            /\ UNCHANGED loaded
    /\ UNCHANGED <<disk, at, saves, ghostVars>>

-----------------------------------------------------------------------------
(* A save. *)

Kind == Order[at]

NextFile(again, next) ==
    IF at = Len(Order) THEN pc' = next /\ at' = 1
                       ELSE pc' = again /\ at' = at + 1

\* SaveTry()
Begin ==
    /\ pc = "up" /\ saves < MaxSaves
    /\ saves' = saves + 1
    /\ pc' = "remove" /\ at' = 1
    /\ UNCHANGED <<disk, name, count, loaded, ghostVars>>

\* A variant for NewestKept: the last save is removed.
RemoveLastSave ==
    /\ pc = "remove"
    /\ disk' = [disk EXCEPT ![Now][Kind] = NoFile]
    /\ pc' = "rename"
    /\ UNCHANGED <<at, name, count, saves, loaded, ghostVars>>

\* OpenScriptBackup(): the archive of the same name is removed, if that works,
Remove ==
    /\ pc = "remove"
    /\ \/ disk' = [disk EXCEPT ![BackupName(count)][Kind] = NoFile]
       \/ UNCHANGED disk
    /\ pc' = "rename"
    /\ UNCHANGED <<at, name, count, saves, loaded, ghostVars>>

\* the last save gets its name,
Rename ==
    /\ pc = "rename"
    /\ disk' = [disk EXCEPT ![BackupName(count)][Kind] = disk[Now][Kind],
                            ![Now][Kind] = NoFile]
    /\ pc' = "open"
    /\ UNCHANGED <<at, name, count, saves, loaded, ghostVars>>

\* which may fail ("May not exist if this is the first time."),
RenameFails ==
    /\ pc = "rename" /\ unrenamed < MaxFailures
    /\ pc' = "open"
    /\ unrenamed' = unrenamed + 1
    /\ UNCHANGED <<disk, at, name, count, saves, loaded,
                   newest, unfinished, cutOpening>>

\* and the new file is made, in place of the last save if it is still there.
Open ==
    /\ pc = "open"
    /\ disk' = [disk EXCEPT ![Now][Kind] = [NoFile EXCEPT !.save = saves]]
    /\ NextFile("remove", "header")
    /\ UNCHANGED <<name, count, saves, loaded, ghostVars>>

\* It does not open.  SaveTry() returns; when the world file is not open
\* either, the next one will start from the beginning.
OpenFails ==
    /\ pc = "open" /\ Kind \in {"data", "world"}
    /\ pc' = "up"
    /\ unfinished' = unfinished + 1
    /\ cutOpening' = TRUE
    /\ UNCHANGED <<disk, at, name, count, saves, loaded, newest, unrenamed>>

\* A variant for LoadsNewest: the count of the next save.
WriteNextHeader ==
    /\ pc = "header"
    /\ disk' = [disk EXCEPT ![Now][Kind].count = count + 1]
    /\ NextFile("header", "stages")
    /\ UNCHANGED <<name, count, saves, loaded, ghostVars>>

\* r_Write() of the header, which is flushed.
WriteHeader ==
    /\ pc = "header"
    /\ disk' = [disk EXCEPT ![Now][Kind].count = count]
    /\ NextFile("header", "stages")
    /\ UNCHANGED <<name, count, saves, loaded, ghostVars>>

\* The last of SaveStage()'s stages; [EOF] and what is before it gets to the
\* disk when the files are closed.
CountSave ==
    /\ pc = "stages"
    /\ count' = count + 1
    /\ pc' = "close"
    /\ UNCHANGED <<disk, at, name, saves, loaded, ghostVars>>

\* SaveThreadClose()
CloseFile ==
    /\ pc = "close"
    /\ disk' = [disk EXCEPT ![Now][Kind].whole = TRUE]
    /\ NextFile("close", "up")
    /\ IF at = Len(Order)
       THEN /\ newest' = saves /\ unfinished' = 0
            /\ cutOpening' = FALSE /\ unrenamed' = 0
       ELSE UNCHANGED ghostVars
    /\ UNCHANGED <<name, count, saves, loaded>>

\* Save() catches what nobody else does, and closes the files as they are.
Abandon ==
    /\ pc = "stages"
    /\ pc' = "up"
    /\ unfinished' = unfinished + 1
    /\ UNCHANGED <<disk, at, name, count, saves, loaded,
                   newest, cutOpening, unrenamed>>

Crash ==
    /\ pc \notin {"down", "failed"}
    /\ pc' = "down"
    /\ at' = 1
    /\ unfinished' = IF pc \in Saving THEN unfinished + 1 ELSE unfinished
    /\ cutOpening' = (cutOpening \/ pc \in Opening)
    /\ UNCHANGED <<disk, name, count, saves, loaded, newest, unrenamed>>

-----------------------------------------------------------------------------

Save ==
    \/ Begin \/ Remove \/ Rename \/ Open \/ WriteHeader
    \/ CountSave \/ CloseFile

Fault == RenameFails \/ OpenFails \/ Abandon \/ Crash

Next == Start \/ LoadWorld \/ Save \/ Fault

Spec == Init /\ [][Next]_vars

FairSpec == Spec /\ WF_vars(LoadWorld)

-----------------------------------------------------------------------------
(* Properties. *)

\* The characters and the items that the server starts with are from the same
\* save ("NOTE: WE MUST Sync these files ! CHAR and WORLD !!!").
Synced == loaded["world"] = loaded["chars"]

\* Since the last save that was completed, all got as far as their headers and
\* every file got the name of its backup.
Clean == ~cutOpening /\ unrenamed = 0

\* They are, however many saves in a row were killed or given up after their
\* headers were written, if all the files were renamed.
SyncedAfterStages ==
    [][LoadWorld /\ Clean
         => loaded'["world"] = loaded'["chars"] \/ UNCHANGED loaded]_vars

\* A save that does not end costs nothing but itself: a server that was killed
\* in its stages starts with the last save that was completed, or with one that
\* lacks only its last files (LoadWorld(): "Auto change to the most recent
\* previous backup !").  Not so when two in a row do not end, when one ends
\* before its headers are written, when a file was not renamed and so was
\* overwritten, or when the counter is 0.
Killable == unfinished <= 1 /\ Clean /\ disk[Now]["world"].count # 0
LoadsNewest == [][LoadWorld /\ Killable /\ pc' # "load"
                    => pc' = "up" /\ loaded'["world"] >= newest]_vars

\* Nor does it take away the last save that was completed, wherever it ends:
\* the files of that one are still on the disk when the next one begins, if
\* not always under names that a start finds (OpenScriptBackup()).
LastKept ==
    unfinished = 0 \/ (unfinished = 1 /\ pc \notin Saving) =>
        \E s \in newest..saves, n, m \in Names :
            /\ disk[n]["world"].save = s /\ disk[n]["world"].whole
            /\ disk[m]["chars"].save = s /\ disk[m]["chars"].whole

\* So it is unless a rename failed: of that the code only warns, and Open
\* writes over the file that is still there.
NewestKept == unrenamed = 0 => LastKept

\* LoadWorld() ends, when the saves since the last one that was completed got
\* as far as their headers and all the files were renamed, whatever became of
\* earlier ones ("! same file ? break endless loop.").
LoadEnds == (pc = "load" /\ Clean) ~> pc # "load"

\* It ends, wherever the server was killed.
EveryLoadEnds == pc = "load" ~> pc # "load"

\* When the start fails, there is no save to start with ("No previous backup
\* available ?").
BackupFound ==
    pc = "failed" =>
        ~\E n \in Names : disk[n]["world"].whole /\ disk[n]["chars"].whole
=============================================================================
