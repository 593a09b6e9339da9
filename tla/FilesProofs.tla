----------------------------- MODULE FilesProofs -----------------------------
(* Proofs about StoreFiles and Rewrites: whatever step of a rewrite fails,   *)
(* or is the last one before a crash, the files change only as a whole.      *)
EXTENDS StoreFiles, Rewrites, TLAPS

-----------------------------------------------------------------------------
(* The files of a store.                                                     *)

\* Bytes that are not durable are in the temporary file, until it is synced.
Unsynced == unsynced = IF pc \in {"bakSync", "sync"} THEN {"temp"} ELSE {}

\* What the temporary file holds where it is about to replace another.
TempHolds ==
  /\ pc \in {"bakSync", "bakRename"} => temp = prev
  /\ pc \in {"sync", "rename"} => temp = mem

\* What was read for the backup: acknowledged once, and the data file itself as
\* long as nothing else touches it.
Previous ==
  /\ prev \in Snapshots => prev \in acked
  /\ damage = 0 /\ pc \in {"bakWrite", "bakSync", "bakRename"} => prev \in Snapshots /\ primary = prev

Undamaged == damage = 0 => primary \in Snapshots \cup {Missing}

FilesInv ==
  /\ FilesTypeOK /\ OnlyAcknowledged /\ BackupIsGood
  /\ Unsynced /\ TempHolds /\ Previous /\ Undamaged

LEMMA FilesStart == FilesInit => FilesInv
  BY FilesAssumption DEF FilesInit, FilesInv, FilesTypeOK, FileContents, OnlyAcknowledged, BackupIsGood,
         Unsynced, TempHolds, Previous, Undamaged

LEMMA LoadStep == FilesInv /\ Load => FilesInv'
  BY FilesAssumption DEF Load, Recovered, files, FilesInv, FilesTypeOK, FileContents, OnlyAcknowledged,
         BackupIsGood, Unsynced, TempHolds, Previous, Undamaged

LEMMA ChangeStep == FilesInv /\ Change => FilesInv'
  BY FilesAssumption DEF Change, files, FilesInv, FilesTypeOK, FileContents, OnlyAcknowledged,
         BackupIsGood, Unsynced, TempHolds, Previous, Undamaged

\* The backup is made of what the data file holds, if it is there.
LEMMA ReadPreviousStep == FilesInv /\ ReadPrevious => FilesInv'
  BY FilesAssumption DEF ReadPrevious, files, FilesInv, FilesTypeOK, FileContents, OnlyAcknowledged,
         BackupIsGood, Unsynced, TempHolds, Previous, Undamaged

LEMMA BakWriteStep == FilesInv /\ BakWrite => FilesInv'
  BY FilesAssumption DEF BakWrite, SkipBackup, DropTemp, memory, FilesInv, FilesTypeOK, FileContents,
         OnlyAcknowledged, BackupIsGood, Unsynced, TempHolds, Previous, Undamaged

LEMMA BakSyncStep == FilesInv /\ BakSync => FilesInv'
  BY FilesAssumption DEF BakSync, SkipBackup, DropTemp, memory, FilesInv, FilesTypeOK, FileContents,
         OnlyAcknowledged, BackupIsGood, Unsynced, TempHolds, Previous, Undamaged

LEMMA BakRenameStep == FilesInv /\ BakRename => FilesInv'
  BY FilesAssumption DEF BakRename, SkipBackup, DropTemp, memory, FilesInv, FilesTypeOK, FileContents,
         OnlyAcknowledged, BackupIsGood, Unsynced, TempHolds, Previous, Undamaged

LEMMA UndoStep == FilesInv /\ pc \in {"write", "sync", "rename"} /\ Undo => FilesInv'
  BY FilesAssumption DEF Undo, DropTemp, FilesInv, FilesTypeOK, FileContents,
         OnlyAcknowledged, BackupIsGood, Unsynced, TempHolds, Previous, Undamaged

LEMMA WriteDataStep == FilesInv /\ WriteData => FilesInv'
<1> SUFFICES ASSUME FilesInv, WriteData, ~Undo PROVE FilesInv'
  BY UndoStep DEF WriteData
<1> QED
  BY FilesAssumption DEF WriteData, memory, FilesInv, FilesTypeOK, FileContents,
         OnlyAcknowledged, BackupIsGood, Unsynced, TempHolds, Previous, Undamaged

LEMMA SyncDataStep == FilesInv /\ SyncData => FilesInv'
<1> SUFFICES ASSUME FilesInv, SyncData, ~Undo PROVE FilesInv'
  BY UndoStep DEF SyncData
<1> QED
  BY FilesAssumption DEF SyncData, memory, FilesInv, FilesTypeOK, FileContents,
         OnlyAcknowledged, BackupIsGood, Unsynced, TempHolds, Previous, Undamaged

\* The one step that changes the data file, and acknowledges the change.
LEMMA RenameDataStep == FilesInv /\ RenameData => FilesInv'
<1> SUFFICES ASSUME FilesInv, RenameData, ~Undo PROVE FilesInv'
  BY UndoStep DEF RenameData
<1> QED
  BY FilesAssumption DEF RenameData, memory, FilesInv, FilesTypeOK, FileContents,
         OnlyAcknowledged, BackupIsGood, Unsynced, TempHolds, Previous, Undamaged

LEMMA PowerFailsStep == FilesInv /\ PowerFails => FilesInv'
  BY FilesAssumption DEF PowerFails, FilesInv, FilesTypeOK, FileContents, OnlyAcknowledged,
         BackupIsGood, Unsynced, TempHolds, Previous, Undamaged

LEMMA DamageStep == FilesInv /\ Damage => FilesInv'
  BY FilesAssumption DEF Damage, memory, FilesInv, FilesTypeOK, FileContents, OnlyAcknowledged,
         BackupIsGood, Unsynced, TempHolds, Previous, Undamaged

LEMMA FilesInductive == FilesSpec => []FilesInv
<1>1. FilesInv /\ [FilesNext]_fileVars => FilesInv'
  <2> SUFFICES ASSUME FilesInv, [FilesNext]_fileVars PROVE FilesInv'
    OBVIOUS
  <2>1. CASE UNCHANGED fileVars
    BY <2>1, FilesAssumption DEF fileVars, files, memory, FilesInv, FilesTypeOK, FileContents,
         OnlyAcknowledged, BackupIsGood, Unsynced, TempHolds, Previous, Undamaged
  <2>2. CASE FilesNext
    BY <2>2, LoadStep, ChangeStep, ReadPreviousStep, BakWriteStep, BakSyncStep, BakRenameStep,
       WriteDataStep, SyncDataStep, RenameDataStep, PowerFailsStep, DamageStep DEF FilesNext
  <2> QED
    BY <2>1, <2>2
<1> QED
  BY FilesStart, <1>1, PTL DEF FilesSpec

\* The data file and the backup only ever hold what a mutation was acknowledged
\* with: a rewrite that fails or dies leaves nothing behind (store.go, the
\* rollbacks after flushLocked).
THEOREM FilesAreAcknowledged == FilesSpec => []OnlyAcknowledged
<1>1. FilesInv => OnlyAcknowledged
  BY DEF FilesInv
<1> QED
  BY <1>1, FilesInductive, PTL

\* As long as nothing else touches the files, the backup is a whole snapshot, and
\* the data file is one whenever there is a backup (atomicWriteFile).
THEOREM BackupsAreGood == FilesSpec => []BackupIsGood
<1>1. FilesInv => BackupIsGood
  BY DEF FilesInv
<1> QED
  BY <1>1, FilesInductive, PTL

\* "A crash leaves either the old or the new complete snapshot" (store.go), at
\* every step of a rewrite, as long as nothing else has touched the data file.
THEOREM CrashFindsOldOrNew == FilesSpec => OldOrNewUndamaged
<1>1. FilesInv /\ [FilesNext]_fileVars => (damage' = 0 => FindsOldOrNew) \/ UNCHANGED fileVars
  <2> SUFFICES ASSUME FilesInv, FilesNext, damage' = 0 PROVE FindsOldOrNew
    OBVIOUS
  <2>1. damage = 0 /\ primary \in Snapshots \cup {Missing} /\ ~Damage
    BY DEF FilesInv, FilesTypeOK, Undamaged, FilesNext, Load, Change, ReadPrevious, BakWrite,
       BakSync, BakRename, WriteData, SyncData, RenameData, Undo, PowerFails, Damage
  <2>2. primary' = primary \/ (RenameData /\ ~Undo)
    BY <2>1 DEF FilesInv, Unsynced, FilesNext, Load, Change, ReadPrevious, BakWrite, BakSync,
       BakRename, WriteData, SyncData, RenameData, Undo, PowerFails, files
  <2>3. CASE primary' = primary
    BY <2>1, <2>3, FilesAssumption DEF FindsOldOrNew, Recovered
  <2>4. CASE RenameData /\ ~Undo
    <3>1. primary' = mem /\ mem \in Snapshots
      BY <2>4 DEF RenameData, FilesInv, FilesTypeOK, TempHolds
    <3> QED
      BY <3>1, FilesAssumption DEF FindsOldOrNew, Recovered
  <2> QED
    BY <2>2, <2>3, <2>4
<1>2. FilesInv /\ [FilesNext]_fileVars => [damage' = 0 => FindsOldOrNew]_fileVars
  BY <1>1
<1> QED
  BY <1>2, FilesInductive, PTL DEF FilesSpec, OldOrNewUndamaged

-----------------------------------------------------------------------------
(* The other commands that replace files.                                    *)

\* Only temporary files are not durable.
Durable(fs) == DOMAIN fs = Names /\ \A f \in Names : fs[f] = NoFile \/ fs[f].durable = TRUE

\* The mode of f is kept, or f was unread and the file that is made is private.
Kept(f, file, data, mode) ==
  file = File(data, mode) \/ (f \in unread /\ file = File(data, "private"))

\* What the temporary file of the target is at each step.
Prepared ==
  /\ at = "sync" => tmp = Temp("new")
  /\ at \in {"backupWrite", "backupSync", "backupChmod", "backupRename", "chmod"} =>
       tmp = [Temp("new") EXCEPT !.durable = TRUE]
  /\ at = "rename" =>
       IF KeepsMode THEN Kept(cur, tmp, "new", target[cur].mode) ELSE tmp = File("new", "given")

\* What is still to be edited is as it was; while the backup of a target is being
\* made, its temporary file holds the target.
Untouched ==
  /\ cur \in Nat
  /\ at \in {"backupWrite", "backupSync", "backupChmod", "backupRename"} => command = "streamBackup"
  /\ command = "streamBackup" =>
       /\ \A f \in Names : f >= cur => target[f].data = "old" /\ target[f].mode \in {"own", "readOnly"}
       /\ at = "backupSync" => btmp = Temp("old")
       /\ at = "backupChmod" => btmp = [Temp("old") EXCEPT !.durable = TRUE]
       /\ at = "backupRename" => Kept(cur, btmp, "old", target[cur].mode)
       /\ at \in {"chmod", "rename"} => Kept(cur, backup[cur], "old", target[cur].mode)

\* fmt works on a read-only file only when it could not see that it is one.
OnlyUnseen ==
  command = "fmt" /\ Busy /\ at # "next" /\ target[cur].mode = "readOnly" => cur \in unread

RewriteInv ==
  Durable(target) /\ Durable(backup) /\ Prepared /\ Untouched /\ OnlyUnseen /\ BackupFirst

\* A crash changes no file that is durable.
LEMMA DurableSurvives ==
  ASSUME NEW fs, Durable(fs), NEW g \in After(fs)
  PROVE  \A f \in Names : g[f] = fs[f]
<1> SUFFICES ASSUME NEW f \in Names PROVE g[f] = fs[f]
  OBVIOUS
<1>1. g[f] \in Remains(fs[f])
  BY DEF After
<1>2. fs[f] = NoFile \/ fs[f].durable = TRUE
  BY DEF Durable
<1> QED
  BY <1>1, <1>2 DEF Remains

LEMMA RewriteStart == RewriteInit => RewriteInv
<1> SUFFICES ASSUME RewriteInit PROVE RewriteInv
  OBVIOUS
<1>1. \A f \in Names : target[f] \in {File("old", "own"), File("old", "readOnly"), NoFile}
  BY DEF RewriteInit
<1>2. \A f \in Names : target[f] # NoFile =>
        target[f].durable = TRUE /\ target[f].data = "old" /\ target[f].mode \in {"own", "readOnly"}
  <2> SUFFICES ASSUME NEW f \in Names, target[f] # NoFile
               PROVE  /\ target[f].durable = TRUE /\ target[f].data = "old"
                      /\ target[f].mode \in {"own", "readOnly"}
    OBVIOUS
  <2>1. target[f] = File("old", "own") \/ target[f] = File("old", "readOnly")
    BY <1>1
  <2> QED
    BY <2>1 DEF File
<1>3. command = "streamBackup" =>
        \A f \in Names : target[f].data = "old" /\ target[f].mode \in {"own", "readOnly"}
  BY <1>2 DEF RewriteInit
<1>4. Durable(target) /\ Durable(backup)
  BY <1>2 DEF RewriteInit, Durable
<1>5. Prepared /\ Untouched /\ OnlyUnseen /\ BackupFirst
  BY <1>3 DEF RewriteInit, Prepared, Untouched, OnlyUnseen, BackupFirst
<1> QED
  BY <1>4, <1>5 DEF RewriteInv

\* A step that fails, or a target that is left alone, is followed by the next.
LEMMA FailStep == RewriteInv /\ Busy /\ Fail => RewriteInv'
<1> SUFFICES ASSUME RewriteInv, Busy, Fail PROVE RewriteInv'
  OBVIOUS
<1>1. UNCHANGED <<command, target, backup, unread>> /\ at' = "next" /\ cur' \in {cur + 1, Targets + 1}
  BY DEF Fail, Ended
<1>2. cur \in Nat /\ cur <= Targets /\ cur' \in Nat /\ cur' > cur
  BY <1>1, RewritesAssumption DEF Busy, Names
<1>3. Untouched'
  <2> SUFFICES ASSUME command = "streamBackup", NEW f \in Names, f >= cur'
               PROVE  target[f].data = "old" /\ target[f].mode \in {"own", "readOnly"}
    BY <1>1, <1>2 DEF Untouched
  <2>1. f >= cur
    BY <1>2, RewritesAssumption DEF Names
  <2> QED
    BY <2>1 DEF RewriteInv, Untouched
<1>4. Durable(target)' /\ Durable(backup)' /\ BackupFirst'
  BY <1>1 DEF RewriteInv, Durable, BackupFirst
<1>5. Prepared' /\ OnlyUnseen'
  BY <1>1 DEF Prepared, OnlyUnseen
<1> QED
  BY <1>3, <1>4, <1>5 DEF RewriteInv

LEMMA FormattedStep == RewriteInv /\ Formatted => RewriteInv'
<1> SUFFICES ASSUME RewriteInv, Formatted PROVE RewriteInv'
  OBVIOUS
<1>1. UNCHANGED <<command, target, backup, tmp, btmp, unread>> /\ at' = "next" /\ command = "fmt"
  BY DEF Formatted, Ended, places
<1>2. cur' \in Nat
  BY DEF Formatted, Ended, Busy, Names
<1>3. Durable(target)' /\ Durable(backup)'
  BY <1>1 DEF RewriteInv, Durable
<1>4. Prepared' /\ Untouched' /\ OnlyUnseen' /\ BackupFirst'
  BY <1>1, <1>2 DEF Prepared, Untouched, OnlyUnseen, BackupFirst
<1> QED
  BY <1>3, <1>4 DEF RewriteInv

\* A mode that cannot be read: whatever was private stays so, and is recorded.
LEMMA StatFailsStep ==
  ASSUME RewriteInv,
         \/ StatFails("next", "create")
         \/ StatFails("backupChmod", "backupRename")
         \/ StatFails("chmod", "rename") /\ KeepsMode
  PROVE  RewriteInv'
<1>1. UNCHANGED <<command, cur, target, backup, tmp, btmp>> /\ unread' = unread \cup {cur} /\ Busy
  BY DEF StatFails, places
<1>2. Durable(target)' /\ Durable(backup)' /\ OnlyUnseen'
  BY <1>1 DEF RewriteInv, Durable, OnlyUnseen
<1>3. BackupFirst'
  BY <1>1 DEF RewriteInv, BackupFirst
<1>4. Prepared'
  BY <1>1 DEF StatFails, KeepsMode, RewriteInv, Prepared, Kept, Temp, File
<1>5. Untouched'
  BY <1>1 DEF StatFails, RewriteInv, Untouched, Kept, Temp, File
<1> QED
  BY <1>2, <1>3, <1>4, <1>5 DEF RewriteInv

\* The steps that work on the temporary file alone.
LEMMA TmpStep ==
  ASSUME RewriteInv, OpenSource \/ Create \/ Write \/ Sync \/ Chmod
  PROVE  RewriteInv'
<1> SUFFICES ASSUME ~(Busy /\ Fail), ~StatFails("next", "create"),
                    ~(StatFails("chmod", "rename") /\ KeepsMode)
             PROVE  RewriteInv'
  BY FailStep, StatFailsStep
<1>1. UNCHANGED <<command, cur, target, backup, verdict, unread>> /\ Busy
  BY DEF OpenSource, Create, Write, Sync, Chmod, Attempt, places
<1>2. Durable(target)' /\ Durable(backup)' /\ BackupFirst'
  BY <1>1 DEF RewriteInv, Durable, BackupFirst
<1>3. OnlyUnseen'
  BY <1>1 DEF OpenSource, Create, Write, Sync, Chmod, Attempt, Refused, Busy, RewriteInv, OnlyUnseen
<1>4. Prepared' /\ Untouched'
  <2>1. CASE OpenSource
    BY <1>1, <2>1 DEF OpenSource, Attempt, places, RewriteInv, Prepared, Untouched
  <2>2. CASE Create
    BY <1>1, <2>2 DEF Create, Attempt, Temp, RewriteInv, Prepared, Untouched
  <2>3. CASE Write
    BY <1>1, <2>3 DEF Write, Attempt, Temp, RewriteInv, Prepared, Untouched
  <2>4. CASE Sync
    BY <1>1, <2>4 DEF Sync, AfterSync, Attempt, Temp, RewriteInv, Prepared, Untouched
  <2>5. CASE Chmod
    BY <1>1, <2>5 DEF Chmod, Mode, KeepsMode, Kept, Attempt, Temp, File, RewriteInv, Prepared, Untouched
  <2> QED
    BY <2>1, <2>2, <2>3, <2>4, <2>5
<1> QED
  BY <1>2, <1>3, <1>4 DEF RewriteInv

\* The steps that make a backup: they leave the target and its new contents alone.
LEMMA BackupStep ==
  ASSUME RewriteInv, BackupWrite \/ BackupSync \/ BackupChmod \/ BackupRename
  PROVE  RewriteInv'
<1> SUFFICES ASSUME ~(Busy /\ Fail), ~StatFails("backupChmod", "backupRename") PROVE RewriteInv'
  BY FailStep, StatFailsStep DEF BackupWrite, BackupSync, BackupChmod, BackupRename, Attempt
<1>1. /\ UNCHANGED <<command, cur, target, tmp, verdict, unread>> /\ Busy
      /\ at' \in {"backupSync", "backupChmod", "backupRename", "chmod"}
      /\ at \in {"backupWrite", "backupSync", "backupChmod", "backupRename"}
  BY DEF BackupWrite, BackupSync, BackupChmod, BackupRename, Attempt
<1>2. Durable(target)' /\ Prepared' /\ OnlyUnseen'
  BY <1>1 DEF RewriteInv, Durable, Prepared, Busy, OnlyUnseen
<1>3. CASE ~BackupRename
  <2>1. UNCHANGED backup /\ at' # "chmod"
    BY <1>3 DEF BackupWrite, BackupSync, BackupChmod, Attempt
  <2>2. Durable(backup)' /\ BackupFirst'
    BY <1>1, <2>1 DEF RewriteInv, Durable, BackupFirst
  <2>3. Untouched'
    BY <1>1, <1>3, <2>1 DEF BackupWrite, BackupSync, BackupChmod, Attempt, Temp, File, Kept, Busy,
       RewriteInv, Untouched
  <2> QED
    BY <1>2, <2>2, <2>3 DEF RewriteInv
<1>4. CASE BackupRename
  <2>1. at = "backupRename" /\ at' = "chmod" /\ backup' = [backup EXCEPT ![cur] = btmp] /\ cur \in Names
    BY <1>4 DEF BackupRename, Attempt, Busy
  <2>2. DOMAIN backup = Names
    BY DEF RewriteInv, Durable
  <2>3. command = "streamBackup" /\ Kept(cur, btmp, "old", target[cur].mode)
    BY <2>1 DEF RewriteInv, Untouched
  <2>4. Durable(backup)'
    BY <2>1, <2>2, <2>3 DEF RewriteInv, Durable, Kept, File
  <2>5. Untouched'
    BY <1>1, <2>1, <2>2, <2>3 DEF RewriteInv, Untouched, Kept
  <2>6. BackupFirst'
    <3> SUFFICES ASSUME NEW f \in Names, command = "streamBackup", target[f].data # "old"
                 PROVE  backup'[f] = backup[f]
      BY <1>1 DEF RewriteInv, BackupFirst
    <3>1. f # cur
      BY <2>1 DEF RewriteInv, Untouched, Names
    <3> QED
      BY <2>1, <2>2, <3>1
  <2> QED
    BY <1>2, <2>4, <2>5, <2>6 DEF RewriteInv
<1> QED
  BY <1>3, <1>4

\* The one step that changes a target: it has a backup, and both have its mode, or
\* the mode could not be read.
LEMMA RenameStep ==
  ASSUME RewriteInv, Rename
  PROVE  RewriteInv'
<1> SUFFICES ASSUME ~(Busy /\ Fail) PROVE RewriteInv'
  BY FailStep DEF Rename
<1>1. /\ cur \in Names /\ at = "rename" /\ at' = "next" /\ cur' = cur + 1
      /\ target' = [target EXCEPT ![cur] = tmp] /\ UNCHANGED <<command, backup, unread>>
  BY DEF Rename, Ended, Busy
<1>2. DOMAIN target = Names /\ cur \in Nat
  BY <1>1 DEF RewriteInv, Durable, Untouched
<1>3. tmp = File("new", "given") \/ Kept(cur, tmp, "new", target[cur].mode)
  BY <1>1 DEF RewriteInv, Prepared
<1>4. Durable(target)' /\ Durable(backup)'
  BY <1>1, <1>2, <1>3 DEF RewriteInv, Durable, Kept, File
<1>5. Prepared' /\ OnlyUnseen'
  BY <1>1 DEF Prepared, OnlyUnseen
<1>6. Untouched'
  BY <1>1, <1>2 DEF RewriteInv, Untouched, Names
<1>7. BackupFirst'
  <2> SUFFICES ASSUME NEW f \in Names, command = "streamBackup", target'[f].data # "old"
               PROVE  /\ backup[f] \in {File("old", m) : m \in {"own", "readOnly", "private"}}
                      /\ \/ backup[f].mode = target'[f].mode
                         \/ f \in unread /\ "private" \in {backup[f].mode, target'[f].mode}
    BY <1>1 DEF BackupFirst
  <2>1. CASE f = cur
    <3>1. target[cur].mode \in {"own", "readOnly"} /\ Kept(cur, backup[cur], "old", target[cur].mode)
      BY <1>1, <1>2 DEF RewriteInv, Untouched
    <3>2. Kept(cur, target'[cur], "new", target[cur].mode)
      BY <1>1, <1>2 DEF RewriteInv, Prepared, KeepsMode
    <3> QED
      BY <2>1, <3>1, <3>2 DEF Kept, File
  <2>2. CASE f # cur
    BY <1>1, <1>2, <2>2 DEF RewriteInv, BackupFirst
  <2> QED
    BY <2>1, <2>2
<1> QED
  BY <1>4, <1>5, <1>6, <1>7 DEF RewriteInv

LEMMA PowerOffStep ==
  ASSUME RewriteInv, PowerOff
  PROVE  RewriteInv'
<1>1. /\ target' \in After(target) /\ backup' \in After(backup) /\ at' = "dead"
      /\ UNCHANGED <<command, cur, tmp, btmp, verdict, unread>>
  BY DEF PowerOff
<1>2. \A f \in Names : target'[f] = target[f] /\ backup'[f] = backup[f]
  BY <1>1, DurableSurvives DEF RewriteInv
<1>3. DOMAIN target' = Names /\ DOMAIN backup' = Names
  BY <1>1 DEF After
<1>4. Durable(target)' /\ Durable(backup)'
  BY <1>2, <1>3 DEF RewriteInv, Durable
<1>5. Prepared' /\ Untouched' /\ OnlyUnseen' /\ BackupFirst'
  BY <1>1, <1>2 DEF RewriteInv, Prepared, Untouched, Busy, OnlyUnseen, BackupFirst
<1> QED
  BY <1>4, <1>5 DEF RewriteInv

LEMMA RewriteInductive == RewriteSpec => []RewriteInv
<1>1. RewriteInv /\ [RewriteNext]_rewriteVars => RewriteInv'
  <2> SUFFICES ASSUME RewriteInv, [RewriteNext]_rewriteVars PROVE RewriteInv'
    OBVIOUS
  <2>1. CASE UNCHANGED rewriteVars
    BY <2>1 DEF rewriteVars, places, RewriteInv, Durable, Prepared, KeepsMode, Kept, Untouched, Busy,
       OnlyUnseen, BackupFirst
  <2>2. CASE RewriteNext
    BY <2>2, TmpStep, FormattedStep, BackupStep, RenameStep, PowerOffStep DEF RewriteNext
  <2> QED
    BY <2>1, <2>2
<1> QED
  BY RewriteStart, <1>1, PTL DEF RewriteSpec

\* An in-place edit with a suffix: an edited file has a backup, whole, of what it
\* was (copyFileAtomic before the rename); the two have the same permissions unless
\* a failing os.Stat, which is no error, has left one of them private.
THEOREM BackupComesFirst == RewriteSpec => []BackupFirst
<1>1. RewriteInv => BackupFirst
  BY DEF RewriteInv
<1> QED
  BY <1>1, RewriteInductive, PTL

\* "A failed or partial build never truncates an existing file" (bundle.go), for
\* every command and any number of targets: a target changes only by becoming the
\* whole new file, a crash included, with its permissions or, when these could not
\* be read, private; and fmt replaces no file that it sees is read-only.
THEOREM TargetsAreReplacedWhole == RewriteSpec => ReplacedWhole
<1> DEFINE Whole(f) ==
      target'[f] # target[f] =>
        /\ \/ target'[f] = File("new", IF KeepsMode THEN target[f].mode ELSE "given")
           \/ KeepsMode /\ f \in unread /\ target'[f] = File("new", "private")
        /\ command = "fmt" /\ target[f].mode = "readOnly" => f \in unread
<1>1. RewriteInv /\ [RewriteNext]_rewriteVars => [\A f \in Names : Whole(f)]_rewriteVars
  <2> SUFFICES ASSUME RewriteInv, RewriteNext, NEW f \in Names, target'[f] # target[f]
               PROVE  Whole(f)
    OBVIOUS
  <2>1. ~UNCHANGED target
    OBVIOUS
  <2>2. CASE PowerOff
    BY <2>2, DurableSurvives DEF PowerOff, RewriteInv
  <2>3. CASE Rename
    <3>1. Busy /\ at = "rename" /\ target' = [target EXCEPT ![cur] = tmp]
      BY <2>1, <2>3 DEF Rename, Fail
    <3>2. f = cur /\ target'[f] = tmp
      BY <3>1 DEF RewriteInv, Durable
    <3> QED
      BY <3>1, <3>2 DEF RewriteInv, Prepared, Kept, OnlyUnseen
  <2> QED
    BY <2>1, <2>2, <2>3 DEF RewriteNext, OpenSource, Formatted, Create, Write, Sync, BackupWrite,
       BackupSync, BackupChmod, BackupRename, Chmod, Attempt, StatFails, Fail, places
<1> QED
  BY <1>1, RewriteInductive, PTL DEF RewriteSpec, ReplacedWhole
=============================================================================
