------------------------------ MODULE StoreFiles ------------------------------
(***************************************************************************)
(* The files behind a store (flushLocked, atomicWriteFile, loadStoreData   *)
(* and the rollbacks of src/internal/eval/store.go): how one rewrite of    *)
(* the data file goes through a temporary file and a backup, and what an   *)
(* opener finds after a crash at any point of it.                          *)
(*                                                                         *)
(* A snapshot is a whole serialized map.  Renaming a file over another is  *)
(* atomic and durable; bytes written to a file are durable once it is      *)
(* synced, and a crash may tear those that are not.  Temporary files left  *)
(* behind by a crash are never read and are not kept track of.             *)
(***************************************************************************)
EXTENDS Naturals

CONSTANTS
  Snapshots,  (* serialized maps                                          *)
  Empty,      (* the one of the empty map                                 *)
  Missing,    (* no such file                                             *)
  Torn,       (* a file that does not decode                              *)
  MaxDamage   (* bound: times something else ruins the data file          *)

ASSUME FilesAssumption ==
  /\ Empty \in Snapshots
  /\ Missing \notin Snapshots /\ Torn \notin Snapshots /\ Missing # Torn
  /\ MaxDamage \in Nat

VARIABLES
  primary, bak,  (* the data file and its .bak                            *)
  temp,          (* the temporary file being written                      *)
  unsynced,      (* which of the three hold bytes not yet durable         *)
  pc,            (* where the process is in a rewrite, "down" without one *)
  mem,           (* the map in memory                                     *)
  old,           (* the one a failed rewrite goes back to                 *)
  prev,          (* the previous contents, read for the backup            *)
  acked,         (* every snapshot a mutation was acknowledged with       *)
  damage

files == <<primary, bak, temp, unsynced>>
memory == <<mem, old, prev>>
fileVars == <<files, pc, memory, acked, damage>>

FileContents == Snapshots \cup {Missing, Torn}

FilesTypeOK ==
  /\ primary \in FileContents /\ bak \in FileContents /\ temp \in FileContents
  /\ unsynced \subseteq {"primary", "bak", "temp"}
  /\ pc \in {"down", "up", "read", "bakWrite", "bakSync", "bakRename", "write", "sync", "rename"}
  /\ mem \in Snapshots /\ old \in Snapshots /\ prev \in FileContents
  /\ acked \subseteq Snapshots
  /\ damage \in 0..MaxDamage

FilesInit ==
  /\ primary = Missing /\ bak = Missing /\ temp = Missing /\ unsynced = {}
  /\ pc = "down" /\ mem = Empty /\ old = Empty /\ prev = Missing
  /\ acked = {Empty}
  /\ damage = 0

-----------------------------------------------------------------------------
(* loadStoreData: a missing file is an empty store, one that does not      *)
(* decode is replaced by the backup, and without one the open fails.       *)
Recovered ==
  CASE primary = Missing -> Empty
    [] primary \in Snapshots -> primary
    [] OTHER -> bak

Load ==
  /\ pc = "down" /\ Recovered \in Snapshots
  /\ pc' = "up"
  /\ mem' = Recovered /\ old' = Recovered
  /\ UNCHANGED <<files, prev, acked, damage>>

(* A mutation changes the map and rewrites the file. *)
Change ==
  /\ pc = "up"
  /\ mem' \in Snapshots /\ old' = mem
  /\ pc' = "read"
  /\ UNCHANGED <<files, prev, acked, damage>>

(* The bytes of the data file, decodable or not; a file that is missing or *)
(* cannot be read is not backed up.                                        *)
ReadPrevious ==
  /\ pc = "read"
  /\ \/ primary # Missing /\ prev' = primary /\ pc' = "bakWrite"
     \/ prev' = Missing /\ pc' = "write"
  /\ UNCHANGED <<files, mem, old, acked, damage>>

-----------------------------------------------------------------------------
(* atomicWriteFile, for the backup (a failure is ignored) and for the data *)
(* file (a failure undoes the mutation).                                   *)

DropTemp == temp' = Missing /\ unsynced' = unsynced \ {"temp"}

(* A failure on the way to the backup: the rewrite goes on without one. *)
SkipBackup == pc' = "write" /\ DropTemp

(* A slip: the new contents are backed up, not the previous ones. *)
BakWrite_New ==
  /\ pc = "bakWrite"
  /\ \/ pc' = "bakSync" /\ temp' = mem /\ unsynced' = unsynced \cup {"temp"}
     \/ SkipBackup
  /\ UNCHANGED <<primary, bak, memory, acked, damage>>

BakWrite ==
  /\ pc = "bakWrite"
  /\ \/ pc' = "bakSync" /\ temp' = prev /\ unsynced' = unsynced \cup {"temp"}
     \/ SkipBackup
  /\ UNCHANGED <<primary, bak, memory, acked, damage>>

BakSync ==
  /\ pc = "bakSync"
  /\ \/ pc' = "bakRename" /\ unsynced' = unsynced \ {"temp"} /\ UNCHANGED temp
     \/ SkipBackup
  /\ UNCHANGED <<primary, bak, memory, acked, damage>>

BakRename ==
  /\ pc = "bakRename"
  /\ SkipBackup
  /\ bak' \in {temp, bak}
  /\ UNCHANGED <<primary, memory, acked, damage>>

(* The rewrite fails: the temporary file goes, the map goes back. *)
Undo ==
  /\ pc' = "up" /\ DropTemp
  /\ mem' = old
  /\ UNCHANGED <<primary, bak, old, prev, acked, damage>>

(* A slip: the data file is written in place. *)
WriteData_InPlace ==
  /\ pc = "write"
  /\ \/ /\ pc' = "sync" /\ temp' = mem /\ primary' = mem
        /\ unsynced' = unsynced \cup {"primary"}
        /\ UNCHANGED <<bak, memory, acked, damage>>
     \/ Undo

WriteData ==
  /\ pc = "write"
  /\ \/ /\ pc' = "sync" /\ temp' = mem /\ unsynced' = unsynced \cup {"temp"}
        /\ UNCHANGED <<primary, bak, memory, acked, damage>>
     \/ Undo

(* A slip: the temporary file is renamed without a sync. *)
SyncData_Skipped ==
  /\ pc = "sync"
  /\ pc' = "rename"
  /\ UNCHANGED <<files, memory, acked, damage>>

SyncData ==
  /\ pc = "sync"
  /\ \/ /\ pc' = "rename" /\ unsynced' = unsynced \ {"temp"}
        /\ UNCHANGED <<primary, bak, temp, memory, acked, damage>>
     \/ Undo

RenameData ==
  /\ pc = "rename"
  /\ \/ /\ primary' = temp /\ temp' = Missing
        /\ unsynced' = IF "temp" \in unsynced THEN {"primary"} ELSE {}
        /\ acked' = acked \cup {mem}
        /\ pc' = "up"
        /\ UNCHANGED <<bak, memory, damage>>
     \/ Undo

-----------------------------------------------------------------------------
(* The machine stops: what is not durable may be torn. *)
PowerFails ==
  /\ pc # "down"
  /\ pc' = "down"
  /\ primary' \in {primary, IF "primary" \in unsynced THEN Torn ELSE primary}
  /\ bak' \in {bak, IF "bak" \in unsynced THEN Torn ELSE bak}
  /\ temp' = Missing /\ unsynced' = {}
  /\ mem' = Empty /\ old' = Empty /\ prev' = Missing
  /\ UNCHANGED <<acked, damage>>

(* Something else ruins the data file, which no lock protects. *)
Damage ==
  /\ primary \in Snapshots /\ damage < MaxDamage
  /\ primary' = Torn /\ damage' = damage + 1
  /\ UNCHANGED <<bak, temp, unsynced, pc, memory, acked>>

FilesNext ==
  \/ Load \/ Change \/ ReadPrevious
  \/ BakWrite \/ BakSync \/ BakRename
  \/ WriteData \/ SyncData \/ RenameData
  \/ PowerFails \/ Damage

FilesSpec == FilesInit /\ [][FilesNext]_fileVars
-----------------------------------------------------------------------------
(* Properties.                                                             *)

(* "The file is therefore never observed torn; a crash leaves either the   *)
(* old or the new complete snapshot" (store.go, durability): whatever step *)
(* a rewrite is at, fails at or dies at, an opener finds the snapshot it   *)
(* would have found before, or the one being written.                      *)
FindsOldOrNew ==
  Recovered \in Snapshots => Recovered' \in {Recovered, mem}
OldOrNew == [][damage' = damage => FindsOldOrNew]_fileVars

(* The same, as long as nothing else has touched the data file. *)
OldOrNewUndamaged == [][damage' = 0 => FindsOldOrNew]_fileVars

(* Only what a mutation was acknowledged with can ever be found, in the    *)
(* data file or the backup: a failed rewrite leaves nothing behind.        *)
OnlyAcknowledged == {primary, bak} \cap Snapshots \subseteq acked

(* As long as nothing else touches the files, the backup is a complete     *)
(* snapshot, and the data file is one whenever there is a backup.          *)
BackupIsGood ==
  damage = 0 /\ bak # Missing => bak \in Snapshots /\ primary \in Snapshots
=============================================================================
