------------------------------ MODULE Rewrites ------------------------------
(***************************************************************************)
(* Files that are replaced as a whole: the in-place edits of a stream      *)
(* (RunStream and commitInPlaceTemp of src/internal/eval/stream.go), fmt   *)
(* -w (src/cmd/drang/fmt.go), copies (fs.go) and standalone programs       *)
(* (bundle.go).  Each writes a temporary file beside the target and        *)
(* renames it; any step may fail, and the machine may stop between two.    *)
(*                                                                         *)
(* A file has its contents, its permissions, and whether they are durable. *)
(* Renaming is atomic and durable; a crash may tear what was not synced.   *)
(***************************************************************************)
EXTENDS Naturals

CONSTANTS
  Targets,    (* how many files a command names                            *)
  NoFile

ASSUME RewritesAssumption == Targets \in Nat

Commands == {"stream", "streamBackup", "fmt", "copy", "bundle"}
Names == 1..Targets

VARIABLES
  command,
  cur,        (* the target being rewritten                                *)
  at,         (* the step it is at; "next" between two targets             *)
  target,     (* target[f]: the file                                       *)
  backup,     (* backup[f]: its backup                                     *)
  tmp, btmp,  (* the temporary files of the target and of its backup       *)
  verdict,    (* verdict[f]: what became of f                              *)
  unread      (* history: the targets whose mode a step could not read     *)

places == <<target, backup, tmp, btmp>>
rewriteVars == <<command, cur, at, places, verdict, unread>>

File(data, mode) == [data |-> data, mode |-> mode, durable |-> TRUE]

(* os.CreateTemp makes a file nobody else may read. *)
Temp(data) == [data |-> data, mode |-> "private", durable |-> FALSE]

(* Copies and standalone programs may be new files. *)
RewriteInit ==
  /\ command \in Commands
  /\ cur = 1 /\ at = "next"
  /\ target \in [Names -> {File("old", "own"), File("old", "readOnly"), NoFile}]
  /\ \A f \in Names : target[f] = NoFile => command \in {"copy", "bundle"}
  /\ backup = [f \in Names |-> NoFile]
  /\ tmp = NoFile /\ btmp = NoFile
  /\ verdict = [f \in Names |-> "none"]
  /\ unread = {}

-----------------------------------------------------------------------------
Busy == cur \in Names /\ at # "dead"

(* A target is done with; an error ends the command, but fmt goes on. *)
Ended(how) ==
  /\ verdict' = [verdict EXCEPT ![cur] = how]
  /\ cur' = IF how = "failed" /\ command # "fmt" THEN Targets + 1 ELSE cur + 1
  /\ at' = "next"

(* A step fails: the temporary files go. *)
Fail ==
  /\ Ended("failed")
  /\ tmp' = NoFile /\ btmp' = NoFile
  /\ UNCHANGED <<command, target, backup, unread>>

(* A step has its effect on the disk, or fails. *)
Attempt(from, to, effect) ==
  /\ Busy /\ at = from
  /\ \/ at' = to /\ effect /\ UNCHANGED <<command, cur, verdict, unread>>
     \/ Fail

(* os.Stat fails, which is no error: the step goes on without the mode.    *)
StatFails(from, to) ==
  /\ Busy /\ at = from /\ at' = to
  /\ unread' = unread \cup {cur}
  /\ UNCHANGED <<command, cur, places, verdict>>

(* The source is opened; fmt reads it, leaves a file alone that is         *)
(* formatted already, and refuses one it sees is marked read-only.         *)
Refused == command = "fmt" /\ target[cur].mode = "readOnly"

OpenSource ==
  \/ Attempt("next", "create", ~Refused /\ UNCHANGED places)
  \/ StatFails("next", "create") /\ Refused

Formatted ==
  /\ Busy /\ at = "next" /\ command = "fmt"
  /\ Ended("unchanged")
  /\ UNCHANGED <<command, places, unread>>

(* The lines of the stream, the formatted text, a copy, a payload: the     *)
(* error may come from the stream's own program as well as from the disk.  *)
Create == Attempt("create", "write", tmp' = Temp("part") /\ UNCHANGED <<target, backup, btmp>>)

Write == Attempt("write", "sync", tmp' = Temp("new") /\ UNCHANGED <<target, backup, btmp>>)

AfterSync == IF command = "streamBackup" THEN "backupWrite" ELSE "chmod"

(* A slip: the bytes are not forced out. *)
Sync_Skipped == Attempt("sync", AfterSync, UNCHANGED places)

Sync ==
  Attempt("sync", AfterSync, tmp' = [tmp EXCEPT !.durable = TRUE] /\ UNCHANGED <<target, backup, btmp>>)

(* copyFileAtomic: the target as it is now, with its mode if it can be read. *)
BackupWrite ==
  Attempt("backupWrite", "backupSync",
          btmp' = Temp(target[cur].data) /\ UNCHANGED <<target, backup, tmp>>)

BackupSync ==
  Attempt("backupSync", "backupChmod",
          btmp' = [btmp EXCEPT !.durable = TRUE] /\ UNCHANGED <<target, backup, tmp>>)

BackupChmod ==
  \/ Attempt("backupChmod", "backupRename",
             btmp' = [btmp EXCEPT !.mode = target[cur].mode] /\ UNCHANGED <<target, backup, tmp>>)
  \/ StatFails("backupChmod", "backupRename")

(* A slip: an error of the backup is passed over. *)
BackupRename_Optional ==
  /\ Busy /\ at = "backupRename" /\ at' = "chmod" /\ btmp' = NoFile
  /\ backup' \in {backup, [backup EXCEPT ![cur] = btmp]}
  /\ UNCHANGED <<command, cur, verdict, unread, target, tmp>>

BackupRename ==
  Attempt("backupRename", "chmod",
          backup' = [backup EXCEPT ![cur] = btmp] /\ btmp' = NoFile /\ UNCHANGED <<target, tmp>>)

(* A copy has the mode of its source, a standalone program one of its own; *)
(* any other file keeps the mode it had, if that can be read.              *)
KeepsMode == command \notin {"copy", "bundle"}
Mode == IF KeepsMode THEN target[cur].mode ELSE "given"

Chmod ==
  \/ Attempt("chmod", "rename", tmp' = [tmp EXCEPT !.mode = Mode] /\ UNCHANGED <<target, backup, btmp>>)
  \/ StatFails("chmod", "rename") /\ KeepsMode

Rename ==
  /\ Busy /\ at = "rename"
  /\ \/ /\ target' = [target EXCEPT ![cur] = tmp] /\ tmp' = NoFile
        /\ Ended("done") /\ UNCHANGED <<command, backup, btmp, unread>>
     \/ Fail

(* The machine stops. *)
Remains(file) ==
  IF file = NoFile THEN {NoFile}
  ELSE IF file.durable THEN {file}
  ELSE {[file EXCEPT !.data = d, !.durable = TRUE] : d \in {file.data, "torn"}}

After(files) ==
  {g \in [Names -> UNION {Remains(files[f]) : f \in Names}] : \A f \in Names : g[f] \in Remains(files[f])}

PowerOff ==
  /\ at # "dead" /\ at' = "dead"
  /\ target' \in After(target) /\ backup' \in After(backup)
  /\ UNCHANGED <<command, cur, tmp, btmp, verdict, unread>>

RewriteNext ==
  \/ OpenSource \/ Formatted \/ Create \/ Write \/ Sync
  \/ BackupWrite \/ BackupSync \/ BackupChmod \/ BackupRename
  \/ Chmod \/ Rename \/ PowerOff

RewriteSpec == RewriteInit /\ [][RewriteNext]_rewriteVars

-----------------------------------------------------------------------------
(* Properties.                                                             *)

(* "A failed or partial build never truncates an existing file"            *)
(* (bundle.go), and the like of every command: whatever step fails, or the *)
(* machine stops at, a target changes only by becoming, at once, the whole *)
(* new file with the permissions it is meant to have; where these could    *)
(* not be read, with those of a private file, never wider ones.  fmt       *)
(* replaces no file that it sees is read-only.                             *)
ReplacedWhole ==
  [][\A f \in Names : target'[f] # target[f] =>
       /\ \/ target'[f] = File("new", IF KeepsMode THEN target[f].mode ELSE "given")
          \/ KeepsMode /\ f \in unread /\ target'[f] = File("new", "private")
       /\ command = "fmt" /\ target[f].mode = "readOnly" => f \in unread
    ]_rewriteVars

(* -i with a suffix: a file that has been edited has a backup, whole, of   *)
(* what it was; the two have the same permissions, unless these could not  *)
(* be read for one of them, which is then private.                         *)
BackupFirst ==
  \A f \in Names :
    command = "streamBackup" /\ target[f].data # "old" =>
      /\ backup[f] \in {File("old", m) : m \in {"own", "readOnly", "private"}}
      /\ \/ backup[f].mode = target[f].mode
         \/ f \in unread /\ "private" \in {backup[f].mode, target[f].mode}

=============================================================================
