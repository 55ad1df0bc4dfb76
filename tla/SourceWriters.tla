---------------------------- MODULE SourceWriters ----------------------------
(***************************************************************************)
(* The two commands that rewrite the user's sources, with somebody editing  *)
(* the same files: `mux fix` (write_transaction, diagnostic/fix.rs), which  *)
(* replaces several files or none, and `mux fmt` (format_paths,             *)
(* formatter/files.rs), which replaces each file on its own.                *)
(*                                                                         *)
(* Files are numbered in the order in which both commands visit them.  Both *)
(* lock an open file, that is an inode, while a replacement renames a new   *)
(* inode onto the path: gen[f] counts the inodes path f has had.            *)
(***************************************************************************)
EXTENDS Integers, FiniteSets

CONSTANTS
  NFiles,    (* number of files with machine-applicable edits               *)
  MaxEdits,  (* bound: writes and removals by the user                      *)
  MaxStuck   (* bound: files that one cleanup cannot remove                 *)

Files == 1..NFiles

ASSUME WritersAssumption == NFiles \in Nat \ {0} /\ MaxEdits \in Nat /\ MaxStuck \in Nat

Orig  == "orig"    \* the text `mux fix` analysed
Fixed == "fixed"   \* the text with the fixes applied
Fmt   == "fmt"     \* formatted text
Edit  == "edit"    \* text the user wrote
Gone  == "gone"    \* no file at the path
Content == {Orig, Fixed, Fmt, Edit, Gone}
None  == "none"    \* no backup, no snapshot
Torn  == "torn"    \* a backup whose copy failed

VARIABLES
  content, gen,  (* the file at every path                                  *)
  edits,         (* number of user actions so far                           *)
  phase,         (* `mux fix`: where write_transaction is                   *)
  cur,           (* `mux fix`: index of the current loop                    *)
  locked,        (* `mux fix`: gen of the locked inode of a path, 0: none   *)
  staged,        (* `mux fix`: paths with a temporary file                  *)
  bak,           (* `mux fix`: content of the backup of a path, or None     *)
  replaced,      (* `mux fix`: paths it has renamed a replacement onto      *)
  undoTop,       (* `mux fix`: rollback restores the backups 1..undoTop     *)
  why,           (* `mux fix`: what made it give up                         *)
  failures,      (* `mux fix`: rollback_backups collected a failure         *)
  stuckTmp,      (* history: temporary files that could not be removed      *)
  stuckBak,      (* history: backups that could not be removed              *)
  raced,         (* history: files the user wrote between the last
                    comparison and the rename of `mux fix`                  *)
  fmtPhase,      (* `mux fmt`: where format_paths is                        *)
  fmtCur,        (* `mux fmt`: index of the current loop                    *)
  fmtLock,       (* `mux fmt`: gen of the inode it locked for fmtCur        *)
  snap           (* `mux fmt`: the text it read, or None                    *)

fileVars == <<content, gen>>
stuck    == <<stuckTmp, stuckBak>>
fixVars  == <<phase, cur, locked, staged, bak, replaced, undoTop, why, failures, stuck>>
fmtVars  == <<fmtPhase, fmtCur, fmtLock, snap>>
vars     == <<fileVars, edits, fixVars, raced, fmtVars>>

Ended == {"done", "error"}

Init ==
  /\ content  = [f \in Files |-> Orig]
  /\ gen      = [f \in Files |-> 1]
  /\ edits    = 0
  /\ phase    = "resolve" /\ cur = 1
  /\ locked   = [f \in Files |-> 0]
  /\ staged   = {}
  /\ bak      = [f \in Files |-> None]
  /\ replaced = {}
  /\ undoTop  = 0
  /\ why      = None
  /\ failures = FALSE
  /\ stuckTmp = {} /\ stuckBak = {}
  /\ raced    = {}
  /\ fmtPhase = "read" /\ fmtCur = 1 /\ fmtLock = 0
  /\ snap     = [f \in Files |-> None]

(* Rename a new inode with text c onto path f.                              *)
RenameOnto(f, c) ==
  /\ content' = [content EXCEPT ![f] = c]
  /\ gen'     = [gen EXCEPT ![f] = @ + 1]

(***************************************************************************)
(* mux fix                                                                  *)
(***************************************************************************)
Fail(reason) ==
  /\ phase'  = "error"
  /\ why'    = reason
  /\ locked' = [f \in Files |-> 0]

(* Every removal of a temporary file or a backup ignores the error of       *)
(* fs::remove_file: any of the files may stay.                              *)
Unremovable(files) == {left \in SUBSET files : Cardinality(left) <= MaxStuck}

RemoveStaged(files) ==
  \E left \in Unremovable(files) : staged' = left /\ stuckTmp' = left

RemoveBackups(files) ==
  \E left \in Unremovable({f \in files : bak[f] # None}) :
    /\ bak'      = [f \in Files |-> IF f \in files \ left THEN None ELSE bak[f]]
    /\ stuckBak' = stuckBak \cup left

Rollback(top, reason) ==
  /\ phase'   = "remove"
  /\ cur'     = top
  /\ undoTop' = top
  /\ why'     = reason
  /\ RemoveStaged(staged)

LockedByFmt(f) == fmtLock # 0 /\ fmtCur = f /\ fmtLock = gen[f]

(* resolve_targets, one file: open, lock, re-read.                          *)
FixResolve ==
  /\ phase = "resolve"
  /\ \/ /\ content[cur] = Orig
        /\ ~LockedByFmt(cur)
        /\ locked' = [locked EXCEPT ![cur] = gen[cur]]
        /\ phase'  = IF cur = NFiles THEN "stage" ELSE "resolve"
        /\ cur'    = IF cur = NFiles THEN 1 ELSE cur + 1
        /\ UNCHANGED why
     \/ \* missing, locked or changed after analysis, or an I/O error
        /\ Fail("refused")
        /\ UNCHANGED cur
  /\ UNCHANGED <<fileVars, edits, raced, staged, bak, replaced, undoTop, failures, stuck, fmtVars>>

(* stage_targets: every replacement is written beside its target; a failure *)
(* removes those written so far, the one it broke off included.             *)
FixStage ==
  /\ phase = "stage"
  /\ \/ /\ staged' = Files
        /\ phase'  = "backup"
        /\ UNCHANGED <<locked, why, stuckTmp>>
     \/ \E k \in Files : Fail("staging") /\ RemoveStaged(1..k)
  /\ UNCHANGED <<fileVars, edits, raced, cur, bak, replaced, undoTop, failures, stuckBak, fmtVars>>

(* backup_targets, one file: copy what is at the path now.  A copy that      *)
(* fails is removed at once, the earlier ones are rolled back.              *)
FixBackup ==
  /\ phase = "backup"
  /\ \/ /\ content[cur] # Gone
        /\ bak'   = [bak EXCEPT ![cur] = content[cur]]
        /\ phase' = IF cur = NFiles THEN "check" ELSE "backup"
        /\ cur'   = IF cur = NFiles THEN 1 ELSE cur + 1
        /\ UNCHANGED <<staged, undoTop, why, stuck>>
     \/ /\ Rollback(cur - 1, "backup")
        /\ \/ UNCHANGED <<bak, stuckBak>>
           \/ /\ bak'      = [bak EXCEPT ![cur] = Torn]
              /\ stuckBak' = stuckBak \cup {cur}
  /\ UNCHANGED <<fileVars, edits, raced, locked, replaced, failures, fmtVars>>

(* Mutants: the target is only probed for existence; a changed target is    *)
(* waited for.                                                              *)
FixCheckExists ==
  /\ phase = "check"
  /\ IF content[cur] # Gone
     THEN phase' = "rename" /\ UNCHANGED <<locked, why>>
     ELSE Fail("unreadable")
  /\ UNCHANGED <<fileVars, edits, raced, cur, staged, bak, replaced, undoTop, failures, stuck,
                 fmtVars>>

FixCheckWaits ==
  /\ phase = "check"
  /\ content[cur] = Orig
  /\ phase' = "rename"
  /\ UNCHANGED <<fileVars, edits, raced, cur, locked, staged, bak, replaced, undoTop, why,
                 failures, stuck, fmtVars>>

(* replace_targets, one file, first half: read the target again.  A read    *)
(* error returns at once; another text rolls back what has been replaced.   *)
FixCheck ==
  /\ phase = "check"
  /\ \/ /\ content[cur] = Orig
        /\ phase' = "rename"
        /\ UNCHANGED <<cur, locked, staged, undoTop, why, stuckTmp>>
     \/ /\ content[cur] = Gone
        /\ Fail("unreadable")
        /\ UNCHANGED <<cur, staged, undoTop, stuckTmp>>
     \/ /\ content[cur] \notin {Orig, Gone}
        /\ Rollback(cur - 1, "stale")
        /\ UNCHANGED locked
  /\ UNCHANGED <<fileVars, edits, raced, bak, replaced, failures, stuckBak, fmtVars>>

(* Mutant: a failed rename returns at once.                                 *)
FixRenameNoRollback ==
  /\ phase = "rename"
  /\ \/ /\ RenameOnto(cur, Fixed)
        /\ staged'   = staged \ {cur}
        /\ replaced' = replaced \cup {cur}
        /\ cur'      = IF cur = NFiles THEN cur ELSE cur + 1
        /\ phase'    = IF cur = NFiles THEN "done" ELSE "check"
        /\ bak'      = [f \in Files |-> IF cur = NFiles THEN None ELSE bak[f]]
        /\ locked'   = [f \in Files |-> IF cur = NFiles THEN 0 ELSE locked[f]]
        /\ UNCHANGED why
     \/ Fail("rename") /\ UNCHANGED <<fileVars, cur, staged, bak, replaced>>
  /\ UNCHANGED <<edits, raced, undoTop, failures, stuck, fmtVars>>

(* Second half: rename the staged file onto the target.  A failure rolls    *)
(* back every backup.  After the last file the backups are removed.         *)
FixRename ==
  /\ phase = "rename"
  /\ \/ /\ RenameOnto(cur, Fixed)
        /\ staged'   = staged \ {cur}
        /\ replaced' = replaced \cup {cur}
        /\ IF cur = NFiles
           THEN /\ phase'  = "done"
                /\ locked' = [f \in Files |-> 0]
                /\ RemoveBackups(Files)
                /\ UNCHANGED cur
           ELSE /\ phase' = "check"
                /\ cur'   = cur + 1
                /\ UNCHANGED <<bak, locked, stuckBak>>
        /\ UNCHANGED <<undoTop, why, stuckTmp>>
     \/ Rollback(NFiles, "rename") /\ UNCHANGED <<fileVars, bak, replaced, locked, stuckBak>>
  /\ UNCHANGED <<edits, raced, failures, fmtVars>>

(* rollback_backups, newest first: remove the target if it exists, then     *)
(* rename the backup back; a failure is noted and the loop goes on.         *)
RollbackRemove ==
  /\ phase = "remove" /\ cur > 0
  /\ \/ /\ content' = [content EXCEPT ![cur] = Gone]
        /\ phase'   = "restore"
        /\ UNCHANGED <<cur, failures>>
     \/ /\ content[cur] # Gone
        /\ failures' = TRUE
        /\ cur' = cur - 1
        /\ UNCHANGED <<content, phase>>
  /\ UNCHANGED <<gen, edits, raced, locked, staged, bak, replaced, undoTop, why, stuck, fmtVars>>

RollbackRestore ==
  /\ phase = "restore"
  /\ \/ /\ RenameOnto(cur, bak[cur])
        /\ bak' = [bak EXCEPT ![cur] = None]
        /\ UNCHANGED failures
     \/ failures' = TRUE /\ UNCHANGED <<fileVars, bak>>
  /\ phase' = "remove"
  /\ cur'   = cur - 1
  /\ UNCHANGED <<edits, raced, locked, staged, replaced, undoTop, why, stuck, fmtVars>>

(* Mutant: backups that were not restored are forgotten.                    *)
RollbackEndKeeping ==
  /\ phase = "remove" /\ cur = 0
  /\ Fail(why)
  /\ UNCHANGED <<fileVars, edits, raced, cur, staged, bak, replaced, undoTop, failures, stuck,
                 fmtVars>>

(* abort_stale_transaction also removes the backups it did not restore.     *)
RollbackEnd ==
  /\ phase = "remove" /\ cur = 0
  /\ Fail(why)
  /\ RemoveBackups({f \in Files : why = "stale" /\ f > undoTop})
  /\ UNCHANGED <<fileVars, edits, raced, cur, staged, replaced, undoTop, failures, stuckTmp, fmtVars>>

(***************************************************************************)
(* mux fmt                                                                  *)
(***************************************************************************)
FmtEnd == fmtPhase' = "end" /\ fmtLock' = 0

(* Read and format every file before any is written; an unreadable file or  *)
(* a syntax error ends the command.                                         *)
FmtRead ==
  /\ fmtPhase = "read"
  /\ \/ /\ content[fmtCur] # Gone
        /\ snap'     = [snap EXCEPT ![fmtCur] = content[fmtCur]]
        /\ fmtPhase' = IF fmtCur = NFiles THEN "lock" ELSE "read"
        /\ fmtCur'   = IF fmtCur = NFiles THEN 1 ELSE fmtCur + 1
        /\ UNCHANGED fmtLock
     \/ FmtEnd /\ UNCHANGED <<fmtCur, snap>>
  /\ UNCHANGED <<fileVars, edits, raced, fixVars>>

FmtNext ==
  /\ fmtPhase' = IF fmtCur = NFiles THEN "end" ELSE "lock"
  /\ fmtCur'   = IF fmtCur = NFiles THEN fmtCur ELSE fmtCur + 1
  /\ fmtLock'  = 0

(* replace_if_unchanged: a file that is formatted already is no change;     *)
(* otherwise lock the file at the path and compare it with what was read.   *)
FmtLock ==
  /\ fmtPhase = "lock"
  /\ \/ snap[fmtCur] = Fmt /\ FmtNext
     \/ /\ snap[fmtCur] # Fmt
        /\ content[fmtCur] = snap[fmtCur]
        /\ locked[fmtCur] # gen[fmtCur]
        /\ fmtLock'  = gen[fmtCur]
        /\ fmtPhase' = "check"
        /\ UNCHANGED fmtCur
     \/ /\ snap[fmtCur] # Fmt
        /\ content[fmtCur] # snap[fmtCur] \/ locked[fmtCur] = gen[fmtCur]
        /\ FmtEnd
        /\ UNCHANGED fmtCur
  /\ UNCHANGED <<fileVars, edits, raced, fixVars, snap>>

(* Stage the formatted text, then compare once more.                        *)
FmtCheck ==
  /\ fmtPhase = "check"
  /\ \/ /\ content[fmtCur] = snap[fmtCur]
        /\ fmtPhase' = "rename"
        /\ UNCHANGED fmtLock
     \/ FmtEnd
  /\ UNCHANGED <<fileVars, edits, raced, fixVars, fmtCur, snap>>

FmtRename ==
  /\ fmtPhase = "rename"
  /\ \/ RenameOnto(fmtCur, Fmt) /\ FmtNext
     \/ FmtEnd /\ UNCHANGED <<fileVars, fmtCur>>
  /\ UNCHANGED <<edits, raced, fixVars, snap>>

(***************************************************************************)
(* The user, who takes no lock: an editor that writes the file in place, or *)
(* one that removes it (and may write it again).                            *)
(***************************************************************************)
UserWrites(f) ==
  /\ edits < MaxEdits
  /\ content' = [content EXCEPT ![f] = Edit]
  /\ gen'     = IF content[f] = Gone THEN [gen EXCEPT ![f] = @ + 1] ELSE gen
  /\ edits'   = edits + 1
  /\ raced'   = IF phase = "rename" /\ cur = f THEN raced \cup {f} ELSE raced
  /\ UNCHANGED <<fixVars, fmtVars>>

UserRemoves(f) ==
  /\ edits < MaxEdits
  /\ content[f] # Gone
  /\ content' = [content EXCEPT ![f] = Gone]
  /\ edits'   = edits + 1
  /\ UNCHANGED <<gen, raced, fixVars, fmtVars>>

FixStep ==
  \/ FixResolve \/ FixStage \/ FixBackup \/ FixCheck \/ FixRename
  \/ RollbackRemove \/ RollbackRestore \/ RollbackEnd

FmtStep == FmtRead \/ FmtLock \/ FmtCheck \/ FmtRename

Next ==
  \/ FixStep
  \/ FmtStep
  \/ \E f \in Files : UserWrites(f) \/ UserRemoves(f)

(* Both commands are single threads that never wait for each other.         *)
Spec == Init /\ [][Next]_vars /\ WF_vars(FixStep) /\ WF_vars(FmtStep)

(***************************************************************************)
(* Properties                                                               *)
(***************************************************************************)

FmtTypeOK ==
  /\ fmtPhase \in {"read", "lock", "check", "rename", "end"}
  /\ fmtCur \in Files /\ fmtLock \in Nat
  /\ snap \in [Files -> Content \cup {None}]

(* The variables stay in their ranges.                                      *)
TypeOK ==
  /\ content \in [Files -> Content] /\ gen \in [Files -> Nat]
  /\ edits \in 0..MaxEdits
  /\ phase \in {"resolve", "stage", "backup", "check", "rename", "remove", "restore"} \cup Ended
  /\ cur \in 0..NFiles /\ undoTop \in 0..NFiles
  /\ locked \in [Files -> Nat]
  /\ staged \subseteq Files /\ replaced \subseteq Files
  /\ bak \in [Files -> (Content \ {Gone}) \cup {None, Torn}]
  /\ stuckTmp \subseteq Files /\ stuckBak \subseteq Files
  /\ why \in {None, "refused", "staging", "backup", "unreadable", "stale", "rename"}
  /\ failures \in BOOLEAN /\ raced \subseteq Files
  /\ FmtTypeOK

(* All or nothing: a `mux fix` that reports an error has left none of its   *)
(* replacements behind, unless it says that the rollback failed.  Only the  *)
(* early return of an unreadable target is excepted here (see               *)
(* FailedFixRestores).                                                      *)
AllOrNothing ==
  phase = "error" /\ ~failures /\ why # "unreadable" =>
    \A f \in Files : content[f] # Fixed

(* write_transaction's comment: "if any later replacement fails, all        *)
(* already-replaced files are restored before the error is returned".       *)
FailedFixRestores ==
  phase = "error" /\ ~failures => \A f \in Files : content[f] # Fixed

(* No temporary or backup file is forgotten: one that outlives the command  *)
(* could not be removed, unless the error says that the rollback failed or  *)
(* a target could not be read.                                              *)
NothingLeftBehind ==
  phase \in Ended /\ ~failures /\ why # "unreadable" =>
    /\ staged \subseteq stuckTmp
    /\ \A f \in Files : bak[f] # None => f \in stuckBak

(* "Originals are copied to private backups before replacement": until the  *)
(* whole replacement is committed, the text that was analysed is in the     *)
(* backup of every path that holds the new one, wherever the command stops  *)
(* and whichever steps of its rollback and cleanup fail.                    *)
OldTextKept ==
  phase # "done" => \A f \in Files : content[f] = Fixed => bak[f] = Orig

(* A user's text is overwritten by `mux fix` only in the window between the *)
(* last comparison and the rename, or by a rollback: an edit that the       *)
(* command has seen makes it refuse.  The rollback of a failed rename       *)
(* restores every backup, also over files that were never replaced; the     *)
(* locks do not prevent it, they are on inodes.                             *)
SeenEditsKept ==
  [][\A f \in Files :
       FixStep /\ content[f] = Edit /\ content'[f] # Edit =>
         \/ phase = "rename" /\ cur = f /\ f \in raced
         \/ phase \in {"remove", "restore"} /\ cur = f /\ (f \in replaced \/ why \in {"rename", "backup"})]_vars

(* Both commands come to an end.                                            *)
Terminates == <>(phase \in Ended /\ fmtPhase = "end")

=============================================================================
