------------------------- MODULE InstallTransaction -------------------------
(***************************************************************************)
(* The file transaction of the updater (mux-update/src/transaction.rs):     *)
(* `install` replaces the files of an installed compiler by those of a      *)
(* downloaded bundle, receipt last, and undoes what it did when a step      *)
(* fails, when the new compiler does not validate, or when the user cancels.*)
(*                                                                         *)
(* One behaviour is one call of `install`, made under the exclusive         *)
(* installation lock (module Updater), with what can happen around it: a    *)
(* rename or an unlink that fails, Ctrl-C, a process that dies between two  *)
(* system calls, a file that somebody else creates at a path the            *)
(* transaction looks at, and a later launcher cleaning up old launchers.    *)
(*                                                                         *)
(* The files are numbered in the order of the BTreeSet `all` that `prepare` *)
(* iterates over; the receipt is the last item of the plan.                 *)
(***************************************************************************)
EXTENDS Integers

CONSTANTS
  NFiles,    (* number of files the old or the new receipt owns             *)
  OldFiles,  (* files the installed receipt owns                            *)
  NewFiles,  (* files of the bundle, owned by the receipt to be written     *)
  Launcher,  (* the file bin/mux                                            *)
  Probed,    (* executables that validate_directory runs: the launcher, on
                Windows the driver too                                      *)
  Windows    (* cfg!(windows): the launcher's backup is kept outside the
                staging directories                                         *)

Files       == 1..NFiles
ReceiptItem == NFiles + 1
Items       == 1..ReceiptItem

ASSUME TransactionAssumption ==
  /\ NFiles \in Nat \ {0}
  /\ OldFiles \subseteq Files
  /\ NewFiles \subseteq Files
  /\ OldFiles \cup NewFiles = Files
  /\ Launcher \in OldFiles \cap NewFiles
  /\ Launcher \in Probed /\ Probed \subseteq NewFiles
  /\ Windows \in BOOLEAN

(* What a path holds: nothing, the old or the new installation's file, a    *)
(* file of the user's own, or something that is not a regular file.         *)
Old     == "old"
New     == "new"
Absent  == "absent"
User    == "user"
Special == "special"
Content == {Old, New, Absent, User, Special}

VARIABLES
  disk,       (* content of the destination path of every item              *)
  backup,     (* content of the backup path of every item                   *)
  existed,    (* items whose Prepared.existed is true                       *)
  phase,      (* where `install` is                                         *)
  cur,        (* the item the current loop is at                            *)
  cancelled,  (* cancellation::CANCELLED                                    *)
  errors,     (* rollback's `errors` is not empty                           *)
  before      (* history: content of every destination when it was inspected *)

vars == <<disk, backup, existed, phase, cur, cancelled, errors, before>>

NewItems == NewFiles \cup {ReceiptItem}

Running  == {"start", "prepare", "backup", "place", "validate", "remove", "restore"}
Finished == {"failed", "committed", "restored", "rollbackFailed", "crashed"}

(***************************************************************************)
(* The installation an updater can find: owned files are in place unless    *)
(* the user removed or replaced them, other paths may be taken.             *)
(***************************************************************************)
Init ==
  /\ disk \in [Items -> Content \ {New}]
  /\ disk[ReceiptItem] = Old
  /\ \A f \in Files \ OldFiles : disk[f] # Old
  /\ backup    = [i \in Items |-> Absent]
  /\ existed   = {}
  /\ phase     = "start"
  /\ cur       = 1
  /\ cancelled = FALSE
  /\ errors    = FALSE
  /\ before    = disk

(***************************************************************************)
(* install: validate the bundle between two cancellation checks and create  *)
(* the staging directories.  Any of it may fail, with nothing touched.      *)
(***************************************************************************)
ValidateBundle ==
  /\ phase = "start"
  /\ \/ ~cancelled /\ phase' = "prepare"
     \/ phase' = "failed"
  /\ UNCHANGED <<disk, backup, existed, cur, cancelled, errors, before>>

(* Mutant: no ownership check.                                              *)
RefusedSpecialOnly(i) == disk[i] = Special

(***************************************************************************)
(* prepare, one item: inspect the destination, refuse what is not a regular *)
(* file or not owned, copy the replacement to the staging directory.  An    *)
(* error drops the staging directories; no destination was touched.         *)
(***************************************************************************)
Refused(i) ==
  \/ disk[i] = Special
  \/ disk[i] # Absent /\ i \in Files \ OldFiles

PrepareItem ==
  /\ phase = "prepare"
  /\ before' = [before EXCEPT ![cur] = disk[cur]]
  /\ \/ /\ ~Refused(cur)
        /\ existed' = IF disk[cur] = Absent THEN existed ELSE existed \cup {cur}
        /\ phase'   = IF cur = ReceiptItem THEN "backup" ELSE "prepare"
        /\ cur'     = IF cur = ReceiptItem THEN 1 ELSE cur + 1
     \/ \* refused, or staging the replacement failed
        phase' = "failed" /\ UNCHANGED <<existed, cur>>
  /\ UNCHANGED <<disk, backup, cancelled, errors>>

(* Mutants: `applied = index` and `applied = index + 2`.                    *)
UndoBackedUpOnly(last) ==
  /\ phase' = "remove"
  /\ cur'   = IF last = 0 THEN 0 ELSE last - 1

UndoOneMore(last) ==
  /\ phase' = "remove"
  /\ cur'   = last + 1

(***************************************************************************)
(* The apply loop.  `applied` counts an item once its backup is made, so a  *)
(* failed backup rolls back the items before it and a failed placement the  *)
(* item itself too.                                                         *)
(***************************************************************************)
Undo(last) ==
  /\ phase' = "remove"
  /\ cur'   = last

(* Mutant: only files that get a replacement are moved away.                *)
BackupReplacedOnly ==
  /\ phase = "backup"
  /\ ~cancelled
  /\ IF cur \in existed \cap NewItems
     THEN /\ backup' = [backup EXCEPT ![cur] = disk[cur]]
          /\ disk'   = [disk EXCEPT ![cur] = Absent]
     ELSE UNCHANGED <<backup, disk>>
  /\ phase' = "place"
  /\ UNCHANGED <<existed, cur, cancelled, errors, before>>

BackupItem ==
  /\ phase = "backup"
  /\ \/ /\ ~cancelled
        /\ IF cur \in existed
           THEN /\ backup' = [backup EXCEPT ![cur] = disk[cur]]
                /\ disk'   = [disk EXCEPT ![cur] = Absent]
           ELSE UNCHANGED <<backup, disk>>
        /\ phase' = "place"
        /\ UNCHANGED cur
     \/ \* cancelled, or the rename failed
        /\ cancelled \/ cur \in existed
        /\ Undo(cur - 1)
        /\ UNCHANGED <<disk, backup>>
  /\ UNCHANGED <<existed, cancelled, errors, before>>

PlaceItem ==
  /\ phase = "place"
  /\ \/ /\ disk' = IF cur \in NewItems THEN [disk EXCEPT ![cur] = New] ELSE disk
        /\ phase' = IF cur = ReceiptItem THEN "validate" ELSE "backup"
        /\ cur'   = IF cur = ReceiptItem THEN cur ELSE cur + 1
     \/ \* the rename failed
        /\ cur \in NewItems
        /\ Undo(cur)
        /\ UNCHANGED disk
  /\ UNCHANGED <<backup, existed, cancelled, errors, before>>

(* Dropping the two staging directories removes the backups, except for a   *)
(* Windows launcher, whose backup is renamed into bin_dir itself.           *)
DropStages ==
  backup' = [i \in Items |-> IF Windows /\ i = Launcher THEN backup[i] ELSE Absent]

(* Mutant: no cancellation check after the loop.                            *)
ValidateIgnoringCancel ==
  /\ phase = "validate"
  /\ \A f \in Probed : disk[f] = New
  /\ phase' = "committed"
  /\ DropStages
  /\ UNCHANGED <<disk, existed, cur, cancelled, errors, before>>

(***************************************************************************)
(* Cancellation check, probe of the installed executables, cancellation     *)
(* check.  A probe succeeds only if the executable reports the new version; *)
(* it can also fail, time out after 15 seconds or be cancelled.             *)
(***************************************************************************)
ValidateInstalled ==
  /\ phase = "validate"
  /\ \/ /\ ~cancelled
        /\ \A f \in Probed : disk[f] = New
        /\ phase' = "committed"
        /\ DropStages
        /\ UNCHANGED cur
     \/ Undo(ReceiptItem) /\ UNCHANGED backup
  /\ UNCHANGED <<disk, existed, cancelled, errors, before>>

(***************************************************************************)
(* rollback, newest item first: remove the destination (a missing one is    *)
(* fine), then rename the backup back.  An error is recorded and the loop   *)
(* goes on.                                                                 *)
(***************************************************************************)
RemoveItem ==
  /\ phase = "remove" /\ cur > 0
  /\ \/ /\ disk'  = [disk EXCEPT ![cur] = Absent]
        /\ phase' = IF cur \in existed THEN "restore" ELSE "remove"
        /\ cur'   = IF cur \in existed THEN cur ELSE cur - 1
        /\ UNCHANGED errors
     \/ /\ disk[cur] # Absent
        /\ errors' = TRUE
        /\ cur' = cur - 1
        /\ UNCHANGED <<disk, phase>>
  /\ UNCHANGED <<backup, existed, cancelled, before>>

(* Mutant: the rollback loop does not advance after a restored file.        *)
RestoreSameItem ==
  /\ phase = "restore"
  /\ disk'   = [disk EXCEPT ![cur] = backup[cur]]
  /\ backup' = [backup EXCEPT ![cur] = Absent]
  /\ phase'  = "remove"
  /\ UNCHANGED <<existed, cur, cancelled, errors, before>>

RestoreItem ==
  /\ phase = "restore"
  /\ \/ /\ disk'   = [disk EXCEPT ![cur] = backup[cur]]
        /\ backup' = [backup EXCEPT ![cur] = Absent]
        /\ UNCHANGED errors
     \/ /\ errors' = TRUE
        /\ UNCHANGED <<disk, backup>>
  /\ phase' = "remove"
  /\ cur'   = cur - 1
  /\ UNCHANGED <<existed, cancelled, before>>

(* Mutants: the staging directories are dropped after a failed rollback too; *)
(* the failure is not reported.                                             *)
FinishDropping ==
  /\ phase = "remove" /\ cur = 0
  /\ phase' = IF errors THEN "rollbackFailed" ELSE "restored"
  /\ DropStages
  /\ UNCHANGED <<disk, existed, cur, cancelled, errors, before>>

FinishUnreported ==
  /\ phase = "remove" /\ cur = 0
  /\ phase' = "restored"
  /\ DropStages
  /\ UNCHANGED <<disk, existed, cur, cancelled, errors, before>>

(* Without errors the staging directories are dropped; otherwise they are   *)
(* kept and the error names them.                                           *)
FinishRollback ==
  /\ phase = "remove" /\ cur = 0
  /\ IF errors
     THEN phase' = "rollbackFailed" /\ UNCHANGED backup
     ELSE phase' = "restored" /\ DropStages
  /\ UNCHANGED <<disk, existed, cur, cancelled, errors, before>>

(***************************************************************************)
(* Around the transaction.                                                  *)
(***************************************************************************)

(* Ctrl-C or SIGTERM runs the handler that sets CANCELLED.                  *)
Cancel ==
  /\ phase \in Running /\ ~cancelled
  /\ cancelled' = TRUE
  /\ UNCHANGED <<disk, backup, existed, phase, cur, errors, before>>

(* The process is killed, or the machine stops: there is no journal, the    *)
(* directories stay as they are.                                            *)
Crash ==
  /\ phase \in Running
  /\ phase' = "crashed"
  /\ UNCHANGED <<disk, backup, existed, cur, cancelled, errors, before>>

(* Somebody else creates a file at a path that is free at that moment.      *)
UserCreates(f) ==
  /\ phase \in Running
  /\ disk[f] = Absent
  /\ disk' = [disk EXCEPT ![f] = User]
  /\ UNCHANGED <<backup, existed, phase, cur, cancelled, errors, before>>

(* Mutant: the cleanup matches every directory of the transaction.          *)
CleanupEverything ==
  /\ Windows
  /\ phase \in Finished
  /\ disk[Launcher] \notin {Absent, Special}
  /\ disk[ReceiptItem] # Absent
  /\ backup' = [i \in Items |-> Absent]
  /\ UNCHANGED <<disk, existed, phase, cur, cancelled, errors, before>>

(* cleanup_old_launchers (lib.rs): the next start of an installed Windows   *)
(* launcher that finds a receipt and gets the lock removes launcher backups. *)
CleanupOldLaunchers ==
  /\ Windows
  /\ phase \in Finished
  /\ disk[Launcher] \notin {Absent, Special}
  /\ disk[ReceiptItem] # Absent
  /\ backup[Launcher] # Absent
  /\ backup' = [backup EXCEPT ![Launcher] = Absent]
  /\ UNCHANGED <<disk, existed, phase, cur, cancelled, errors, before>>

Next ==
  \/ ValidateBundle \/ PrepareItem
  \/ BackupItem \/ PlaceItem \/ ValidateInstalled
  \/ RemoveItem \/ RestoreItem \/ FinishRollback
  \/ Cancel \/ Crash
  \/ \E f \in Files : UserCreates(f)
  \/ CleanupOldLaunchers

Spec == Init /\ [][Next]_vars

(* `install` is one thread that always has a next step until it returns;    *)
(* every wait in it is bounded (the probe's by its timeout).                *)
Step ==
  \/ ValidateBundle \/ PrepareItem
  \/ BackupItem \/ PlaceItem \/ ValidateInstalled
  \/ RemoveItem \/ RestoreItem \/ FinishRollback

FairSpec == Spec /\ WF_vars(Step)

(***************************************************************************)
(* What an item looks like before, during and after its turn in the loop.   *)
(***************************************************************************)
Vacant(i) == disk[i] \in {Absent, User}

Untouched(i) ==
  /\ backup[i] = Absent
  /\ IF i \in existed THEN disk[i] = before[i] ELSE Vacant(i)

BackedUp(i) ==
  /\ backup[i] = IF i \in existed THEN before[i] ELSE Absent
  /\ Vacant(i)

Placed(i) ==
  /\ backup[i] = IF i \in existed THEN before[i] ELSE Absent
  /\ IF i \in NewItems THEN disk[i] = New ELSE Vacant(i)

(***************************************************************************)
(* Properties                                                               *)
(***************************************************************************)

(* The variables stay in their ranges; `cur` is an index of the plan, or 0  *)
(* when the rollback loop is through.                                       *)
TypeOK ==
  /\ disk      \in [Items -> Content]
  /\ backup    \in [Items -> Content]
  /\ before    \in [Items -> Content]
  /\ existed   \in SUBSET Items
  /\ phase     \in Running \cup Finished
  /\ cur       \in 0..ReceiptItem
  /\ cancelled \in BOOLEAN
  /\ errors    \in BOOLEAN

(* "Previous Mux installation restored": when install returns with that     *)
(* message every file that was there when the transaction inspected it is   *)
(* there again with the same content, and no file of the bundle is left.    *)
RestoredExactly ==
  phase = "restored" =>
    \A i \in Items : IF i \in existed THEN disk[i] = before[i] ELSE Vacant(i)

(* Until the update is committed, every file of the previous installation   *)
(* is at its place or in its backup, whatever fails and wherever the        *)
(* process dies: nothing the user would need to recover is lost.  Only the  *)
(* backup of a Windows launcher is not safe any more when the transaction   *)
(* is over (see RecoveryFilesRemain).                                       *)
Recoverable ==
  phase # "committed" =>
    \A i \in existed :
      \/ disk[i] = before[i] \/ backup[i] = before[i]
      \/ Windows /\ i = Launcher /\ phase \in Finished

(* The error of a failed rollback: "Recovery files remain in {} and {}; do  *)
(* not delete them before restoring Mux."  Whatever it could not put back   *)
(* stays in its backup.                                                     *)
RecoveryFilesRemain ==
  phase = "rollbackFailed" =>
    \A i \in existed : disk[i] = before[i] \/ backup[i] = before[i]

(* The receipt goes in last and comes out first: as long as no undo step    *)
(* has failed, a receipt of the new version on disk means that every file   *)
(* it owns is the new one and no file of the old version is left over, even *)
(* in the middle of the transaction and after a crash.                      *)
ReceiptLast ==
  disk[ReceiptItem] = New /\ ~errors =>
    /\ \A f \in NewFiles : disk[f] = New
    /\ \A f \in Files \ NewFiles : Vacant(f)

(* A file that Mux does not own is destroyed only in the window between the *)
(* ownership check of `prepare` and the end of the transaction: it has to   *)
(* have been created after the check found its path free.                   *)
UnownedKept ==
  [][\A f \in Files \ OldFiles :
       disk[f] = User /\ disk'[f] # User =>
         phase \in {"place", "remove"} /\ before[f] = Absent]_vars

(* install always returns: no failure or cancellation leaves it looping.    *)
Terminates == <>(phase \in Finished)

(* A cancellation that arrives while files are being replaced or validated  *)
(* always ends with the rollback having run (or with the process killed),   *)
(* never with the new version installed.                                    *)
CancelRollsBack ==
  cancelled /\ phase \in {"backup", "place", "validate"} ~>
    phase \in {"restored", "rollbackFailed", "crashed"}

(* The inductive invariant: what every item looks like in each phase.  Items *)
(* before `cur` have been placed and items after it are as they were; in a  *)
(* rollback the items after `cur` are restored, or stuck with their backup  *)
(* still there and the error recorded.                                      *)
Stuck(i) == errors /\ (i \in existed => backup[i] = before[i])

Undone(i) == Untouched(i) \/ Stuck(i)

Inspected ==
  /\ \A i \in existed : before[i] \notin {Absent, New}
  /\ existed \cap Files \subseteq OldFiles
  /\ ReceiptItem \in existed => before[ReceiptItem] = Old
  /\ phase = "prepare" => \A i \in 1..(cur - 1) : i \in existed \/ before[i] = Absent
  /\ phase \notin {"start", "prepare", "failed", "crashed"} =>
       /\ ReceiptItem \in existed
       /\ \A i \in Items \ existed : before[i] = Absent

PhaseInv ==
  /\ errors => phase \in {"remove", "restore", "rollbackFailed", "crashed"}
  /\ phase \in {"start", "prepare", "failed"} =>
       /\ \A i \in Items : backup[i] = Absent /\ disk[i] # New
       /\ \A i \in existed : disk[i] = before[i]
       /\ disk[ReceiptItem] = Old
  /\ phase = "start" => existed = {} /\ cur = 1
  /\ phase = "prepare" =>
       /\ cur \in Items
       /\ existed \subseteq 1..(cur - 1)
       /\ \A i \in 1..(cur - 1) : Untouched(i)
  /\ phase = "backup" =>
       /\ cur \in Items
       /\ \A i \in 1..(cur - 1) : Placed(i)
       /\ \A i \in cur..ReceiptItem : Untouched(i)
  /\ phase = "place" =>
       /\ cur \in Items
       /\ \A i \in 1..(cur - 1) : Placed(i)
       /\ BackedUp(cur)
       /\ \A i \in (cur + 1)..ReceiptItem : Untouched(i)
  /\ phase = "validate" => \A i \in Items : Placed(i)
  /\ phase = "remove" =>
       /\ \A i \in 1..(cur - 1) : Placed(i)
       /\ cur > 0 => Placed(cur) \/ BackedUp(cur)
       /\ \A i \in (cur + 1)..ReceiptItem : Undone(i)
  /\ phase = "restore" =>
       /\ cur \in existed
       /\ \A i \in 1..(cur - 1) : Placed(i)
       /\ BackedUp(cur)
       /\ \A i \in (cur + 1)..ReceiptItem : Undone(i)
  /\ phase = "restored" => \A i \in Items : Untouched(i)
  /\ phase = "committed" => disk[ReceiptItem] = New

IInv == TypeOK /\ Inspected /\ PhaseInv /\ Recoverable /\ ReceiptLast

(***************************************************************************)
(* What the users of `install` rely on, module InstallContract.             *)
(***************************************************************************)
Outcome ==
  CASE phase \in {"failed", "restored"}            -> "restored"
    [] phase = "committed"                         -> "committed"
    [] phase \in {"crashed", "rollbackFailed"}     -> "broken"
    [] errors /\ phase \in Running                 -> "broken"
    [] OTHER                                       -> "running"

FilesView ==
  IF phase \in {"start", "prepare", "failed"} \/ \A f \in Files : Untouched(f)
  THEN "before"
  ELSE IF (\A f \in NewFiles : disk[f] = New) /\ (\A f \in Files \ NewFiles : Vacant(f))
       THEN "after"
       ELSE "mixed"

ReceiptView ==
  CASE disk[ReceiptItem] = Old    -> "before"
    [] disk[ReceiptItem] = New    -> "after"
    [] OTHER                      -> "absent"

Contract == INSTANCE InstallContract WITH
  outcome <- Outcome, files <- FilesView, receipt <- ReceiptView

(* Every behaviour of the transaction is one the contract allows.           *)
ImplementsContract == Contract!Spec

=============================================================================
