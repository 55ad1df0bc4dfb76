---------------------- MODULE InstallTransactionProofs ----------------------
(***************************************************************************)
(* Proofs about transaction::install, for every set of files.               *)
(***************************************************************************)
EXTENDS InstallTransaction, TLAPS

USE TransactionAssumption DEF Files, ReceiptItem, Items

(* The bundle check touches no file.                                        *)
LEMMA ValidateBundleStep ==
  ASSUME IInv, ValidateBundle
  PROVE  IInv'
<1> USE DEF Content, Old, New, Absent, User, Special, Running, Finished, NewItems
<1>1. TypeOK'
  BY DEF IInv, TypeOK, PhaseInv, ValidateBundle
<1>2. Inspected'
  BY DEF IInv, TypeOK, Inspected, PhaseInv, ValidateBundle
<1>3. PhaseInv'
  BY DEF IInv, TypeOK, Inspected, PhaseInv, Vacant, Untouched, BackedUp, Placed, Stuck, Undone, ValidateBundle
<1>4. Recoverable'
  BY DEF IInv, TypeOK, Inspected, PhaseInv, Recoverable, Vacant, Untouched, BackedUp, Placed, Stuck, Undone, ValidateBundle
<1>5. ReceiptLast'
  BY DEF IInv, TypeOK, Inspected, PhaseInv, ReceiptLast, Vacant, Untouched, BackedUp, Placed, Stuck, Undone, ValidateBundle
<1> QED
  BY <1>1, <1>2, <1>3, <1>4, <1>5 DEF IInv

(* Inspecting an item records what is there and refuses what is not owned.  *)
LEMMA PrepareItemStep ==
  ASSUME IInv, PrepareItem
  PROVE  IInv'
<1> USE DEF Content, Old, New, Absent, User, Special, Running, Finished, NewItems
<1>1. TypeOK'
  <2>1. existed' \in SUBSET Items
    BY DEF IInv, TypeOK, PhaseInv, PrepareItem
  <2>2. cur' \in 0..ReceiptItem
    BY DEF IInv, TypeOK, PhaseInv, PrepareItem
  <2>3. phase' \in Running \cup Finished
    BY DEF PrepareItem
  <2>4. before' \in [Items -> Content]
    BY DEF IInv, TypeOK, PrepareItem
  <2> QED
    BY <2>1, <2>2, <2>3, <2>4 DEF IInv, TypeOK, PrepareItem
<1>2. Inspected'
  <2>1. CASE phase' = "failed"
    BY <2>1 DEF IInv, TypeOK, Inspected, PhaseInv, PrepareItem
  <2>2. CASE phase' # "failed"
    <3>1. /\ phase = "prepare" /\ cur \in Items /\ ~Refused(cur)
          /\ existed' = IF disk[cur] = Absent THEN existed ELSE existed \cup {cur}
          /\ before'  = [before EXCEPT ![cur] = disk[cur]]
      BY <2>2 DEF IInv, TypeOK, PhaseInv, PrepareItem
    <3>2. \A i \in existed' : before'[i] \notin {Absent, New}
      BY <3>1 DEF IInv, TypeOK, PhaseInv, Inspected
    <3>3. existed' \cap Files \subseteq OldFiles
      BY <3>1 DEF IInv, Inspected, Refused
    <3>4. \A i \in 1..cur : i \in existed' \/ before'[i] = Absent
      BY <3>1 DEF IInv, TypeOK, Inspected
    <3>5. ReceiptItem \in existed' => before'[ReceiptItem] = Old
      BY <3>1 DEF IInv, TypeOK, PhaseInv, Inspected
    <3>6. cur = ReceiptItem => ReceiptItem \in existed'
      BY <3>1 DEF IInv, PhaseInv
    <3> QED
      BY <2>2, <3>1, <3>2, <3>3, <3>4, <3>5, <3>6 DEF PrepareItem, Inspected
  <2> QED
    BY <2>1, <2>2
<1>3. PhaseInv'
  <2>1. CASE phase' = "failed"
    BY <2>1 DEF IInv, TypeOK, Inspected, PhaseInv, PrepareItem
  <2>2. CASE phase' # "failed"
    <3>1. /\ phase = "prepare" /\ cur \in Items /\ ~Refused(cur)
          /\ existed' = IF disk[cur] = Absent THEN existed ELSE existed \cup {cur}
          /\ phase'   = IF cur = ReceiptItem THEN "backup" ELSE "prepare"
          /\ cur'     = IF cur = ReceiptItem THEN 1 ELSE cur + 1
          /\ before'  = [before EXCEPT ![cur] = disk[cur]]
          /\ UNCHANGED <<disk, backup, cancelled, errors>>
      BY <2>2 DEF IInv, TypeOK, PhaseInv, PrepareItem
    <3>2. \A i \in 1..cur : Untouched(i)'
      BY <3>1 DEF IInv, TypeOK, PhaseInv, Refused, Untouched, Vacant
    <3>3. \A i \in existed' : disk'[i] = before'[i]
      BY <3>1 DEF IInv, TypeOK, PhaseInv
    <3>4. disk'[ReceiptItem] = Old
      BY <3>1 DEF IInv, TypeOK, PhaseInv
    <3> QED
      BY <3>1, <3>2, <3>3, <3>4 DEF IInv, TypeOK, PhaseInv
  <2> QED
    BY <2>1, <2>2
<1>4. Recoverable'
  <2>1. \A i \in existed' : disk'[i] = before'[i]
    <3>1. phase = "prepare" /\ cur \in Items /\ \A i \in existed : disk[i] = before[i] /\ i # cur
      BY DEF IInv, TypeOK, PhaseInv, PrepareItem
    <3>2. /\ existed' \subseteq existed \cup {cur}
          /\ disk' = disk
          /\ before' = [before EXCEPT ![cur] = disk[cur]]
      BY DEF PrepareItem
    <3> QED
      BY <3>1, <3>2 DEF IInv, TypeOK
  <2> QED
    BY <2>1 DEF Recoverable
<1>5. ReceiptLast'
  BY DEF IInv, TypeOK, Inspected, PhaseInv, ReceiptLast, Vacant, Untouched, BackedUp, Placed, Stuck, Undone, PrepareItem, Refused
<1> QED
  BY <1>1, <1>2, <1>3, <1>4, <1>5 DEF IInv

(* Moving a file away keeps it in its backup.                               *)
LEMMA BackupItemStep ==
  ASSUME IInv, BackupItem
  PROVE  IInv'
<1> USE DEF Content, Old, New, Absent, User, Special, Running, Finished, NewItems
<1>1. TypeOK'
  BY DEF IInv, TypeOK, PhaseInv, BackupItem, Undo
<1>2. Inspected'
  BY DEF IInv, TypeOK, Inspected, PhaseInv, BackupItem, Undo
<1>3. PhaseInv'
  BY DEF IInv, TypeOK, Inspected, PhaseInv, Vacant, Untouched, BackedUp, Placed, Stuck, Undone, BackupItem, Undo
<1>4. Recoverable'
  BY DEF IInv, TypeOK, Inspected, PhaseInv, Recoverable, Vacant, Untouched, BackedUp, Placed, Stuck, Undone, BackupItem, Undo
<1>5. ReceiptLast'
  BY DEF IInv, TypeOK, Inspected, PhaseInv, ReceiptLast, Vacant, Untouched, BackedUp, Placed, Stuck, Undone, BackupItem, Undo
<1> QED
  BY <1>1, <1>2, <1>3, <1>4, <1>5 DEF IInv

(* Placing a file keeps the backup of the old one.                          *)
LEMMA PlaceItemStep ==
  ASSUME IInv, PlaceItem
  PROVE  IInv'
<1> USE DEF Content, Old, New, Absent, User, Special, Running, Finished, NewItems
<1>1. TypeOK'
  BY DEF IInv, TypeOK, PhaseInv, PlaceItem, Undo
<1>2. Inspected'
  BY DEF IInv, TypeOK, Inspected, PhaseInv, PlaceItem, Undo
<1>3. PhaseInv'
  BY DEF IInv, TypeOK, Inspected, PhaseInv, Vacant, Untouched, BackedUp, Placed, Stuck, Undone, PlaceItem, Undo
<1>4. Recoverable'
  BY DEF IInv, TypeOK, Inspected, PhaseInv, Recoverable, Vacant, Untouched, BackedUp, Placed, Stuck, Undone, PlaceItem, Undo
<1>5. ReceiptLast'
  BY DEF IInv, TypeOK, Inspected, PhaseInv, ReceiptLast, Vacant, Untouched, BackedUp, Placed, Stuck, Undone, PlaceItem, Undo
<1> QED
  BY <1>1, <1>2, <1>3, <1>4, <1>5 DEF IInv

(* The commit happens over a complete plan only.                            *)
LEMMA ValidateInstalledStep ==
  ASSUME IInv, ValidateInstalled
  PROVE  IInv'
<1> USE DEF Content, Old, New, Absent, User, Special, Running, Finished, NewItems
<1>1. TypeOK'
  BY DEF IInv, TypeOK, PhaseInv, ValidateInstalled, Undo, DropStages
<1>2. Inspected'
  BY DEF IInv, TypeOK, Inspected, PhaseInv, ValidateInstalled, Undo, DropStages
<1>3. PhaseInv'
  BY DEF IInv, TypeOK, Inspected, PhaseInv, Vacant, Untouched, BackedUp, Placed, Stuck, Undone, ValidateInstalled, Undo, DropStages
<1>4. Recoverable'
  BY DEF IInv, TypeOK, Inspected, PhaseInv, Recoverable, Vacant, Untouched, BackedUp, Placed, Stuck, Undone, ValidateInstalled, Undo, DropStages
<1>5. ReceiptLast'
  BY DEF IInv, TypeOK, Inspected, PhaseInv, ReceiptLast, Vacant, Untouched, BackedUp, Placed, Stuck, Undone, ValidateInstalled, Undo, DropStages
<1> QED
  BY <1>1, <1>2, <1>3, <1>4, <1>5 DEF IInv

(* Removing a destination in the rollback never touches a backup.           *)
LEMMA RemoveItemStep ==
  ASSUME IInv, RemoveItem
  PROVE  IInv'
<1> USE DEF Content, Old, New, Absent, User, Special, Running, Finished, NewItems
<1>1. TypeOK'
  <2>1. errors' \in BOOLEAN /\ cancelled' \in BOOLEAN
    BY Zenon DEF IInv, TypeOK, RemoveItem
  <2>2. cur' \in 0..ReceiptItem /\ phase' \in Running \cup Finished
    BY DEF IInv, TypeOK, PhaseInv, RemoveItem
  <2>3. /\ disk' \in [Items -> Content]
        /\ backup' \in [Items -> Content]
    BY DEF IInv, TypeOK, PhaseInv, RemoveItem
  <2> QED
    BY <2>1, <2>2, <2>3 DEF IInv, TypeOK, RemoveItem
<1>2. Inspected'
  BY DEF IInv, TypeOK, Inspected, PhaseInv, RemoveItem
<1>3. PhaseInv'
  BY DEF IInv, TypeOK, Inspected, PhaseInv, Vacant, Untouched, BackedUp, Placed, Stuck, Undone, RemoveItem
<1>4. Recoverable'
  BY DEF IInv, TypeOK, Inspected, PhaseInv, Recoverable, Vacant, Untouched, BackedUp, Placed, Stuck, Undone, RemoveItem
<1>5. ReceiptLast'
  BY DEF IInv, TypeOK, Inspected, PhaseInv, ReceiptLast, Vacant, Untouched, BackedUp, Placed, Stuck, Undone, RemoveItem
<1> QED
  BY <1>1, <1>2, <1>3, <1>4, <1>5 DEF IInv

(* Restoring moves the backup back or leaves it where it is.                *)
LEMMA RestoreItemStep ==
  ASSUME IInv, RestoreItem
  PROVE  IInv'
<1> USE DEF Content, Old, New, Absent, User, Special, Running, Finished, NewItems
<1>1. TypeOK'
  <2>1. errors' \in BOOLEAN /\ cancelled' \in BOOLEAN
    BY Zenon DEF IInv, TypeOK, RestoreItem
  <2>2. cur' \in 0..ReceiptItem /\ phase' \in Running \cup Finished
    BY DEF IInv, TypeOK, PhaseInv, RestoreItem
  <2>3. /\ disk' \in [Items -> Content]
        /\ backup' \in [Items -> Content]
    BY DEF IInv, TypeOK, PhaseInv, RestoreItem
  <2> QED
    BY <2>1, <2>2, <2>3 DEF IInv, TypeOK, RestoreItem
<1>2. Inspected'
  BY DEF IInv, TypeOK, Inspected, PhaseInv, RestoreItem
<1>3. PhaseInv'
  BY DEF IInv, TypeOK, Inspected, PhaseInv, Vacant, Untouched, BackedUp, Placed, Stuck, Undone, RestoreItem
<1>4. Recoverable'
  BY DEF IInv, TypeOK, Inspected, PhaseInv, Recoverable, Vacant, Untouched, BackedUp, Placed, Stuck, Undone, RestoreItem
<1>5. ReceiptLast'
  BY DEF IInv, TypeOK, Inspected, PhaseInv, ReceiptLast, Vacant, Untouched, BackedUp, Placed, Stuck, Undone, RestoreItem
<1> QED
  BY <1>1, <1>2, <1>3, <1>4, <1>5 DEF IInv

(* The backups are dropped only when every item has been undone.            *)
LEMMA FinishRollbackStep ==
  ASSUME IInv, FinishRollback
  PROVE  IInv'
<1> USE DEF Content, Old, New, Absent, User, Special, Running, Finished, NewItems
<1>1. TypeOK'
  BY DEF IInv, TypeOK, PhaseInv, FinishRollback, DropStages
<1>2. Inspected'
  BY DEF IInv, TypeOK, Inspected, PhaseInv, FinishRollback, DropStages
<1>3. PhaseInv'
  BY DEF IInv, TypeOK, Inspected, PhaseInv, Vacant, Untouched, BackedUp, Placed, Stuck, Undone, FinishRollback, DropStages
<1>4. Recoverable'
  BY DEF IInv, TypeOK, Inspected, PhaseInv, Recoverable, Vacant, Untouched, BackedUp, Placed, Stuck, Undone, FinishRollback, DropStages
<1>5. ReceiptLast'
  BY DEF IInv, TypeOK, Inspected, PhaseInv, ReceiptLast, Vacant, Untouched, BackedUp, Placed, Stuck, Undone, FinishRollback, DropStages
<1> QED
  BY <1>1, <1>2, <1>3, <1>4, <1>5 DEF IInv

(* A cancellation only sets its flag.                                       *)
LEMMA CancelStep ==
  ASSUME IInv, Cancel
  PROVE  IInv'
<1> USE DEF Content, Old, New, Absent, User, Special, Running, Finished, NewItems
<1>1. TypeOK'
  BY DEF IInv, TypeOK, PhaseInv, Cancel
<1>2. Inspected'
  BY DEF IInv, TypeOK, Inspected, PhaseInv, Cancel
<1>3. PhaseInv'
  BY DEF IInv, TypeOK, Inspected, PhaseInv, Vacant, Untouched, BackedUp, Placed, Stuck, Undone, Cancel
<1>4. Recoverable'
  BY DEF IInv, TypeOK, Inspected, PhaseInv, Recoverable, Vacant, Untouched, BackedUp, Placed, Stuck, Undone, Cancel
<1>5. ReceiptLast'
  BY DEF IInv, TypeOK, Inspected, PhaseInv, ReceiptLast, Vacant, Untouched, BackedUp, Placed, Stuck, Undone, Cancel
<1> QED
  BY <1>1, <1>2, <1>3, <1>4, <1>5 DEF IInv

(* A dead process leaves the disk as it is.                                 *)
LEMMA CrashStep ==
  ASSUME IInv, Crash
  PROVE  IInv'
<1> USE DEF Content, Old, New, Absent, User, Special, Running, Finished, NewItems
<1>1. TypeOK'
  BY DEF IInv, TypeOK, PhaseInv, Crash
<1>2. Inspected'
  BY DEF IInv, TypeOK, Inspected, PhaseInv, Crash
<1>3. PhaseInv'
  BY DEF IInv, TypeOK, Inspected, PhaseInv, Vacant, Untouched, BackedUp, Placed, Stuck, Undone, Crash
<1>4. Recoverable'
  BY DEF IInv, TypeOK, Inspected, PhaseInv, Recoverable, Vacant, Untouched, BackedUp, Placed, Stuck, Undone, Crash
<1>5. ReceiptLast'
  BY DEF IInv, TypeOK, Inspected, PhaseInv, ReceiptLast, Vacant, Untouched, BackedUp, Placed, Stuck, Undone, Crash
<1> QED
  BY <1>1, <1>2, <1>3, <1>4, <1>5 DEF IInv

(* A file created by somebody else takes a free path only.                  *)
LEMMA UserCreatesStep ==
  ASSUME IInv, NEW f \in Files, UserCreates(f)
  PROVE  IInv'
<1> USE DEF Content, Old, New, Absent, User, Special, Running, Finished, NewItems
<1>1. TypeOK'
  BY DEF IInv, TypeOK, PhaseInv, UserCreates
<1>2. Inspected'
  BY DEF IInv, TypeOK, Inspected, PhaseInv, UserCreates
<1>3. PhaseInv'
  BY DEF IInv, TypeOK, Inspected, PhaseInv, Vacant, Untouched, BackedUp, Placed, Stuck, Undone, UserCreates
<1>4. Recoverable'
  BY DEF IInv, TypeOK, Inspected, PhaseInv, Recoverable, Vacant, Untouched, BackedUp, Placed, Stuck, Undone, UserCreates
<1>5. ReceiptLast'
  BY DEF IInv, TypeOK, Inspected, PhaseInv, ReceiptLast, Vacant, Untouched, BackedUp, Placed, Stuck, Undone, UserCreates
<1> QED
  BY <1>1, <1>2, <1>3, <1>4, <1>5 DEF IInv

(* The launcher cleanup runs after a transaction, on Windows.               *)
LEMMA CleanupOldLaunchersStep ==
  ASSUME IInv, CleanupOldLaunchers
  PROVE  IInv'
<1> USE DEF Content, Old, New, Absent, User, Special, Running, Finished, NewItems
<1>1. TypeOK'
  BY DEF IInv, TypeOK, PhaseInv, CleanupOldLaunchers
<1>2. Inspected'
  BY DEF IInv, TypeOK, Inspected, PhaseInv, CleanupOldLaunchers
<1>3. PhaseInv'
  BY DEF IInv, TypeOK, Inspected, PhaseInv, Vacant, Untouched, BackedUp, Placed, Stuck, Undone, CleanupOldLaunchers
<1>4. Recoverable'
  BY DEF IInv, TypeOK, Inspected, PhaseInv, Recoverable, Vacant, Untouched, BackedUp, Placed, Stuck, Undone, CleanupOldLaunchers
<1>5. ReceiptLast'
  BY DEF IInv, TypeOK, Inspected, PhaseInv, ReceiptLast, Vacant, Untouched, BackedUp, Placed, Stuck, Undone, CleanupOldLaunchers
<1> QED
  BY <1>1, <1>2, <1>3, <1>4, <1>5 DEF IInv

(* Steps of the rest of the system change nothing.                          *)
LEMMA StutterStep ==
  ASSUME IInv, UNCHANGED vars
  PROVE  IInv'
<1> USE DEF Content, Old, New, Absent, User, Special, Running, Finished, NewItems
<1>1. TypeOK'
  BY DEF IInv, TypeOK, PhaseInv, vars
<1>2. Inspected'
  BY DEF IInv, TypeOK, Inspected, PhaseInv, vars
<1>3. PhaseInv'
  BY DEF IInv, TypeOK, Inspected, PhaseInv, Vacant, Untouched, BackedUp, Placed, Stuck, Undone, vars
<1>4. Recoverable'
  BY DEF IInv, TypeOK, Inspected, PhaseInv, Recoverable, Vacant, Untouched, BackedUp, Placed, Stuck, Undone, vars
<1>5. ReceiptLast'
  BY DEF IInv, TypeOK, Inspected, PhaseInv, ReceiptLast, Vacant, Untouched, BackedUp, Placed, Stuck, Undone, vars
<1> QED
  BY <1>1, <1>2, <1>3, <1>4, <1>5 DEF IInv

(***************************************************************************)
(* The invariant holds initially and is preserved by every step.            *)
(***************************************************************************)
LEMMA InitIInv == Init => IInv
<1> USE DEF Content, Old, New, Absent, User, Special, Running, Finished, NewItems
<1> SUFFICES ASSUME Init PROVE IInv
  OBVIOUS
<1>1. TypeOK /\ Inspected
  <2>1. disk \in [Items -> Content] /\ before = disk
    BY DEF Init
  <2>2. backup \in [Items -> Content] /\ existed \in SUBSET Items
    BY DEF Init
  <2>3. cur \in 0..ReceiptItem /\ phase \in Running
    BY DEF Init
  <2>5. cancelled \in BOOLEAN /\ errors \in BOOLEAN
    BY Zenon DEF Init
  <2>4. Inspected
    BY DEF Init, Inspected
  <2> QED
    BY <2>1, <2>2, <2>3, <2>4, <2>5 DEF TypeOK
<1>2. PhaseInv
  BY DEF Init, PhaseInv
<1>3. Recoverable /\ ReceiptLast
  BY DEF Init, Recoverable, ReceiptLast
<1> QED
  BY <1>1, <1>2, <1>3 DEF IInv

(* Every step preserves the invariant.                                      *)
LEMMA NextIInv == IInv /\ [Next]_vars => IInv'
<1> SUFFICES ASSUME IInv, [Next]_vars PROVE IInv'
  OBVIOUS
<1>1. CASE \E f \in Files : UserCreates(f)
  BY <1>1, UserCreatesStep
<1>2. CASE UNCHANGED vars
  BY <1>2, StutterStep
<1> QED
  BY <1>1, <1>2, ValidateBundleStep, PrepareItemStep, BackupItemStep,
     PlaceItemStep, ValidateInstalledStep, RemoveItemStep, RestoreItemStep,
     FinishRollbackStep, CancelStep, CrashStep, CleanupOldLaunchersStep
  DEF Next

(* The inductive invariant holds in every state of the transaction.         *)
THEOREM InductiveInvariant == Spec => []IInv
  BY InitIInv, NextIInv, PTL DEF Spec

(* Type correctness of the transaction for every plan.                      *)
THEOREM TypeCorrect == Spec => []TypeOK
<1>1. IInv => TypeOK
  BY DEF IInv
<1> QED
  BY <1>1, InductiveInvariant, PTL

(* An `install` that reports "Previous Mux installation restored" has       *)
(* restored every file of it, for every number of files, every failing      *)
(* step and every point of cancellation.                                    *)
THEOREM RollbackRestores == Spec => []RestoredExactly
<1>1. IInv => RestoredExactly
  BY DEF IInv, TypeOK, PhaseInv, RestoredExactly, Untouched
<1> QED
  BY <1>1, InductiveInvariant, PTL

(* The receipt of the new version is on disk only over a complete new       *)
(* installation, also after a crash, unless an undo step failed.            *)
THEOREM ReceiptImpliesComplete == Spec => []ReceiptLast
<1>1. IInv => ReceiptLast
  BY DEF IInv
<1> QED
  BY <1>1, InductiveInvariant, PTL

(* No file of the previous installation is lost before the commit, but for  *)
(* the launcher of a finished transaction on Windows.                       *)
THEOREM NothingLost == Spec => []Recoverable
<1>1. IInv => Recoverable
  BY DEF IInv
<1> QED
  BY <1>1, InductiveInvariant, PTL

(* A file Mux does not own is only ever destroyed when it was created after *)
(* `prepare` had found its path free.                                       *)
THEOREM UnownedFilesKept == Spec => UnownedKept
<1>1. ASSUME IInv, [Next]_vars, NEW f \in Files \ OldFiles,
             disk[f] = User, disk'[f] # User
      PROVE  phase \in {"place", "remove"} /\ before[f] = Absent
  <2> USE DEF Absent, User, New, Old, Running, Finished
  <2>1. f \notin existed
    BY <1>1 DEF IInv, Inspected
  <2>2. phase \in {"place", "remove"} /\ cur = f
    BY <1>1, <2>1 DEF IInv, TypeOK, PhaseInv, Next, vars, ValidateBundle, PrepareItem,
       BackupItem, PlaceItem, ValidateInstalled, RemoveItem, RestoreItem,
       FinishRollback, Cancel, Crash, UserCreates, CleanupOldLaunchers
  <2> QED
    BY <2>1, <2>2, <1>1 DEF IInv, Inspected
<1>2. IInv /\ [Next]_vars =>
        [\A f \in Files \ OldFiles :
           disk[f] = User /\ disk'[f] # User =>
             phase \in {"place", "remove"} /\ before[f] = Absent]_vars
  BY <1>1
<1> QED
  BY <1>2, InductiveInvariant, PTL DEF Spec, UnownedKept

(***************************************************************************)
(* The transaction implements InstallContract.                              *)
(***************************************************************************)

(* The views are total.                                                     *)
LEMMA ViewTypes ==
  /\ FilesView \in Contract!FilesStates
  /\ ReceiptView \in Contract!ReceiptStates
  /\ Outcome \in {"running", "committed", "restored", "broken"}
  BY DEF FilesView, ReceiptView, Outcome, Contract!FilesStates, Contract!ReceiptStates

(* What the views are in the states in which the outcome can be decided.    *)
LEMMA ViewsOfPhases ==
  IInv =>/\ ~errors /\ ReceiptView = "after" => FilesView = "after"
         /\ phase = "validate" => FilesView = "after" /\ ReceiptView = "after"
         /\ phase = "committed" => FilesView = "after" /\ ReceiptView = "after"
         /\ phase \in {"start", "prepare", "failed"} => FilesView = "before" /\ ReceiptView = "before"
         /\ phase = "remove" /\ cur = 0 /\ ~errors => FilesView = "before" /\ ReceiptView = "before"
         /\ phase = "restored" => FilesView = "before" /\ ReceiptView = "before"
<1> USE DEF Absent, User, New, Old, NewItems
<1> HAVE IInv
<1>1. disk[ReceiptItem] = New /\ ~errors => FilesView = "after" /\ ReceiptView = "after"
  <2> SUFFICES ASSUME disk[ReceiptItem] = New, ~errors
               PROVE  FilesView = "after" /\ ReceiptView = "after"
    OBVIOUS
  <2>1. phase \notin {"start", "prepare", "failed"}
    BY DEF IInv, PhaseInv
  <2>2. ~ \A f \in Files : Untouched(f)
    BY DEF IInv, Inspected, ReceiptLast, Untouched, Vacant
  <2>3. /\ \A f \in NewFiles : disk[f] = New
        /\ \A f \in Files \ NewFiles : Vacant(f)
    BY DEF IInv, ReceiptLast
  <2> QED
    BY <2>1, <2>2, <2>3 DEF FilesView, ReceiptView
<1>2. phase \in {"validate", "committed"} => disk[ReceiptItem] = New /\ ~errors
  BY DEF IInv, PhaseInv, Placed
<1>3. phase \in {"start", "prepare", "failed"} => FilesView = "before" /\ ReceiptView = "before"
  BY DEF IInv, PhaseInv, FilesView, ReceiptView
<1>4. (phase = "remove" /\ cur = 0 /\ ~errors) \/ phase = "restored" =>
        \A i \in Items : Untouched(i)
  BY DEF IInv, PhaseInv, Undone, Stuck
<1>5. phase \in {"remove", "restored"} /\ (\A i \in Items : Untouched(i)) =>
        FilesView = "before" /\ ReceiptView = "before"
  <2> SUFFICES ASSUME phase \in {"remove", "restored"}, \A i \in Items : Untouched(i)
               PROVE  FilesView = "before" /\ ReceiptView = "before"
    OBVIOUS
  <2>1. FilesView = "before"
    BY DEF FilesView
  <2>2. disk[ReceiptItem] = Old
    BY DEF IInv, Inspected, Untouched
  <2> QED
    BY <2>1, <2>2 DEF ReceiptView
<1>6. ReceiptView = "after" => disk[ReceiptItem] = New
  BY DEF ReceiptView
<1> QED
  BY <1>1, <1>2, <1>3, <1>4, <1>5, <1>6

(* Initially the contract sees a running transaction over the old files.    *)
LEMMA InitContract == Init => Contract!Init
  BY DEF Init, Contract!Init, Outcome, FilesView, ReceiptView, Old, Running

(* The views after a step: a new receipt over complete files only.          *)
LEMMA PrimedViews ==
  /\ IInv' /\ ~errors' /\ ReceiptView' = "after" => FilesView' = "after"
  /\ FilesView' \in Contract!FilesStates
  /\ ReceiptView' \in Contract!ReceiptStates
<1>1. IInv /\ ~errors /\ ReceiptView = "after" => FilesView = "after"
  BY ViewsOfPhases
<1>2. (IInv /\ ~errors /\ ReceiptView = "after" => FilesView = "after")'
  BY <1>1, PTL
<1>3. FilesView' \in Contract!FilesStates /\ ReceiptView' \in Contract!ReceiptStates
  BY DEF FilesView, ReceiptView, Contract!FilesStates, Contract!ReceiptStates
<1> QED
  BY <1>2, <1>3

(* The views after the step that ends the transaction.                      *)
LEMMA FinalViews ==
  IInv' =>
    /\ phase' = "committed" => FilesView' = "after" /\ ReceiptView' = "after"
    /\ phase' \in {"failed", "restored"} => FilesView' = "before" /\ ReceiptView' = "before"
<1>1. IInv =>
        /\ phase = "committed" => FilesView = "after" /\ ReceiptView = "after"
        /\ phase \in {"failed", "restored"} => FilesView = "before" /\ ReceiptView = "before"
  BY ViewsOfPhases
<1>2. (IInv =>
        /\ phase = "committed" => FilesView = "after" /\ ReceiptView = "after"
        /\ phase \in {"failed", "restored"} => FilesView = "before" /\ ReceiptView = "before")'
  BY <1>1, PTL
<1> QED
  BY <1>2

(* Apart from the steps that end the transaction, outcomes only change to   *)
(* broken, and a finished transaction changes nothing the contract sees.    *)
LEMMA NextContract ==
  ASSUME IInv, IInv', [Next]_vars
  PROVE  [Contract!Next]_(Contract!vars)
<1>1. CASE Outcome = "running" /\ Outcome' = "running"
  <2>1. ~errors'
    BY <1>1 DEF IInv, PhaseInv, Outcome, Running
  <2>2. Contract!Work
    BY <1>1, <2>1, PrimedViews DEF Contract!Work
  <2> QED
    BY <2>2 DEF Contract!Next
<1>2. CASE Outcome \in {"running", "broken"} /\ Outcome' = "broken"
  <2>1. Contract!Break
    BY <1>2, PrimedViews DEF Contract!Break
  <2> QED
    BY <2>1 DEF Contract!Next
<1>3. CASE Outcome = "running" /\ Outcome' = "committed"
  <2>1. phase = "validate" /\ phase' = "committed" /\ UNCHANGED disk
    BY <1>3 DEF Outcome, Next, vars, ValidateBundle, PrepareItem, BackupItem, PlaceItem,
       ValidateInstalled, Undo, RemoveItem, RestoreItem, FinishRollback, Cancel, Crash,
       UserCreates, CleanupOldLaunchers, Running, Finished
  <2>2. Contract!Commit
    BY <1>3, <2>1, ViewsOfPhases, FinalViews DEF Contract!Commit
  <2> QED
    BY <2>2 DEF Contract!Next
<1>4. CASE Outcome = "running" /\ Outcome' = "restored"
  <2>1. /\ phase \in {"start", "prepare"} \/ (phase = "remove" /\ cur = 0 /\ ~errors)
        /\ phase' \in {"failed", "restored"}
    BY <1>4 DEF Outcome, Next, vars, ValidateBundle, PrepareItem, BackupItem, PlaceItem,
       ValidateInstalled, Undo, RemoveItem, RestoreItem, FinishRollback, Cancel, Crash,
       UserCreates, CleanupOldLaunchers, Running, Finished
  <2>2. Contract!Restore
    BY <1>4, <2>1, ViewsOfPhases, FinalViews DEF Contract!Restore
  <2> QED
    BY <2>2 DEF Contract!Next
<1>5. CASE Outcome \in {"committed", "restored"}
  <2>1. phase' = phase /\ phase \in {"committed", "failed", "restored"}
    BY <1>5 DEF Outcome, Next, vars, ValidateBundle, PrepareItem, BackupItem, PlaceItem,
       ValidateInstalled, Undo, RemoveItem, RestoreItem, FinishRollback, Cancel, Crash,
       UserCreates, CleanupOldLaunchers, Running, Finished
  <2>2. Outcome' = Outcome
    BY <2>1 DEF Outcome
  <2> QED
    BY <2>1, <2>2, ViewsOfPhases, FinalViews DEF Contract!vars
<1>6. Outcome' \in {"running", "committed", "restored", "broken"}
  BY DEF Outcome
<1>7. CASE Outcome = "broken" /\ Outcome' # "broken"
  BY <1>7 DEF IInv, PhaseInv, Outcome, Next, vars, ValidateBundle, PrepareItem, BackupItem,
     PlaceItem, ValidateInstalled, Undo, RemoveItem, RestoreItem, FinishRollback, Cancel,
     Crash, UserCreates, CleanupOldLaunchers, Running, Finished
<1> QED
  BY <1>1, <1>2, <1>3, <1>4, <1>5, <1>6, <1>7, ViewTypes

(* Every behaviour of the transaction is one its callers are told to expect: *)
(* it commits only the complete new installation, reports a restored one    *)
(* only when it is the previous one, and shows the new receipt only over    *)
(* the complete new files.                                                  *)
THEOREM TransactionImplementsContract == Spec => ImplementsContract
<1>1. IInv /\ IInv' /\ [Next]_vars => [Contract!Next]_(Contract!vars)
  BY NextContract
<1> QED
  BY <1>1, InitContract, InductiveInvariant, PTL DEF Spec, ImplementsContract, Contract!Spec

=============================================================================
