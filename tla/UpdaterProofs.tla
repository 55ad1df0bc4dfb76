----------------------------- MODULE UpdaterProofs -----------------------------
(***************************************************************************)
(* Proofs about the processes that share an installation, for every number  *)
(* of updaters, installers and compilers and every number of versions.      *)
(***************************************************************************)
EXTENDS Updater, TLAPS

Replacing == {"lock", "reload", "stage", "install"}

(* What each kind of process does.                                          *)
Ranges ==
  /\ DOMAIN pc = Procs
  /\ \A u \in Updaters   : pc[u] \in {"idle", "latest"} \cup Replacing
  /\ \A i \in Installers : pc[i] \in {"idle", "bundle", "copy", "copied", "register", "write"}
                                       \cup Replacing
  /\ \A c \in Compilers  : pc[c] \in {"idle", "unlocked", "share", "load", "running"}

(* Readers or one writer, and who they are.                                 *)
LockHeld ==
  /\ \A p \in Procs : p \in exclusive <=> pc[p] \in {"reload", "stage", "install", "write"}
  /\ \A p \in Procs : p \in shared <=> pc[p] \in {"load", "running"}
  /\ \A p, q \in exclusive : p = q
  /\ exclusive = {} \/ shared = {}

(* A transaction runs exactly while a process is in transaction::install.   *)
Transaction ==
  IF \E p \in Procs : pc[p] = "install"
  THEN outcome = "running"
  ELSE outcome = "none" /\ txFiles = "before" /\ txReceipt = "before"

(* What a process goes for, from what it saw.                               *)
Aims ==
  /\ \A u \in Updaters :
       /\ pc[u] # "idle" => seen[u] \in Versions
       /\ pc[u] \in Replacing => target[u] \in Versions /\ seen[u] < target[u]
  /\ \A i \in Installers :
       /\ pc[i] # "idle" => target[i] \in Versions
       /\ pc[i] \in Replacing => seen[i] \in Versions

(* Under the lock the receipt is what the process takes it to be.           *)
UnderLock ==
  \A p \in Procs :
    /\ pc[p] \in {"stage", "install"} => receipt = seen[p]
    /\ pc[p] = "write" => receipt = Torn
    /\ pc[p] = "running" => receipt \in Versions

Unregistered == {"copied", "register", "write"}

(* Unless the installation was broken or copied over, the receipt names the *)
(* files, and at most one installer has files that it has yet to register.  *)
Registered ==
  ~broken /\ ~tainted =>
    /\ receipt \in Versions => files = receipt
    /\ \A i, j \in Installers : pc[i] \in Unregistered /\ pc[j] \in Unregistered => i = j
    /\ \A i \in Installers :
         /\ pc[i] \in {"copied", "register"} => receipt = NoReceipt
         /\ pc[i] \in {"register", "write"} => files = target[i]

IInv ==
  /\ TypeOK /\ Ranges /\ LockHeld /\ Transaction /\ Aims /\ UnderLock /\ Registered


-----------------------------------------------------------------------------
USE UpdaterAssumption
USE DEF Versions, Mixed, NoReceipt, Torn

(* What the views of a transaction stand for.                               *)
LEMMA Views ==
  /\ FilesIn("before") = files /\ FilesIn("mixed") = Mixed /\ FilesIn("after") = TxTarget
  /\ ReceiptIn("before") = receipt /\ ReceiptIn("absent") = NoReceipt
  /\ ReceiptIn("after") = TxTarget
  BY DEF FilesIn, ReceiptIn

LEMMA OwnTarget ==
  ASSUME LockHeld, NEW p \in exclusive
  PROVE  exclusive = {p} /\ TxTarget = target[p]
<1>1. exclusive = {p}
  BY DEF LockHeld
<1> QED
  BY <1>1 DEF TxTarget

(* Outside a transaction the disk is as the variables say.                  *)
LEMMA NoTransaction ==
  ASSUME Transaction, \A p \in Procs : pc[p] # "install"
  PROVE  DiskFiles = files /\ DiskReceipt = receipt
  BY Views DEF Transaction, DiskFiles, DiskReceipt

LEMMA InitIInv == Init => IInv
<1> HAVE Init
<1>1. TypeOK
  BY DEF Init, TypeOK, Tx!FilesStates, Tx!ReceiptStates
<1>2. Ranges /\ LockHeld /\ Transaction
  BY DEF Init, Ranges, LockHeld, Transaction, Procs
<1>3. Aims /\ UnderLock /\ Registered
  BY DEF Init, Aims, UnderLock, Registered, Replacing, Unregistered, Procs
<1> QED
  BY <1>1, <1>2, <1>3 DEF IInv

(***************************************************************************)
(* A process ends and drops its lock, whatever it did to the disk.          *)
(***************************************************************************)
LEMMA ExitKeeps ==
  ASSUME IInv, NEW p \in Procs, Exit(p)
  PROVE  Ranges' /\ LockHeld' /\ Aims'
  BY DEF IInv, TypeOK, Ranges, LockHeld, Aims, Exit, Goto, Replacing, Procs

(* A process that is not in a transaction ends.                             *)
LEMMA ExitOutside ==
  ASSUME IInv, NEW p \in Procs, Exit(p), pc[p] # "install",
         UNCHANGED <<files, receipt, txVars, lockFile, tainted>>,
         broken' \in BOOLEAN, broken => broken'
  PROVE  IInv'
<1>1. Ranges' /\ LockHeld' /\ Aims'
  BY ExitKeeps
<1>2. TypeOK'
  BY DEF IInv, TypeOK, Exit, txVars, Procs
<1>3. Transaction'
  BY DEF IInv, Ranges, Transaction, Exit, Goto, txVars
<1>4. UnderLock'
  BY DEF IInv, TypeOK, Ranges, UnderLock, Exit, Goto, txVars
<1>5. Registered'
  BY DEF IInv, TypeOK, Ranges, Registered, Exit, Goto, txVars, Unregistered, Procs
<1> QED
  BY <1>1, <1>2, <1>3, <1>4, <1>5 DEF IInv

(***************************************************************************)
(* `mux update`.                                                            *)
(***************************************************************************)
LEMMA UpdateKeeps ==
  ASSUME IInv, NEW u \in Updaters, UpdateLoad(u) \/ UpdateLatest(u)
  PROVE  IInv'
<1> USE DEF IInv
<1>1. u \in Procs
  BY DEF Procs
<1>2. CASE UpdateLoad(u)
  <2>1. /\ pc[u] = "idle" /\ pc' = [pc EXCEPT ![u] = "latest"]
        /\ \E v \in Versions : seen' = [seen EXCEPT ![u] = v]
        /\ UNCHANGED <<files, receipt, outcome, txFiles, txReceipt, broken, tainted, lockFile,
                       exclusive, shared, target>>
    BY <1>2 DEF UpdateLoad, Goto, Disk, txVars
  <2>2. TypeOK' /\ Ranges'
    BY <1>1, <2>1 DEF TypeOK, Ranges, Procs
  <2>3. LockHeld' /\ Transaction'
    BY <1>1, <2>1 DEF Ranges, LockHeld, Transaction
  <2>4. Aims' /\ UnderLock' /\ Registered'
    BY <1>1, <2>1 DEF TypeOK, Ranges, Aims, UnderLock, Registered, Replacing, Unregistered, Procs
  <2> QED
    BY <2>2, <2>3, <2>4
<1>3. CASE UpdateLatest(u)
  <2>1. CASE Exit(u)
    BY <1>1, <1>3, <2>1, ExitOutside DEF UpdateLatest, Disk, TypeOK
  <2>2. ASSUME NEW r \in Versions, seen[u] < r, target' = [target EXCEPT ![u] = r],
               Goto(u, "lock"), UNCHANGED <<exclusive, shared, seen>>
        PROVE  IInv'
    <3>1. /\ pc[u] = "latest" /\ pc' = [pc EXCEPT ![u] = "lock"]
          /\ UNCHANGED <<files, receipt, outcome, txFiles, txReceipt, broken, tainted, lockFile>>
      BY <1>3, <2>2 DEF UpdateLatest, Goto, Disk, txVars
    <3>2. TypeOK' /\ Ranges'
      BY <1>1, <2>2, <3>1 DEF TypeOK, Ranges, Procs, Replacing
    <3>3. LockHeld' /\ Transaction'
      BY <1>1, <2>2, <3>1 DEF Ranges, LockHeld, Transaction
    <3>4. Aims' /\ UnderLock' /\ Registered'
      BY <1>1, <2>2, <3>1 DEF TypeOK, Ranges, Aims, UnderLock, Registered, Replacing, Unregistered,
                              Procs
    <3> QED
      BY <3>2, <3>3, <3>4
  <2> QED
    BY <1>3, <2>1, <2>2 DEF UpdateLatest
<1> QED
  BY <1>2, <1>3

(***************************************************************************)
(* The replacement, by `mux update` or the installer.                       *)
(***************************************************************************)
LEMMA ReplaceLockKeeps ==
  ASSUME IInv, NEW p \in Updaters \cup Installers, ReplaceLock(p)
  PROVE  IInv'
<1> USE DEF IInv
<1>1. p \in Procs
  BY DEF Procs
<1>2. CASE Exit(p) /\ UNCHANGED lockFile
  BY <1>1, <1>2, ExitOutside DEF ReplaceLock, Disk, TypeOK
<1>3. ASSUME LockExclusive(p), Goto(p, "reload"), UNCHANGED <<seen, target>> PROVE IInv'
  <2>1. /\ pc[p] = "lock" /\ pc' = [pc EXCEPT ![p] = "reload"]
        /\ exclusive = {} /\ shared = {} /\ exclusive' = {p} /\ shared' = {} /\ lockFile' = TRUE
        /\ UNCHANGED <<files, receipt, outcome, txFiles, txReceipt, broken, tainted, seen, target>>
    BY <1>3 DEF ReplaceLock, LockExclusive, Goto, Disk, txVars
  <2>2. TypeOK' /\ Ranges'
    BY <1>1, <2>1 DEF TypeOK, Ranges, Procs, Replacing
  <2>3. LockHeld' /\ Transaction'
    BY <1>1, <2>1 DEF Ranges, LockHeld, Transaction
  <2>4. Aims' /\ UnderLock' /\ Registered'
    BY <1>1, <2>1 DEF TypeOK, Ranges, Aims, UnderLock, Registered, Replacing, Unregistered, Procs
  <2> QED
    BY <2>2, <2>3, <2>4
<1> QED
  BY <1>2, <1>3 DEF ReplaceLock

(* Only the process with the lock can be in a transaction.                  *)
LEMMA AloneUnderLock ==
  ASSUME IInv, NEW p \in exclusive, pc[p] # "install"
  PROVE  DiskFiles = files /\ DiskReceipt = receipt
<1>1. \A q \in Procs : pc[q] # "install"
  BY DEF IInv, LockHeld
<1> QED
  BY <1>1, NoTransaction DEF IInv

LEMMA ReplaceReloadKeeps ==
  ASSUME IInv, NEW p \in Updaters \cup Installers, ReplaceReload(p)
  PROVE  IInv'
<1> USE DEF IInv
<1>1. p \in Procs /\ p \in exclusive
  BY DEF Procs, LockHeld, ReplaceReload
<1>2. DiskReceipt = receipt
  BY <1>1, AloneUnderLock DEF ReplaceReload
<1>3. CASE Exit(p)
  BY <1>1, <1>3, ExitOutside DEF ReplaceReload, Disk, TypeOK
<1>4. ASSUME receipt = seen[p], Goto(p, "stage"), UNCHANGED Locals PROVE IInv'
  <2>1. /\ pc[p] = "reload" /\ pc' = [pc EXCEPT ![p] = "stage"]
        /\ UNCHANGED <<files, receipt, outcome, txFiles, txReceipt, broken, tainted, lockFile,
                       exclusive, shared, seen, target>>
    BY <1>4 DEF ReplaceReload, Goto, Disk, txVars, Locals
  <2>2. TypeOK' /\ Ranges'
    BY <1>1, <2>1 DEF TypeOK, Ranges, Procs, Replacing
  <2>3. LockHeld' /\ Transaction'
    BY <1>1, <2>1 DEF Ranges, LockHeld, Transaction
  <2>4. Aims' /\ UnderLock' /\ Registered'
    BY <1>1, <1>4, <2>1 DEF TypeOK, Ranges, Aims, UnderLock, Registered, Replacing, Unregistered, Procs
  <2> QED
    BY <2>2, <2>3, <2>4
<1> QED
  BY <1>2, <1>3, <1>4 DEF ReplaceReload

LEMMA ReplaceStageKeeps ==
  ASSUME IInv, NEW p \in Updaters \cup Installers, ReplaceStage(p)
  PROVE  IInv'
<1> USE DEF IInv
<1>1. p \in Procs
  BY DEF Procs
<1>2. CASE Exit(p) /\ UNCHANGED txVars
  BY <1>1, <1>2, ExitOutside DEF ReplaceStage, TypeOK
<1>3. ASSUME outcome' = "running", txFiles' = "before", txReceipt' = "before",
             Goto(p, "install"), UNCHANGED Locals
      PROVE  IInv'
  <2>1. /\ pc[p] = "stage" /\ pc' = [pc EXCEPT ![p] = "install"]
        /\ UNCHANGED <<files, receipt, broken, tainted, lockFile, exclusive, shared, seen, target>>
    BY <1>3 DEF ReplaceStage, Goto, Locals
  <2>2. TypeOK' /\ Ranges'
    BY <1>1, <1>3, <2>1 DEF TypeOK, Ranges, Procs, Replacing, Tx!FilesStates, Tx!ReceiptStates
  <2>3. LockHeld'
    BY <1>1, <2>1 DEF Ranges, LockHeld
  <2>4. Transaction'
    BY <1>1, <1>3, <2>1 DEF Ranges, Transaction
  <2>5. Aims' /\ UnderLock' /\ Registered'
    BY <1>1, <2>1 DEF TypeOK, Ranges, Aims, UnderLock, Registered, Replacing, Unregistered, Procs
  <2> QED
    BY <2>2, <2>3, <2>4, <2>5
<1> QED
  BY <1>2, <1>3 DEF ReplaceStage

LEMMA InstallWorkKeeps ==
  ASSUME IInv, NEW p \in Updaters \cup Installers, InstallWork(p)
  PROVE  IInv'
<1> USE DEF IInv
<1>1. /\ p \in Procs /\ pc[p] = "install"
      /\ outcome' = "running" /\ txFiles' \in Tx!FilesStates /\ txReceipt' \in Tx!ReceiptStates
      /\ UNCHANGED <<files, receipt, broken, tainted, lockFile, exclusive, shared, seen, target, pc>>
  BY DEF Procs, InstallWork, Tx!Work, Locals
<1>2. TypeOK' /\ Ranges'
  BY <1>1 DEF TypeOK, Ranges
<1>3. LockHeld' /\ Transaction'
  BY <1>1 DEF LockHeld, Transaction
<1>4. Aims' /\ UnderLock' /\ Registered'
  BY <1>1 DEF Aims, UnderLock, Registered
<1> QED
  BY <1>2, <1>3, <1>4

(* The transaction of p ends with the files and the receipt of some views.  *)
LEMMA EndKeeps ==
  ASSUME IInv, NEW p \in Updaters \cup Installers, pc[p] = "install", Exit(p),
         NEW fv \in Tx!FilesStates, NEW rv \in Tx!ReceiptStates, EndTx(fv, rv),
         UNCHANGED <<lockFile, tainted>>, broken' \in BOOLEAN,
         ~broken' => ~broken /\ <<fv, rv>> \in {<<"before", "before">>, <<"after", "after">>}
  PROVE  IInv'
<1> USE DEF IInv
<1>1. p \in Procs /\ p \in exclusive
  BY DEF Procs, LockHeld
<1>2. exclusive = {p} /\ TxTarget = target[p]
  BY <1>1, OwnTarget
<1>3. target[p] \in Versions
  BY DEF Aims, Replacing
<1>4. /\ fv \in {"before", "mixed", "after"} /\ rv \in {"before", "absent", "after"}
      /\ FilesIn(fv) = IF fv = "before" THEN files ELSE IF fv = "mixed" THEN Mixed ELSE target[p]
      /\ ReceiptIn(rv) = IF rv = "before" THEN receipt
                         ELSE IF rv = "absent" THEN NoReceipt ELSE target[p]
  BY <1>2, Views DEF Tx!FilesStates, Tx!ReceiptStates
<1>5. /\ files' = IF tainted THEN Mixed ELSE FilesIn(fv)
      /\ receipt' = ReceiptIn(rv)
      /\ outcome' = "none" /\ txFiles' = "before" /\ txReceipt' = "before"
  BY DEF EndTx
<1>6. Ranges' /\ LockHeld' /\ Aims'
  BY <1>1, ExitKeeps
<1>7. TypeOK'
  <2>1. files' \in Versions \cup {Mixed} /\ receipt' \in Versions \cup {NoReceipt, Torn}
    BY <1>3, <1>4, <1>5 DEF TypeOK
  <2> QED
    BY <1>1, <1>5, <2>1 DEF TypeOK, Exit, Tx!FilesStates, Tx!ReceiptStates
<1>8. /\ pc' = [pc EXCEPT ![p] = "idle"]
      /\ \A q \in Procs \ {p} : pc[q] \notin {"reload", "stage", "install", "write", "load", "running"}
  BY <1>1, <1>2 DEF Exit, Goto, LockHeld
<1>9. Transaction'
  BY <1>1, <1>5, <1>8 DEF Ranges, Transaction
<1>10. UnderLock'
  BY <1>1, <1>8 DEF Ranges, UnderLock
<1>11. Registered'
  <2> SUFFICES ASSUME ~broken', ~tainted PROVE Registered'
    BY DEF Registered
  <2>1. receipt = seen[p] /\ receipt \in Versions
    BY <1>1 DEF UnderLock, Aims, Replacing
  <2>2. receipt' \in Versions /\ files' = receipt'
    BY <1>3, <1>4, <1>5, <2>1 DEF Registered
  <2>3. \A i \in Installers : pc[i] \notin Unregistered /\ pc'[i] \notin Unregistered
    BY <1>1, <1>8, <2>1 DEF Ranges, Registered, Unregistered, Procs
  <2> QED
    BY <2>2, <2>3 DEF Registered, Unregistered
<1> QED
  BY <1>6, <1>7, <1>9, <1>10, <1>11

LEMMA ReplaceKeeps ==
  ASSUME IInv, NEW p \in Updaters \cup Installers, Replace(p)
  PROVE  IInv'
<1>1. /\ {"before", "after"} \subseteq Tx!FilesStates
      /\ {"before", "after"} \subseteq Tx!ReceiptStates
  BY DEF Tx!FilesStates, Tx!ReceiptStates
<1>2. broken \in BOOLEAN
  BY DEF IInv, TypeOK
<1>3. CASE InstallCommit(p)
  BY <1>1, <1>2, <1>3, EndKeeps DEF InstallCommit
<1>4. CASE InstallRestore(p)
  BY <1>1, <1>2, <1>4, EndKeeps DEF InstallRestore
<1>5. CASE InstallBreak(p)
  BY <1>5, EndKeeps DEF InstallBreak
<1> QED
  BY <1>3, <1>4, <1>5, ReplaceLockKeeps, ReplaceReloadKeeps, ReplaceStageKeeps,
     InstallWorkKeeps DEF Replace

(***************************************************************************)
(* The installer script.                                                    *)
(***************************************************************************)
LEMMA InstallerBegins ==
  ASSUME IInv, NEW i \in Installers, InstallerStart(i) \/ InstallBundle(i)
  PROVE  IInv'
<1> USE DEF IInv
<1>1. i \in Procs
  BY DEF Procs
<1>2. CASE InstallerStart(i)
  <2>1. /\ pc[i] = "idle"
        /\ pc' = [pc EXCEPT ![i] = "bundle"] \/ pc' = [pc EXCEPT ![i] = "copy"]
        /\ \E v \in Versions : target' = [target EXCEPT ![i] = v]
        /\ UNCHANGED <<files, receipt, outcome, txFiles, txReceipt, broken, tainted, lockFile,
                       exclusive, shared, seen>>
    BY <1>2 DEF InstallerStart, Goto, Disk, txVars
  <2>2. TypeOK' /\ Ranges'
    BY <1>1, <2>1 DEF TypeOK, Ranges, Procs
  <2>3. LockHeld' /\ Transaction'
    BY <1>1, <2>1 DEF Ranges, LockHeld, Transaction
  <2>4. Aims' /\ UnderLock' /\ Registered'
    BY <1>1, <2>1 DEF TypeOK, Ranges, Aims, UnderLock, Registered, Replacing, Unregistered, Procs
  <2> QED
    BY <2>2, <2>3, <2>4
<1>3. CASE InstallBundle(i)
  <2>1. CASE Exit(i)
    BY <1>1, <1>3, <2>1, ExitOutside DEF InstallBundle, Disk, TypeOK
  <2>2. ASSUME NEW v \in Versions, seen' = [seen EXCEPT ![i] = v],
               Goto(i, "lock"), UNCHANGED <<exclusive, shared, target>>
        PROVE  IInv'
    <3>1. /\ pc[i] = "bundle" /\ pc' = [pc EXCEPT ![i] = "lock"]
          /\ UNCHANGED <<files, receipt, outcome, txFiles, txReceipt, broken, tainted, lockFile>>
      BY <1>3, <2>2 DEF InstallBundle, Goto, Disk, txVars
    <3>2. TypeOK' /\ Ranges'
      BY <1>1, <2>2, <3>1 DEF TypeOK, Ranges, Procs, Replacing
    <3>3. LockHeld' /\ Transaction'
      BY <1>1, <2>2, <3>1 DEF Ranges, LockHeld, Transaction
    <3>4. Aims' /\ UnderLock' /\ Registered'
      BY <1>1, <2>2, <3>1 DEF TypeOK, Ranges, Aims, UnderLock, Registered, Replacing, Unregistered,
                              Procs
    <3> QED
      BY <3>2, <3>3, <3>4
  <2> QED
    BY <1>3, <2>1, <2>2 DEF InstallBundle
<1> QED
  BY <1>2, <1>3

(* Copying: unless it taints the installation, nothing is registered, no    *)
(* lock is held and no other installer is between copying and registering.  *)
LEMMA CleanCopy ==
  ASSUME IInv, NEW i \in Installers, ~broken, ~tainted, ~CopiesOver(i)
  PROVE  /\ receipt = NoReceipt
         /\ \A j \in Installers \ {i} : pc[j] \notin Unregistered
  BY DEF IInv, Ranges, LockHeld, CopiesOver, Unregistered, Procs

LEMMA CopyKeeps ==
  ASSUME IInv, NEW i \in Installers, CopyFiles(i) \/ CopyDone(i)
  PROVE  IInv'
<1> USE DEF IInv
<1>1. /\ i \in Procs /\ pc[i] \in {"copy", "copied"}
      /\ pc' = [pc EXCEPT ![i] = IF pc[i] = "copy" THEN "copied" ELSE "register"]
      /\ tainted' = (tainted \/ CopiesOver(i))
      /\ files' = IF pc[i] = "copy" \/ tainted' THEN Mixed ELSE target[i]
      /\ UNCHANGED <<receipt, outcome, txFiles, txReceipt, broken, lockFile, exclusive, shared,
                     seen, target>>
  BY DEF Procs, CopyFiles, CopyDone, Goto, txVars, Locals
<1>2. target[i] \in Versions
  BY <1>1 DEF Aims
<1>3. TypeOK' /\ Ranges'
  <2>1. files' \in Versions \cup {Mixed} /\ tainted' \in BOOLEAN
    BY <1>1, <1>2 DEF TypeOK
  <2> QED
    BY <1>1, <2>1 DEF TypeOK, Ranges, Procs
<1>4. LockHeld' /\ Transaction'
  BY <1>1 DEF Ranges, LockHeld, Transaction
<1>5. Aims' /\ UnderLock'
  BY <1>1 DEF TypeOK, Ranges, Aims, UnderLock, Replacing, Procs
<1>6. Registered'
  <2> SUFFICES ASSUME ~broken, ~tainted' PROVE Registered'
    BY <1>1 DEF Registered
  <2>1. /\ receipt = NoReceipt
        /\ \A j \in Installers \ {i} : pc[j] \notin Unregistered
    BY <1>1, CleanCopy
  <2>2. /\ receipt' \notin Versions
        /\ \A j \in Installers \ {i} : pc'[j] \notin Unregistered
        /\ pc'[i] # "write"
        /\ pc'[i] = "register" => files' = target'[i]
    BY <1>1, <2>1 DEF Ranges
  <2> QED
    BY <1>1, <2>1, <2>2 DEF Registered, Unregistered
<1> QED
  BY <1>3, <1>4, <1>5, <1>6

LEMMA RegisterKeeps ==
  ASSUME IInv, NEW i \in Installers, RegisterTruncate(i) \/ RegisterWrite(i)
  PROVE  IInv'
<1> USE DEF IInv
<1>1. i \in Procs
  BY DEF Procs
<1>2. CASE RegisterTruncate(i)
  <2>1. CASE Exit(i) /\ UNCHANGED <<lockFile, receipt, tainted>>
    BY <1>1, <1>2, <2>1, ExitOutside DEF RegisterTruncate, TypeOK
  <2>2. ASSUME LockExclusive(i), receipt' = Torn, tainted' = (tainted \/ receipt # NoReceipt),
               Goto(i, "write"), UNCHANGED <<seen, target>>
        PROVE  IInv'
    <3>1. /\ pc[i] = "register" /\ pc' = [pc EXCEPT ![i] = "write"]
          /\ exclusive = {} /\ shared = {} /\ exclusive' = {i} /\ shared' = {} /\ lockFile' = TRUE
          /\ UNCHANGED <<files, outcome, txFiles, txReceipt, broken, seen, target>>
      BY <1>2, <2>2 DEF RegisterTruncate, LockExclusive, Goto, txVars
    <3>2. TypeOK' /\ Ranges'
      BY <1>1, <2>2, <3>1 DEF TypeOK, Ranges, Procs
    <3>3. LockHeld' /\ Transaction'
      BY <1>1, <3>1 DEF Ranges, LockHeld, Transaction
    <3>4. Aims' /\ UnderLock'
      BY <1>1, <2>2, <3>1 DEF TypeOK, Ranges, LockHeld, Aims, UnderLock, Replacing, Procs
    <3>5. Registered'
      BY <1>1, <2>2, <3>1 DEF TypeOK, Ranges, Registered, Unregistered, Procs
    <3> QED
      BY <3>2, <3>3, <3>4, <3>5
  <2> QED
    BY <1>2, <2>1, <2>2 DEF RegisterTruncate
<1>3. CASE RegisterWrite(i)
  <2>1. /\ pc[i] = "write" /\ receipt' = target[i] /\ i \in exclusive
        /\ Exit(i) /\ pc' = [pc EXCEPT ![i] = "idle"]
        /\ UNCHANGED <<files, outcome, txFiles, txReceipt, lockFile, broken, tainted>>
    BY <1>1, <1>3 DEF RegisterWrite, Exit, Goto, txVars, LockHeld
  <2>2. /\ target[i] \in Versions
        /\ \A q \in Procs \ {i} : pc[q] \notin {"reload", "stage", "install", "write", "load", "running"}
    BY <1>1, <2>1 DEF Aims, LockHeld
  <2>3. Ranges' /\ LockHeld' /\ Aims'
    BY <1>1, <2>1, ExitKeeps
  <2>4. TypeOK'
    BY <1>1, <2>1, <2>2 DEF TypeOK, Exit
  <2>5. Transaction' /\ UnderLock'
    BY <1>1, <2>1, <2>2 DEF Ranges, Transaction, UnderLock
  <2>6. Registered'
    BY <1>1, <2>1, <2>2 DEF Ranges, Registered, Unregistered, Procs
  <2> QED
    BY <2>3, <2>4, <2>5, <2>6
<1> QED
  BY <1>2, <1>3

(***************************************************************************)
(* Compiler commands, and a crash of any process.                           *)
(***************************************************************************)
LEMMA CompilerKeeps ==
  ASSUME IInv, NEW c \in Compilers,
         CompilerStart(c) \/ CompilerLock(c) \/ CompilerLoad(c) \/ CompilerExit(c)
  PROVE  IInv'
<1> USE DEF IInv
<1>1. c \in Procs
  BY DEF Procs
<1>2. CASE Exit(c) /\ UNCHANGED <<Disk, lockFile>>
  <2>1. pc[c] # "install"
    BY DEF Ranges
  <2> QED
    BY <1>1, <1>2, <2>1, ExitOutside DEF Disk, TypeOK
<1>3. CASE CompilerStart(c)
  <2>1. /\ pc[c] = "idle"
        /\ pc' = [pc EXCEPT ![c] = "unlocked"] \/ pc' = [pc EXCEPT ![c] = "share"]
        /\ UNCHANGED <<files, receipt, outcome, txFiles, txReceipt, broken, tainted, lockFile,
                       exclusive, shared, seen, target>>
    BY <1>3 DEF CompilerStart, Goto, Disk, txVars, Locals
  <2>2. TypeOK' /\ Ranges' /\ LockHeld'
    BY <1>1, <2>1 DEF TypeOK, Ranges, LockHeld, Procs
  <2>3. Transaction' /\ Aims' /\ UnderLock' /\ Registered'
    BY <1>1, <2>1 DEF Ranges, Transaction, Aims, UnderLock, Registered, Procs
  <2> QED
    BY <2>2, <2>3
<1>4. ASSUME LockShared(c), Goto(c, "load"), UNCHANGED <<seen, target>>, UNCHANGED Disk,
             pc[c] = "share"
      PROVE  IInv'
  <2>1. /\ exclusive = {} /\ exclusive' = {} /\ shared' = shared \cup {c} /\ lockFile' = TRUE
        /\ pc' = [pc EXCEPT ![c] = "load"]
        /\ UNCHANGED <<files, receipt, outcome, txFiles, txReceipt, broken, tainted, seen, target>>
    BY <1>4 DEF LockShared, Goto, Disk, txVars
  <2>2. TypeOK' /\ Ranges'
    BY <1>1, <2>1 DEF TypeOK, Ranges, Procs
  <2>3. LockHeld' /\ Transaction'
    BY <1>1, <1>4, <2>1 DEF Ranges, LockHeld, Transaction
  <2>4. Aims' /\ UnderLock' /\ Registered'
    BY <1>1, <2>1 DEF Ranges, Aims, UnderLock, Registered, Procs
  <2> QED
    BY <2>2, <2>3, <2>4
<1>5. ASSUME CompilerLoad(c), ~Exit(c) PROVE IInv'
  <2>1. /\ pc[c] = "load" /\ pc' = [pc EXCEPT ![c] = "running"] /\ DiskReceipt \in Versions
        /\ UNCHANGED <<files, receipt, outcome, txFiles, txReceipt, broken, tainted, lockFile,
                       exclusive, shared, seen, target>>
    BY <1>5 DEF CompilerLoad, Goto, Disk, txVars, Locals
  <2>2. receipt \in Versions
    <3>1. \A p \in Procs : pc[p] # "install"
      BY <1>1, <2>1 DEF LockHeld
    <3> QED
      BY <2>1, <3>1, NoTransaction
  <2>3. TypeOK' /\ Ranges' /\ LockHeld'
    BY <1>1, <2>1 DEF TypeOK, Ranges, LockHeld, Procs
  <2>4. Transaction' /\ Aims' /\ UnderLock' /\ Registered'
    BY <1>1, <2>1, <2>2 DEF Ranges, Transaction, Aims, UnderLock, Registered, Procs
  <2> QED
    BY <2>3, <2>4
<1> QED
  BY <1>2, <1>3, <1>4, <1>5 DEF CompilerLock, CompilerLoad, CompilerExit

LEMMA CrashKeeps ==
  ASSUME IInv, NEW p \in Procs, Crash(p)
  PROVE  IInv'
  BY ExitOutside DEF Crash, IInv, TypeOK

LEMMA NextIInv == IInv /\ [Next]_vars => IInv'
<1> SUFFICES ASSUME IInv, [Next]_vars PROVE IInv'
  OBVIOUS
<1>1. CASE UNCHANGED vars
  BY <1>1 DEF vars, txVars, IInv, TypeOK, Ranges, LockHeld, Transaction, Aims, UnderLock, Registered
<1> QED
  BY <1>1, UpdateKeeps, ReplaceKeeps, InstallerBegins, CopyKeeps, RegisterKeeps, CompilerKeeps,
     CrashKeeps DEF Next

-----------------------------------------------------------------------------
(* The inductive invariant holds in every behaviour.                        *)
THEOREM InductiveInvariant == Spec => []IInv
  BY InitIInv, NextIInv, PTL DEF Spec

(* The lock of an installation has one writer or any number of readers, and *)
(* a process that replaces files or reads them under the lock holds it.     *)
LockDiscipline ==
  /\ \A p, q \in Procs :
       pc[p] \in {"stage", "install", "write"} /\ pc[q] \in {"stage", "install", "write", "running"}
         => p = q
  /\ \A p \in Procs : pc[p] = "install" => receipt = seen[p]

THEOREM WritersAreAlone == Spec => []LockDiscipline
<1>1. IInv => LockDiscipline
  BY DEF IInv, LockHeld, UnderLock, LockDiscipline
<1> QED
  BY <1>1, InductiveInvariant, PTL

(* A compiler command under the lock sees files of the version its receipt  *)
(* names, unless a transaction broke or files were copied without the lock. *)
THEOREM OneVersionForCompilers == Spec => []CompilerSeesOneVersion
<1>1. IInv => CompilerSeesOneVersion
  <2> SUFFICES ASSUME IInv, ~broken, ~tainted, NEW c \in Compilers, pc[c] = "running"
               PROVE  DiskFiles = DiskReceipt
    BY DEF CompilerSeesOneVersion
  <2>1. c \in Procs
    BY DEF Procs
  <2>2. \A p \in Procs : pc[p] # "install"
    BY <2>1 DEF IInv, LockHeld
  <2>3. receipt \in Versions /\ files = receipt
    BY <2>1 DEF IInv, UnderLock, Registered
  <2> QED
    BY <2>2, <2>3, NoTransaction DEF IInv
<1> QED
  BY <1>1, InductiveInvariant, PTL

(* `mux update` replaces an installation only by a newer version.           *)
THEOREM UpdatesGoUp == Spec => NeverDowngrades
<1>1. ASSUME IInv, Next, NEW u \in Updaters, pc[u] = "install", receipt' # receipt,
             receipt' \in Versions
      PROVE  receipt < receipt'
  <2>1. /\ u \in Procs /\ u \in exclusive /\ exclusive = {u} /\ TxTarget = target[u]
        /\ receipt = seen[u] /\ seen[u] < target[u]
    BY <1>1, OwnTarget DEF IInv, LockHeld, UnderLock, Aims, Replacing, Procs
  <2>2. PICK p \in Procs :
          \/ InstallCommit(p) \/ InstallRestore(p) \/ InstallBreak(p)
          \/ p \in Installers /\ (RegisterTruncate(p) \/ RegisterWrite(p))
    BY <1>1 DEF Next, Procs, UpdateLoad, UpdateLatest, Replace, ReplaceLock, ReplaceReload,
       ReplaceStage, InstallWork, InstallerStart, InstallBundle, CopyFiles, CopyDone,
       CompilerStart, CompilerLock, CompilerLoad, CompilerExit, Crash, Disk
  <2>3. ASSUME p \in Installers, RegisterTruncate(p) \/ RegisterWrite(p) PROVE FALSE
    BY <1>1, <2>1, <2>3 DEF RegisterTruncate, RegisterWrite, LockExclusive, IInv, LockHeld
  <2>4. receipt' \in {receipt, NoReceipt, target[u]}
    BY <2>1, <2>2, <2>3, Views DEF InstallCommit, InstallRestore, InstallBreak, EndTx, Tx!ReceiptStates
  <2> QED
    BY <1>1, <2>1, <2>4
<1>2. IInv /\ [Next]_vars =>
        [\A u \in Updaters :
           pc[u] = "install" /\ receipt' # receipt /\ receipt' \in Versions =>
             receipt < receipt']_vars
  BY <1>1
<1> QED
  BY <1>2, InductiveInvariant, PTL DEF Spec, NeverDowngrades

=============================================================================
