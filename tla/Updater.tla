------------------------------- MODULE Updater -------------------------------
(***************************************************************************)
(* The processes that share one Mux installation: `mux update` (lib.rs),    *)
(* the installer script with its __install-bundle and __register-install    *)
(* commands (scripts/install.sh, receipt.rs), and compiler commands, which  *)
(* hold the shared installation lock while they run.  The replacement of    *)
(* the files is the contract of module InstallContract, which module        *)
(* InstallTransaction is proved to implement.                               *)
(***************************************************************************)
EXTENDS Integers

CONSTANTS
  Updaters,    (* processes running `mux update`                            *)
  Installers,  (* processes running the installer script                    *)
  Compilers,   (* processes running any other command                       *)
  MaxVersion   (* versions are 1..MaxVersion, ordered as semver orders them *)

Versions == 1..MaxVersion
Mixed     == 0    \* files of more than one version
NoReceipt == 0    \* no receipt file
Torn      == -1   \* a receipt that does not parse

Procs == Updaters \cup Installers \cup Compilers

ASSUME UpdaterAssumption ==
  /\ MaxVersion \in Nat \ {0}
  /\ Updaters \cap Installers = {}
  /\ Updaters \cap Compilers = {}
  /\ Installers \cap Compilers = {}

VARIABLES
  files,     (* version of the installed files, outside a transaction       *)
  receipt,   (* version in the receipt, outside a transaction               *)
  outcome, txFiles, txReceipt,
             (* InstallContract: the transaction in progress, or "none"     *)
  lockFile,  (* the lock file has been created                              *)
  exclusive, (* processes holding the lock exclusively                      *)
  shared,    (* processes holding it shared                                 *)
  pc,        (* what each process does next                                 *)
  seen,      (* the receipt version a process loaded before locking         *)
  target,    (* the version it is installing                                *)
  broken,    (* history: a transaction ended without commit or restore      *)
  tainted    (* history: an installer copied files over a registered
                installation, over one whose lock was held, or over those of
                another installer that had yet to register them             *)

txVars == <<outcome, txFiles, txReceipt>>
vars   == <<files, receipt, txVars, lockFile, exclusive, shared, pc, seen, target,
            broken, tainted>>

Tx == INSTANCE InstallContract WITH files <- txFiles, receipt <- txReceipt

(* What is on disk at this moment.  At most one process holds the lock      *)
(* exclusively, and it owns the transaction in progress.                    *)
TxTarget == target[CHOOSE p \in exclusive : TRUE]

FilesIn(view) ==
  CASE view = "before" -> files [] view = "mixed" -> Mixed [] view = "after" -> TxTarget

ReceiptIn(view) ==
  CASE view = "before" -> receipt [] view = "absent" -> NoReceipt [] view = "after" -> TxTarget

DiskFiles   == FilesIn(txFiles)
DiskReceipt == ReceiptIn(txReceipt)

(* A registered installation of any version, or files that the installer    *)
(* has not registered.                                                      *)
Init ==
  /\ files \in Versions
  /\ \/ receipt = files /\ lockFile \in BOOLEAN
     \/ receipt = NoReceipt /\ lockFile = FALSE
  /\ outcome = "none" /\ txFiles = "before" /\ txReceipt = "before"
  /\ exclusive = {} /\ shared = {}
  /\ pc     = [p \in Procs |-> "idle"]
  /\ seen   = [p \in Procs |-> NoReceipt]
  /\ target = [p \in Procs |-> NoReceipt]
  /\ broken = FALSE /\ tainted = FALSE

Goto(p, l) == pc' = [pc EXCEPT ![p] = l]

(* A process that ends, with or without an error, drops its lock.           *)
Exit(p) ==
  /\ Goto(p, "idle")
  /\ exclusive' = exclusive \ {p}
  /\ shared'    = shared \ {p}
  /\ seen'      = [seen EXCEPT ![p] = NoReceipt]
  /\ target'    = [target EXCEPT ![p] = NoReceipt]

Disk   == <<files, receipt, txVars, broken, tainted>>
Locals == <<exclusive, shared, seen, target>>

(* Mutant: a shared lock that ignores the writer.                           *)
LockBesideWriter(p) ==
  /\ shared'   = shared \cup {p}
  /\ lockFile' = TRUE
  /\ UNCHANGED exclusive

(***************************************************************************)
(* receipt::lock: both kinds are non-blocking; a busy lock is an error.     *)
(***************************************************************************)
LockExclusive(p) ==
  /\ exclusive = {} /\ shared = {}
  /\ exclusive' = {p}
  /\ lockFile'  = TRUE
  /\ UNCHANGED shared

LockShared(p) ==
  /\ exclusive = {}
  /\ shared'   = shared \cup {p}
  /\ lockFile' = TRUE
  /\ UNCHANGED exclusive

(***************************************************************************)
(* `mux update` (lib.rs run).                                               *)
(***************************************************************************)

(* Load the receipt, without the lock; without a receipt (or with one that  *)
(* does not parse) the command ends.                                        *)
UpdateLoad(u) ==
  /\ pc[u] = "idle"
  /\ DiskReceipt \in Versions
  /\ seen' = [seen EXCEPT ![u] = DiskReceipt]
  /\ Goto(u, "latest")
  /\ UNCHANGED <<Disk, lockFile, exclusive, shared, target>>

(* Fetch the latest release; stop when it fails, when there is nothing      *)
(* newer, or with --check.                                                  *)
UpdateLatest(u) ==
  /\ pc[u] = "latest"
  /\ \/ \E r \in Versions :
          /\ seen[u] < r
          /\ target' = [target EXCEPT ![u] = r]
          /\ Goto(u, "lock")
          /\ UNCHANGED <<exclusive, shared, seen>>
     \/ Exit(u)
  /\ UNCHANGED <<Disk, lockFile>>

(* Take the exclusive lock; shared by `mux update` and __install-bundle.    *)
ReplaceLock(p) ==
  /\ pc[p] = "lock"
  /\ \/ LockExclusive(p) /\ Goto(p, "reload") /\ UNCHANGED <<seen, target>>
     \/ exclusive \cup shared # {} /\ Exit(p) /\ UNCHANGED lockFile
  /\ UNCHANGED Disk

(* Mutant: the receipt is not compared again under the lock.                *)
ReplaceUnchecked(p) ==
  /\ pc[p] = "reload"
  /\ Goto(p, "stage")
  /\ UNCHANGED <<Disk, lockFile, Locals>>

(* Reload the receipt under the lock: it must be the one loaded before.     *)
ReplaceReload(p) ==
  /\ pc[p] = "reload"
  /\ IF DiskReceipt = seen[p]
     THEN Goto(p, "stage") /\ UNCHANGED Locals
     ELSE Exit(p)
  /\ UNCHANGED <<Disk, lockFile>>

(* Download, verify and extract the bundle, then call transaction::install. *)
ReplaceStage(p) ==
  /\ pc[p] = "stage"
  /\ \/ /\ outcome' = "running" /\ txFiles' = "before" /\ txReceipt' = "before"
        /\ Goto(p, "install")
        /\ UNCHANGED Locals
     \/ Exit(p) /\ UNCHANGED txVars
  /\ UNCHANGED <<files, receipt, lockFile, broken, tainted>>

InstallWork(p) ==
  /\ pc[p] = "install"
  /\ Tx!Work
  /\ UNCHANGED <<files, receipt, lockFile, Locals, pc, broken, tainted>>

(* Files copied over the transaction's without the lock may survive it.     *)
EndTx(filesView, receiptView) ==
  /\ files'   = IF tainted THEN Mixed ELSE FilesIn(filesView)
  /\ receipt' = ReceiptIn(receiptView)
  /\ outcome' = "none" /\ txFiles' = "before" /\ txReceipt' = "before"

InstallCommit(p) ==
  /\ pc[p] = "install"
  /\ outcome = "running" /\ txFiles = "after" /\ txReceipt = "after"
  /\ EndTx("after", "after")
  /\ Exit(p)
  /\ UNCHANGED <<lockFile, broken, tainted>>

InstallRestore(p) ==
  /\ pc[p] = "install"
  /\ outcome = "running" /\ txFiles = "before" /\ txReceipt = "before"
  /\ EndTx("before", "before")
  /\ Exit(p)
  /\ UNCHANGED <<lockFile, broken, tainted>>

(* A rollback step failed, or the process died inside install: the          *)
(* contract promises nothing about what is left.                            *)
InstallBreak(p) ==
  /\ pc[p] = "install"
  /\ \E f \in Tx!FilesStates, r \in Tx!ReceiptStates : EndTx(f, r)
  /\ broken' = TRUE
  /\ Exit(p)
  /\ UNCHANGED <<lockFile, tainted>>

(***************************************************************************)
(* The installer script.  It looks for the receipt without the lock: a      *)
(* registered installation is replaced by __install-bundle, any other by    *)
(* copying the files over it and registering them.                          *)
(***************************************************************************)
InstallerStart(i) ==
  /\ pc[i] = "idle"
  /\ \E v \in Versions : target' = [target EXCEPT ![i] = v]
  /\ Goto(i, IF DiskReceipt # NoReceipt THEN "bundle" ELSE "copy")
  /\ UNCHANGED <<Disk, lockFile, exclusive, shared, seen>>

(* install_bundle: load the receipt, then go on like `mux update`.          *)
InstallBundle(i) ==
  /\ pc[i] = "bundle"
  /\ \/ /\ DiskReceipt \in Versions
        /\ seen' = [seen EXCEPT ![i] = DiskReceipt]
        /\ Goto(i, "lock")
        /\ UNCHANGED <<exclusive, shared, target>>
     \/ Exit(i)
  /\ UNCHANGED <<Disk, lockFile>>

(* cp -f of the files, one after the other, without the lock: what it can   *)
(* copy them over.                                                          *)
CopiesOver(i) ==
  \/ receipt # NoReceipt
  \/ exclusive # {}
  \/ \E j \in Installers \ {i} : pc[j] \in {"copied", "register"}

CopyFiles(i) ==
  /\ pc[i] = "copy"
  /\ files'   = Mixed
  /\ tainted' = (tainted \/ CopiesOver(i))
  /\ Goto(i, "copied")
  /\ UNCHANGED <<receipt, txVars, lockFile, Locals, broken>>

CopyDone(i) ==
  /\ pc[i] = "copied"
  /\ tainted' = (tainted \/ CopiesOver(i))
  /\ files'   = IF tainted' THEN Mixed ELSE target[i]
  /\ Goto(i, "register")
  /\ UNCHANGED <<receipt, txVars, lockFile, Locals, broken>>

(* register_install: under the exclusive lock, fs::write truncates the      *)
(* receipt and then fills it.                                               *)
RegisterTruncate(i) ==
  /\ pc[i] = "register"
  /\ \/ /\ LockExclusive(i)
        /\ receipt' = Torn
        /\ tainted' = (tainted \/ receipt # NoReceipt)
        /\ Goto(i, "write")
        /\ UNCHANGED <<seen, target>>
     \/ /\ exclusive \cup shared # {}
        /\ Exit(i)
        /\ UNCHANGED <<lockFile, receipt, tainted>>
  /\ UNCHANGED <<files, txVars, broken>>

RegisterWrite(i) ==
  /\ pc[i] = "write"
  /\ receipt' = target[i]
  /\ Exit(i)
  /\ UNCHANGED <<files, txVars, lockFile, broken, tainted>>

(***************************************************************************)
(* Compiler commands (shared_installation_lock, compiler_installation_lock). *)
(***************************************************************************)

(* Neither lock file nor receipt: not an installation, run without a lock.  *)
CompilerStart(c) ==
  /\ pc[c] = "idle"
  /\ Goto(c, IF ~lockFile /\ DiskReceipt = NoReceipt THEN "unlocked" ELSE "share")
  /\ UNCHANGED <<Disk, lockFile, Locals>>

CompilerLock(c) ==
  /\ pc[c] = "share"
  /\ \/ LockShared(c) /\ Goto(c, "load") /\ UNCHANGED <<seen, target>>
     \/ exclusive # {} /\ Exit(c) /\ UNCHANGED lockFile
  /\ UNCHANGED Disk

CompilerLoad(c) ==
  /\ pc[c] = "load"
  /\ IF DiskReceipt \in Versions
     THEN Goto(c, "running") /\ UNCHANGED Locals
     ELSE Exit(c)
  /\ UNCHANGED <<Disk, lockFile>>

CompilerExit(c) ==
  /\ pc[c] \in {"running", "unlocked"}
  /\ Exit(c)
  /\ UNCHANGED <<Disk, lockFile>>

(* A process outside install is killed; the kernel drops its lock.          *)
Crash(p) ==
  /\ pc[p] \notin {"idle", "install"}
  /\ Exit(p)
  /\ broken' = (broken \/ pc[p] \in {"copied", "register", "write"})
  /\ UNCHANGED <<files, receipt, txVars, lockFile, tainted>>

Replace(p) ==
  \/ ReplaceLock(p) \/ ReplaceReload(p) \/ ReplaceStage(p)
  \/ InstallWork(p) \/ InstallCommit(p) \/ InstallRestore(p) \/ InstallBreak(p)

Next ==
  \/ \E u \in Updaters : UpdateLoad(u) \/ UpdateLatest(u) \/ Replace(u)
  \/ \E i \in Installers :
       \/ InstallerStart(i) \/ InstallBundle(i) \/ Replace(i)
       \/ CopyFiles(i) \/ CopyDone(i) \/ RegisterTruncate(i) \/ RegisterWrite(i)
  \/ \E c \in Compilers : CompilerStart(c) \/ CompilerLock(c) \/ CompilerLoad(c) \/ CompilerExit(c)
  \/ \E p \in Procs : Crash(p)

Spec == Init /\ [][Next]_vars

(***************************************************************************)
(* Properties                                                               *)
(***************************************************************************)

(* The variables stay in their ranges.                                      *)
TypeOK ==
  /\ files \in Versions \cup {Mixed}
  /\ receipt \in Versions \cup {NoReceipt, Torn}
  /\ outcome \in {"none", "running"}
  /\ txFiles \in Tx!FilesStates /\ txReceipt \in Tx!ReceiptStates
  /\ lockFile \in BOOLEAN
  /\ exclusive \subseteq Updaters \cup Installers
  /\ shared \subseteq Compilers
  /\ seen \in [Procs -> Versions \cup {NoReceipt}]
  /\ target \in [Procs -> Versions \cup {NoReceipt}]
  /\ broken \in BOOLEAN /\ tainted \in BOOLEAN

(* A compiler command that runs under the lock finds the files its receipt  *)
(* names, all of one version: no update is half way, no receipt is ahead of *)
(* or behind its files.                                                     *)
CompilerSeesOneVersion ==
  ~broken /\ ~tainted =>
    \A c \in Compilers : pc[c] = "running" => DiskFiles = DiskReceipt

(* README: "An already current or newer installation stays unchanged."      *)
(* Whatever happened between the version check and the lock, `mux update`   *)
(* replaces an installation only by a newer version.                        *)
NeverDowngrades ==
  [][\A u \in Updaters :
       pc[u] = "install" /\ receipt' # receipt /\ receipt' \in Versions =>
         receipt < receipt']_vars

(* The comment in install.sh: "Registered installations share a lock with   *)
(* compilation and updates."  The installer never copies files over a       *)
(* registered installation, or over one whose lock is held.                 *)
RegisteredNeverCopiedOver == ~tainted

=============================================================================
