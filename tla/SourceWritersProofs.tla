-------------------------- MODULE SourceWritersProofs --------------------------
(***************************************************************************)
(* Proofs about `mux fix` and `mux fmt` on the same files, for every number *)
(* of files and however often the user edits them.                          *)
(***************************************************************************)
EXTENDS SourceWriters, TLAPS

RollingBack == phase \in {"remove", "restore"}

(* Every loop is at a file; the rollback counts down from undoTop to 0.     *)
Positions ==
  /\ phase \in {"resolve", "backup", "check", "rename", "restore"} => cur \in Files
  /\ phase = "stage" => cur = 1
  /\ RollingBack => cur <= undoTop
  /\ phase \in Ended \/ RollingBack \/ ~failures

(* Which paths have a temporary file and which have a backup.  Before a     *)
(* cleanup no removal has failed; in the rollback the backups that are left *)
(* outside 1..undoTop are still to be removed, or could not be.             *)
Leftovers ==
  /\ phase \in {"resolve", "stage"} => staged = {} /\ \A f \in Files : bak[f] = None
  /\ phase = "backup" => \A f \in Files : bak[f] # None <=> f < cur
  /\ phase \in {"check", "rename"} =>
       /\ \A f \in Files : bak[f] # None
       /\ \A f \in staged : f >= cur
  /\ phase \in {"resolve", "stage", "backup", "check", "rename"} =>
       stuckBak = {} /\ \A f \in Files : bak[f] # Torn
  /\ RollingBack =>
       /\ why \in {"backup", "stale", "rename"}
       /\ staged \subseteq stuckTmp
       /\ \A f \in Files : f <= undoTop => bak[f] # Torn
       /\ why # "stale" => \A f \in Files : f > undoTop /\ bak[f] # None => f \in stuckBak
       /\ \A f \in Files : f <= cur => bak[f] # None
       /\ ~failures => \A f \in Files : cur < f /\ f <= undoTop => bak[f] = None

(* Which paths have been replaced; only those can hold the new text, and no *)
(* backup does.                                                             *)
Replacements ==
  /\ phase \in {"resolve", "stage", "backup"} => replaced = {}
  /\ phase \in {"check", "rename"} => replaced = {f \in Files : f < cur}
  /\ RollingBack => \/ replaced = {f \in Files : f <= undoTop}
                    \/ why \in {"rename", "backup"} /\ (\A f \in replaced : f <= undoTop)
  /\ \A f \in Files : bak[f] # Fixed
  /\ \A f \in Files : content[f] = Fixed => f \in replaced

(* The files that the rollback has passed do not hold the new text.         *)
Undone == RollingBack /\ ~failures => \A f \in Files : content[f] = Fixed => f <= cur

(* What the window between the last comparison and the rename lets through. *)
Window == phase = "rename" /\ content[cur] = Edit => cur \in raced

(* A file that still holds the analysed text was backed up with it.         *)
Backups ==
  /\ phase \in {"backup", "check", "rename"} =>
       \A f \in Files : content[f] = Orig /\ bak[f] # None => bak[f] = Orig
  /\ phase = "rename" => bak[cur] = Orig
  /\ OldTextKept

IInv ==
  /\ TypeOK /\ Positions /\ Leftovers /\ Replacements /\ Undone /\ Window /\ Backups
  /\ AllOrNothing /\ NothingLeftBehind


-----------------------------------------------------------------------------
USE WritersAssumption
USE DEF Files, Orig, Fixed, Fmt, Edit, Gone, None, Torn, Ended, RollingBack, stuck

LEMMA Texts ==
  /\ Orig \in Content /\ Fixed \in Content /\ Fmt \in Content /\ Edit \in Content
  /\ Gone \in Content /\ None \notin Content /\ Torn \notin Content
  BY DEF Content

LEMMA InitIInv == Init => IInv
<1> HAVE Init
<1>1. TypeOK
  <2>1. /\ content \in [Files -> Content] /\ gen \in [Files -> Nat] /\ locked \in [Files -> Nat]
        /\ bak \in [Files -> (Content \ {Gone}) \cup {None, Torn}]
        /\ snap \in [Files -> Content \cup {None}]
    BY Texts DEF Init
  <2>2. /\ edits \in 0..MaxEdits /\ cur \in 0..NFiles /\ undoTop \in 0..NFiles
        /\ fmtCur \in Files /\ fmtLock \in Nat
    BY DEF Init
  <2> QED
    BY <2>1, <2>2 DEF Init, TypeOK, FmtTypeOK
<1>2. Positions /\ Leftovers /\ Replacements
  BY DEF Init, Positions, Leftovers, Replacements
<1>3. Undone /\ Window /\ Backups /\ AllOrNothing /\ NothingLeftBehind
  BY DEF Init, Undone, Window, Backups, OldTextKept, AllOrNothing, NothingLeftBehind
<1> QED
  BY <1>1, <1>2, <1>3 DEF IInv

(***************************************************************************)
(* What a cleanup leaves are the files it could not remove.                 *)
(***************************************************************************)
LEMMA StagedLeft ==
  ASSUME NEW files \in SUBSET Files, RemoveStaged(files)
  PROVE  staged' \subseteq files /\ stuckTmp' = staged'
  BY DEF RemoveStaged, Unremovable

LEMMA BackupsLeft ==
  ASSUME TypeOK, NEW files \in SUBSET Files, RemoveBackups(files)
  PROVE  /\ bak' \in [Files -> (Content \ {Gone}) \cup {None, Torn}]
         /\ \A f \in Files : bak'[f] \in {bak[f], None}
         /\ \A f \in Files \ files : bak'[f] = bak[f]
         /\ \A f \in files : bak'[f] # None => f \in stuckBak'
         /\ stuckBak \subseteq stuckBak' /\ stuckBak' \subseteq Files
<1>1. PICK left \in SUBSET {f \in files : bak[f] # None} :
        /\ bak'      = [f \in Files |-> IF f \in files \ left THEN None ELSE bak[f]]
        /\ stuckBak' = stuckBak \cup left
  BY DEF RemoveBackups, Unremovable
<1> QED
  BY <1>1 DEF TypeOK

(***************************************************************************)
(* The variables keep their ranges.                                         *)
(***************************************************************************)
LEMMA OthersKeepTypes ==
  ASSUME TypeOK, FmtStep \/ \E f \in Files : UserWrites(f) \/ UserRemoves(f)
  PROVE  TypeOK'
<1> USE Texts DEF TypeOK, FmtTypeOK, RenameOnto, FmtEnd, FmtNext, fileVars, fixVars, fmtVars
<1>1. CASE FmtRead
  <2>1. CASE snap' = [snap EXCEPT ![fmtCur] = content[fmtCur]]
    <3>1. snap' \in [Files -> Content \cup {None}] /\ fmtCur' \in Files
      BY <1>1, <2>1 DEF FmtRead
    <3> QED
      BY <1>1, <3>1 DEF FmtRead
  <2>2. CASE FmtEnd /\ UNCHANGED <<fmtCur, snap>>
    BY <1>1, <2>2 DEF FmtRead
  <2> QED
    BY <1>1, <2>1, <2>2 DEF FmtRead
<1>2. CASE FmtLock
  <2>1. fmtPhase' \in {"lock", "check", "end"} /\ fmtCur' \in Files /\ fmtLock' \in Nat
    BY <1>2 DEF FmtLock
  <2> QED
    BY <1>2, <2>1 DEF FmtLock
<1>3. CASE FmtCheck
  BY <1>3 DEF FmtCheck
<1>4. CASE FmtRename
  <2>1. CASE RenameOnto(fmtCur, Fmt) /\ FmtNext
    <3>1. content' \in [Files -> Content] /\ gen' \in [Files -> Nat]
      BY <2>1
    <3>2. fmtPhase' \in {"lock", "end"} /\ fmtCur' \in Files /\ fmtLock' \in Nat
      BY <2>1
    <3> QED
      BY <1>4, <3>1, <3>2 DEF FmtRename
  <2>2. CASE FmtEnd /\ UNCHANGED <<fileVars, fmtCur>>
    BY <1>4, <2>2 DEF FmtRename
  <2> QED
    BY <1>4, <2>1, <2>2 DEF FmtRename
<1>5. ASSUME NEW f \in Files, UserWrites(f) PROVE TypeOK'
  <2>1. content' \in [Files -> Content] /\ edits' \in 0..MaxEdits /\ raced' \subseteq Files
    BY <1>5 DEF UserWrites
  <2>2. gen' \in [Files -> Nat]
    BY <1>5 DEF UserWrites
  <2> QED
    BY <1>5, <2>1, <2>2 DEF UserWrites
<1>6. ASSUME NEW f \in Files, UserRemoves(f) PROVE TypeOK'
  <2>1. content' \in [Files -> Content] /\ edits' \in 0..MaxEdits
    BY <1>6 DEF UserRemoves
  <2> QED
    BY <1>6, <2>1 DEF UserRemoves
<1> QED
  BY <1>1, <1>2, <1>3, <1>4, <1>5, <1>6 DEF FmtStep

(***************************************************************************)
(* `mux fix`, step by step.                                                 *)
(***************************************************************************)
LEMMA FixKeepsIInv == IInv /\ FixStep => IInv'
<1> SUFFICES ASSUME IInv, FixStep PROVE IInv'
  OBVIOUS
<1>0. FmtTypeOK'
  <2>1. UNCHANGED fmtVars
    BY DEF FixStep, FixResolve, FixStage, FixBackup, FixCheck, FixRename, RollbackRemove,
           RollbackRestore, RollbackEnd
  <2> QED
    BY <2>1 DEF IInv, TypeOK, FmtTypeOK, fmtVars
<1> USE <1>0, Texts DEF IInv, TypeOK, Positions
<1>1. CASE FixResolve
  <2>1. ASSUME content[cur] = Orig, locked' = [locked EXCEPT ![cur] = gen[cur]],
              phase' = IF cur = NFiles THEN "stage" ELSE "resolve",
              cur' = IF cur = NFiles THEN 1 ELSE cur + 1, UNCHANGED why
        PROVE  IInv'
    <3>1. TypeOK' /\ Positions'
      BY <1>1, <2>1 DEF FixResolve, fileVars
    <3>2. Leftovers'
      BY <1>1, <2>1 DEF FixResolve, fileVars, Leftovers
    <3>3. Replacements'
      BY <1>1, <2>1 DEF FixResolve, fileVars, Replacements, Leftovers
    <3>4. Undone' /\ Window' /\ Backups'
      BY <1>1, <2>1 DEF FixResolve, fileVars, Replacements, Undone, Window, Backups, OldTextKept, Leftovers
    <3>5. AllOrNothing' /\ NothingLeftBehind'
      BY <1>1, <2>1 DEF FixResolve, fileVars, Leftovers, Replacements, Undone,
         AllOrNothing, NothingLeftBehind
    <3> QED
      BY <3>1, <3>2, <3>3, <3>4, <3>5
  <2>2. ASSUME Fail("refused"), UNCHANGED cur
        PROVE  IInv'
    <3>1. TypeOK' /\ Positions'
      BY <1>1, <2>2 DEF FixResolve, Fail, fileVars
    <3>2. Leftovers'
      BY <1>1, <2>2 DEF FixResolve, Fail, fileVars, Leftovers
    <3>3. Replacements'
      BY <1>1, <2>2 DEF FixResolve, Fail, fileVars, Replacements, Leftovers
    <3>4. Undone' /\ Window' /\ Backups'
      BY <1>1, <2>2 DEF FixResolve, Fail, fileVars, Replacements, Undone, Window, Backups, OldTextKept, Leftovers
    <3>5. AllOrNothing' /\ NothingLeftBehind'
      BY <1>1, <2>2 DEF FixResolve, Fail, fileVars, Leftovers, Replacements, Undone,
         AllOrNothing, NothingLeftBehind
    <3> QED
      BY <3>1, <3>2, <3>3, <3>4, <3>5
  <2> QED
    BY <1>1, <2>1, <2>2 DEF FixResolve
<1>2. CASE FixStage
  <2>1. ASSUME staged' = Files, phase' = "backup", UNCHANGED <<locked, why, stuckTmp>>
        PROVE  IInv'
    <3>1. TypeOK' /\ Positions'
      BY <1>2, <2>1 DEF FixStage, fileVars
    <3>2. Leftovers'
      BY <1>2, <2>1 DEF FixStage, fileVars, Leftovers
    <3>3. Replacements'
      BY <1>2, <2>1 DEF FixStage, fileVars, Replacements
    <3>4. Undone' /\ Window' /\ Backups'
      BY <1>2, <2>1 DEF FixStage, fileVars, Replacements, Undone, Window, Backups, OldTextKept, Leftovers
    <3>5. AllOrNothing' /\ NothingLeftBehind'
      BY <1>2, <2>1 DEF FixStage, fileVars, Leftovers, Replacements, Undone,
         AllOrNothing, NothingLeftBehind
    <3> QED
      BY <3>1, <3>2, <3>3, <3>4, <3>5
  <2>2. ASSUME NEW k \in Files, Fail("staging"), RemoveStaged(1..k)
        PROVE  IInv'
    <3>0. staged' \subseteq Files /\ stuckTmp' = staged'
      BY <2>2, StagedLeft
    <3>1. TypeOK' /\ Positions'
      BY <1>2, <2>2, <3>0 DEF FixStage, Fail, fileVars
    <3>2. Leftovers'
      BY <1>2, <2>2, <3>0 DEF FixStage, Fail, fileVars, Leftovers
    <3>3. Replacements'
      BY <1>2, <2>2, <3>0 DEF FixStage, Fail, fileVars, Replacements
    <3>4. Undone' /\ Window' /\ Backups'
      BY <1>2, <2>2, <3>0 DEF FixStage, Fail, fileVars, Replacements, Undone, Window, Backups, OldTextKept, Leftovers
    <3>5. AllOrNothing' /\ NothingLeftBehind'
      BY <1>2, <2>2, <3>0 DEF FixStage, Fail, fileVars, Leftovers, Replacements, Undone,
         AllOrNothing, NothingLeftBehind
    <3> QED
      BY <3>1, <3>2, <3>3, <3>4, <3>5
  <2> QED
    BY <1>2, <2>1, <2>2 DEF FixStage
<1>3. CASE FixBackup
  <2>1. ASSUME content[cur] # Gone, bak' = [bak EXCEPT ![cur] = content[cur]],
              UNCHANGED <<staged, undoTop, why, stuck>>,
              phase' = IF cur = NFiles THEN "check" ELSE "backup",
              cur' = IF cur = NFiles THEN 1 ELSE cur + 1
        PROVE  IInv'
    <3>1. TypeOK' /\ Positions'
      BY <1>3, <2>1 DEF FixBackup, fileVars
    <3>2. Leftovers'
      BY <1>3, <2>1 DEF FixBackup, fileVars, Leftovers
    <3>3. Replacements'
      <4>1. {f \in Files : f < 1} = {}
        OBVIOUS
      <4> QED
        BY <1>3, <2>1, <4>1 DEF FixBackup, fileVars, Replacements
    <3>4. Undone' /\ Window' /\ Backups'
      BY <1>3, <2>1 DEF FixBackup, fileVars, Replacements, Undone, Window, Backups, OldTextKept, Leftovers
    <3>5. AllOrNothing' /\ NothingLeftBehind'
      BY <1>3, <2>1 DEF FixBackup, fileVars, Leftovers, Replacements, Undone,
         AllOrNothing, NothingLeftBehind
    <3> QED
      BY <3>1, <3>2, <3>3, <3>4, <3>5
  <2>2. ASSUME Rollback(cur - 1, "backup"),
              \/ UNCHANGED <<bak, stuckBak>>
              \/ /\ bak'      = [bak EXCEPT ![cur] = Torn]
                 /\ stuckBak' = stuckBak \cup {cur}
        PROVE  IInv'
    <3>0. staged' \subseteq Files /\ stuckTmp' = staged'
      BY <2>2, StagedLeft DEF Rollback
    <3>a. cur \in Files
      BY <1>3 DEF FixBackup
    <3>b. bak' \in [Files -> (Content \ {Gone}) \cup {None, Torn}] /\ stuckBak' \subseteq Files
      BY <2>2, <3>a
    <3>1. TypeOK' /\ Positions'
      BY <1>3, <2>2, <3>0, <3>a, <3>b DEF FixBackup, Rollback, fileVars
    <3>2. Leftovers'
      BY <1>3, <2>2, <3>0 DEF FixBackup, Rollback, fileVars, Leftovers
    <3>3. Replacements'
      BY <1>3, <2>2, <3>0 DEF FixBackup, Rollback, fileVars, Replacements
    <3>4. Undone' /\ Window' /\ Backups'
      BY <1>3, <2>2, <3>0 DEF FixBackup, Rollback, fileVars, Replacements, Undone, Window, Backups, OldTextKept, Leftovers
    <3>5. AllOrNothing' /\ NothingLeftBehind'
      BY <1>3, <2>2, <3>0 DEF FixBackup, Rollback, fileVars, Leftovers, Replacements, Undone,
         AllOrNothing, NothingLeftBehind
    <3> QED
      BY <3>1, <3>2, <3>3, <3>4, <3>5
  <2> QED
    BY <1>3, <2>1, <2>2 DEF FixBackup
<1>4. CASE FixCheck
  <2>1. ASSUME content[cur] = Orig, phase' = "rename",
              UNCHANGED <<cur, locked, staged, undoTop, why, stuckTmp>>
        PROVE  IInv'
    <3>1. TypeOK' /\ Positions'
      BY <1>4, <2>1 DEF FixCheck, fileVars
    <3>2. Leftovers'
      BY <1>4, <2>1 DEF FixCheck, fileVars, Leftovers
    <3>3. Replacements'
      BY <1>4, <2>1 DEF FixCheck, fileVars, Replacements
    <3>4. Undone' /\ Window' /\ Backups'
      BY <1>4, <2>1 DEF FixCheck, fileVars, Replacements, Undone, Window, Backups, OldTextKept, Leftovers
    <3>5. AllOrNothing' /\ NothingLeftBehind'
      BY <1>4, <2>1 DEF FixCheck, fileVars, Leftovers, Replacements, Undone,
         AllOrNothing, NothingLeftBehind
    <3> QED
      BY <3>1, <3>2, <3>3, <3>4, <3>5
  <2>2. ASSUME Fail("unreadable"), UNCHANGED <<cur, staged, undoTop, stuckTmp>>
        PROVE  IInv'
    <3>1. TypeOK' /\ Positions'
      BY <1>4, <2>2 DEF FixCheck, Fail, fileVars
    <3>2. Leftovers'
      BY <1>4, <2>2 DEF FixCheck, Fail, fileVars, Leftovers
    <3>3. Replacements'
      BY <1>4, <2>2 DEF FixCheck, Fail, fileVars, Replacements
    <3>4. Undone' /\ Window' /\ Backups'
      BY <1>4, <2>2 DEF FixCheck, Fail, fileVars, Replacements, Undone, Window, Backups, OldTextKept, Leftovers
    <3>5. AllOrNothing' /\ NothingLeftBehind'
      BY <1>4, <2>2 DEF FixCheck, Fail, fileVars, Leftovers, Replacements, Undone,
         AllOrNothing, NothingLeftBehind
    <3> QED
      BY <3>1, <3>2, <3>3, <3>4, <3>5
  <2>3. ASSUME Rollback(cur - 1, "stale"), UNCHANGED locked
        PROVE  IInv'
    <3>0. staged' \subseteq Files /\ stuckTmp' = staged'
      BY <2>3, StagedLeft DEF Rollback
    <3>1. TypeOK' /\ Positions'
      BY <1>4, <2>3, <3>0 DEF FixCheck, Rollback, fileVars
    <3>2. Leftovers'
      BY <1>4, <2>3, <3>0 DEF FixCheck, Rollback, fileVars, Leftovers
    <3>3. Replacements'
      BY <1>4, <2>3, <3>0 DEF FixCheck, Rollback, fileVars, Replacements
    <3>4. Undone' /\ Window' /\ Backups'
      BY <1>4, <2>3, <3>0 DEF FixCheck, Rollback, fileVars, Replacements, Undone, Window, Backups, OldTextKept, Leftovers
    <3>5. AllOrNothing' /\ NothingLeftBehind'
      BY <1>4, <2>3, <3>0 DEF FixCheck, Rollback, fileVars, Leftovers, Replacements, Undone,
         AllOrNothing, NothingLeftBehind
    <3> QED
      BY <3>1, <3>2, <3>3, <3>4, <3>5
  <2> QED
    BY <1>4, <2>1, <2>2, <2>3 DEF FixCheck
<1>5. CASE FixRename
  <2>1. ASSUME RenameOnto(cur, Fixed), staged' = staged \ {cur},
              replaced' = replaced \cup {cur}, cur = NFiles, phase' = "done",
              RemoveBackups(Files), locked' = [f \in Files |-> 0],
              UNCHANGED <<cur, undoTop, why, stuckTmp>>
        PROVE  IInv'
    <3>0. /\ bak' \in [Files -> (Content \ {Gone}) \cup {None, Torn}]
          /\ \A f \in Files : bak'[f] \in {bak[f], None}
          /\ \A f \in Files : bak'[f] # None => f \in stuckBak'
          /\ stuckBak' \subseteq Files
      BY <2>1, BackupsLeft
    <3>1. TypeOK' /\ Positions'
      BY <1>5, <2>1, <3>0 DEF FixRename, RenameOnto, fileVars
    <3>2. Leftovers'
      BY <1>5, <2>1, <3>0 DEF FixRename, RenameOnto, fileVars, Leftovers
    <3>3. Replacements'
      BY <1>5, <2>1, <3>0 DEF FixRename, RenameOnto, fileVars, Replacements
    <3>4. Undone' /\ Window' /\ Backups'
      BY <1>5, <2>1, <3>0 DEF FixRename, RenameOnto, fileVars, Replacements, Undone, Window, Backups, OldTextKept, Leftovers
    <3>5. AllOrNothing' /\ NothingLeftBehind'
      BY <1>5, <2>1, <3>0 DEF FixRename, RenameOnto, fileVars, Leftovers, Replacements, Undone,
         AllOrNothing, NothingLeftBehind
    <3> QED
      BY <3>1, <3>2, <3>3, <3>4, <3>5
  <2>2. ASSUME RenameOnto(cur, Fixed), staged' = staged \ {cur},
              replaced' = replaced \cup {cur}, cur # NFiles, phase' = "check",
              cur' = cur + 1, UNCHANGED <<bak, locked, stuckBak, undoTop, why, stuckTmp>>
        PROVE  IInv'
    <3>a. cur \in Files /\ cur' \in Files
      BY <1>5, <2>2 DEF FixRename
    <3>b. content' \in [Files -> Content] /\ gen' \in [Files -> Nat]
      BY <2>2, <3>a DEF RenameOnto
    <3>c. staged' \subseteq Files /\ replaced' \subseteq Files
      BY <2>2, <3>a
    <3>d. UNCHANGED <<edits, raced, failures>>
      BY <1>5 DEF FixRename
    <3>e. locked' \in [Files -> Nat] /\ bak' \in [Files -> (Content \ {Gone}) \cup {None, Torn}]
      BY <2>2, <3>a, <3>c, <3>d
    <3>f. edits' \in 0..MaxEdits /\ cur' \in 0..NFiles /\ undoTop' \in 0..NFiles
      BY <2>2, <3>a, <3>c, <3>d
    <3>g. /\ staged' \subseteq Files /\ replaced' \subseteq Files /\ raced' \subseteq Files
          /\ stuckTmp' \subseteq Files /\ stuckBak' \subseteq Files
      BY <2>2, <3>a, <3>c, <3>d
    <3>h. TypeOK'
      BY <2>2, <3>b, <3>d, <3>e, <3>f, <3>g
    <3>1. TypeOK' /\ Positions'
      BY <1>5, <2>2, <3>a, <3>h DEF FixRename
    <3>2. Leftovers'
      BY <1>5, <2>2 DEF FixRename, RenameOnto, fileVars, Leftovers
    <3>3. Replacements'
      BY <1>5, <2>2 DEF FixRename, RenameOnto, fileVars, Replacements
    <3>4. Undone' /\ Window' /\ Backups'
      BY <1>5, <2>2 DEF FixRename, RenameOnto, fileVars, Replacements, Undone, Window, Backups, OldTextKept, Leftovers
    <3>5. AllOrNothing' /\ NothingLeftBehind'
      BY <1>5, <2>2 DEF FixRename, RenameOnto, fileVars, Leftovers, Replacements, Undone,
         AllOrNothing, NothingLeftBehind
    <3> QED
      BY <3>1, <3>2, <3>3, <3>4, <3>5
  <2>3. ASSUME Rollback(NFiles, "rename"),
              UNCHANGED <<fileVars, bak, replaced, locked, stuckBak>>
        PROVE  IInv'
    <3>0. staged' \subseteq Files /\ stuckTmp' = staged'
      BY <2>3, StagedLeft DEF Rollback
    <3>1. TypeOK' /\ Positions'
      BY <1>5, <2>3, <3>0 DEF FixRename, Rollback, fileVars
    <3>2. Leftovers'
      BY <1>5, <2>3, <3>0 DEF FixRename, Rollback, fileVars, Leftovers
    <3>3. Replacements'
      BY <1>5, <2>3, <3>0 DEF FixRename, Rollback, fileVars, Replacements
    <3>4. Undone' /\ Window' /\ Backups'
      BY <1>5, <2>3, <3>0 DEF FixRename, Rollback, fileVars, Replacements, Undone, Window, Backups, OldTextKept, Leftovers
    <3>5. AllOrNothing' /\ NothingLeftBehind'
      BY <1>5, <2>3, <3>0 DEF FixRename, Rollback, fileVars, Leftovers, Replacements, Undone,
         AllOrNothing, NothingLeftBehind
    <3> QED
      BY <3>1, <3>2, <3>3, <3>4, <3>5
  <2> QED
    BY <1>5, <2>1, <2>2, <2>3 DEF FixRename
<1>6. CASE RollbackRemove
  <2>1. ASSUME content' = [content EXCEPT ![cur] = Gone], phase' = "restore",
              UNCHANGED <<cur, failures>>
        PROVE  IInv'
    <3>a. /\ cur \in Files /\ cur <= undoTop /\ phase' = "restore" /\ UNCHANGED <<cur, failures>>
          /\ UNCHANGED <<gen, edits, raced, locked, staged, bak, replaced, undoTop, why, stuck>>
      BY <1>6, <2>1 DEF RollbackRemove
    <3>b. content' \in [Files -> Content]
      BY <2>1, <3>a
    <3>1. TypeOK' /\ Positions'
      BY <3>a, <3>b
    <3>2. Leftovers'
      BY <1>6, <2>1 DEF RollbackRemove, fileVars, Leftovers
    <3>3. Replacements'
      BY <1>6, <2>1 DEF RollbackRemove, fileVars, Replacements, Leftovers
    <3>4. Undone' /\ Window' /\ Backups'
      BY <1>6, <2>1 DEF RollbackRemove, fileVars, Replacements, Undone, Window, Backups, OldTextKept, Leftovers
    <3>5. AllOrNothing' /\ NothingLeftBehind'
      BY <1>6, <2>1 DEF RollbackRemove, fileVars, Leftovers, Replacements, Undone,
         AllOrNothing, NothingLeftBehind
    <3> QED
      BY <3>1, <3>2, <3>3, <3>4, <3>5
  <2>2. ASSUME failures' = TRUE, cur' = cur - 1, UNCHANGED <<content, phase>>
        PROVE  IInv'
    <3>1. TypeOK' /\ Positions'
      BY <1>6, <2>2 DEF RollbackRemove, fileVars
    <3>2. Leftovers'
      BY <1>6, <2>2 DEF RollbackRemove, fileVars, Leftovers
    <3>3. Replacements'
      BY <1>6, <2>2 DEF RollbackRemove, fileVars, Replacements, Leftovers
    <3>4. Undone' /\ Window' /\ Backups'
      BY <1>6, <2>2 DEF RollbackRemove, fileVars, Replacements, Undone, Window, Backups, OldTextKept, Leftovers
    <3>5. AllOrNothing' /\ NothingLeftBehind'
      BY <1>6, <2>2 DEF RollbackRemove, fileVars, Leftovers, Replacements, Undone,
         AllOrNothing, NothingLeftBehind
    <3> QED
      BY <3>1, <3>2, <3>3, <3>4, <3>5
  <2> QED
    BY <1>6, <2>1, <2>2 DEF RollbackRemove
<1>7. CASE RollbackRestore
  <2>1. ASSUME bak[cur] \in Content, RenameOnto(cur, bak[cur]),
              bak' = [bak EXCEPT ![cur] = None], UNCHANGED failures
        PROVE  IInv'
    <3>a. cur \in Files
      BY <1>7 DEF RollbackRestore
    <3>b. content' \in [Files -> Content] /\ gen' \in [Files -> Nat]
      BY <2>1, <3>a DEF RenameOnto
    <3>c. bak' \in [Files -> (Content \ {Gone}) \cup {None, Torn}]
      BY <2>1, <3>a
    <3>d. /\ phase = "restore" /\ phase' = "remove" /\ cur' = cur - 1
          /\ UNCHANGED <<edits, raced, locked, staged, replaced, undoTop, why, stuck>>
      BY <1>7 DEF RollbackRestore
    <3>e. locked' \in [Files -> Nat] /\ bak' \in [Files -> (Content \ {Gone}) \cup {None, Torn}]
      BY <3>a, <3>c, <3>d
    <3>f. edits' \in 0..MaxEdits /\ cur' \in 0..NFiles /\ undoTop' \in 0..NFiles
      BY <3>a, <3>c, <3>d
    <3>g. /\ staged' \subseteq Files /\ replaced' \subseteq Files /\ raced' \subseteq Files
          /\ stuckTmp' \subseteq Files /\ stuckBak' \subseteq Files
      BY <3>a, <3>c, <3>d
    <3>h. TypeOK'
      BY <2>1, <3>b, <3>d, <3>e, <3>f, <3>g
    <3>i. cur <= undoTop
      BY <3>d
    <3>j. RollingBack' /\ cur' <= undoTop'
      BY <3>a, <3>d, <3>h, <3>i
    <3>1. TypeOK' /\ Positions'
      BY <3>d, <3>h, <3>j
    <3>2. Leftovers'
      BY <1>7, <2>1 DEF RollbackRestore, RenameOnto, fileVars, Leftovers
    <3>3. Replacements'
      BY <1>7, <2>1 DEF RollbackRestore, RenameOnto, fileVars, Replacements, Leftovers
    <3>4. Undone' /\ Window' /\ Backups'
      BY <1>7, <2>1 DEF RollbackRestore, RenameOnto, fileVars, Replacements, Undone, Window, Backups, OldTextKept, Leftovers
    <3>5. AllOrNothing' /\ NothingLeftBehind'
      BY <1>7, <2>1 DEF RollbackRestore, RenameOnto, fileVars, Leftovers, Replacements, Undone,
         AllOrNothing, NothingLeftBehind
    <3> QED
      BY <3>1, <3>2, <3>3, <3>4, <3>5
  <2>2. ASSUME failures' = TRUE, UNCHANGED <<fileVars, bak>>
        PROVE  IInv'
    <3>a. /\ cur \in Files /\ phase' = "remove" /\ cur' = cur - 1 /\ failures' = TRUE
          /\ UNCHANGED <<fileVars, edits, raced, locked, staged, bak, replaced, undoTop, why, stuck>>
      BY <1>7, <2>2 DEF RollbackRestore
    <3>1. TypeOK' /\ Positions'
      BY <3>a, <1>7 DEF RollbackRestore, fileVars
    <3>2. Leftovers'
      BY <1>7, <2>2 DEF RollbackRestore, fileVars, Leftovers
    <3>3. Replacements'
      BY <1>7, <2>2 DEF RollbackRestore, fileVars, Replacements, Leftovers
    <3>4. Undone' /\ Window' /\ Backups'
      BY <1>7, <2>2 DEF RollbackRestore, fileVars, Replacements, Undone, Window, Backups, OldTextKept, Leftovers
    <3>5. AllOrNothing' /\ NothingLeftBehind'
      BY <1>7, <2>2 DEF RollbackRestore, fileVars, Leftovers, Replacements, Undone,
         AllOrNothing, NothingLeftBehind
    <3> QED
      BY <3>1, <3>2, <3>3, <3>4, <3>5
  <2>3. bak[cur] \in Content
    BY <1>7 DEF RollbackRestore, Leftovers
  <2> QED
    BY <1>7, <2>1, <2>2, <2>3 DEF RollbackRestore
<1>8. CASE RollbackEnd
  <2>1. ASSUME Fail(why), RemoveBackups({f \in Files : why = "stale" /\ f > undoTop})
        PROVE  IInv'
    <3> DEFINE pending == {f \in Files : why = "stale" /\ f > undoTop}
    <3>a. pending \in SUBSET Files
      OBVIOUS
    <3>0. /\ bak' \in [Files -> (Content \ {Gone}) \cup {None, Torn}]
          /\ \A f \in Files : bak'[f] \in {bak[f], None}
          /\ \A f \in Files \ pending : bak'[f] = bak[f]
          /\ \A f \in pending : bak'[f] # None => f \in stuckBak'
          /\ stuckBak \subseteq stuckBak' /\ stuckBak' \subseteq Files
      BY <2>1, <3>a, BackupsLeft
    <3>1. TypeOK' /\ Positions'
      BY <1>8, <2>1, <3>0 DEF RollbackEnd, Fail, fileVars
    <3>2. Leftovers'
      BY <1>8, <2>1, <3>0 DEF RollbackEnd, Fail, fileVars, Leftovers
    <3>3. Replacements'
      BY <1>8, <2>1, <3>0 DEF RollbackEnd, Fail, fileVars, Replacements
    <3>4. Undone' /\ Window' /\ Backups'
      BY <1>8, <2>1, <3>0 DEF RollbackEnd, Fail, fileVars, Replacements, Undone, Window, Backups, OldTextKept, Leftovers
    <3>5. AllOrNothing' /\ NothingLeftBehind'
      BY <1>8, <2>1, <3>0 DEF RollbackEnd, Fail, fileVars, Leftovers, Replacements, Undone,
         AllOrNothing, NothingLeftBehind
    <3> QED
      BY <3>1, <3>2, <3>3, <3>4, <3>5
  <2> QED
    BY <1>8, <2>1 DEF RollbackEnd
<1> QED
  BY <1>1, <1>2, <1>3, <1>4, <1>5, <1>6, <1>7, <1>8 DEF FixStep

Rest ==
  /\ Positions /\ Leftovers /\ Replacements /\ Undone /\ Window /\ Backups
  /\ AllOrNothing /\ NothingLeftBehind

(* The formatter and the user never write the new text of `mux fix`; only   *)
(* the user writes "edit", and then the file counts as raced if `mux fix`   *)
(* is about to replace it.                                                  *)
LEMMA OthersKeepRest ==
  ASSUME IInv, UNCHANGED fixVars,
         \A f \in Files : content'[f] \in {Orig, Fixed} => content'[f] = content[f],
         phase = "rename" /\ content'[cur] = Edit => content[cur] = Edit \/ cur \in raced',
         raced \subseteq raced'
  PROVE  Rest'
  BY DEF IInv, TypeOK, Rest, Positions, Leftovers, Replacements, Undone, Window,
         Backups, OldTextKept, AllOrNothing, NothingLeftBehind, fixVars

LEMMA NextIInv == IInv /\ [Next]_vars => IInv'
<1> SUFFICES ASSUME IInv, [Next]_vars PROVE IInv'
  OBVIOUS
<1>1. CASE FixStep
  BY <1>1, FixKeepsIInv
<1>2. CASE FmtStep
  <2>1. /\ UNCHANGED <<fixVars, raced>>
        /\ content' = content \/ content' = [content EXCEPT ![fmtCur] = Fmt]
    BY <1>2 DEF FmtStep, FmtRead, FmtLock, FmtCheck, FmtRename, RenameOnto, fileVars
  <2>2. \A f \in Files : content'[f] = content[f] \/ content'[f] = Fmt
    BY <2>1 DEF IInv, TypeOK
  <2>3. phase = "rename" => cur \in Files
    BY DEF IInv, Positions
  <2> QED
    BY <1>2, <2>1, <2>2, <2>3, OthersKeepTypes, OthersKeepRest DEF IInv, Rest
<1>3. ASSUME NEW f \in Files, UserWrites(f) PROVE IInv'
  <2>1. TypeOK'
    BY <1>3, OthersKeepTypes DEF IInv
  <2>2. Rest'
    BY <1>3, OthersKeepRest DEF UserWrites, IInv, TypeOK, Positions
  <2> QED
    BY <2>1, <2>2 DEF IInv, Rest
<1>4. ASSUME NEW f \in Files, UserRemoves(f) PROVE IInv'
  <2>1. TypeOK'
    BY <1>4, OthersKeepTypes DEF IInv
  <2>2. Rest'
    BY <1>4, OthersKeepRest DEF UserRemoves, IInv, TypeOK, Positions
  <2> QED
    BY <2>1, <2>2 DEF IInv, Rest
<1>5. CASE UNCHANGED vars
  <2>1. UNCHANGED <<content, gen, edits, phase, cur, locked, staged, bak, replaced, undoTop,
                    why, failures, stuckTmp, stuckBak, raced, fmtPhase, fmtCur, fmtLock, snap>>
    BY <1>5 DEF vars, fileVars, fixVars, fmtVars, stuck
  <2>2. TypeOK'
    BY <2>1 DEF IInv, TypeOK, FmtTypeOK
  <2>3. Positions'
    BY <2>1 DEF IInv, Positions
  <2>4. Leftovers'
    BY <2>1 DEF IInv, Leftovers
  <2>5. Replacements'
    BY <2>1 DEF IInv, Replacements
  <2>6. Undone'
    BY <2>1 DEF IInv, Undone
  <2>7. Window'
    BY <2>1 DEF IInv, Window
  <2>8. Backups'
    BY <2>1 DEF IInv, Backups, OldTextKept
  <2>9. AllOrNothing'
    BY <2>1 DEF IInv, AllOrNothing
  <2>10. NothingLeftBehind'
    BY <2>1 DEF IInv, NothingLeftBehind
  <2> QED
    BY <2>2, <2>3, <2>4, <2>5, <2>6, <2>7, <2>8, <2>9, <2>10 DEF IInv
<1> QED
  BY <1>1, <1>2, <1>3, <1>4, <1>5 DEF Next

-----------------------------------------------------------------------------
(* The inductive invariant holds in every behaviour.                        *)
THEOREM InductiveInvariant == Spec => []IInv
  BY InitIInv, NextIInv, PTL DEF Spec

(* A `mux fix` that fails without reporting a failed rollback, other than   *)
(* for an unreadable target, leaves none of its replacements behind.        *)
THEOREM FixIsAllOrNothing == Spec => []AllOrNothing
<1>1. IInv => AllOrNothing
  BY DEF IInv
<1> QED
  BY <1>1, InductiveInvariant, PTL

(* Such a command forgets neither temporary files nor backups: those that   *)
(* outlive it could not be removed.                                         *)
THEOREM FixCleansUp == Spec => []NothingLeftBehind
<1>1. IInv => NothingLeftBehind
  BY DEF IInv
<1> QED
  BY <1>1, InductiveInvariant, PTL

(* Until the commit, a path that holds the new text has the analysed one in *)
(* its backup, whichever removals and steps of the rollback fail.           *)
THEOREM FixKeepsOldText == Spec => []OldTextKept
<1>1. IInv => OldTextKept
  BY DEF IInv, Backups
<1> QED
  BY <1>1, InductiveInvariant, PTL

(* `mux fix` overwrites a user's text only if it was written after the last *)
(* comparison, or by a rollback over a file it had replaced or that failed  *)
(* for another reason than a changed file.                                  *)
THEOREM FixKeepsEdits == Spec => SeenEditsKept
<1>1. ASSUME IInv, NEW f \in Files, FixStep, content[f] = Edit, content'[f] # Edit
      PROVE  \/ phase = "rename" /\ cur = f /\ f \in raced
             \/ phase \in {"remove", "restore"} /\ cur = f /\ (f \in replaced \/ why \in {"rename", "backup"})
  <2>1. FixRename \/ RollbackRemove \/ RollbackRestore
    BY <1>1 DEF FixStep, FixResolve, FixStage, FixBackup, FixCheck, RollbackEnd, fileVars
  <2>2. cur \in Files /\ cur = f
    BY <1>1, <2>1 DEF FixRename, RollbackRemove, RollbackRestore, RenameOnto, Rollback, fileVars,
                IInv, TypeOK, Positions
  <2>3. CASE FixRename
    BY <1>1, <2>2, <2>3 DEF FixRename, IInv, Window
  <2>4. CASE RollbackRemove \/ RollbackRestore
    BY <1>1, <2>2, <2>4 DEF RollbackRemove, RollbackRestore, IInv, Positions, Replacements
  <2> QED
    BY <2>1, <2>3, <2>4
<1>2. IInv /\ [Next]_vars =>
        [\A f \in Files :
           FixStep /\ content[f] = Edit /\ content'[f] # Edit =>
             \/ phase = "rename" /\ cur = f /\ f \in raced
             \/ phase \in {"remove", "restore"} /\ cur = f /\ (f \in replaced \/ why \in {"rename", "backup"})]_vars
  BY <1>1
<1> QED
  BY <1>2, InductiveInvariant, PTL DEF Spec, SeenEditsKept

=============================================================================
