---------------------------- MODULE DownloadProofs ----------------------------
(***************************************************************************)
(* Proofs about Download, for every limit of the size of a file, every     *)
(* number of redirects and of uploads.                                     *)
(***************************************************************************)
EXTENDS Download, TLAPS

FileNames == {"metadata", "archive", "checksum"}
Content == [upload : Nat, whole : BOOLEAN, size : Nat]

Waiting == {"poll", "status", "read", "kill", "wait"}

\* The variables stay in their ranges.
TypeOK ==
    /\ upload \in Nat
    /\ pc \in Waiting \cup {"fetch", "remove", "extract", "install", "drop", "ended", "dead"}
                      \cup FileNames
    /\ file \in FileNames /\ error \in BOOLEAN
    /\ fetched \in [FileNames -> Content \cup {Nothing}]
    /\ staging \subseteq {"download", "stage"}
    /\ worker \in {"none"} \cup Alive \cup Exited
    /\ response \in Content \cup {Nothing}
    /\ read \in Nat

\* The update waits for a worker exactly while there is one, and the directory is
\* there for longer than that.
WorkerInv ==
    /\ worker # "none" => pc \in Waiting \cup {"dead"} /\ "download" \in staging
    /\ pc \in Waiting => worker # "none"
    /\ "download" \in staging => pc \in Waiting \cup {"remove", "dead"}
    /\ pc = "ended" => staging = {}

\* What a worker has written when it succeeds is the response, and the response is
\* settled by then.
OutputInv ==
    /\ worker = "succeeded" => output = response
    /\ worker \in {"reading", "writing", "succeeded"} => response \in Content
    /\ pc = "read" => worker = "succeeded"

\* The files are fetched in turn.
FetchInv ==
    /\ file = "metadata" => fetched["archive"] = Nothing
    /\ file # "checksum" => fetched["checksum"] = Nothing
    /\ pc \in {"fetch", "poll", "status", "read"} => fetched[file] = Nothing
    /\ fetched[file] # Nothing => worker \notin Alive
    /\ pc \in FileNames => file = pc

\* What is unpacked has been verified.
StageInv ==
    /\ pc = "extract" \/ staged # Nothing =>
         /\ fetched["archive"].whole
         /\ fetched["archive"].upload = fetched["checksum"].upload
    /\ staged # Nothing => staged = fetched["archive"] /\ pc \in {"install", "drop", "dead"}

IInv ==
    /\ TypeOK /\ WorkerInv /\ OutputInv /\ FetchInv /\ StageInv
    /\ DeliveredWhole

-------------------------------------------------------------------------------
(* The initial state.                                                         *)
LEMMA InitIInv == Init => IInv
<1> USE DEF Init, Nothing
<1> HAVE Init
<1>1. TypeOK
  BY DEF TypeOK, FileNames
<1>2. WorkerInv
  BY DEF WorkerInv, Waiting
<1>3. OutputInv
  BY DEF OutputInv
<1>4. FetchInv
  BY DEF FetchInv, Alive, FileNames
<1>5. StageInv
  BY DEF StageInv
<1>6. DeliveredWhole
  BY DEF DeliveredWhole
<1> QED
  BY <1>1, <1>2, <1>3, <1>4, <1>5, <1>6 DEF IInv

(* A step of the update keeps the invariant.  In SeeStatus and ReadOutput the  *)
(* status of the worker says what its output is.                              *)
LEMMA UpdateStepKeeps ==
  ASSUME IInv, UpdateStep \/ TimeOut
  PROVE  IInv'
<1> USE DEF IInv, TypeOK, WorkerInv, OutputInv, FetchInv, StageInv, DeliveredWhole,
            Content, FileNames, Waiting, Nothing, Alive, Exited,
            Goto, Fail, Proceed, Cancelled, updateVars, workerVars, signalVars
<1>1. ASSUME StartWorker PROVE  IInv'
  BY <1>1 DEF StartWorker
<1>2. ASSUME RefuseFetch PROVE  IInv'
  BY <1>2 DEF RefuseFetch
<1>3. ASSUME Poll PROVE  IInv'
  BY <1>3 DEF Poll
<1>4. ASSUME SeeStatus PROVE  IInv'
  <2>1. pc = "status" /\ UNCHANGED << upload, file, fetched, staged, staging, workerVars >>
    BY <1>4 DEF SeeStatus
  <2>2. \/ worker = "succeeded" /\ pc' = "read" /\ error' = error
        \/ error' = TRUE /\ pc' = "kill"
        \/ error' = error /\ pc' = "poll"
    BY <1>4, Zenon DEF SeeStatus, Proceed, Fail, Goto
  <2>3. fetched[file] = Nothing /\ (worker = "succeeded" => response \in Content)
    BY <2>1 DEF FetchInv, OutputInv
  <2> QED
    BY <2>1, <2>2, <2>3
<1>5. ASSUME ReadOutput PROVE  IInv'
  <2>1. pc = "read" /\ worker = "succeeded" /\ output = response /\ response \in Content
    BY <1>5 DEF ReadOutput, OutputInv
  <2>2. /\ pc' = "kill" /\ error' \in BOOLEAN
        /\ fetched' \in {fetched, [fetched EXCEPT ![file] = response]}
        /\ UNCHANGED << upload, file, staged, staging, workerVars >>
    BY <1>5, <2>1 DEF ReadOutput, Proceed, Fail, Goto
  <2>3. staged = Nothing
    BY <2>1 DEF StageInv
  <2> QED
    BY <2>1, <2>2, <2>3
<1>6. ASSUME KillWorker PROVE  IInv'
  BY <1>6 DEF KillWorker
<1>7. ASSUME WaitForWorker PROVE  IInv'
  BY <1>7 DEF WaitForWorker
<1>8. ASSUME RemoveDownload PROVE  IInv'
  BY <1>8 DEF RemoveDownload
<1>9. ASSUME Release PROVE  IInv'
  BY <1>9 DEF Release
<1>10. ASSUME AskForChecksum PROVE  IInv'
  BY <1>10 DEF AskForChecksum
<1>11. ASSUME Verify PROVE  IInv'
  BY <1>11 DEF Verify
<1>12. ASSUME Extract PROVE  IInv'
  BY <1>12 DEF Extract
<1>13. ASSUME Install PROVE  IInv'
  BY <1>13 DEF Install
<1>14. ASSUME DropStage PROVE  IInv'
  BY <1>14 DEF DropStage
<1>15. ASSUME TimeOut PROVE  IInv'
  BY <1>15 DEF TimeOut
<1> QED
  BY <1>1, <1>2, <1>3, <1>4, <1>5, <1>6, <1>7, <1>8, <1>9, <1>10, <1>11, <1>12, <1>13, <1>14, <1>15 DEF UpdateStep

(* A step of the worker, which may fail in many ways, keeps the invariant:   *)
(* the response is settled before anything is written.                        *)
LEMMA WorkerStepKeeps ==
  ASSUME IInv, WorkerStarts \/ WorkerRequests \/ WorkerReads \/ WorkerWrites \/ WorkerFails
  PROVE  IInv'
<1> USE DEF IInv, TypeOK, WorkerInv, OutputInv, FetchInv, StageInv, DeliveredWhole,
            Content, FileNames, Waiting, Nothing, Alive, Exited,
            Goto, Fail, Proceed, Cancelled, updateVars, workerVars, signalVars
<1>1. ASSUME WorkerStarts PROVE  IInv'
  BY <1>1 DEF WorkerStarts
<1>2. ASSUME WorkerRequests PROVE  IInv'
  BY <1>2 DEF WorkerRequests
<1>3. ASSUME WorkerReads PROVE  IInv'
  BY <1>3 DEF WorkerReads
<1>4. ASSUME WorkerWrites PROVE  IInv'
  BY <1>4 DEF WorkerWrites
<1>5. ASSUME WorkerFails PROVE  IInv'
  BY <1>5 DEF WorkerFails
<1> QED
  BY <1>1, <1>2, <1>3, <1>4, <1>5

(* Signals, a crash of the update and a new upload keep the invariant.        *)
LEMMA SystemStepKeeps ==
  ASSUME IInv, Interrupt \/ (\E process \in {"update", "worker"} : Handle(process)) \/ Crash \/ Reupload
  PROVE  IInv'
<1> USE DEF IInv, TypeOK, WorkerInv, OutputInv, FetchInv, StageInv, DeliveredWhole,
            Content, FileNames, Waiting, Nothing, Alive, Exited,
            Goto, Fail, Proceed, Cancelled, updateVars, workerVars, signalVars
<1>1. ASSUME Interrupt PROVE  IInv'
  BY <1>1 DEF Interrupt
<1>2. ASSUME NEW process \in {"update", "worker"}, Handle(process) PROVE  IInv'
  BY <1>2 DEF Handle
<1>3. ASSUME Crash PROVE  IInv'
  BY <1>3 DEF Crash
<1>4. ASSUME Reupload PROVE  IInv'
  BY <1>4 DEF Reupload
<1> QED
  BY <1>1, <1>2, <1>3, <1>4

(* The induction step.                                                        *)
LEMMA NextIInv == IInv /\ [Next]_vars => IInv'
<1> SUFFICES ASSUME IInv, [Next]_vars PROVE IInv'
  OBVIOUS
<1>1. CASE UpdateStep \/ TimeOut
  BY <1>1, UpdateStepKeeps
<1>2. CASE WorkerStarts \/ WorkerRequests \/ WorkerReads \/ WorkerWrites \/ WorkerFails
  BY <1>2, WorkerStepKeeps
<1>3. CASE WorkerMustFail \/ WorkerTimesOut \/ WorkerDies
  BY <1>3, WorkerStepKeeps DEF WorkerMustFail, WorkerTimesOut, WorkerDies
<1>4. CASE Interrupt \/ (\E process \in {"update", "worker"} : Handle(process)) \/ Crash \/ Reupload
  BY <1>4, SystemStepKeeps
<1>5. CASE UNCHANGED vars
  BY <1>5 DEF vars, updateVars, workerVars, signalVars, IInv, TypeOK, WorkerInv, OutputInv,
             FetchInv, StageInv, DeliveredWhole
<1> QED
  BY <1>1, <1>2, <1>3, <1>4, <1>5 DEF Next

(* IInv holds in every reachable state.                                       *)
THEOREM InductiveInvariant == Spec => []IInv
  BY InitIInv, NextIInv, PTL DEF Spec

-------------------------------------------------------------------------------
(* Whatever a server sends, the update reads of a file all that one worker    *)
(* received of one response (fetch reads after the worker's exit status).     *)
THEOREM FilesDeliveredWhole == Spec => []DeliveredWhole
<1>1. IInv => DeliveredWhole
  BY DEF IInv
<1> QED
  BY <1>1, InductiveInvariant, PTL

(* What is unpacked is whole and of the upload that the checksum is of,       *)
(* however often the files are replaced between the requests (stage).         *)
THEOREM OnlyPublishedStaged == Spec => []StagedIsPublished
<1>1. IInv => StagedIsPublished
  BY DEF IInv, StageInv, StagedIsPublished
<1> QED
  BY <1>1, InductiveInvariant, PTL

(* No worker outlives its directory, and an update that ends leaves neither   *)
(* (the drop of DownloadChild, on every way out of fetch).                    *)
THEOREM NoWorkerLeft == Spec => []NothingLeftRunning
<1>1. IInv => NothingLeftRunning
  BY DEF IInv, TypeOK, WorkerInv, NothingLeftRunning, Waiting
<1> QED
  BY <1>1, InductiveInvariant, PTL

===============================================================================
