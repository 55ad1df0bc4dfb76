------------------------------- MODULE Download -------------------------------
(***************************************************************************)
(* How `mux update` gets a release (mux-update/src/download.rs): three     *)
(* files are fetched in turn, the metadata, the archive and its checksum,  *)
(* each by a worker process that is polled, timed out, killed and reaped.  *)
(* Then the archive is verified and unpacked.  The update can be cancelled *)
(* (Ctrl-C reaches the worker too, or not) and killed; the server may send *)
(* anything, stop sending, and replace its files.                          *)
(***************************************************************************)
EXTENDS Integers

CONSTANTS
    Limit,         \* the limit of a file's size, in chunks
    MaxRedirects,  \* redirects followed
    Uploads        \* times the files of the release are uploaded

ASSUME DownloadAssumption == Limit \in Nat /\ MaxRedirects \in Nat /\ Uploads \in Nat \ {0}

VARIABLES
    upload,     \* the upload the server offers now
    pc,         \* what the update does next
    file,       \* the file it is fetching
    error,      \* it is on its way out with an error
    fetched,    \* what was fetched of each file
    staged,     \* what was unpacked
    staging,    \* the directories it has made: "download", "stage"
    cancelled,  \* the cancellation flags set, of "update" and "worker"
    signals,    \* the processes with a SIGINT under way
    worker,     \* the state of the worker process
    killed,     \* a SIGKILL to it is under way
    requests,   \* the requests it has made
    response,   \* what the server sends it, and ...
    read,       \* ... how much of that it has read
    output      \* the file it writes to

updateVars == << pc, file, error, fetched, staged, staging >>
workerVars == << worker, killed, requests, response, read, output >>
signalVars == << cancelled, signals >>
vars == << upload, updateVars, workerVars, signalVars >>

Nothing == [state |-> "nothing"]
Alive == {"starting", "requesting", "reading", "writing"}
Exited == {"succeeded", "failed"}

Init ==
    /\ upload = 1
    /\ pc = "fetch" /\ file = "metadata" /\ error = FALSE
    /\ fetched = [f \in {"metadata", "archive", "checksum"} |-> Nothing]
    /\ staged = Nothing /\ staging = {}
    /\ cancelled = {} /\ signals = {}
    /\ worker = "none" /\ killed = FALSE /\ requests = 0
    /\ response = Nothing /\ read = 0 /\ output = Nothing

(***************************************************************************)
(* The update: run, latest, stage, and fetch for each file.                *)
(***************************************************************************)
Goto(l) == pc' = l
Fail(l) == error' = TRUE /\ Goto(l)
Proceed(l) == UNCHANGED error /\ Goto(l)
Cancelled == "update" \in cancelled

\* cancellation::check, the staging directory and the error log, the process.
StartWorker ==
    /\ pc = "fetch" /\ ~Cancelled
    /\ staging' = staging \cup {"download"}
    /\ \/ worker' = "starting" /\ Proceed("poll")
       \/ Fail("remove") /\ UNCHANGED worker
    /\ killed' = FALSE /\ requests' = 0 /\ response' = Nothing /\ read' = 0 /\ output' = Nothing
    /\ UNCHANGED << upload, file, fetched, staged, signalVars >>

RefuseFetch ==
    /\ pc = "fetch"
    /\ Fail("drop")
    /\ UNCHANGED << upload, file, fetched, staged, staging, workerVars, signalVars >>

\* Mutant: the flag is looked at before the loop only.
PollOn ==
    /\ pc = "poll"
    /\ Proceed("status")
    /\ UNCHANGED << upload, file, fetched, staged, staging, workerVars, signalVars >>

\* The loop of fetch: the flag, the process, the clock.
Poll ==
    /\ pc = "poll"
    /\ IF Cancelled THEN Fail("kill") ELSE Proceed("status")
    /\ UNCHANGED << upload, file, fetched, staged, staging, workerVars, signalVars >>

\* Mutant: the output is taken as soon as it is there.
SeeOutput ==
    /\ pc = "status"
    /\ CASE output # Nothing -> Proceed("read")
         [] output = Nothing /\ worker = "failed" -> Fail("kill")
         [] OTHER -> Proceed("poll")
    /\ UNCHANGED << upload, file, fetched, staged, staging, workerVars, signalVars >>

SeeStatus ==
    /\ pc = "status"
    /\ CASE worker = "succeeded" -> Proceed("read")
         [] worker = "failed" -> Fail("kill")
         [] OTHER -> Proceed("poll")
    /\ UNCHANGED << upload, file, fetched, staged, staging, workerVars, signalVars >>

TimeOut ==
    /\ pc = "status" /\ worker \notin Exited
    /\ Fail("kill")
    /\ UNCHANGED << upload, file, fetched, staged, staging, workerVars, signalVars >>

\* The flag is looked at with every chunk and again at the end.
ReadOutput ==
    /\ pc = "read"
    /\ \/ /\ ~Cancelled /\ output.size <= Limit
          /\ fetched' = [fetched EXCEPT ![file] = output]
          /\ Proceed("kill")
       \/ Fail("kill") /\ UNCHANGED fetched
    /\ UNCHANGED << upload, file, staged, staging, workerVars, signalVars >>

\* The drop of DownloadChild, then of the directory.
KillWorker ==
    /\ pc = "kill"
    /\ killed' = (worker \in Alive)
    /\ Proceed("wait")
    /\ UNCHANGED << upload, file, fetched, staged, staging, worker, requests, response, read,
                    output, signalVars >>

\* Mutant: the process is killed and not waited for.
WaitForNothing ==
    /\ pc = "wait"
    /\ Proceed("remove")
    /\ UNCHANGED << upload, file, fetched, staged, staging, workerVars, signalVars >>

WaitForWorker ==
    /\ pc = "wait" /\ worker \in Exited
    /\ worker' = "none"
    /\ Proceed("remove")
    /\ UNCHANGED << upload, file, fetched, staged, staging, killed, requests, response, read,
                    output, signalVars >>

RemoveDownload ==
    /\ pc = "remove"
    /\ staging' = staging \ {"download"}
    /\ Proceed(IF error THEN "drop" ELSE file)
    /\ UNCHANGED << upload, file, fetched, staged, workerVars, signalVars >>

\* parse_release; the release may be no newer or the command `update --check`; the
\* lock may be taken or the installation have changed; asset may find no archive.
Release ==
    /\ pc = "metadata"
    /\ \/ /\ fetched["metadata"].whole /\ ~Cancelled
          /\ staging' = staging \cup {"stage"}
          /\ file' = "archive" /\ Proceed("fetch")
       \/ Goto("drop") /\ error' \in BOOLEAN /\ UNCHANGED << file, staging >>
    /\ UNCHANGED << upload, fetched, staged, workerVars, signalVars >>

AskForChecksum ==
    /\ pc = "archive"
    /\ \/ file' = "checksum" /\ Proceed("fetch")
       \/ Fail("drop") /\ UNCHANGED file
    /\ UNCHANGED << upload, fetched, staged, staging, workerVars, signalVars >>

\* Mutant: any checksum of the right form will do.
VerifyForm ==
    /\ pc = "checksum"
    /\ IF ~Cancelled /\ fetched["checksum"].whole THEN Proceed("extract") ELSE Fail("drop")
    /\ UNCHANGED << upload, file, fetched, staged, staging, workerVars, signalVars >>

\* verify_checksum: the digests of different uploads differ, and of a part.
Verify ==
    /\ pc = "checksum"
    /\ IF /\ ~Cancelled
          /\ fetched["checksum"].whole /\ fetched["archive"].whole
          /\ fetched["checksum"].upload = fetched["archive"].upload
       THEN Proceed("extract") ELSE Fail("drop")
    /\ UNCHANGED << upload, file, fetched, staged, staging, workerVars, signalVars >>

\* extract and bundle_files refuse anything unexpected, and a cancelled update.
Extract ==
    /\ pc = "extract"
    /\ \/ ~Cancelled /\ staged' = fetched["archive"] /\ Proceed("install")
       \/ Fail("drop") /\ UNCHANGED staged
    /\ UNCHANGED << upload, file, fetched, staging, workerVars, signalVars >>

\* transaction::install uses the staged bundle (module InstallTransaction).
Install ==
    /\ pc = "install"
    /\ Goto("drop") /\ error' \in BOOLEAN
    /\ UNCHANGED << upload, file, fetched, staged, staging, workerVars, signalVars >>

DropStage ==
    /\ pc = "drop"
    /\ staging' = staging \ {"stage"}
    /\ staged' = Nothing
    /\ Proceed("ended")
    /\ UNCHANGED << upload, file, fetched, workerVars, signalVars >>

UpdateStep ==
    \/ StartWorker \/ RefuseFetch \/ Poll \/ SeeStatus \/ ReadOutput \/ KillWorker
    \/ WaitForWorker \/ RemoveDownload \/ Release \/ AskForChecksum \/ Verify \/ Extract
    \/ Install \/ DropStage

(***************************************************************************)
(* The worker: run_download_worker and fetch_with, which may fail at any   *)
(* time, also because its own flag is set when it reads the next chunk.    *)
(***************************************************************************)
WorkerStarts ==
    /\ worker = "starting"
    /\ worker' = "requesting"
    /\ UNCHANGED << upload, updateVars, killed, requests, response, read, output, signalVars >>

\* A redirect, or the beginning of a response, of a part of the file or all of it.
WorkerRequests ==
    /\ worker = "requesting" /\ requests <= MaxRedirects
    /\ requests' = requests + 1
    /\ \/ UNCHANGED << worker, response >>
       \/ /\ worker' = "reading"
          /\ \E size \in 0 .. Limit + 1, whole \in BOOLEAN :
                response' = [upload |-> upload, whole |-> whole, size |-> size]
    /\ UNCHANGED << upload, updateVars, killed, read, output, signalVars >>

WorkerReads ==
    /\ worker = "reading"
    /\ IF read < response.size
       THEN "worker" \notin cancelled /\ read' = read + 1 /\ UNCHANGED worker
       ELSE read <= Limit /\ worker' = "writing" /\ UNCHANGED read
    /\ UNCHANGED << upload, updateVars, killed, requests, response, output, signalVars >>

\* fs::write creates the file and fills it.
WorkerWrites ==
    /\ worker = "writing" /\ "download" \in staging
    /\ IF output = Nothing
       THEN output' = [upload |-> response.upload, whole |-> FALSE, size |-> 0] /\ UNCHANGED worker
       ELSE output' = response /\ worker' = "succeeded"
    /\ UNCHANGED << upload, updateVars, killed, requests, response, read, signalVars >>

WorkerFails ==
    /\ worker \in Alive
    /\ worker' = "failed"
    /\ UNCHANGED << upload, updateVars, killed, requests, response, read, output, signalVars >>

\* No redirect is left, the limit passed, or there is no directory to write to.
WorkerMustFail ==
    /\ \/ worker = "requesting" /\ requests > MaxRedirects
       \/ worker = "reading" /\ read > Limit
       \/ worker = "writing" /\ "download" \notin staging
    /\ WorkerFails

\* Mutant: the timeout is that of the connection.
WorkerConnectTimesOut == worker = "requesting" /\ WorkerFails

\* timeout_global, over a request and its response
WorkerTimesOut == worker \in {"requesting", "reading"} /\ WorkerFails

(***************************************************************************)
(* The system and the user.                                                *)
(***************************************************************************)
WorkerDies == killed /\ WorkerFails

\* SIGINT to the process group, or to the update alone.
Interrupt ==
    /\ signals = {} /\ cancelled = {} /\ pc # "dead"
    /\ signals' \in {{"update"}, {"update"} \cup IF worker \in Alive THEN {"worker"} ELSE {}}
    /\ UNCHANGED << upload, updateVars, workerVars, cancelled >>

\* The handler sets the flag; a worker that has not installed it yet is killed.
Handle(process) ==
    /\ process \in signals
    /\ signals' = signals \ {process}
    /\ cancelled' = cancelled \cup {process}
    /\ worker' = IF process = "worker" /\ worker = "starting" THEN "failed" ELSE worker
    /\ UNCHANGED << upload, updateVars, killed, requests, response, read, output >>

Crash ==
    /\ pc \notin {"ended", "dead"}
    /\ Goto("dead")
    /\ UNCHANGED << upload, file, error, fetched, staged, staging, workerVars, signalVars >>

Reupload ==
    /\ upload < Uploads
    /\ upload' = upload + 1
    /\ UNCHANGED << updateVars, workerVars, signalVars >>

Next ==
    \/ UpdateStep \/ TimeOut
    \/ WorkerStarts \/ WorkerRequests \/ WorkerReads \/ WorkerWrites
    \/ WorkerFails \/ WorkerMustFail \/ WorkerTimesOut \/ WorkerDies
    \/ Interrupt \/ (\E process \in {"update", "worker"} : Handle(process)) \/ Crash \/ Reupload

\* The processes run and signals arrive; a server may fall silent, and time is
\* assumed to pass only where a property says so.
Spec ==
    /\ Init /\ [][Next]_vars
    /\ WF_vars(UpdateStep)
    /\ WF_vars(WorkerStarts) /\ WF_vars(WorkerWrites) /\ WF_vars(WorkerMustFail)
    /\ WF_vars(WorkerDies)
    /\ WF_vars(Handle("update")) /\ WF_vars(Handle("worker"))

-------------------------------------------------------------------------------
Over == pc \in {"ended", "dead"}

(***************************************************************************)
(* What fetch hands on is all that one worker received of one response,    *)
(* never the beginning of a file that was being written.                   *)
(***************************************************************************)
DeliveredWhole ==
    \A f \in DOMAIN fetched :
        fetched[f] # Nothing /\ file = f /\ pc # "dead" => fetched[f] = response

(***************************************************************************)
(* Whatever was cut off, redirected or replaced on the server between the  *)
(* requests, only a whole archive is unpacked, the one its checksum is of. *)
(***************************************************************************)
StagedIsPublished ==
    staged # Nothing => staged.whole /\ staged.upload = fetched["checksum"].upload

(***************************************************************************)
(* A worker runs only as long as its directory exists, and only while the  *)
(* update waits for it; an update that ends has left neither a process nor *)
(* a directory, however it was cancelled or failed.  (DownloadChild's      *)
(* drop: "Reap before deleting staging files, including on cancellation    *)
(* and errors.")                                                           *)
(***************************************************************************)
NothingLeftRunning ==
    /\ worker # "none" => "download" \in staging
    /\ pc = "ended" => staging = {} /\ worker = "none"

(***************************************************************************)
(* A cancelled update ends without waiting for a server or a timeout.      *)
(***************************************************************************)
CancelEnds == "update" \in cancelled ~> Over

(***************************************************************************)
(* Both processes end whatever the server does, the worker also when the   *)
(* update has been killed, if time passes for both.                        *)
(***************************************************************************)
TimePasses == WF_vars(TimeOut) /\ WF_vars(WorkerTimesOut)
BothEnd == TimePasses => <>(Over /\ worker \notin Alive)

===============================================================================
