------------------------------ MODULE LspServer ------------------------------
(***************************************************************************)
(* The language server (lsp.rs): the main loop, which handles the client's  *)
(* messages and sends the answers, and the worker thread, which analyses.   *)
(* They share a task queue, a result queue, the set of cancelled requests,  *)
(* the current revision map and one pending diagnostics task.               *)
(*                                                                         *)
(* A document is its text and its revision.  What an analysis finds in it   *)
(* depends on its text and on the text of the one module Lib that documents *)
(* may import: the open buffer if Lib is open, the file on disk otherwise.  *)
(***************************************************************************)
EXTENDS Integers, Sequences, FiniteSets, Functions

CONSTANTS
  Uris,         (* documents the client opens                               *)
  Lib,          (* the module the others may import                         *)
  Texts,        (* texts of a document                                      *)
  Bad,          (* texts with an error of their own                         *)
  Importing,    (* texts that import Lib                                    *)
  Ids,          (* request ids; the client uses each once                   *)
  MaxRevision,  (* bound: documents opened and changed                      *)
  MaxWrites     (* bound: writes to Lib on disk                             *)

ASSUME LspAssumption ==
  /\ Lib \in Uris
  /\ Bad \subseteq Texts /\ Importing \subseteq Texts
  /\ MaxRevision \in Nat /\ MaxWrites \in Nat

VARIABLES
  documents,        (* open documents: uri -> [text, rev]                   *)
  nextRevision,
  publishedUris,    (* uris that the server believes show diagnostics       *)
  outstanding,      (* unanswered request -> revisions when it arrived      *)
  main,             (* where the main loop is                               *)
  tasks, results,   (* the two channels                                     *)
  cancelled,        (* requests the worker need not run                     *)
  currentRevisions, (* the revision map shared with the worker              *)
  latest,           (* PendingDiagnostics.latest: at most one task          *)
  signalQueued,     (* PendingDiagnostics.signal_queued                     *)
  worker,           (* "idle", "request", "diagnostics" or "stopped"        *)
  job,              (* the task the worker is running, a set of at most one *)
  stop,             (* the stop flag                                        *)
  replies,          (* client: answers received for each request            *)
  shown,            (* client: what it shows for each uri                   *)
  disk,             (* text of Lib on disk                                  *)
  writes,           (* number of writes to it                               *)
  unreported        (* the client has yet to report a write                 *)

docVars    == <<documents, nextRevision>>
requestVars == <<outstanding, cancelled, replies>>
diagVars   == <<currentRevisions, latest, signalQueued>>
workerVars == <<worker, job>>
diskVars   == <<disk, writes, unreported>>
vars == <<docVars, publishedUris, requestVars, main, tasks, results, diagVars,
          workerVars, stop, shown, diskVars>>

(* document_versions and document_revisions.                                *)
Revisions(docs) == [u \in DOMAIN docs |-> docs[u].rev]

None  == "none"
Clear == <<None, None>>   \* an empty diagnostics notification

(* publish_all_diagnostics, by_uri: an entry for every open document, and   *)
(* one for an imported file that is not open and has diagnostics.           *)
Report(docs, libOnDisk) ==
  LET libText == IF Lib \in DOMAIN docs THEN docs[Lib].text ELSE libOnDisk
      imports(u) == u # Lib /\ docs[u].text \in Importing
      found == IF libText \in Bad /\ \E u \in DOMAIN docs : imports(u) THEN {Lib} ELSE {}
  IN  [u \in DOMAIN docs \cup found |->
         IF u = Lib THEN <<libText, None>>
         ELSE <<docs[u].text, IF imports(u) THEN libText ELSE None>>]

Init ==
  /\ documents = <<>> /\ nextRevision = 0
  /\ publishedUris = {}
  /\ outstanding = <<>>
  /\ main = "loop"
  /\ tasks = <<>> /\ results = <<>>
  /\ cancelled = {}
  /\ currentRevisions = <<>> /\ latest = {} /\ signalQueued = FALSE
  /\ worker = "idle" /\ job = {}
  /\ stop = FALSE
  /\ replies = [id \in Ids |-> <<>>]
  /\ shown = [u \in Uris |-> Clear]
  /\ disk \in Texts /\ writes = 0 /\ unreported = FALSE

(***************************************************************************)
(* The main loop: notifications that change documents.  Each stores the     *)
(* revision map for the worker and goes on to schedule diagnostics.         *)
(***************************************************************************)
ScheduleFor(docs) ==
  /\ documents' = docs
  /\ currentRevisions' = Revisions(docs)
  /\ main' = "schedule"

Bump ==
  /\ nextRevision < MaxRevision
  /\ nextRevision' = nextRevision + 1

(* didOpen                                                                  *)
Open(u, t) ==
  /\ main = "loop" /\ u \notin DOMAIN documents
  /\ Bump
  /\ ScheduleFor([v \in DOMAIN documents \cup {u} |->
                    IF v = u THEN [text |-> t, rev |-> nextRevision'] ELSE documents[v]])
  /\ UNCHANGED <<publishedUris, requestVars, tasks, results, latest, signalQueued,
                 workerVars, stop, shown, diskVars>>

(* Mutant: a changed document keeps its revision.                           *)
ChangeKeepingRevision(u, t) ==
  /\ main = "loop" /\ u \in DOMAIN documents /\ t # documents[u].text
  /\ ScheduleFor([documents EXCEPT ![u].text = t])
  /\ UNCHANGED <<nextRevision, publishedUris, requestVars, tasks, results, latest,
                 signalQueued, workerVars, stop, shown, diskVars>>

(* didChange, with a higher version than the document has (others are       *)
(* ignored).                                                                *)
Change(u, t) ==
  /\ main = "loop" /\ u \in DOMAIN documents /\ t # documents[u].text
  /\ Bump
  /\ ScheduleFor([documents EXCEPT ![u] = [text |-> t, rev |-> nextRevision']])
  /\ UNCHANGED <<publishedUris, requestVars, tasks, results, latest, signalQueued,
                 workerVars, stop, shown, diskVars>>

(* didClose                                                                 *)
Close(u) ==
  /\ main = "loop" /\ u \in DOMAIN documents
  /\ ScheduleFor(Restrict(documents, DOMAIN documents \ {u}))
  /\ UNCHANGED <<nextRevision, publishedUris, requestVars, tasks, results, latest,
                 signalQueued, workerVars, stop, shown, diskVars>>

(* didChangeWatchedFiles: every open document gets the new revision.        *)
WatchedFiles ==
  /\ main = "loop" /\ unreported
  /\ nextRevision' = nextRevision + 1
  /\ ScheduleFor([u \in DOMAIN documents |-> [documents[u] EXCEPT !.rev = nextRevision']])
  /\ unreported' = FALSE
  /\ UNCHANGED <<publishedUris, requestVars, tasks, results, latest, signalQueued,
                 workerVars, stop, shown, disk, writes>>

(* Mutant: while a signal is queued the pending task is kept.               *)
ScheduleFirst ==
  /\ main = "schedule"
  /\ latest' = IF signalQueued THEN latest ELSE {[docs |-> documents, published |-> publishedUris]}
  /\ signalQueued' = TRUE
  /\ tasks' = IF signalQueued THEN tasks ELSE Append(tasks, [kind |-> "diagnostics"])
  /\ main' = "loop"
  /\ UNCHANGED <<docVars, publishedUris, requestVars, results, currentRevisions,
                 workerVars, stop, shown, diskVars>>

(* schedule_diagnostics, its second half: replace the pending task and wake *)
(* the worker unless a signal is queued already.                            *)
Schedule ==
  /\ main = "schedule"
  /\ latest' = {[docs |-> documents, published |-> publishedUris]}
  /\ signalQueued' = TRUE
  /\ tasks' = IF signalQueued THEN tasks ELSE Append(tasks, [kind |-> "diagnostics"])
  /\ main' = "loop"
  /\ UNCHANGED <<docVars, publishedUris, requestVars, results, currentRevisions,
                 workerVars, stop, shown, diskVars>>

(***************************************************************************)
(* The main loop: requests and their cancellation.                          *)
(***************************************************************************)
Reply(id, kind) == replies' = [replies EXCEPT ![id] = Append(@, kind)]

Sent(id) == id \in DOMAIN outstanding \/ replies[id] # <<>>

(* handle_request                                                           *)
HandleRequest(id) ==
  /\ main = "loop" /\ ~Sent(id)
  /\ outstanding' = [i \in DOMAIN outstanding \cup {id} |->
                       IF i = id THEN Revisions(documents) ELSE outstanding[i]]
  /\ tasks' = Append(tasks, [kind |-> "request", id |-> id, docs |-> documents])
  /\ UNCHANGED <<docVars, publishedUris, cancelled, replies, main, results, diagVars,
                 workerVars, stop, shown, diskVars>>

(* handle_cancellation; an id that is not outstanding is ignored.           *)
Answered(id) == outstanding' = Restrict(outstanding, DOMAIN outstanding \ {id})

(* Mutant: a request that has its answer is cancelled too.                  *)
CancelAnswered(id) ==
  /\ main = "loop" /\ Sent(id) /\ Len(replies[id]) < 2
  /\ Answered(id)
  /\ cancelled' = cancelled \cup {id}
  /\ Reply(id, "cancelled")
  /\ UNCHANGED <<docVars, publishedUris, main, tasks, results, diagVars, workerVars,
                 stop, shown, diskVars>>

CancelRequest(id) ==
  /\ main = "loop" /\ id \in DOMAIN outstanding
  /\ Answered(id)
  /\ cancelled' = cancelled \cup {id}
  /\ Reply(id, "cancelled")
  /\ UNCHANGED <<docVars, publishedUris, main, tasks, results, diagVars, workerVars,
                 stop, shown, diskVars>>

(* Mutant: a stale result is dropped without an answer.                      *)
SendDroppingStale ==
  /\ main \in {"loop", "exit"}
  /\ results # <<>> /\ Head(results).kind = "request"
  /\ LET id == Head(results).id
     IN  IF id \in DOMAIN outstanding /\ outstanding[id] = Revisions(documents)
         THEN Answered(id) /\ Reply(id, "result")
         ELSE UNCHANGED <<outstanding, replies>>
  /\ results' = Tail(results)
  /\ UNCHANGED <<docVars, cancelled, publishedUris, main, tasks, diagVars, workerVars,
                 stop, shown, diskVars>>

(***************************************************************************)
(* send_worker_results, one result.  The answer to a request that is not    *)
(* outstanding any more is dropped, one computed from other revisions than  *)
(* the current ones becomes an error.                                       *)
(***************************************************************************)
SendRequestResult ==
  /\ main \in {"loop", "exit"}
  /\ results # <<>> /\ Head(results).kind = "request"
  /\ LET id == Head(results).id
     IN  IF id \in DOMAIN outstanding
         THEN /\ Answered(id)
              /\ Reply(id, IF outstanding[id] = Revisions(documents) THEN "result" ELSE "modified")
              /\ UNCHANGED cancelled
         ELSE /\ cancelled' = cancelled \ {id}
              /\ UNCHANGED <<outstanding, replies>>
  /\ results' = Tail(results)
  /\ UNCHANGED <<docVars, publishedUris, main, tasks, diagVars, workerVars, stop,
                 shown, diskVars>>

SendDiagnostics ==
  /\ main \in {"loop", "exit"}
  /\ results # <<>> /\ Head(results).kind = "diagnostics"
  /\ LET r == Head(results)
     IN  IF r.revisions = Revisions(documents)
         THEN /\ publishedUris' = r.published
              /\ shown' = [u \in Uris |-> IF u \in DOMAIN r.messages THEN r.messages[u] ELSE shown[u]]
         ELSE UNCHANGED <<publishedUris, shown>>
  /\ results' = Tail(results)
  /\ UNCHANGED <<docVars, requestVars, main, tasks, diagVars, workerVars, stop, diskVars>>

(* The exit notification, or the client is gone: leave the loop, set the    *)
(* stop flag, drop the channels and join the worker.                        *)
Exit ==
  /\ main = "loop"
  /\ main' = "exit"
  /\ UNCHANGED <<docVars, publishedUris, requestVars, tasks, results, diagVars,
                 workerVars, stop, shown, diskVars>>

(* Mutant: the worker is joined before it is told to stop.                  *)
JoinFirst ==
  /\ main = "exit"
  /\ main' = "join"
  /\ UNCHANGED <<docVars, publishedUris, requestVars, tasks, results, diagVars,
                 workerVars, stop, shown, diskVars>>

Shutdown ==
  /\ main = "exit"
  /\ main' = "join"
  /\ stop' = TRUE
  /\ UNCHANGED <<docVars, publishedUris, requestVars, tasks, results, diagVars,
                 workerVars, shown, diskVars>>

(***************************************************************************)
(* analysis_worker                                                          *)
(***************************************************************************)
Receive(kind) ==
  /\ worker = "idle" /\ ~stop
  /\ tasks # <<>> /\ Head(tasks).kind = kind
  /\ tasks' = Tail(tasks)

(* run_request_task drops a request that is cancelled by now.               *)
StartRequest ==
  /\ Receive("request")
  /\ IF Head(tasks).id \in cancelled
     THEN cancelled' = cancelled \ {Head(tasks).id} /\ UNCHANGED workerVars
     ELSE worker' = "request" /\ job' = {Head(tasks)} /\ UNCHANGED cancelled
  /\ UNCHANGED <<docVars, publishedUris, outstanding, replies, main, results, diagVars,
                 stop, shown, diskVars>>

FinishRequest ==
  /\ worker = "request"
  /\ \E task \in job :
       results' = Append(results, [kind |-> "request", id |-> task.id, docs |-> task.docs])
  /\ worker' = "idle" /\ job' = {}
  /\ UNCHANGED <<docVars, publishedUris, requestVars, main, tasks, diagVars, stop,
                 shown, diskVars>>

(* Mutant: the signal stays marked as queued when the task is skipped.      *)
StartKeepingSignal ==
  /\ Receive("diagnostics")
  /\ latest' = {}
  /\ \E task \in latest :
       IF Revisions(task.docs) = currentRevisions
       THEN worker' = "diagnostics" /\ job' = {task} /\ signalQueued' = FALSE
       ELSE UNCHANGED <<workerVars, signalQueued>>
  /\ UNCHANGED <<docVars, publishedUris, requestVars, main, results, currentRevisions,
                 stop, shown, diskVars>>

(* Take the latest task; skip it when the documents have changed since.     *)
StartDiagnostics ==
  /\ Receive("diagnostics")
  /\ signalQueued' = FALSE
  /\ latest' = {}
  /\ \E task \in latest :
       IF Revisions(task.docs) = currentRevisions
       THEN worker' = "diagnostics" /\ job' = {task}
       ELSE UNCHANGED workerVars
  /\ UNCHANGED <<docVars, publishedUris, requestVars, main, results, currentRevisions,
                 stop, shown, diskVars>>

(* publish_all_diagnostics: clear what the task says was published and has  *)
(* no entry any more, then publish every entry.                             *)
Messages(task, report) ==
  [u \in task.published \cup DOMAIN report |-> IF u \in DOMAIN report THEN report[u] ELSE Clear]

FinishDiagnostics ==
  /\ worker = "diagnostics"
  /\ \E task \in job :
       LET report == Report(task.docs, disk)
       IN  results' = Append(results,
             [kind |-> "diagnostics", revisions |-> Revisions(task.docs),
              messages |-> Messages(task, report), published |-> DOMAIN report])
  /\ worker' = "idle" /\ job' = {}
  /\ UNCHANGED <<docVars, publishedUris, requestVars, main, tasks, diagVars, stop,
                 shown, diskVars>>

(* The stop flag, seen with the next task, or the closed empty channel.     *)
StopWorker ==
  /\ worker = "idle" /\ stop
  /\ worker' = "stopped"
  /\ UNCHANGED <<docVars, publishedUris, requestVars, main, tasks, results, diagVars,
                 job, stop, shown, diskVars>>

(* Somebody saves Lib on disk.                                              *)
WriteLib(t) ==
  /\ writes < MaxWrites /\ t # disk
  /\ disk' = t
  /\ writes' = writes + 1
  /\ unreported' = TRUE
  /\ UNCHANGED <<docVars, publishedUris, requestVars, main, tasks, results, diagVars,
                 workerVars, stop, shown>>

MainStep == Schedule \/ SendRequestResult \/ SendDiagnostics \/ Shutdown

WorkerStep ==
  \/ StartRequest \/ FinishRequest
  \/ StartDiagnostics \/ FinishDiagnostics
  \/ StopWorker

Next ==
  \/ \E u \in Uris, t \in Texts : Open(u, t) \/ Change(u, t)
  \/ \E u \in Uris : Close(u)
  \/ WatchedFiles
  \/ \E id \in Ids : HandleRequest(id) \/ CancelRequest(id)
  \/ Exit
  \/ MainStep
  \/ WorkerStep
  \/ \E t \in Texts : WriteLib(t)

(* The two threads run; the client reports a written file, since it was     *)
(* asked to watch.                                                          *)
Spec ==
  /\ Init /\ [][Next]_vars
  /\ WF_vars(MainStep) /\ WF_vars(WorkerStep) /\ WF_vars(WatchedFiles)

(***************************************************************************)
(* Properties                                                               *)
(***************************************************************************)
RangeOf(q) == {q[i] : i \in DOMAIN q}

Document == [text : Texts, rev : 1..(MaxRevision + MaxWrites)]

IsDocuments(d) == DOMAIN d \subseteq Uris /\ \A u \in DOMAIN d : d[u] \in Document

(* The variables stay in their ranges.                                      *)
TypeOK ==
  /\ IsDocuments(documents)
  /\ nextRevision \in 0..(MaxRevision + MaxWrites)
  /\ publishedUris \subseteq Uris
  /\ DOMAIN outstanding \subseteq Ids /\ cancelled \subseteq Ids
  /\ main \in {"loop", "schedule", "exit", "join"}
  /\ \A task \in RangeOf(tasks) :
       \/ task = [kind |-> "diagnostics"]
       \/ task.kind = "request" /\ task.id \in Ids /\ IsDocuments(task.docs)
  /\ \A r \in RangeOf(results) :
       \/ r.kind = "diagnostics" /\ r.published \subseteq Uris
       \/ r.kind = "request" /\ r.id \in Ids
  /\ DOMAIN currentRevisions \subseteq Uris
  /\ signalQueued \in BOOLEAN
  /\ worker \in {"idle", "request", "diagnostics", "stopped"}
  /\ Cardinality(job) = IF worker \in {"request", "diagnostics"} THEN 1 ELSE 0
  /\ stop = (main = "join")
  /\ \A u \in Uris : shown[u] \in (Texts \cup {None}) \X (Texts \cup {None})
  /\ disk \in Texts /\ writes \in 0..MaxWrites /\ unreported \in BOOLEAN

(* A cancellation, a result on its way and a changed document can come in   *)
(* any order: every request gets at most one answer, and is outstanding     *)
(* until it has it.                                                         *)
AnsweredOnce ==
  \A id \in Ids :
    /\ Len(replies[id]) <= 1
    /\ id \in DOMAIN outstanding => replies[id] = <<>>

(* A result reaches the client only if the documents it was computed from   *)
(* are the ones the client has now, closed and reopened ones included.      *)
NoStaleAnswer ==
  [][\A id \in Ids :
       replies'[id] # replies[id] /\ "result" \in RangeOf(replies'[id]) =>
         Head(results).docs = documents]_vars

(* Coalescing loses no wake-up: as long as a diagnostics task is pending    *)
(* there is exactly one signal for it in the channel, and between two       *)
(* messages the pending task is for the documents as they are.              *)
WakeUpPending ==
  /\ signalQueued <=> latest # {}
  /\ Cardinality({i \in DOMAIN tasks : tasks[i].kind = "diagnostics"}) = Cardinality(latest)
  /\ main = "loop" => \A task \in latest : task.docs = documents

Expected(u) ==
  LET report == Report(documents, disk)
  IN  IF u \in DOMAIN report THEN report[u] ELSE Clear

Exiting == main \in {"exit", "join"}

(* Once the client is quiet, every open document shows the diagnostics of   *)
(* its latest text and every closed one none, however many diagnostics      *)
(* tasks were coalesced, skipped or dropped on the way.  A closed document  *)
(* that others import is excepted: the uris published for it are copied     *)
(* into a task when it is scheduled, before the results that add to them.   *)
OpenConverge ==
  <>[](Exiting \/ \A u \in Uris :
         u # Lib \/ Lib \in DOMAIN documents => shown[u] = Expected(u))

(* Every request is answered, unless the server is told to exit.            *)
RequestsAnswered ==
  \A id \in Ids : id \in DOMAIN outstanding ~> (replies[id] # <<>> \/ Exiting)

(* The join of `run` comes back: after the exit notification the worker     *)
(* finishes what it is doing and stops, whatever is queued.                 *)
WorkerStops == main = "exit" ~> worker = "stopped"

=============================================================================
