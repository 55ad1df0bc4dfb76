---------------------------- MODULE LspServerProofs ----------------------------
(***************************************************************************)
(* Proofs about the language server, for every set of documents, texts and  *)
(* requests and every number of changes and writes.                         *)
(***************************************************************************)
EXTENDS LspServer, FiniteSetTheorems, SequenceTheorems, TLAPS

(* The values in the channels.                                              *)
Revs     == 1 .. (MaxRevision + MaxWrites)
Docs     == UNION {[S -> Document] : S \in SUBSET Uris}
Shown    == (Texts \cup {None}) \X (Texts \cup {None})
Messaged == UNION {[S -> Shown] : S \in SUBSET Uris}

Signal   == [kind |-> "diagnostics"]
Request  == [kind : {"request"}, id : Ids, docs : Docs]
Findings == [kind : {"diagnostics"}, revisions : UNION {[S -> Revs] : S \in SUBSET Uris},
             messages : Messaged, published : SUBSET Uris]
Pending  == [docs : Docs, published : SUBSET Uris]
Task     == Request \cup {Signal}
Result   == Request \cup Findings
Answer   == {"result", "modified", "cancelled"}

Types ==
  /\ documents \in Docs /\ publishedUris \subseteq Uris
  /\ DOMAIN outstanding \subseteq Ids /\ cancelled \subseteq Ids
  /\ replies \in [Ids -> Seq(Answer)]
  /\ main \in {"loop", "schedule", "exit", "join"}
  /\ tasks \in Seq(Task) /\ results \in Seq(Result)
  /\ DOMAIN currentRevisions \subseteq Uris
  /\ latest \subseteq Pending /\ signalQueued \in BOOLEAN
  /\ shown \in [Uris -> Shown]

(* The worker has the task it works on.                                     *)
WorkerInv ==
  /\ worker \in {"idle", "request", "diagnostics", "stopped"}
  /\ worker = "request" => \E r \in Request : job = {r}
  /\ worker = "diagnostics" => \E t \in Pending : job = {t}
  /\ worker \in {"idle", "stopped"} => job = {}
  /\ stop = (main = "join")

(* The bound on changes and writes bounds the revisions.                    *)
Counters ==
  /\ nextRevision \in Nat /\ writes \in 0..MaxWrites /\ disk \in Texts
  /\ unreported \in BOOLEAN
  /\ nextRevision <= MaxRevision + writes
  /\ unreported => writes > 0 /\ nextRevision < MaxRevision + writes

(* The revisions of a snapshot are not newer than the counter, and equal    *)
(* revisions of a document mean equal texts.                                *)
Known(docs) ==
  \A u \in DOMAIN docs :
    /\ docs[u].rev <= nextRevision
    /\ u \in DOMAIN documents /\ docs[u].rev = documents[u].rev => docs[u].text = documents[u].text

(* Requests whose answer is being computed or on its way.                   *)
InFlight ==
  {r \in RangeOf(tasks) \cup RangeOf(results) : r.kind = "request"}
    \cup (IF worker = "request" THEN job ELSE {})

(* Such a request has been sent, and what is recorded for it, as long as it *)
(* has no answer, are the revisions of the documents it is computed from.   *)
Tracked ==
  /\ Known(documents)
  /\ \A r \in InFlight :
       /\ Known(r.docs) /\ Sent(r.id)
       /\ r.id \in DOMAIN outstanding => outstanding[r.id] = Revisions(r.docs)

NoSignal(q)  == \A i \in DOMAIN q : q[i].kind # "diagnostics"
OneSignal(q) ==
  \E i \in DOMAIN q : q[i].kind = "diagnostics" /\ \A j \in DOMAIN q \ {i} : q[j].kind # "diagnostics"

(* One signal for a pending task, none without one.                         *)
Signals ==
  /\ \/ latest = {} /\ NoSignal(tasks)
     \/ OneSignal(tasks) /\ \E t \in latest : latest = {t}
  /\ signalQueued <=> latest # {}
  /\ main = "loop" => \A task \in latest : task.docs = documents

IInv == Types /\ WorkerInv /\ Counters /\ Tracked /\ Signals /\ AnsweredOnce


-----------------------------------------------------------------------------
USE LspAssumption

(***************************************************************************)
(* Queues.                                                                  *)
(***************************************************************************)
LEMMA Indices ==
  ASSUME NEW S, NEW q \in Seq(S)
  PROVE  /\ DOMAIN q = 1 .. Len(q) /\ Len(q) \in Nat
         /\ \A i \in DOMAIN q : q[i] \in S
         /\ RangeOf(q) \subseteq S
  BY LenProperties, ElementOfSeq DEF RangeOf

LEMMA Appended ==
  ASSUME NEW S, NEW q \in Seq(S), NEW e \in S
  PROVE  /\ Append(q, e) \in Seq(S)
         /\ DOMAIN Append(q, e) = DOMAIN q \cup {Len(q) + 1}
         /\ Len(q) + 1 \notin DOMAIN q
         /\ \A i \in DOMAIN q : Append(q, e)[i] = q[i]
         /\ Append(q, e)[Len(q) + 1] = e
         /\ RangeOf(Append(q, e)) = RangeOf(q) \cup {e}
<1>1. /\ DOMAIN q = 1 .. Len(q) /\ Len(q) \in Nat
      /\ DOMAIN Append(q, e) = 1 .. Len(q) + 1
  BY AppendProperties, LenProperties
<1>2. DOMAIN Append(q, e) = DOMAIN q \cup {Len(q) + 1} /\ Len(q) + 1 \notin DOMAIN q
  BY <1>1
<1>3. /\ Append(q, e) \in Seq(S)
      /\ \A i \in DOMAIN q : Append(q, e)[i] = q[i]
      /\ Append(q, e)[Len(q) + 1] = e
  BY <1>1, AppendProperties
<1> QED
  BY <1>2, <1>3 DEF RangeOf

LEMMA Taken ==
  ASSUME NEW S, NEW q \in Seq(S), q # <<>>
  PROVE  /\ Head(q) \in S /\ Head(q) \in RangeOf(q) /\ Head(q) = q[1] /\ 1 \in DOMAIN q
         /\ Tail(q) \in Seq(S)
         /\ \A i \in DOMAIN Tail(q) : i + 1 \in DOMAIN q \ {1} /\ Tail(q)[i] = q[i + 1]
         /\ \A i \in DOMAIN q \ {1} : i - 1 \in DOMAIN Tail(q) /\ q[i] = Tail(q)[i - 1]
         /\ RangeOf(Tail(q)) \subseteq RangeOf(q)
<1>1. /\ DOMAIN q = 1 .. Len(q) /\ Len(q) \in Nat \ {0}
  BY LenProperties, EmptySeq
<1>2. /\ Tail(q) \in Seq(S) /\ Len(Tail(q)) = Len(q) - 1 /\ DOMAIN Tail(q) = 1 .. Len(q) - 1
      /\ \A i \in 1 .. Len(Tail(q)) : Tail(q)[i] = q[i + 1]
  BY <1>1, HeadTailProperties, LenProperties
<1>3. Head(q) = q[1] /\ 1 \in DOMAIN q /\ Head(q) \in S
  BY <1>1, HeadTailProperties
<1>4. \A i \in DOMAIN Tail(q) : i + 1 \in DOMAIN q \ {1} /\ Tail(q)[i] = q[i + 1]
  BY <1>1, <1>2
<1>5. \A i \in DOMAIN q \ {1} : i - 1 \in DOMAIN Tail(q) /\ q[i] = Tail(q)[i - 1]
  <2> TAKE i \in DOMAIN q \ {1}
  <2>1. i - 1 \in 1 .. Len(Tail(q)) /\ (i - 1) + 1 = i
    BY <1>1, <1>2
  <2> QED
    BY <1>2, <2>1
<1> QED
  BY <1>2, <1>3, <1>4, <1>5 DEF RangeOf

(* The signals in a queue of tasks.                                         *)
LEMMA SignalAppended ==
  ASSUME NEW S, NEW q \in Seq(S), NEW e \in S
  PROVE  /\ e.kind # "diagnostics" =>
              /\ NoSignal(q) => NoSignal(Append(q, e))
              /\ OneSignal(q) => OneSignal(Append(q, e))
         /\ e.kind = "diagnostics" /\ NoSignal(q) => OneSignal(Append(q, e))
<1>1. /\ DOMAIN Append(q, e) = DOMAIN q \cup {Len(q) + 1}
      /\ \A i \in DOMAIN q : Append(q, e)[i] = q[i]
      /\ Append(q, e)[Len(q) + 1] = e
      /\ Len(q) + 1 \notin DOMAIN q
  BY Appended
<1> QED
  BY <1>1 DEF NoSignal, OneSignal

LEMMA SignalTaken ==
  ASSUME NEW S, NEW q \in Seq(S), q # <<>>
  PROVE  /\ NoSignal(q) => NoSignal(Tail(q)) /\ Head(q).kind # "diagnostics"
         /\ OneSignal(q) /\ Head(q).kind = "diagnostics" => NoSignal(Tail(q))
         /\ OneSignal(q) /\ Head(q).kind # "diagnostics" => OneSignal(Tail(q))
<1>1. /\ Head(q) = q[1] /\ 1 \in DOMAIN q
      /\ \A i \in DOMAIN Tail(q) : i + 1 \in DOMAIN q \ {1} /\ Tail(q)[i] = q[i + 1]
      /\ \A i \in DOMAIN q \ {1} : i - 1 \in DOMAIN Tail(q) /\ q[i] = Tail(q)[i - 1]
  BY Taken
<1>2. \A i \in DOMAIN Tail(q) : i \in Int
  BY Taken, Indices
<1>3. NoSignal(q) => NoSignal(Tail(q)) /\ Head(q).kind # "diagnostics"
  BY <1>1 DEF NoSignal
<1>4. OneSignal(q) /\ Head(q).kind = "diagnostics" => NoSignal(Tail(q))
  BY <1>1 DEF NoSignal, OneSignal
<1>5. ASSUME OneSignal(q), Head(q).kind # "diagnostics" PROVE OneSignal(Tail(q))
  <2>1. PICK i \in DOMAIN q : /\ q[i].kind = "diagnostics"
                              /\ \A j \in DOMAIN q \ {i} : q[j].kind # "diagnostics"
    BY <1>5 DEF OneSignal
  <2>2. i # 1 /\ i - 1 \in DOMAIN Tail(q) /\ Tail(q)[i - 1].kind = "diagnostics"
    BY <1>1, <1>5, <2>1
  <2>3. ASSUME NEW j \in DOMAIN Tail(q), j # i - 1 PROVE Tail(q)[j].kind # "diagnostics"
    <3>1. j + 1 \in DOMAIN q /\ j + 1 # i /\ Tail(q)[j] = q[j + 1]
      BY <1>1, <1>2, <2>2, <2>3, Indices
    <3> QED
      BY <2>1, <3>1
  <2> QED
    BY <2>2, <2>3 DEF OneSignal
<1> QED
  BY <1>3, <1>4, <1>5

(***************************************************************************)
(* Values.                                                                  *)
(***************************************************************************)
LEMMA Fields ==
  /\ \A r \in Request : r.kind = "request" /\ r.id \in Ids /\ r.docs \in Docs
  /\ \A t \in Task : IF t.kind = "request" THEN t \in Request ELSE t = Signal
  /\ \A t \in Task : t.kind \in {"request", "diagnostics"}
  /\ \A r \in Result : r.kind \in {"request", "diagnostics"}
  /\ \A r \in Result : IF r.kind = "request" THEN r \in Request ELSE r \in Findings
  /\ Signal.kind = "diagnostics"
  BY DEF Request, Task, Signal, Result, Findings

LEMMA Documents ==
  /\ \A d \in Docs : DOMAIN d \subseteq Uris /\ d \in [DOMAIN d -> Document]
  /\ \A S \in SUBSET Uris : [S -> Document] \subseteq Docs
  /\ \A d \in Document : d.text \in Texts /\ d.rev \in Revs
  /\ \A t \in Texts, n \in Revs : [text |-> t, rev |-> n] \in Document
  /\ Revs \subseteq Nat
<1>1. Revs \subseteq Nat
  BY DEF Revs
<1> QED
  BY <1>1 DEF Docs, Document, Revs

(* Documents with the same revisions are the same documents, when equal     *)
(* revisions mean equal texts.                                              *)
LEMMA SameRevisions ==
  ASSUME NEW d \in Docs, documents \in Docs, Known(d), Revisions(d) = Revisions(documents)
  PROVE  d = documents
<1>1. DOMAIN d = DOMAIN documents /\ \A u \in DOMAIN d : d[u].rev = documents[u].rev
  <2>1. DOMAIN Revisions(d) = DOMAIN d /\ DOMAIN Revisions(documents) = DOMAIN documents
    BY DEF Revisions
  <2>2. \A u \in DOMAIN d : Revisions(d)[u] = d[u].rev
    BY DEF Revisions
  <2>3. \A u \in DOMAIN documents : Revisions(documents)[u] = documents[u].rev
    BY DEF Revisions
  <2> QED
    BY <2>1, <2>2, <2>3
<1>2. ASSUME NEW u \in DOMAIN d PROVE d[u] = documents[u]
  <2>1. d[u].rev = documents[u].rev /\ d[u].text = documents[u].text
    BY <1>1 DEF Known
  <2>2. d[u] \in Document /\ documents[u] \in Document
    BY <1>1, Documents
  <2> QED
    BY <2>1, <2>2 DEF Document
<1> QED
  BY <1>1, <1>2, Documents

(***************************************************************************)
(* The initial state.                                                       *)
(***************************************************************************)
LEMMA InitIInv == Init => IInv
<1> USE DEF Init
<1> HAVE Init
<1>1. <<>> \in Docs /\ DOMAIN <<>> = {} /\ RangeOf(<<>>) = {} /\ Len(<<>>) = 0
  <2>1. DOMAIN <<>> = {}
    OBVIOUS
  <2>2. <<>> \in [{} -> Document]
    BY <2>1
  <2> QED
    BY <2>1, <2>2, Documents DEF RangeOf
<1>2. Types
  <2>1. shown \in [Uris -> Shown] /\ replies \in [Ids -> Seq(Answer)]
    BY EmptySeq DEF Shown, Clear
  <2>2. tasks \in Seq(Task) /\ results \in Seq(Result)
    BY EmptySeq
  <2> QED
    BY <1>1, <2>1, <2>2 DEF Types
<1>3. WorkerInv /\ Counters
  <2>1. WorkerInv
    BY DEF WorkerInv
  <2>2. Counters
    <3>1. nextRevision = 0 /\ writes = 0 /\ disk \in Texts /\ unreported = FALSE
      OBVIOUS
    <3>2. MaxRevision \in Nat /\ MaxWrites \in Nat
      OBVIOUS
    <3>3. nextRevision <= MaxRevision + writes
      BY <3>1, <3>2
    <3>4. nextRevision \in Nat /\ writes \in 0..MaxWrites
      BY <3>1, <3>2
    <3> QED
      BY <3>1, <3>3, <3>4 DEF Counters
  <2> QED
    BY <2>1, <2>2
<1>4. Tracked
  <2>1. InFlight = {}
    BY <1>1 DEF InFlight
  <2> QED
    BY <1>1, <2>1 DEF Tracked, Known
<1>5. Signals
  BY <1>1 DEF Signals, NoSignal
<1>6. AnsweredOnce
  BY <1>1 DEF AnsweredOnce
<1> QED
  BY <1>2, <1>3, <1>4, <1>5, <1>6 DEF IInv

(***************************************************************************)
(* The documents change.                                                    *)
(***************************************************************************)

(* A document is as before or has a revision that no snapshot has.          *)
Fresh ==
  /\ documents' \in Docs /\ nextRevision <= nextRevision'
  /\ \A u \in DOMAIN documents' :
       \/ u \in DOMAIN documents /\ documents'[u] = documents[u]
       \/ documents'[u].rev = nextRevision' /\ nextRevision < nextRevision'

LEMMA FreshKnown ==
  ASSUME IInv, Fresh, nextRevision' \in Nat
  PROVE  Known(documents)' /\ \A d \in Docs : Known(d) => Known(d)'
<1>1. documents \in Docs /\ nextRevision \in Nat
  BY DEF IInv, Types, Counters
<1>2. \A d \in Docs : \A u \in DOMAIN d : d[u].rev \in Nat
  BY Documents
<1>3. Known(documents)'
  BY <1>1, <1>2, Documents DEF Fresh, Known, IInv, Tracked
<1>4. ASSUME NEW d \in Docs, Known(d) PROVE Known(d)'
  BY <1>1, <1>2, <1>4 DEF Fresh, Known
<1> QED
  BY <1>3, <1>4

LEMMA FreshKeeps ==
  ASSUME IInv, Fresh, Counters', main' = "schedule", main = "loop",
         DOMAIN currentRevisions' \subseteq Uris,
         UNCHANGED <<publishedUris, requestVars, tasks, results, latest, signalQueued, workerVars,
                     stop, shown>>
  PROVE  IInv'
<1> USE DEF requestVars, workerVars
<1>1. Types' /\ WorkerInv'
  BY DEF IInv, Types, WorkerInv, Fresh
<1>2. Tracked'
  <2>1. Known(documents)' /\ \A d \in Docs : Known(d) => Known(d)'
    BY FreshKnown DEF Counters
  <2>2. InFlight' = InFlight
    BY DEF InFlight
  <2>3. \A r \in InFlight : r.docs \in Docs
    <3>1. \A r \in RangeOf(tasks) : r \in Task
      BY Indices DEF IInv, Types
    <3>2. \A r \in RangeOf(results) : r \in Result
      BY Indices DEF IInv, Types
    <3>3. worker = "request" => \A r \in job : r \in Request
      BY DEF IInv, WorkerInv
    <3> QED
      BY <3>1, <3>2, <3>3, Fields DEF InFlight
  <2>4. \A r \in InFlight : Sent(r.id) => Sent(r.id)'
    BY DEF Sent
  <2> QED
    BY <2>1, <2>2, <2>3, <2>4 DEF IInv, Tracked
<1>3. Signals' /\ AnsweredOnce'
  BY DEF IInv, Signals, AnsweredOnce
<1> QED
  BY <1>1, <1>2, <1>3 DEF IInv

LEMMA DocumentsKeep ==
  ASSUME IInv,
         \/ \E u \in Uris, t \in Texts : Open(u, t) \/ Change(u, t)
         \/ \E u \in Uris : Close(u)
         \/ WatchedFiles
  PROVE  IInv'
<1>1. /\ documents \in Docs /\ nextRevision \in Nat /\ Counters
      /\ MaxRevision \in Nat /\ MaxWrites \in Nat
      /\ documents \in [DOMAIN documents -> Document] /\ DOMAIN documents \subseteq Uris
  BY Documents DEF IInv, Types, Counters
<1>2. ASSUME NEW u \in Uris, NEW t \in Texts, Open(u, t) \/ Change(u, t)
      PROVE  Fresh /\ Counters'
  <2>1. /\ nextRevision < MaxRevision /\ nextRevision' = nextRevision + 1
        /\ UNCHANGED <<disk, writes, unreported>>
    BY <1>2 DEF Open, Change, Bump, diskVars
  <2>2. nextRevision' \in Revs /\ [text |-> t, rev |-> nextRevision'] \in Document
    BY <1>1, <2>1, Documents DEF Revs
  <2>3. CASE Open(u, t)
    <3>1. /\ documents' = [v \in DOMAIN documents \cup {u} |->
                             IF v = u THEN [text |-> t, rev |-> nextRevision'] ELSE documents[v]]
          /\ u \notin DOMAIN documents
      BY <2>3 DEF Open, ScheduleFor
    <3>2. documents' \in [DOMAIN documents \cup {u} -> Document]
      BY <1>1, <2>2, <3>1
    <3>3. documents' \in Docs
      BY <1>1, <3>2, Documents
    <3>4. \A v \in DOMAIN documents' :
            \/ v \in DOMAIN documents /\ documents'[v] = documents[v]
            \/ documents'[v].rev = nextRevision'
      BY <1>1, <2>2, <3>1
    <3> QED
      BY <1>1, <2>1, <3>3, <3>4 DEF Fresh, Counters
  <2>4. CASE Change(u, t)
    <3>1. documents' = [documents EXCEPT ![u] = [text |-> t, rev |-> nextRevision']]
      BY <2>4 DEF Change, ScheduleFor
    <3>2. documents' \in [DOMAIN documents -> Document]
      BY <1>1, <2>2, <3>1
    <3>3. documents' \in Docs
      BY <1>1, <3>2, Documents
    <3>4. \A v \in DOMAIN documents' :
            \/ v \in DOMAIN documents /\ documents'[v] = documents[v]
            \/ documents'[v].rev = nextRevision'
      BY <1>1, <2>2, <3>1
    <3> QED
      BY <1>1, <2>1, <3>3, <3>4 DEF Fresh, Counters
  <2> QED
    BY <1>2, <2>3, <2>4
<1>3. ASSUME NEW u \in Uris, Close(u) PROVE Fresh /\ Counters'
  <2>1. /\ documents' = [v \in DOMAIN documents \ {u} |-> documents[v]]
        /\ UNCHANGED <<nextRevision, disk, writes, unreported>>
    BY <1>3 DEF Close, ScheduleFor, Restrict, diskVars
  <2>2. documents' \in [DOMAIN documents \ {u} -> Document]
    BY <1>1, <2>1
  <2> QED
    BY <1>1, <2>1, <2>2, Documents DEF Fresh, Counters
<1>4. ASSUME WatchedFiles PROVE Fresh /\ Counters'
  <2>1. /\ nextRevision' = nextRevision + 1 /\ unreported /\ unreported' = FALSE
        /\ documents' = [u \in DOMAIN documents |-> [documents[u] EXCEPT !.rev = nextRevision']]
        /\ UNCHANGED <<disk, writes>>
    BY <1>4 DEF WatchedFiles, ScheduleFor
  <2>2. nextRevision' \in Revs
    BY <1>1, <2>1 DEF Counters, Revs
  <2>3. \A u \in DOMAIN documents : documents[u] \in Document
    BY <1>1
  <2>4. \A u \in DOMAIN documents : documents'[u] = [text |-> documents[u].text, rev |-> nextRevision']
    BY <2>1, <2>3 DEF Document
  <2>5. \A u \in DOMAIN documents : documents'[u] \in Document /\ documents'[u].rev = nextRevision'
    <3> TAKE u \in DOMAIN documents
    <3>1. documents[u].text \in Texts
      BY <2>3, Documents
    <3>2. [text |-> documents[u].text, rev |-> nextRevision'] \in Document
      BY <2>2, <3>1, Documents
    <3> QED
      BY <2>4, <3>2
  <2>6. documents' \in Docs /\ DOMAIN documents' = DOMAIN documents
    <3>1. documents' \in [DOMAIN documents -> Document]
      BY <2>1, <2>5
    <3> QED
      BY <1>1, <2>1, <3>1, Documents
  <2>7. Counters'
    <3>1. nextRevision < MaxRevision + writes /\ writes \in Nat
      BY <1>1, <2>1 DEF Counters
    <3>2. nextRevision' \in Nat /\ nextRevision' <= MaxRevision + writes'
      BY <1>1, <2>1, <3>1
    <3> QED
      BY <1>1, <2>1, <3>2 DEF Counters
  <2> QED
    BY <1>1, <2>1, <2>5, <2>6, <2>7 DEF Fresh
<1>5. /\ main = "loop" /\ main' = "schedule" /\ currentRevisions' = Revisions(documents')
      /\ UNCHANGED <<publishedUris, requestVars, tasks, results, latest, signalQueued, workerVars,
                     stop, shown>>
  BY DEF Open, Change, Close, WatchedFiles, ScheduleFor
<1>6. Fresh /\ Counters'
  BY <1>2, <1>3, <1>4
<1>7. DOMAIN currentRevisions' \subseteq Uris
  BY <1>5, <1>6, Documents DEF Revisions, Fresh
<1> QED
  BY <1>5, <1>6, <1>7, FreshKeeps

(***************************************************************************)
(* Steps that leave the documents alone.                                    *)
(***************************************************************************)
LEMMA TrackedKept ==
  ASSUME IInv, UNCHANGED docVars, InFlight' \subseteq InFlight,
         \A r \in InFlight : Sent(r.id) => Sent(r.id)',
         \A id \in DOMAIN outstanding' : id \in DOMAIN outstanding /\ outstanding'[id] = outstanding[id]
  PROVE  Tracked'
<1>1. \A r \in InFlight : Known(r.docs) => Known(r.docs)'
  BY DEF Known, docVars
<1>2. Known(documents)'
  BY DEF IInv, Tracked, Known, docVars
<1> QED
  BY <1>1, <1>2 DEF IInv, Tracked

(* Requests that are under way.                                             *)
LEMMA InFlightTypes ==
  ASSUME IInv
  PROVE  /\ InFlight \subseteq Request
         /\ tasks \in Seq(Task) /\ results \in Seq(Result)
<1>1. \A r \in RangeOf(tasks) : r \in Task
  BY Indices DEF IInv, Types
<1>2. \A r \in RangeOf(results) : r \in Result
  BY Indices DEF IInv, Types
<1>3. worker = "request" => \A r \in job : r \in Request
  BY DEF IInv, WorkerInv
<1> QED
  BY <1>1, <1>2, <1>3, Fields DEF InFlight, IInv, Types

(* An answer is given once: the request is not outstanding any more.        *)
LEMMA AnswerKeeps ==
  ASSUME IInv, NEW id \in DOMAIN outstanding, NEW kind \in Answer, Answered(id), Reply(id, kind)
  PROVE  /\ AnsweredOnce'
         /\ replies' \in [Ids -> Seq(Answer)] /\ DOMAIN outstanding' \subseteq Ids
         /\ \A i \in Ids : Sent(i) => Sent(i)'
         /\ \A i \in DOMAIN outstanding' :
              i \in DOMAIN outstanding /\ outstanding'[i] = outstanding[i]
         /\ replies[id] = <<>> /\ RangeOf(replies'[id]) = {kind}
         /\ \A i \in Ids \ {id} : replies'[i] = replies[i]
<1>1. /\ id \in Ids /\ replies \in [Ids -> Seq(Answer)] /\ DOMAIN outstanding \subseteq Ids
      /\ replies[id] = <<>>
  BY DEF IInv, Types, AnsweredOnce
<1>2. /\ replies' = [replies EXCEPT ![id] = Append(replies[id], kind)]
      /\ outstanding' = [i \in DOMAIN outstanding \ {id} |-> outstanding[i]]
  BY DEF Reply, Answered, Restrict
<1>3. /\ Append(replies[id], kind) \in Seq(Answer) /\ Len(Append(replies[id], kind)) = 1
      /\ Append(replies[id], kind) # <<>>
      /\ RangeOf(Append(replies[id], kind)) = {kind}
  <2>1. replies[id] \in Seq(Answer) /\ Len(replies[id]) = 0
    BY <1>1, EmptySeq
  <2>2. RangeOf(<<>>) = {}
    BY DEF RangeOf
  <2>3. kind \in Answer
    OBVIOUS
  <2>4. /\ Append(replies[id], kind) \in Seq(Answer) /\ Append(replies[id], kind) # <<>>
        /\ Len(Append(replies[id], kind)) = 0 + 1
    BY <2>1, <2>3, AppendProperties
  <2>5. RangeOf(Append(replies[id], kind)) = RangeOf(replies[id]) \cup {kind}
    BY <2>1, <2>3, Appended
  <2> QED
    BY <1>1, <2>2, <2>4, <2>5
<1>4. \A i \in Ids : replies'[i] = IF i = id THEN Append(replies[id], kind) ELSE replies[i]
  BY <1>1, <1>2
<1>5. replies' \in [Ids -> Seq(Answer)]
  BY <1>1, <1>2, <1>3
<1>6. DOMAIN outstanding' = DOMAIN outstanding \ {id}
  BY <1>2
<1>7. AnsweredOnce'
  <2>1. ASSUME NEW i \in Ids
        PROVE  Len(replies'[i]) <= 1 /\ (i \in DOMAIN outstanding' => replies'[i] = <<>>)
    <3>1. CASE i = id
      <4>1. replies'[i] = Append(replies[id], kind) /\ i \notin DOMAIN outstanding'
        BY <1>4, <1>6, <3>1
      <4> QED
        BY <1>3, <4>1
    <3>2. CASE i # id
      BY <1>4, <1>6, <3>2 DEF IInv, AnsweredOnce
    <3> QED
      BY <3>1, <3>2
  <2> QED
    BY <2>1 DEF AnsweredOnce
<1>8. \A i \in Ids : Sent(i) => Sent(i)'
  BY <1>3, <1>4, <1>6 DEF Sent
<1> QED
  BY <1>1, <1>2, <1>3, <1>4, <1>5, <1>6, <1>7, <1>8

LEMMA ScheduleKeeps == IInv /\ Schedule => IInv'
<1> SUFFICES ASSUME IInv, Schedule PROVE IInv'
  OBVIOUS
<1> USE DEF docVars, requestVars, workerVars, diskVars
<1> DEFINE task == [docs |-> documents, published |-> publishedUris]
<1>1. /\ main = "schedule" /\ main' = "loop" /\ latest' = {task} /\ signalQueued' = TRUE
      /\ tasks' = IF signalQueued THEN tasks ELSE Append(tasks, Signal)
      /\ UNCHANGED <<documents, nextRevision, publishedUris, outstanding, cancelled, replies, results,
                     currentRevisions, worker, job, stop, shown, disk, writes, unreported>>
  BY DEF Schedule, Signal
<1>2. tasks \in Seq(Task) /\ Signal \in Task /\ Signal.kind = "diagnostics"
  BY Fields DEF IInv, Types, Task
<1>3. task \in Pending
  BY DEF IInv, Types, Pending
<1>4. tasks' \in Seq(Task) /\ RangeOf(tasks') \subseteq RangeOf(tasks) \cup {Signal}
  BY <1>1, <1>2, Appended
<1>5. Types'
  BY <1>1, <1>3, <1>4 DEF IInv, Types
<1>6. WorkerInv' /\ Counters' /\ AnsweredOnce'
  BY <1>1 DEF IInv, WorkerInv, Counters, AnsweredOnce
<1>7. Tracked'
  <2>1. InFlight' \subseteq InFlight
    BY <1>1, <1>2, <1>4 DEF InFlight
  <2>2. \A r \in InFlight : Sent(r.id) => Sent(r.id)'
    BY <1>1 DEF Sent
  <2> QED
    BY <1>1, <2>1, <2>2, TrackedKept
<1>8. Signals'
  <2>1. OneSignal(tasks')
    <3>1. CASE signalQueued
      BY <1>1, <3>1 DEF IInv, Signals
    <3>2. CASE ~signalQueued
      BY <1>1, <1>2, <3>2, SignalAppended DEF IInv, Signals
    <3> QED
      BY <3>1, <3>2
  <2> QED
    BY <1>1, <2>1 DEF Signals
<1> QED
  BY <1>5, <1>6, <1>7, <1>8 DEF IInv

LEMMA HandleRequestKeeps ==
  ASSUME IInv, NEW id \in Ids, HandleRequest(id)
  PROVE  IInv'
<1> USE DEF docVars, diagVars, workerVars, diskVars
<1> DEFINE request == [kind |-> "request", id |-> id, docs |-> documents]
<1>1. /\ main = "loop" /\ ~Sent(id) /\ tasks' = Append(tasks, request)
      /\ outstanding' = [i \in DOMAIN outstanding \cup {id} |->
                           IF i = id THEN Revisions(documents) ELSE outstanding[i]]
      /\ UNCHANGED <<documents, nextRevision, publishedUris, cancelled, replies, main, results,
                     currentRevisions, latest, signalQueued, worker, job, stop, shown, disk, writes,
                     unreported>>
  BY DEF HandleRequest
<1>2. /\ tasks \in Seq(Task) /\ request \in Task /\ documents \in Docs
      /\ request.kind = "request" /\ request.id = id /\ request.docs = documents
  BY DEF IInv, Types, Task, Request
<1>3. /\ tasks' \in Seq(Task) /\ RangeOf(tasks') = RangeOf(tasks) \cup {request}
      /\ NoSignal(tasks) => NoSignal(tasks')
      /\ OneSignal(tasks) => OneSignal(tasks')
  BY <1>1, <1>2, Appended, SignalAppended
<1>4. /\ DOMAIN outstanding' = DOMAIN outstanding \cup {id}
      /\ outstanding'[id] = Revisions(documents)
      /\ \A i \in DOMAIN outstanding \ {id} : outstanding'[i] = outstanding[i]
  BY <1>1
<1>5. Types' /\ WorkerInv'
  BY <1>1, <1>3, <1>4 DEF IInv, Types, WorkerInv
<1>6. Counters' /\ Signals'
  <2>1. Counters'
    BY <1>1 DEF IInv, Counters
  <2>2. Signals'
    <3>1. latest = {} /\ NoSignal(tasks) => latest' = {} /\ NoSignal(tasks')
      BY <1>1, <1>3
    <3>2. /\ OneSignal(tasks) /\ (\E t \in latest : latest = {t})
          => OneSignal(tasks') /\ \E t \in latest' : latest' = {t}
      BY <1>1, <1>3
    <3>3. /\ signalQueued' <=> latest' # {}
          /\ \A task \in latest' : task.docs = documents'
      BY <1>1 DEF IInv, Signals
    <3> QED
      BY <3>1, <3>2, <3>3 DEF IInv, Signals
  <2> QED
    BY <2>1, <2>2
<1>7. AnsweredOnce'
  BY <1>1, <1>4 DEF IInv, AnsweredOnce, Sent
<1>8. Tracked'
  <2>1. InFlight' = InFlight \cup {request}
    BY <1>1, <1>2, <1>3 DEF InFlight
  <2>2. Known(documents)' /\ Revisions(documents)' = Revisions(documents)
    BY <1>1 DEF IInv, Tracked, Known, Revisions
  <2>3. ASSUME NEW r \in InFlight
        PROVE  /\ Known(r.docs)' /\ Sent(r.id)'
               /\ r.id \in DOMAIN outstanding' => outstanding'[r.id] = Revisions(r.docs)
    <3>1. Sent(r.id) /\ r.id # id /\ Known(r.docs)
      BY <1>1 DEF IInv, Tracked
    <3> QED
      BY <1>1, <1>4, <3>1 DEF IInv, Tracked, Known, Sent
  <2>4. ASSUME NEW r \in InFlight'
        PROVE  /\ Known(r.docs)' /\ Sent(r.id)'
               /\ r.id \in DOMAIN outstanding' => outstanding'[r.id] = Revisions(r.docs)
    <3>1. CASE r \in InFlight
      BY <2>3, <3>1
    <3>2. CASE r = request
      <4>1. r.docs = documents /\ r.id = id
        BY <1>2, <3>2
      <4>2. Known(r.docs)' /\ Sent(r.id)'
        BY <1>1, <1>4, <4>1 DEF IInv, Tracked, Known, Sent
      <4> QED
        BY <1>4, <4>1, <4>2
    <3> QED
      BY <2>1, <3>1, <3>2
  <2> QED
    BY <2>2, <2>4 DEF Tracked
<1> QED
  BY <1>5, <1>6, <1>7, <1>8 DEF IInv

LEMMA CancelKeeps ==
  ASSUME IInv, NEW id \in Ids, CancelRequest(id)
  PROVE  IInv'
<1> USE DEF docVars, diagVars, workerVars, diskVars
<1>1. /\ id \in DOMAIN outstanding /\ Answered(id) /\ Reply(id, "cancelled")
      /\ cancelled' = cancelled \cup {id}
      /\ UNCHANGED <<documents, nextRevision, publishedUris, main, tasks, results, currentRevisions,
                     latest, signalQueued, worker, job, stop, shown, disk, writes, unreported>>
  BY DEF CancelRequest
<1>2. "cancelled" \in Answer
  BY DEF Answer
<1>3. /\ AnsweredOnce'
      /\ replies' \in [Ids -> Seq(Answer)] /\ DOMAIN outstanding' \subseteq Ids
      /\ \A i \in Ids : Sent(i) => Sent(i)'
      /\ \A i \in DOMAIN outstanding' : i \in DOMAIN outstanding /\ outstanding'[i] = outstanding[i]
  BY <1>1, <1>2, AnswerKeeps
<1>4. Types' /\ WorkerInv'
  BY <1>1, <1>3 DEF IInv, Types, WorkerInv
<1>5. Counters' /\ Signals'
  BY <1>1 DEF IInv, Counters, Signals
<1>6. Tracked'
  <2>1. InFlight' = InFlight
    BY <1>1 DEF InFlight
  <2>2. \A r \in InFlight : r.id \in Ids
    BY InFlightTypes, Fields
  <2> QED
    BY <1>1, <1>3, <2>1, <2>2, TrackedKept
<1> QED
  BY <1>3, <1>4, <1>5, <1>6 DEF IInv

LEMMA SendRequestKeeps == IInv /\ SendRequestResult => IInv'
<1> SUFFICES ASSUME IInv, SendRequestResult PROVE IInv'
  OBVIOUS
<1> USE DEF docVars, diagVars, workerVars, diskVars
<1> DEFINE id   == Head(results).id
           kind == IF outstanding[id] = Revisions(documents) THEN "result" ELSE "modified"
<1>1. /\ results # <<>> /\ Head(results).kind = "request" /\ results' = Tail(results)
      /\ UNCHANGED <<documents, nextRevision, publishedUris, main, tasks, currentRevisions,
                     latest, signalQueued, worker, job, stop, shown, disk, writes, unreported>>
      /\ \/ id \in DOMAIN outstanding /\ Answered(id) /\ Reply(id, kind) /\ UNCHANGED cancelled
         \/ /\ id \notin DOMAIN outstanding /\ cancelled' = cancelled \ {id}
            /\ UNCHANGED <<outstanding, replies>>
  BY DEF SendRequestResult
<1>2. /\ Tail(results) \in Seq(Result) /\ RangeOf(Tail(results)) \subseteq RangeOf(results)
  BY <1>1, InFlightTypes, Taken
<1>3. kind \in Answer
  BY DEF Answer
<1>4. /\ AnsweredOnce'
      /\ replies' \in [Ids -> Seq(Answer)] /\ DOMAIN outstanding' \subseteq Ids
      /\ \A i \in Ids : Sent(i) => Sent(i)'
      /\ \A i \in DOMAIN outstanding' : i \in DOMAIN outstanding /\ outstanding'[i] = outstanding[i]
      /\ cancelled' \subseteq Ids
  <2>1. CASE id \in DOMAIN outstanding
    <3>1. Answered(id) /\ Reply(id, kind) /\ UNCHANGED cancelled
      BY <1>1, <2>1
    <3>2. cancelled' \subseteq Ids
      BY <3>1 DEF IInv, Types
    <3> HIDE DEF id, kind
    <3> QED
      BY <1>3, <2>1, <3>1, <3>2, AnswerKeeps
  <2>2. CASE id \notin DOMAIN outstanding
    <3>1. UNCHANGED <<outstanding, replies>> /\ cancelled' \subseteq cancelled
      BY <1>1, <2>2
    <3> QED
      BY <3>1 DEF IInv, Types, AnsweredOnce, Sent
  <2> QED
    BY <2>1, <2>2
<1>5. Types' /\ WorkerInv'
  BY <1>1, <1>2, <1>4 DEF IInv, Types, WorkerInv
<1>6. Counters' /\ Signals'
  BY <1>1 DEF IInv, Counters, Signals
<1>7. Tracked'
  <2>1. InFlight' \subseteq InFlight
    BY <1>1, <1>2 DEF InFlight
  <2>2. \A r \in InFlight : r.id \in Ids
    BY InFlightTypes, Fields
  <2> QED
    BY <1>1, <1>4, <2>1, <2>2, TrackedKept
<1> QED
  BY <1>4, <1>5, <1>6, <1>7 DEF IInv

LEMMA SendDiagnosticsKeeps == IInv /\ SendDiagnostics => IInv'
<1> SUFFICES ASSUME IInv, SendDiagnostics PROVE IInv'
  OBVIOUS
<1> USE DEF docVars, requestVars, diagVars, workerVars, diskVars
<1> DEFINE r == Head(results)
<1>1. /\ results # <<>> /\ r.kind = "diagnostics" /\ results' = Tail(results)
      /\ UNCHANGED <<documents, nextRevision, outstanding, cancelled, replies, main, tasks,
                     currentRevisions, latest, signalQueued, worker, job, stop, disk, writes, unreported>>
      /\ \/ /\ publishedUris' = r.published
            /\ shown' = [u \in Uris |-> IF u \in DOMAIN r.messages THEN r.messages[u] ELSE shown[u]]
         \/ UNCHANGED <<publishedUris, shown>>
  BY DEF SendDiagnostics
<1>2. /\ Tail(results) \in Seq(Result) /\ RangeOf(Tail(results)) \subseteq RangeOf(results)
      /\ r \in Result
  BY <1>1, InFlightTypes, Taken
<1>3. r.published \subseteq Uris /\ \A u \in DOMAIN r.messages : r.messages[u] \in Shown
  <2>1. r \in Findings
    BY <1>1, <1>2, Fields
  <2>2. r.published \in SUBSET Uris /\ r.messages \in Messaged
    BY <2>1 DEF Findings
  <2> QED
    BY <2>2 DEF Messaged
<1>4. publishedUris' \subseteq Uris /\ shown' \in [Uris -> Shown]
  BY <1>1, <1>3 DEF IInv, Types
<1>5. Types' /\ WorkerInv'
  BY <1>1, <1>2, <1>4 DEF IInv, Types, WorkerInv
<1>6. Counters' /\ Signals' /\ AnsweredOnce'
  BY <1>1 DEF IInv, Counters, Signals, AnsweredOnce
<1>7. Tracked'
  <2>1. InFlight' \subseteq InFlight
    BY <1>1, <1>2 DEF InFlight
  <2> QED
    BY <1>1, <2>1, TrackedKept DEF Sent
<1> QED
  BY <1>5, <1>6, <1>7 DEF IInv

(* The steps that touch neither the queues nor the tasks.                   *)
LEMMA ControlKeeps ==
  ASSUME IInv,
         \/ Exit
         \/ Shutdown
         \/ StopWorker
         \/ \E t \in Texts : WriteLib(t)
         \/ UNCHANGED vars
  PROVE  IInv'
<1>1. /\ UNCHANGED <<documents, nextRevision, publishedUris, outstanding, cancelled, replies,
                     tasks, results, currentRevisions, latest, signalQueued, job, shown>>
      /\ \/ main' = "exit" /\ main = "loop" /\ UNCHANGED <<worker, stop>>
         \/ main' = "join" /\ main = "exit" /\ stop' = TRUE /\ UNCHANGED worker
         \/ worker' = "stopped" /\ worker = "idle" /\ UNCHANGED <<main, stop>>
         \/ UNCHANGED <<worker, main, stop>>
  BY DEF Exit, Shutdown, StopWorker, WriteLib, vars, docVars, requestVars, diagVars, workerVars, diskVars
<1>2. Counters'
  <2>1. CASE UNCHANGED diskVars
    BY <1>1, <2>1 DEF IInv, Counters, diskVars
  <2>2. ASSUME NEW t \in Texts, WriteLib(t) PROVE Counters'
    <3>1. /\ writes < MaxWrites /\ writes' = writes + 1 /\ disk' = t /\ unreported' = TRUE
          /\ nextRevision' = nextRevision
      BY <2>2, <1>1 DEF WriteLib
    <3>2. nextRevision \in Nat /\ writes \in 0..MaxWrites /\ nextRevision <= MaxRevision + writes
      BY DEF IInv, Counters
    <3>3. /\ nextRevision' \in Nat /\ writes' \in 0..MaxWrites /\ writes' > 0
          /\ nextRevision' <= MaxRevision + writes' /\ nextRevision' < MaxRevision + writes'
      BY <3>1, <3>2
    <3> QED
      BY <3>1, <3>3 DEF Counters
  <2>3. UNCHANGED diskVars \/ \E t \in Texts : WriteLib(t)
    BY DEF Exit, Shutdown, StopWorker, vars
  <2> QED
    BY <2>1, <2>2, <2>3
<1>3. Types' /\ WorkerInv'
  BY <1>1 DEF IInv, Types, WorkerInv
<1>4. Signals' /\ AnsweredOnce'
  BY <1>1 DEF IInv, Signals, AnsweredOnce
<1>5. Tracked'
  <2>1. InFlight' = InFlight
    BY <1>1 DEF InFlight, IInv, WorkerInv
  <2> QED
    BY <1>1, <2>1, TrackedKept DEF Sent, docVars
<1> QED
  BY <1>2, <1>3, <1>4, <1>5 DEF IInv

(***************************************************************************)
(* The worker.                                                              *)
(***************************************************************************)
LEMMA StartRequestKeeps == IInv /\ StartRequest => IInv'
<1> SUFFICES ASSUME IInv, StartRequest PROVE IInv'
  OBVIOUS
<1> USE DEF docVars, diagVars, workerVars, diskVars
<1> DEFINE task == Head(tasks)
<1>1. /\ worker = "idle" /\ ~stop /\ tasks # <<>> /\ task.kind = "request" /\ tasks' = Tail(tasks)
      /\ UNCHANGED <<documents, nextRevision, publishedUris, outstanding, replies, main, results,
                     currentRevisions, latest, signalQueued, stop, shown, disk, writes, unreported>>
      /\ \/ cancelled' \subseteq cancelled /\ UNCHANGED <<worker, job>>
         \/ worker' = "request" /\ job' = {task} /\ UNCHANGED cancelled
  BY DEF StartRequest, Receive
<1>2. /\ task \in Task /\ task \in RangeOf(tasks)
      /\ Tail(tasks) \in Seq(Task) /\ RangeOf(Tail(tasks)) \subseteq RangeOf(tasks)
  BY <1>1, InFlightTypes, Taken
<1>3. task \in Request
  BY <1>1, <1>2, Fields
<1>4. Types' /\ WorkerInv'
  <2>1. Types'
    BY <1>1, <1>2 DEF IInv, Types
  <2>2. CASE UNCHANGED <<worker, job>>
    BY <1>1, <2>1, <2>2 DEF IInv, WorkerInv
  <2>3. CASE worker' = "request" /\ job' = {task}
    BY <1>1, <1>3, <2>1, <2>3 DEF IInv, WorkerInv
  <2> QED
    BY <1>1, <2>1, <2>2, <2>3
<1>5. Counters' /\ AnsweredOnce'
  BY <1>1 DEF IInv, Counters, AnsweredOnce
<1>6. Signals'
  <2>1. /\ NoSignal(tasks) => NoSignal(tasks')
        /\ OneSignal(tasks) => OneSignal(tasks')
    BY <1>1, InFlightTypes, SignalTaken
  <2>2. latest = {} /\ NoSignal(tasks) => latest' = {} /\ NoSignal(tasks')
    BY <1>1, <2>1
  <2>3. /\ OneSignal(tasks) /\ (\E t \in latest : latest = {t})
        => OneSignal(tasks') /\ \E t \in latest' : latest' = {t}
    BY <1>1, <2>1
  <2>4. /\ signalQueued' <=> latest' # {}
        /\ main' = "loop" => \A t \in latest' : t.docs = documents'
    BY <1>1 DEF IInv, Signals
  <2> QED
    BY <2>2, <2>3, <2>4 DEF IInv, Signals
<1>7. Tracked'
  <2>1. InFlight' \subseteq InFlight
    BY <1>1, <1>2 DEF InFlight
  <2> QED
    BY <1>1, <2>1, TrackedKept DEF Sent
<1> QED
  BY <1>4, <1>5, <1>6, <1>7 DEF IInv

LEMMA FinishRequestKeeps == IInv /\ FinishRequest => IInv'
<1> SUFFICES ASSUME IInv, FinishRequest PROVE IInv'
  OBVIOUS
<1> USE DEF docVars, requestVars, diagVars, diskVars
<1>1. PICK task \in job : results' = Append(results, [kind |-> "request", id |-> task.id, docs |-> task.docs])
  BY DEF FinishRequest
<1>2. /\ worker = "request" /\ worker' = "idle" /\ job' = {}
      /\ UNCHANGED <<documents, nextRevision, publishedUris, outstanding, cancelled, replies, main,
                     tasks, currentRevisions, latest, signalQueued, stop, shown, disk, writes,
                     unreported>>
  BY DEF FinishRequest
<1>3. task \in Request /\ [kind |-> "request", id |-> task.id, docs |-> task.docs] = task
  BY <1>2 DEF IInv, WorkerInv, Request
<1>4. results' \in Seq(Result) /\ RangeOf(results') = RangeOf(results) \cup {task}
  <2>1. task \in Result
    BY <1>3 DEF Result
  <2> QED
    BY <1>1, <1>3, <2>1, InFlightTypes, Appended
<1>5. Types' /\ WorkerInv'
  BY <1>2, <1>4 DEF IInv, Types, WorkerInv
<1>6. Counters' /\ Signals' /\ AnsweredOnce'
  BY <1>2 DEF IInv, Counters, Signals, AnsweredOnce
<1>7. Tracked'
  <2>1. InFlight' \subseteq InFlight
    BY <1>2, <1>4 DEF InFlight
  <2> QED
    BY <1>2, <2>1, TrackedKept DEF Sent
<1> QED
  BY <1>5, <1>6, <1>7 DEF IInv

(* The signal that is taken is the only one, and so is the pending task.    *)
LEMMA StartDiagnosticsKeeps == IInv /\ StartDiagnostics => IInv'
<1> SUFFICES ASSUME IInv, StartDiagnostics PROVE IInv'
  OBVIOUS
<1> USE DEF docVars, requestVars, workerVars, diskVars
<1>1. /\ worker = "idle" /\ ~stop /\ tasks # <<>> /\ Head(tasks).kind = "diagnostics"
      /\ tasks' = Tail(tasks) /\ signalQueued' = FALSE /\ latest' = {}
      /\ UNCHANGED <<documents, nextRevision, publishedUris, outstanding, cancelled, replies, main,
                     results, currentRevisions, stop, shown, disk, writes, unreported>>
      /\ \/ \E task \in latest : worker' = "diagnostics" /\ job' = {task}
         \/ UNCHANGED <<worker, job>>
  BY DEF StartDiagnostics, Receive
<1>2. Tail(tasks) \in Seq(Task) /\ RangeOf(Tail(tasks)) \subseteq RangeOf(tasks)
  BY <1>1, InFlightTypes, Taken
<1>3. Types' /\ WorkerInv'
  <2>1. Types'
    BY <1>1, <1>2 DEF IInv, Types
  <2>2. CASE UNCHANGED <<worker, job>>
    BY <1>1, <2>1, <2>2 DEF IInv, WorkerInv
  <2>3. CASE \E task \in latest : worker' = "diagnostics" /\ job' = {task}
    BY <1>1, <2>1, <2>3 DEF IInv, WorkerInv, Types
  <2> QED
    BY <1>1, <2>1, <2>2, <2>3
<1>4. Counters' /\ AnsweredOnce'
  BY <1>1 DEF IInv, Counters, AnsweredOnce
<1>5. Signals'
  <2>1. ~NoSignal(tasks)
    BY <1>1, InFlightTypes, SignalTaken
  <2>2. OneSignal(tasks)
    BY <2>1 DEF IInv, Signals
  <2>3. NoSignal(tasks')
    BY <1>1, <2>2, InFlightTypes, SignalTaken
  <2> QED
    BY <1>1, <2>3 DEF Signals
<1>6. Tracked'
  <2>1. InFlight' \subseteq InFlight
    BY <1>1, <1>2 DEF InFlight
  <2> QED
    BY <1>1, <2>1, TrackedKept DEF Sent
<1> QED
  BY <1>3, <1>4, <1>5, <1>6 DEF IInv

(* What an analysis reports is about documents that can be open.            *)
LEMMA Reported ==
  ASSUME NEW docs \in Docs, NEW text \in Texts
  PROVE  /\ DOMAIN Report(docs, text) \subseteq Uris
         /\ \A u \in DOMAIN Report(docs, text) : Report(docs, text)[u] \in Shown
<1> DEFINE libText == IF Lib \in DOMAIN docs THEN docs[Lib].text ELSE text
<1>1. DOMAIN docs \subseteq Uris /\ \A u \in DOMAIN docs : docs[u].text \in Texts
  BY Documents
<1>2. libText \in Texts
  BY <1>1
<1>3. \A a \in Texts, b \in Texts \cup {None} : <<a, b>> \in Shown
  BY DEF Shown
<1>4. /\ DOMAIN docs \subseteq DOMAIN Report(docs, text)
      /\ DOMAIN Report(docs, text) \subseteq DOMAIN docs \cup {Lib}
      /\ \A u \in DOMAIN Report(docs, text) :
           \/ Report(docs, text)[u] = <<libText, None>>
           \/ /\ u \in DOMAIN docs
              /\ \/ Report(docs, text)[u] = <<docs[u].text, libText>>
                 \/ Report(docs, text)[u] = <<docs[u].text, None>>
  BY DEF Report
<1> QED
  BY <1>1, <1>2, <1>3, <1>4

LEMMA FinishDiagnosticsKeeps == IInv /\ FinishDiagnostics => IInv'
<1> SUFFICES ASSUME IInv, FinishDiagnostics PROVE IInv'
  OBVIOUS
<1> USE DEF docVars, requestVars, diagVars, diskVars
<1> DEFINE r(task) == [kind |-> "diagnostics", revisions |-> Revisions(task.docs),
                       messages |-> Messages(task, Report(task.docs, disk)),
                       published |-> DOMAIN Report(task.docs, disk)]
<1>1. PICK task \in job : results' = Append(results, r(task))
  BY DEF FinishDiagnostics
<1>2. /\ worker = "diagnostics" /\ worker' = "idle" /\ job' = {}
      /\ UNCHANGED <<documents, nextRevision, publishedUris, outstanding, cancelled, replies, main,
                     tasks, currentRevisions, latest, signalQueued, stop, shown, disk, writes,
                     unreported>>
  BY DEF FinishDiagnostics
<1>3. task \in Pending /\ disk \in Texts
  BY <1>2 DEF IInv, WorkerInv, Counters
<1>4. r(task) \in Findings
  <2>1. task.docs \in Docs /\ task.published \subseteq Uris
    BY <1>3 DEF Pending
  <2>2. Revisions(task.docs) \in [DOMAIN task.docs -> Revs] /\ DOMAIN task.docs \subseteq Uris
    <3>1. \A u \in DOMAIN task.docs : task.docs[u].rev \in Revs
      BY <2>1, Documents
    <3> QED
      BY <2>1, <3>1, Documents DEF Revisions
  <2>3. /\ DOMAIN Report(task.docs, disk) \subseteq Uris
        /\ \A u \in DOMAIN Report(task.docs, disk) : Report(task.docs, disk)[u] \in Shown
    BY <1>3, <2>1, Reported
  <2>4. Messages(task, Report(task.docs, disk)) \in Messaged
    <3> DEFINE report == Report(task.docs, disk)
               S      == task.published \cup DOMAIN report
    <3>1. Clear \in Shown
      BY DEF Clear, Shown
    <3>2. S \subseteq Uris
      BY <2>1, <2>3
    <3>3. Messages(task, report) \in [S -> Shown]
      <4> HIDE DEF report
      <4>1. \A u \in DOMAIN report : report[u] \in Shown
        BY <2>3 DEF report
      <4> QED
        BY <3>1, <4>1 DEF Messages
    <3> QED
      BY <3>2, <3>3 DEF Messaged
  <2> QED
    BY <2>2, <2>3, <2>4 DEF Findings
<1> HIDE DEF r
<1>5. results' \in Seq(Result) /\ RangeOf(results') = RangeOf(results) \cup {r(task)}
  <2>1. r(task) \in Result
    BY <1>4 DEF Result
  <2> QED
    BY <1>1, <2>1, InFlightTypes, Appended
<1>6. Types' /\ WorkerInv'
  BY <1>2, <1>5 DEF IInv, Types, WorkerInv
<1>7. Counters' /\ Signals' /\ AnsweredOnce'
  BY <1>2 DEF IInv, Counters, Signals, AnsweredOnce
<1>8. Tracked'
  <2>1. r(task).kind # "request"
    BY <1>4 DEF Findings
  <2>2. InFlight' \subseteq InFlight
    BY <1>2, <1>5, <2>1 DEF InFlight
  <2> QED
    BY <1>2, <2>2, TrackedKept DEF Sent
<1> QED
  BY <1>6, <1>7, <1>8 DEF IInv

(***************************************************************************)
(* The theorems.                                                            *)
(***************************************************************************)
LEMMA NextIInv == IInv /\ [Next]_vars => IInv'
<1> SUFFICES ASSUME IInv, [Next]_vars PROVE IInv'
  OBVIOUS
<1>1. CASE \/ \E u \in Uris, t \in Texts : Open(u, t) \/ Change(u, t)
           \/ \E u \in Uris : Close(u)
           \/ WatchedFiles
  BY <1>1, DocumentsKeep
<1>2. CASE \E id \in Ids : HandleRequest(id) \/ CancelRequest(id)
  BY <1>2, HandleRequestKeeps, CancelKeeps
<1>3. CASE \/ Exit \/ Shutdown \/ StopWorker
           \/ \E t \in Texts : WriteLib(t)
           \/ UNCHANGED vars
  BY <1>3, ControlKeeps
<1>4. CASE Schedule \/ SendRequestResult \/ SendDiagnostics
  BY <1>4, ScheduleKeeps, SendRequestKeeps, SendDiagnosticsKeeps
<1>5. CASE StartRequest \/ FinishRequest \/ StartDiagnostics \/ FinishDiagnostics
  BY <1>5, StartRequestKeeps, FinishRequestKeeps, StartDiagnosticsKeeps, FinishDiagnosticsKeeps
<1> QED
  BY <1>1, <1>2, <1>3, <1>4, <1>5 DEF Next, MainStep, WorkerStep

(* The inductive invariant holds in every reachable state of the main loop  *)
(* and the worker.                                                          *)
THEOREM InductiveInvariant == Spec => []IInv
  BY InitIInv, NextIInv, PTL DEF Spec

(* handle_cancellation and send_worker_results: whatever the order of a     *)
(* cancellation and the answer that is on its way, a request is answered    *)
(* at most once, and is outstanding until then.                             *)
THEOREM OneAnswerEach == Spec => []AnsweredOnce
<1>1. IInv => AnsweredOnce
  BY DEF IInv
<1> QED
  BY <1>1, InductiveInvariant, PTL

(* schedule_diagnostics and the worker: there is one signal in the channel  *)
(* for a pending task and none without one, so that no coalesced task is    *)
(* left without a wake-up.                                                  *)
THEOREM NoLostWakeUp == Spec => []WakeUpPending
<1>1. IInv => WakeUpPending
  <2> SUFFICES ASSUME IInv PROVE WakeUpPending
    OBVIOUS
  <2> DEFINE signals == {i \in DOMAIN tasks : tasks[i].kind = "diagnostics"}
  <2>1. Cardinality(signals) = Cardinality(latest)
    <3>1. CASE latest = {} /\ NoSignal(tasks)
      <4>1. signals = {}
        BY <3>1 DEF NoSignal
      <4> QED
        BY <3>1, <4>1
    <3>2. CASE OneSignal(tasks) /\ \E t \in latest : latest = {t}
      <4>1. PICK t \in latest : latest = {t}
        BY <3>2
      <4>2. PICK i \in DOMAIN tasks : signals = {i}
        BY <3>2 DEF OneSignal
      <4> QED
        BY <4>1, <4>2, FS_Singleton
    <3> QED
      BY <3>1, <3>2 DEF IInv, Signals
  <2> QED
    BY <2>1 DEF IInv, Signals, WakeUpPending
<1> QED
  BY <1>1, InductiveInvariant, PTL

(* send_worker_results: the answer a client gets was computed from the      *)
(* documents it has at that moment, however they were changed, closed and   *)
(* reopened while the request was under way.                                *)
THEOREM AnswersAreCurrent == Spec => NoStaleAnswer
<1>1. IInv /\ [Next]_vars =>
        [\A id \in Ids :
           replies'[id] # replies[id] /\ "result" \in RangeOf(replies'[id]) =>
             Head(results).docs = documents]_vars
  <2> SUFFICES ASSUME IInv, Next, NEW id \in Ids, replies'[id] # replies[id],
                      "result" \in RangeOf(replies'[id])
               PROVE  Head(results).docs = documents
    BY DEF vars, requestVars
  <2>1. \/ SendRequestResult
        \/ \E i \in Ids : CancelRequest(i)
        \/ UNCHANGED replies
    BY DEF Next, MainStep, WorkerStep, Open, Change, Close, WatchedFiles, HandleRequest, Exit,
           Schedule, SendDiagnostics, Shutdown, StartRequest, FinishRequest, StartDiagnostics,
           FinishDiagnostics, StopWorker, WriteLib, requestVars
  <2>2. ASSUME NEW i \in Ids, CancelRequest(i) PROVE FALSE
    <3>1. i \in DOMAIN outstanding /\ Answered(i) /\ Reply(i, "cancelled") /\ "cancelled" \in Answer
      BY <2>2 DEF CancelRequest, Answer
    <3>2. /\ RangeOf(replies'[i]) = {"cancelled"}
          /\ \A j \in Ids \ {i} : replies'[j] = replies[j]
      BY <3>1, AnswerKeeps
    <3> QED
      BY <3>2
  <2>3. CASE SendRequestResult
    <3> DEFINE r    == Head(results)
               kind == IF outstanding[r.id] = Revisions(documents) THEN "result" ELSE "modified"
    <3>1. results # <<>> /\ r.kind = "request"
      BY <2>3 DEF SendRequestResult
    <3>2. r.id \in DOMAIN outstanding /\ Answered(r.id) /\ Reply(r.id, kind)
      BY <2>3 DEF SendRequestResult
    <3>3. kind \in Answer
      BY DEF Answer
    <3>4. /\ RangeOf(replies'[r.id]) = {kind}
          /\ \A j \in Ids \ {r.id} : replies'[j] = replies[j]
      <4> HIDE DEF r, kind
      <4> QED
        BY <3>2, <3>3, AnswerKeeps
    <3>5. outstanding[r.id] = Revisions(documents)
      BY <3>4
    <3>6. r \in Request /\ r \in InFlight
      BY <3>1, InFlightTypes, Taken DEF InFlight
    <3>7. Known(r.docs) /\ outstanding[r.id] = Revisions(r.docs)
      BY <3>2, <3>6 DEF IInv, Tracked
    <3> QED
      BY <3>5, <3>6, <3>7, SameRevisions, Fields DEF IInv, Types
  <2> QED
    BY <2>1, <2>2, <2>3
<1> QED
  BY <1>1, InductiveInvariant, PTL DEF Spec, NoStaleAnswer

(* The variables stay in their ranges.                                      *)
THEOREM TypeCorrect == Spec => []TypeOK
<1>1. IInv => TypeOK
  <2> SUFFICES ASSUME IInv PROVE TypeOK
    OBVIOUS
  <2>1. \A d \in Docs : IsDocuments(d)
    BY Documents DEF IsDocuments
  <2>2. nextRevision \in 0..(MaxRevision + MaxWrites)
    BY DEF IInv, Counters
  <2>3. \A task \in RangeOf(tasks) :
          \/ task = [kind |-> "diagnostics"]
          \/ task.kind = "request" /\ task.id \in Ids /\ IsDocuments(task.docs)
    <3> TAKE task \in RangeOf(tasks)
    <3>1. task \in Task
      BY InFlightTypes, Indices
    <3> QED
      BY <2>1, <3>1, Fields DEF Signal
  <2>4. \A r \in RangeOf(results) :
          \/ r.kind = "diagnostics" /\ r.published \subseteq Uris
          \/ r.kind = "request" /\ r.id \in Ids
    <3> TAKE r \in RangeOf(results)
    <3>1. r \in Result
      BY InFlightTypes, Indices
    <3>2. CASE r \in Request
      BY <3>2, Fields
    <3>3. CASE r \in Findings
      BY <3>3 DEF Findings
    <3> QED
      BY <3>1, <3>2, <3>3 DEF Result
  <2>5. Cardinality(job) = IF worker \in {"request", "diagnostics"} THEN 1 ELSE 0
    <3>1. CASE worker \in {"request", "diagnostics"}
      <4>1. PICK t : job = {t}
        BY <3>1 DEF IInv, WorkerInv
      <4> QED
        BY <3>1, <4>1, FS_Singleton
    <3>2. CASE worker \notin {"request", "diagnostics"}
      BY <3>2, FS_EmptySet DEF IInv, WorkerInv
    <3> QED
      BY <3>1, <3>2
  <2>6. \A u \in Uris : shown[u] \in (Texts \cup {None}) \X (Texts \cup {None})
    BY DEF IInv, Types, Shown
  <2>7. /\ worker \in {"idle", "request", "diagnostics", "stopped"}
        /\ stop = (main = "join")
        /\ disk \in Texts /\ writes \in 0..MaxWrites /\ unreported \in BOOLEAN
    BY DEF IInv, WorkerInv, Counters
  <2> QED
    BY <2>1, <2>2, <2>3, <2>4, <2>5, <2>6, <2>7 DEF IInv, Types, TypeOK
<1> QED
  BY <1>1, InductiveInvariant, PTL

=============================================================================
