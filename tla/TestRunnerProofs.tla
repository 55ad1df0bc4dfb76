--------------------------- MODULE TestRunnerProofs ---------------------------
(***************************************************************************)
(* Proofs about the worker pool of `mux test`, for every number of test     *)
(* cases and every set of workers.                                          *)
(***************************************************************************)
EXTENDS TestRunner, FiniteSetTheorems, SequenceTheorems, TLAPS

USE DEF NoCase

(* The queue holds the last cases, in order.                                *)
QueueOrder == \A i \in DOMAIN queue : queue[i] = NCases - Len(queue) + i

(* A case that was taken is with one worker or has a result, not both.      *)
TakenOnce ==
  /\ \A v, w \in Workers : current[v] = current[w] /\ current[v] # NoCase => v = w
  /\ \A w \in Workers : current[w] \notin Ran /\ current[w] <= NCases - Len(queue)
  /\ \A c \in Ran : c <= NCases - Len(queue)

(* Processes run only for a worker that has yet to collect their output.    *)
Supervised ==
  \A c \in Cases :
    leader[c] = "running" \/ program[c] = "running" =>
      \E w \in Workers : current[w] = c /\ pc[w] \in {"wait", "kill", "collect", "collectLate"}

Failure(i) == ~completed[i].outcome.passed

(* The flag is only set for a failed case, which is or will be reported.    *)
StopMeansFailed ==
  stop => \/ \E i \in DOMAIN completed : Failure(i)
          \/ \E w \in Workers : pc[w] = "push" /\ ~result[w].passed

(* A worker ends when there is nothing more to take or the flag tells it to.*)
DoneMeans ==
  /\ \A w \in Workers : pc[w] = "done" => queue = <<>> \/ (failFast /\ stop)
  /\ reported => \A w \in Workers : pc[w] = "done"

IInv ==
  /\ TypeOK /\ QueueOrder /\ TakenOnce /\ EachOnce
  /\ Supervised /\ StopMeansFailed /\ DoneMeans

-----------------------------------------------------------------------------
(* The fields of a result, and of a result to be pushed.                    *)
LEMMA ResultTypes ==
  /\ \A r \in Result : r.case \in Cases /\ r.outcome \in Outcome
  /\ \A c \in Cases, o \in Outcome : [case |-> c, outcome |-> o] \in Result
  /\ \A p, t \in BOOLEAN : [passed |-> p, timedOut |-> t] \in Outcome
  BY DEF Result, Outcome

LEMMA RanTypes ==
  ASSUME TypeOK
  PROVE  /\ Ran \subseteq Cases
         /\ \A i \in DOMAIN completed : completed[i] \in Result
         /\ DOMAIN completed = 1 .. Len(completed) /\ Len(completed) \in Nat
         /\ DOMAIN queue = 1 .. Len(queue) /\ Len(queue) \in Nat
<1>1. completed \in Seq(Result) /\ queue \in Seq(Cases)
  BY DEF TypeOK
<1>2. \A i \in DOMAIN completed : completed[i] \in Result
  BY <1>1, ElementOfSeq, LenProperties
<1> QED
  BY <1>1, <1>2, ResultTypes, LenProperties DEF Ran

(* The initial state.                                                       *)
LEMMA InitIInv == Init => IInv
<1> USE RunnerAssumption DEF Init, Cases
<1> HAVE Init
<1>1. queue \in Seq(Cases) /\ Len(queue) = NCases /\ DOMAIN queue = Cases
  OBVIOUS
<1>2. {w \in Workers : current[w] # NoCase} = {} /\ Ran = {} /\ Busy = {}
  BY DEF Ran, Busy
<1>3. TypeOK
  <2>1. Pending \in Outcome /\ completed \in Seq(Result)
    BY ResultTypes, EmptySeq DEF Pending
  <2> QED
    BY <1>1, <2>1 DEF TypeOK
<1>4. QueueOrder /\ TakenOnce
  BY <1>1, <1>2 DEF QueueOrder, TakenOnce
<1>5. EachOnce
  <2>1. Queued = Cases
    BY <1>1 DEF Queued
  <2>2. Cardinality({w \in Workers : current[w] # NoCase}) = 0
    BY <1>2, FS_EmptySet
  <2> QED
    BY <2>1, <2>2, <1>1, <1>2 DEF EachOnce
<1>6. Supervised /\ StopMeansFailed /\ DoneMeans
  BY DEF Supervised, StopMeansFailed, DoneMeans
<1> QED
  BY <1>3, <1>4, <1>5, <1>6 DEF IInv

(* The variables keep their ranges.                                         *)
LEMMA WorkerKeepsTypes ==
  ASSUME TypeOK, NEW w \in Workers, WorkerStep(w)
  PROVE  TypeOK'
<1> USE RunnerAssumption DEF TypeOK, Goto, Return
<1>1. CASE CheckStop(w)
  BY <1>1 DEF CheckStop, runnerVars, processVars
<1>2. CASE TakeCase(w)
  <2>1. CASE queue = <<>>
    BY <1>2, <2>1 DEF TakeCase, processVars
  <2>2. CASE queue # <<>>
    <3>1. Head(queue) \in Cases /\ Tail(queue) \in Seq(Cases) /\ Head(queue) # NoCase
      BY <2>2, HeadTailProperties DEF Cases
    <3>2. /\ pc[w] = "take" /\ pc' = [pc EXCEPT ![w] = "spawn"]
          /\ current' = [current EXCEPT ![w] = Head(queue)] /\ queue' = Tail(queue)
          /\ UNCHANGED <<failFast, stop, result, completed, reported, leader, program, success>>
      BY <1>2, <2>2 DEF TakeCase, processVars
    <3> QED
      BY <3>1, <3>2
  <2> QED
    BY <2>1, <2>2
<1>3. CASE Spawn(w)
  BY <1>3, ResultTypes DEF Spawn
<1>4. CASE SeeExit(w) \/ TimeOut(w)
  <2>1. /\ pc[w] = "wait"
        /\ pc' = [pc EXCEPT ![w] = "collect"] \/ pc' = [pc EXCEPT ![w] = "kill"]
        /\ UNCHANGED <<failFast, queue, stop, current, result, completed, reported,
                       leader, program, success>>
    BY <1>4 DEF SeeExit, TimeOut, processVars
  <2> QED
    BY <2>1
<1>5. CASE Kill(w)
  BY <1>5 DEF Kill
<1>6. CASE Collect(w)
  <2>1. /\ pc[w] \in {"collect", "collectLate"} /\ pc' = [pc EXCEPT ![w] = "flag"]
        /\ UNCHANGED <<failFast, queue, stop, current, completed, reported,
                       leader, program, success>>
    BY <1>6 DEF Collect, processVars
  <2>2. \E o \in Outcome : result' = [result EXCEPT ![w] = o]
    <3>1. CASE pc[w] = "collect"
      <4>1. (current[w] \in success) \in BOOLEAN
        OBVIOUS
      <4>2. result' = [result EXCEPT ![w] = [passed |-> current[w] \in success, timedOut |-> FALSE]]
        BY <1>6, <3>1 DEF Collect
      <4> QED
        BY <4>1, <4>2, ResultTypes, Zenon
    <3>2. CASE pc[w] = "collectLate"
      <4>1. result' = [result EXCEPT ![w] = [passed |-> FALSE, timedOut |-> TRUE]]
        BY <1>6, <3>2 DEF Collect
      <4> QED
        BY <4>1, ResultTypes, Zenon
    <3> QED
      BY <2>1, <3>1, <3>2
  <2>3. result' \in [Workers -> Outcome]
    BY <2>2
  <2> QED
    BY <2>1, <2>3
<1>7. CASE SetStop(w)
  BY <1>7 DEF SetStop, processVars
<1>8. CASE PushResult(w)
  <2>1. current[w] \in Cases /\ result[w] \in Outcome /\ Pending \in Outcome
    BY <1>8, ResultTypes DEF PushResult, Pending
  <2>2. completed' \in Seq(Result)
    BY <1>8, <2>1, ResultTypes, AppendProperties DEF PushResult
  <2> QED
    BY <1>8, <2>1, <2>2 DEF PushResult, processVars
<1> QED
  BY <1>1, <1>2, <1>3, <1>4, <1>5, <1>6, <1>7, <1>8 DEF WorkerStep

LEMMA NextTypeOK == TypeOK /\ [Next]_vars => TypeOK'
<1> SUFFICES ASSUME TypeOK, [Next]_vars PROVE TypeOK'
  OBVIOUS
<1>1. CASE \E w \in Workers : WorkerStep(w)
  BY <1>1, WorkerKeepsTypes
<1>2. CASE Report
  BY <1>2 DEF Report, processVars, TypeOK
<1>3. ASSUME NEW c \in Cases, ProcessStep(c) PROVE TypeOK'
  BY <1>3 DEF ProcessStep, ProgramStarts, ProgramExits, LeaderExits, LeaderDies, runnerVars, TypeOK
<1>4. CASE UNCHANGED vars
  BY <1>4 DEF vars, runnerVars, processVars, TypeOK
<1> QED
  BY <1>1, <1>2, <1>3, <1>4 DEF Next

(***************************************************************************)
(* Where the cases are.                                                     *)
(***************************************************************************)
Places == QueueOrder /\ TakenOnce /\ EachOnce

(* Taking a case moves it from the queue to one worker.                     *)
LEMMA TakeCaseKeepsPlaces ==
  ASSUME IInv, NEW w \in Workers, TakeCase(w), queue # <<>>
  PROVE  Places'
<1> USE RunnerAssumption
<1> DEFINE taken == Head(queue)
<1>1. /\ queue \in Seq(Cases) /\ Len(queue) \in Nat \ {0} /\ Len(queue) <= NCases
      /\ current \in [Workers -> Cases \cup {NoCase}] /\ current[w] = NoCase
  <2>1. Len(completed) \in Nat
    BY RanTypes DEF IInv
  <2>2. Cardinality({v \in Workers : current[v] # NoCase}) \in Nat
    BY FS_Subset, FS_CardinalityType
  <2>3. queue \in Seq(Cases) /\ Len(queue) \in Nat \ {0}
    BY EmptySeq DEF IInv, TypeOK
  <2> QED
    BY <2>1, <2>2, <2>3 DEF IInv, TypeOK, EachOnce, TakeCase, Cases
<1>2. /\ queue' = Tail(queue) /\ current' = [current EXCEPT ![w] = taken]
      /\ completed' = completed
  BY DEF TakeCase
<1>3. /\ taken = queue[1] /\ taken \in Cases
      /\ queue' \in Seq(Cases) /\ Len(queue') = Len(queue) - 1
      /\ \A i \in 1 .. Len(queue') : queue'[i] = queue[i + 1]
  BY <1>1, <1>2, HeadTailProperties
<1>4. taken = NCases - Len(queue')
  BY <1>1, <1>3 DEF IInv, QueueOrder
<1>5. QueueOrder'
  <2>1. DOMAIN queue' = 1 .. Len(queue') /\ DOMAIN queue = 1 .. Len(queue)
    BY <1>1, <1>3, LenProperties
  <2>2. \A i \in 1 .. Len(queue) : queue[i] = NCases - Len(queue) + i
    BY <2>1 DEF IInv, QueueOrder
  <2>3. Len(queue) \in Int /\ Len(queue') \in Int /\ NCases \in Int
    BY <1>1, <1>3
  <2>4. ASSUME NEW i \in 1 .. Len(queue') PROVE queue'[i] = NCases - Len(queue') + i
    <3>1. i + 1 \in 1 .. Len(queue) /\ queue'[i] = queue[i + 1]
      BY <1>3, <2>3
    <3>2. queue[i + 1] = NCases - Len(queue) + (i + 1)
      BY <2>2, <3>1
    <3> QED
      BY <3>1, <3>2, <1>3, <2>3
  <2> QED
    BY <2>1, <2>4 DEF QueueOrder
<1>6. Ran' = Ran
  BY <1>2 DEF Ran
<1>7. TakenOnce'
  <2>1. /\ \A v \in Workers : current[v] # taken
        /\ taken \notin Ran
    BY <1>1, <1>3, <1>4 DEF IInv, TakenOnce, Cases
  <2>2. \A v \in Workers : current'[v] = IF v = w THEN taken ELSE current[v]
    BY <1>1, <1>2
  <2>3. \A v \in Workers : current[v] \in Int
    BY <1>1 DEF Cases
  <2>4. \A c \in Ran : c \in Int
    BY RanTypes DEF IInv, Cases
  <2>5. \A u, v \in Workers : current'[u] = current'[v] /\ current'[u] # NoCase => u = v
    BY <2>1, <2>2 DEF IInv, TakenOnce
  <2>6. \A v \in Workers : current'[v] \notin Ran' /\ current'[v] <= NCases - Len(queue')
    BY <2>1, <2>2, <2>3, <1>1, <1>3, <1>4, <1>6 DEF IInv, TakenOnce
  <2>7. \A c \in Ran' : c <= NCases - Len(queue')
    BY <2>4, <1>1, <1>3, <1>6 DEF IInv, TakenOnce
  <2> QED
    BY <2>5, <2>6, <2>7 DEF TakenOnce
<1>8. Queued = Queued' \cup {taken} /\ Busy' = Busy \cup {taken}
  <2>1. DOMAIN queue' = 1 .. Len(queue) - 1 /\ DOMAIN queue = 1 .. Len(queue)
    BY <1>1, <1>3, LenProperties
  <2>2. Queued' \subseteq Queued /\ taken \in Queued
    <3>1. \A i \in DOMAIN queue' : i + 1 \in DOMAIN queue /\ queue'[i] = queue[i + 1]
      BY <1>1, <1>3, <2>1
    <3>2. 1 \in DOMAIN queue
      BY <1>1, <2>1
    <3> QED
      BY <3>1, <3>2, <1>3 DEF Queued
  <2>3. ASSUME NEW i \in DOMAIN queue, i # 1 PROVE queue[i] \in Queued'
    <3>1. i - 1 \in DOMAIN queue' /\ queue[i] = queue'[i - 1]
      BY <1>1, <1>3, <2>1, <2>3
    <3> QED
      BY <3>1 DEF Queued
  <2>4. Queued = Queued' \cup {taken}
    BY <2>2, <2>3, <1>3 DEF Queued
  <2>5. Busy' = Busy \cup {taken}
    BY <1>1, <1>2, <1>3 DEF Busy, Cases
  <2> QED
    BY <2>4, <2>5
<1>9. /\ {v \in Workers : current'[v] # NoCase} = {v \in Workers : current[v] # NoCase} \cup {w}
      /\ w \notin {v \in Workers : current[v] # NoCase}
      /\ IsFiniteSet({v \in Workers : current[v] # NoCase})
  BY <1>1, <1>2, <1>3, FS_Subset DEF Cases
<1>10. Cardinality({v \in Workers : current'[v] # NoCase}) =
         Cardinality({v \in Workers : current[v] # NoCase}) + 1
  BY <1>9, FS_AddElement
<1>11. /\ Cardinality({v \in Workers : current[v] # NoCase}) \in Nat
       /\ Len(completed) \in Nat
  BY <1>9, FS_CardinalityType, RanTypes DEF IInv
<1>12. EachOnce'
  <2>1. Queued' \cup Busy' \cup Ran' = Cases'
    BY <1>6, <1>8 DEF IInv, EachOnce, Cases
  <2>2. Len(queue') + Cardinality({v \in Workers : current'[v] # NoCase}) + Len(completed') = NCases
    BY <1>1, <1>2, <1>3, <1>10, <1>11 DEF IInv, EachOnce
  <2> QED
    BY <2>1, <2>2 DEF EachOnce
<1> QED
  BY <1>5, <1>7, <1>12 DEF Places

(* Pushing a result moves the case from its worker to the report.           *)
LEMMA PushResultKeepsPlaces ==
  ASSUME IInv, NEW w \in Workers, PushResult(w)
  PROVE  Places' /\ Ran' = Ran \cup {current[w]}
<1> USE RunnerAssumption
<1> DEFINE entry == [case |-> current[w], outcome |-> result[w]]
<1>1. /\ current \in [Workers -> Cases \cup {NoCase}] /\ current[w] \in Cases
      /\ current' = [current EXCEPT ![w] = NoCase]
      /\ queue' = queue
  BY DEF IInv, TypeOK, PushResult
<1>2. completed \in Seq(Result) /\ entry \in Result /\ completed' = Append(completed, entry)
  BY <1>1, ResultTypes DEF IInv, TypeOK, PushResult
<1>3. /\ DOMAIN completed = 1 .. Len(completed) /\ Len(completed) \in Nat
      /\ DOMAIN completed' = 1 .. Len(completed) + 1 /\ Len(completed') = Len(completed) + 1
      /\ \A i \in 1 .. Len(completed) : completed'[i] = completed[i]
      /\ completed'[Len(completed) + 1] = entry
  BY <1>2, AppendProperties, LenProperties
<1>4. Ran' = Ran \cup {current[w]}
  <2>1. \A i \in DOMAIN completed : i \in DOMAIN completed' /\ completed'[i].case = completed[i].case
    BY <1>3
  <2>2. Len(completed) + 1 \in DOMAIN completed' /\ completed'[Len(completed) + 1].case = current[w]
    BY <1>3
  <2>3. \A i \in DOMAIN completed' : i \in DOMAIN completed \/ i = Len(completed) + 1
    BY <1>3
  <2> QED
    BY <2>1, <2>2, <2>3 DEF Ran
<1>5. /\ \A v \in Workers : current'[v] = IF v = w THEN NoCase ELSE current[v]
      /\ Len(queue) \in Nat /\ \A c \in Ran : c \in Cases
  BY <1>1, RanTypes DEF IInv
<1>6. QueueOrder'
  BY <1>1 DEF IInv, QueueOrder
<1>7. TakenOnce'
  <2>1. \A v \in Workers \ {w} : current[v] # current[w]
    BY <1>1 DEF IInv, TakenOnce, Cases
  <2>2. NoCase \notin Ran' /\ NoCase <= NCases - Len(queue)
    BY <1>1, <1>4, <1>5 DEF IInv, TakenOnce, Cases
  <2> QED
    BY <2>1, <2>2, <1>1, <1>4, <1>5 DEF IInv, TakenOnce
<1>8. Busy = Busy' \cup {current[w]} /\ Queued' = Queued
  BY <1>1, <1>5 DEF Busy, Queued, Cases
<1>9. /\ {v \in Workers : current'[v] # NoCase} = {v \in Workers : current[v] # NoCase} \ {w}
      /\ w \in {v \in Workers : current[v] # NoCase}
      /\ IsFiniteSet({v \in Workers : current[v] # NoCase})
  BY <1>1, <1>5, FS_Subset DEF Cases
<1>10. /\ Cardinality({v \in Workers : current'[v] # NoCase}) =
            Cardinality({v \in Workers : current[v] # NoCase}) - 1
       /\ Cardinality({v \in Workers : current[v] # NoCase}) \in Nat
  BY <1>9, FS_RemoveElement, FS_CardinalityType
<1>11. EachOnce'
  <2>1. Queued' \cup Busy' \cup Ran' = Cases'
    BY <1>4, <1>8 DEF IInv, EachOnce, Cases
  <2>2. Len(queue') + Cardinality({v \in Workers : current'[v] # NoCase}) + Len(completed') = NCases
    BY <1>1, <1>3, <1>5, <1>10 DEF IInv, EachOnce
  <2> QED
    BY <2>1, <2>2 DEF EachOnce
<1> QED
  BY <1>4, <1>6, <1>7, <1>11 DEF Places

(* The other steps move no case.                                            *)
LEMMA OthersKeepPlaces ==
  ASSUME IInv, UNCHANGED <<queue, current, completed>>
  PROVE  Places'
<1>1. Queued' = Queued /\ Busy' = Busy /\ Ran' = Ran
  BY DEF Queued, Busy, Ran
<1>2. QueueOrder' /\ TakenOnce'
  BY <1>1 DEF IInv, QueueOrder, TakenOnce
<1>3. EachOnce'
  BY <1>1 DEF IInv, EachOnce, Cases
<1> QED
  BY <1>2, <1>3 DEF Places

LEMMA NextPlaces == IInv /\ [Next]_vars => Places'
<1> SUFFICES ASSUME IInv, [Next]_vars PROVE Places'
  OBVIOUS
<1>1. ASSUME NEW w \in Workers, TakeCase(w) PROVE Places'
  <2>1. queue = <<>> => UNCHANGED <<queue, current, completed>>
    BY <1>1 DEF TakeCase
  <2> QED
    BY <2>1, <1>1, TakeCaseKeepsPlaces, OthersKeepPlaces
<1>2. ASSUME NEW w \in Workers,
             \/ CheckStop(w) \/ Spawn(w) \/ SeeExit(w) \/ TimeOut(w) \/ Kill(w)
             \/ Collect(w) \/ SetStop(w)
      PROVE  UNCHANGED <<queue, current, completed>>
  BY <1>2 DEF CheckStop, Spawn, SeeExit, TimeOut, Kill, Collect, SetStop
<1>3. ASSUME NEW c \in Cases, ProcessStep(c) PROVE UNCHANGED <<queue, current, completed>>
  BY <1>3 DEF ProcessStep, ProgramStarts, ProgramExits, LeaderExits, LeaderDies, runnerVars
<1>4. Report \/ UNCHANGED vars => UNCHANGED <<queue, current, completed>>
  BY DEF Report, vars, runnerVars
<1> QED
  BY <1>1, <1>2, <1>3, <1>4, PushResultKeepsPlaces, OthersKeepPlaces DEF Next, WorkerStep

(***************************************************************************)
(* Which processes run.                                                     *)
(***************************************************************************)
Waiting == {"wait", "kill", "collect", "collectLate"}

(* Whatever a worker or a process does, what runs has a worker waiting for  *)
(* it.                                                                      *)
LEMMA NextSupervised == IInv /\ [Next]_vars => Supervised'
<1> SUFFICES ASSUME IInv, [Next]_vars PROVE Supervised'
  OBVIOUS
<1> USE DEF Goto, Return
<1>a. /\ pc \in [Workers -> {"check", "take", "spawn", "wait", "kill", "collect", "collectLate",
                              "flag", "push", "done"}]
      /\ current \in [Workers -> Cases \cup {NoCase}]
      /\ leader \in [Cases -> {"none", "running", "exited"}]
      /\ program \in [Cases -> {"none", "running"}]
      /\ \A w \in Workers : current[w] = NoCase <=> pc[w] \in {"check", "take", "done"}
      /\ \A v, w \in Workers : current[v] = current[w] /\ current[v] # NoCase => v = w
      /\ Supervised
  BY DEF IInv, TypeOK, TakenOnce
<1> USE <1>a
(* A worker that is not waiting supervises nothing.                         *)
<1>1. ASSUME NEW w \in Workers, pc[w] \notin Waiting, UNCHANGED <<leader, program>>,
             \A v \in Workers \ {w} : current'[v] = current[v] /\ pc'[v] = pc[v]
      PROVE  Supervised'
  <2> SUFFICES ASSUME NEW c \in Cases, leader[c] = "running" \/ program[c] = "running"
               PROVE  \E v \in Workers : current'[v] = c /\ pc'[v] \in Waiting
    BY <1>1 DEF Supervised, Waiting
  <2>1. PICK v \in Workers : current[v] = c /\ pc[v] \in Waiting
    BY DEF Supervised, Waiting
  <2> QED
    BY <2>1, <1>1
(* A waiting worker goes on waiting for the same case, or nothing runs.     *)
<1>2. ASSUME NEW w \in Workers, pc[w] \in Waiting, UNCHANGED current,
             \A v \in Workers \ {w} : pc'[v] = pc[v],
             \A c \in Cases : leader'[c] = "running" => leader[c] = "running",
             \A c \in Cases : program'[c] = "running" => program[c] = "running",
             \/ pc'[w] \in Waiting
             \/ leader[current[w]] # "running" /\ program[current[w]] # "running"
      PROVE  Supervised'
  <2> SUFFICES ASSUME NEW c \in Cases, leader[c] = "running" \/ program[c] = "running"
               PROVE  \E v \in Workers : current'[v] = c /\ pc'[v] \in Waiting
    BY <1>2 DEF Supervised, Waiting
  <2>1. PICK v \in Workers : current[v] = c /\ pc[v] \in Waiting
    BY DEF Supervised, Waiting
  <2> QED
    BY <2>1, <1>2
<1>3. ASSUME NEW w \in Workers,
             CheckStop(w) \/ TakeCase(w) \/ SetStop(w) \/ PushResult(w)
      PROVE  Supervised'
  <2>1. pc[w] \notin Waiting /\ UNCHANGED <<leader, program>>
    BY <1>3 DEF CheckStop, TakeCase, SetStop, PushResult, processVars, Waiting
  <2>2. \A v \in Workers \ {w} : current'[v] = current[v] /\ pc'[v] = pc[v]
    BY <1>3 DEF CheckStop, TakeCase, SetStop, PushResult
  <2> QED
    BY <2>1, <2>2, <1>1
<1>4. ASSUME NEW w \in Workers, SeeExit(w) \/ TimeOut(w) \/ Kill(w)
      PROVE  Supervised'
  <2>1. /\ pc[w] \in Waiting /\ pc'[w] \in Waiting /\ UNCHANGED current
        /\ \A v \in Workers \ {w} : pc'[v] = pc[v]
    BY <1>4 DEF SeeExit, TimeOut, Kill, Waiting
  <2>2. \A c \in Cases : leader'[c] = "running" => leader[c] = "running"
    BY <1>4 DEF SeeExit, TimeOut, Kill, processVars
  <2>3. \A c \in Cases : program'[c] = "running" => program[c] = "running"
    BY <1>4 DEF SeeExit, TimeOut, Kill, processVars
  <2> QED
    BY <2>1, <2>2, <2>3, <1>2
<1>5. ASSUME NEW w \in Workers, Collect(w) PROVE Supervised'
  <2>1. /\ pc[w] \in Waiting /\ UNCHANGED <<current, leader, program>>
        /\ leader[current[w]] # "running" /\ program[current[w]] # "running"
        /\ \A v \in Workers \ {w} : pc'[v] = pc[v]
    BY <1>5 DEF Collect, processVars, Waiting
  <2> QED
    BY <2>1, <1>2
<1>6. ASSUME NEW w \in Workers, Spawn(w) PROVE Supervised'
  <2>1. /\ pc[w] = "spawn" /\ current[w] \in Cases /\ UNCHANGED <<current, program>>
        /\ \A v \in Workers \ {w} : pc'[v] = pc[v]
    BY <1>6 DEF Spawn
  <2>2. CASE leader' = leader
    BY <2>1, <2>2, <1>1 DEF Waiting
  <2>3. CASE leader' = [leader EXCEPT ![current[w]] = "running"] /\ pc'[w] = "wait"
    <3> SUFFICES ASSUME NEW c \in Cases, leader'[c] = "running" \/ program'[c] = "running"
                 PROVE  \E v \in Workers : current'[v] = c /\ pc'[v] \in Waiting
      BY DEF Supervised, Waiting
    <3>1. CASE c = current[w]
      BY <3>1, <2>1, <2>3 DEF Waiting
    <3>2. CASE c # current[w]
      <4>1. PICK v \in Workers : current[v] = c /\ pc[v] \in Waiting
        BY <3>2, <2>1, <2>3 DEF Supervised, Waiting
      <4> QED
        BY <4>1, <3>2, <2>1
    <3> QED
      BY <3>1, <3>2
  <2> QED
    BY <2>2, <2>3, <1>6 DEF Spawn
(* Only a running compiler starts the program.                              *)
<1>7. ASSUME NEW c \in Cases, ProcessStep(c) PROVE Supervised'
  <2>1. UNCHANGED <<current, pc>>
    BY <1>7 DEF ProcessStep, ProgramStarts, ProgramExits, LeaderExits, LeaderDies, runnerVars
  <2>2. \A d \in Cases : leader'[d] = "running" \/ program'[d] = "running"
                         => leader[d] = "running" \/ program[d] = "running"
    BY <1>7 DEF ProcessStep, ProgramStarts, ProgramExits, LeaderExits, LeaderDies, runnerVars
  <2> QED
    BY <2>1, <2>2 DEF Supervised
<1>8. Report \/ UNCHANGED vars => UNCHANGED <<current, pc, leader, program>>
  BY DEF Report, vars, runnerVars, processVars
<1>9. ASSUME UNCHANGED <<current, pc, leader, program>> PROVE Supervised'
  BY <1>9 DEF Supervised
<1> QED
  BY <1>3, <1>4, <1>5, <1>6, <1>7, <1>8, <1>9 DEF Next, WorkerStep

(***************************************************************************)
(* Why a worker may stop.                                                   *)
(***************************************************************************)
LEMMA NextFlag == IInv /\ [Next]_vars => StopMeansFailed' /\ DoneMeans'
<1> SUFFICES ASSUME IInv, [Next]_vars PROVE StopMeansFailed' /\ DoneMeans'
  OBVIOUS
<1> USE DEF Goto, Return
<1>a. /\ pc \in [Workers -> {"check", "take", "spawn", "wait", "kill", "collect", "collectLate",
                              "flag", "push", "done"}]
      /\ result \in [Workers -> Outcome] /\ stop \in BOOLEAN
      /\ StopMeansFailed /\ DoneMeans
  BY DEF IInv, TypeOK
<1> USE <1>a
(* Steps that leave the flag, the results to push and the report alone.     *)
<1>1. ASSUME UNCHANGED <<stop, completed>>,
             \A w \in Workers : pc[w] = "push" => pc'[w] = "push" /\ result'[w] = result[w]
      PROVE  StopMeansFailed'
  BY <1>1 DEF StopMeansFailed, Failure
(* Steps after which no worker is newly done.                               *)
<1>2. ASSUME UNCHANGED <<failFast, queue, reported>>, stop => stop',
             \A w \in Workers : pc[w] = "done" <=> pc'[w] = "done"
      PROVE  DoneMeans'
  BY <1>2 DEF DoneMeans
<1>3. ASSUME NEW w \in Workers, CheckStop(w) PROVE StopMeansFailed' /\ DoneMeans'
  <2>1. StopMeansFailed'
    BY <1>3, <1>1 DEF CheckStop
  <2>2. DoneMeans'
    BY <1>3 DEF CheckStop, DoneMeans
  <2> QED
    BY <2>1, <2>2
<1>4. ASSUME NEW w \in Workers, TakeCase(w) PROVE StopMeansFailed' /\ DoneMeans'
  <2>1. /\ pc[w] = "take" /\ UNCHANGED <<failFast, stop, result, completed, reported>>
        /\ \A v \in Workers \ {w} : pc'[v] = pc[v]
        /\ queue = <<>> => queue' = <<>>
        /\ queue # <<>> => pc'[w] = "spawn"
    BY <1>4 DEF TakeCase
  <2>2. StopMeansFailed'
    BY <2>1, <1>1
  <2>3. DoneMeans'
    BY <1>4, <2>1 DEF TakeCase, DoneMeans
  <2> QED
    BY <2>2, <2>3
<1>5. ASSUME NEW w \in Workers, Spawn(w) \/ SeeExit(w) \/ TimeOut(w) \/ Kill(w) \/ Collect(w)
      PROVE  StopMeansFailed' /\ DoneMeans'
  <2>1. /\ pc[w] \notin {"push", "done"} /\ pc'[w] \notin {"push", "done"}
        /\ \A v \in Workers \ {w} : pc'[v] = pc[v]
        /\ UNCHANGED <<failFast, queue, stop, completed, reported>>
    BY <1>5 DEF Spawn, SeeExit, TimeOut, Kill, Collect
  <2>2. \A v \in Workers \ {w} : result'[v] = result[v]
    BY <1>5 DEF Spawn, SeeExit, TimeOut, Kill, Collect
  <2> QED
    BY <2>1, <2>2, <1>1, <1>2
<1>6. ASSUME NEW w \in Workers, SetStop(w) PROVE StopMeansFailed' /\ DoneMeans'
  <2>1. /\ pc[w] = "flag" /\ pc'[w] = "push" /\ UNCHANGED <<failFast, queue, result, completed, reported>>
        /\ \A v \in Workers \ {w} : pc'[v] = pc[v]
        /\ stop' => stop \/ ~result[w].passed
        /\ stop => stop'
    BY <1>6 DEF SetStop
  <2>2. StopMeansFailed'
    BY <2>1 DEF StopMeansFailed, Failure
  <2> QED
    BY <2>1, <2>2, <1>2
<1>7. ASSUME NEW w \in Workers, PushResult(w) PROVE StopMeansFailed' /\ DoneMeans'
  <2>1. /\ pc[w] = "push" /\ pc'[w] = "check" /\ UNCHANGED <<failFast, queue, stop, reported>>
        /\ \A v \in Workers \ {w} : pc'[v] = pc[v] /\ result'[v] = result[v]
    BY <1>7 DEF PushResult
  <2>2. /\ DOMAIN completed = 1 .. Len(completed) /\ Len(completed) \in Nat
        /\ DOMAIN completed' = 1 .. Len(completed) + 1
        /\ \A i \in 1 .. Len(completed) : completed'[i] = completed[i]
        /\ completed'[Len(completed) + 1].outcome = result[w]
    <3> DEFINE entry == [case |-> current[w], outcome |-> result[w]]
    <3>1. completed \in Seq(Result) /\ entry \in Result /\ completed' = Append(completed, entry)
      BY <1>7, ResultTypes DEF IInv, TypeOK, PushResult
    <3>2. completed'[Len(completed) + 1] = entry
      BY <3>1, AppendProperties
    <3> QED
      BY <3>1, <3>2, AppendProperties, LenProperties
  <2>3. StopMeansFailed'
    <3>1. CASE \E i \in DOMAIN completed : Failure(i)
      BY <3>1, <2>2 DEF StopMeansFailed, Failure
    <3>2. CASE \E v \in Workers \ {w} : pc[v] = "push" /\ ~result[v].passed
      BY <3>2, <2>1 DEF StopMeansFailed
    <3>3. CASE ~result[w].passed
      BY <3>3, <2>2 DEF StopMeansFailed, Failure
    <3> QED
      BY <2>1, <3>1, <3>2, <3>3 DEF StopMeansFailed
  <2> QED
    BY <2>1, <2>3, <1>2
<1>8. CASE Report
  BY <1>8, <1>1 DEF Report, DoneMeans
<1>9. ASSUME NEW c \in Cases, ProcessStep(c) PROVE StopMeansFailed' /\ DoneMeans'
  <2>1. UNCHANGED <<failFast, queue, stop, pc, result, completed, reported>>
    BY <1>9 DEF ProcessStep, ProgramStarts, ProgramExits, LeaderExits, LeaderDies, runnerVars
  <2> QED
    BY <2>1, <1>1, <1>2
<1>10. CASE UNCHANGED vars
  BY <1>10, <1>1, <1>2 DEF vars, runnerVars
<1> QED
  BY <1>3, <1>4, <1>5, <1>6, <1>7, <1>8, <1>9, <1>10 DEF Next, WorkerStep

-----------------------------------------------------------------------------
(* The inductive invariant holds in every behaviour: in particular the      *)
(* variables stay in their ranges and every case is in exactly one place,   *)
(* the queue, a worker or the report.                                       *)
THEOREM InductiveInvariant == Spec => []IInv
<1>1. IInv /\ [Next]_vars => IInv'
  BY NextTypeOK, NextPlaces, NextSupervised, NextFlag DEF IInv, Places
<1> QED
  BY <1>1, InitIInv, PTL DEF Spec

(* `mux test` runs no case twice and loses no result.                       *)
THEOREM EveryCaseOnce == Spec => []EachOnce
<1>1. IInv => EachOnce
  BY DEF IInv
<1> QED
  BY <1>1, InductiveInvariant, PTL

(* A run that skipped a case reports a failed one.                          *)
THEOREM SkippingNeedsAFailure == Spec => []SkippedMeansFailed
<1>1. IInv => SkippedMeansFailed
  <2> SUFFICES ASSUME IInv, reported
               PROVE  \/ Ran = Cases
                      \/ failFast /\ \E i \in DOMAIN completed : ~completed[i].outcome.passed
    BY DEF SkippedMeansFailed
  <2>1. \A w \in Workers : pc[w] = "done" /\ current[w] = NoCase
    BY DEF IInv, DoneMeans, TypeOK
  <2>2. PICK w \in Workers : TRUE
    BY RunnerAssumption
  <2>3. CASE queue = <<>>
    <3>1. Queued = {} /\ Busy = {}
      BY <2>1, <2>3 DEF Queued, Busy
    <3> QED
      BY <3>1 DEF IInv, EachOnce
  <2>4. CASE failFast /\ stop
    BY <2>1, <2>4 DEF IInv, StopMeansFailed, Failure
  <2> QED
    BY <2>1, <2>2, <2>3, <2>4 DEF IInv, DoneMeans
<1> QED
  BY <1>1, InductiveInvariant, PTL

(* No process of a case outlives its result: the runner collects the output *)
(* of the whole process group before it pushes the result.                  *)
THEOREM NoProcessOfAResult == Spec => []NoProcessLeft
<1>1. IInv => NoProcessLeft
  <2> SUFFICES ASSUME IInv, NEW c \in Ran PROVE leader[c] # "running" /\ program[c] # "running"
    BY DEF NoProcessLeft
  <2>1. c \in Cases /\ \A w \in Workers : current[w] # c
    BY RanTypes DEF IInv, TakenOnce
  <2> QED
    BY <2>1 DEF IInv, Supervised
<1> QED
  BY <1>1, InductiveInvariant, PTL

=============================================================================
