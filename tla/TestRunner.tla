----------------------------- MODULE TestRunner ------------------------------
(***************************************************************************)
(* The worker pool of `mux test` (main.rs): workers take test cases from a  *)
(* shared queue; each case is a `mux run` process, the leader of a process  *)
(* group of its own, which compiles the test and runs the program.  Both    *)
(* processes write to two pipes that the runner reads to their end.         *)
(***************************************************************************)
EXTENDS Integers, Sequences, FiniteSets

CONSTANTS
  NCases,   (* test cases, numbered in queue order                          *)
  Workers   (* worker threads                                               *)

Cases  == 1..NCases
NoCase == 0

ASSUME RunnerAssumption ==
  /\ NCases \in Nat \ {0}
  /\ IsFiniteSet(Workers) /\ Workers # {} /\ Cardinality(Workers) <= NCases

VARIABLES
  failFast,  (* the --fail-fast option                                      *)
  queue,     (* cases not taken yet                                         *)
  stop,      (* the stop flag                                               *)
  pc,        (* what each worker does next                                  *)
  current,   (* the case a worker has taken                                 *)
  result,    (* what run_one_test of that worker returns                    *)
  completed, (* results pushed, in order                                    *)
  reported,  (* run_test_cases has returned                                 *)
  leader,    (* the compiler process of a case                              *)
  program,   (* the test program of a case                                  *)
  success    (* cases whose compiler process exited with status 0           *)

runnerVars  == <<queue, stop, pc, current, result, completed, reported>>
processVars == <<leader, program, success>>
vars        == <<failFast, runnerVars, processVars>>

Pending == [passed |-> FALSE, timedOut |-> FALSE]

Init ==
  /\ failFast \in BOOLEAN
  /\ queue = [i \in Cases |-> i]
  /\ stop = FALSE
  /\ pc = [w \in Workers |-> "check"]
  /\ current = [w \in Workers |-> NoCase]
  /\ result = [w \in Workers |-> Pending]
  /\ completed = <<>>
  /\ reported = FALSE
  /\ leader  = [c \in Cases |-> "none"]
  /\ program = [c \in Cases |-> "none"]
  /\ success = {}

Goto(w, l) == pc' = [pc EXCEPT ![w] = l]

Return(w, passed, timedOut) ==
  /\ result' = [result EXCEPT ![w] = [passed |-> passed, timedOut |-> timedOut]]
  /\ Goto(w, "flag")

(***************************************************************************)
(* A worker: run_test_cases' loop around run_one_test.                      *)
(***************************************************************************)

(* The stop flag counts only with --fail-fast.                              *)
CheckStop(w) ==
  /\ pc[w] = "check"
  /\ Goto(w, IF failFast /\ stop THEN "done" ELSE "take")
  /\ UNCHANGED <<failFast, queue, stop, current, result, completed, reported, processVars>>

(* Mutant: the case is read and removed in two steps, the second missing.   *)
TakeWithoutRemoving(w) ==
  /\ pc[w] = "take" /\ queue # <<>>
  /\ current' = [current EXCEPT ![w] = Head(queue)]
  /\ Goto(w, "spawn")
  /\ UNCHANGED <<failFast, queue, stop, result, completed, reported, processVars>>

TakeCase(w) ==
  /\ pc[w] = "take"
  /\ IF queue = <<>>
     THEN Goto(w, "done") /\ UNCHANGED <<queue, current>>
     ELSE /\ current' = [current EXCEPT ![w] = Head(queue)]
          /\ queue' = Tail(queue)
          /\ Goto(w, "spawn")
  /\ UNCHANGED <<failFast, stop, result, completed, reported, processVars>>

(* Write the generated source and start the compiler; an error is a failed  *)
(* case.                                                                    *)
Spawn(w) ==
  /\ pc[w] = "spawn"
  /\ \/ /\ leader' = [leader EXCEPT ![current[w]] = "running"]
        /\ Goto(w, "wait")
        /\ UNCHANGED result
     \/ Return(w, FALSE, FALSE) /\ UNCHANGED leader
  /\ UNCHANGED <<failFast, queue, stop, current, completed, reported, program, success>>

(* The polling loop looks at the exit status first, then at the clock.      *)
(* (waitpid does not fail for a child that nobody else waits for.)          *)
SeeExit(w) ==
  /\ pc[w] = "wait" /\ leader[current[w]] = "exited"
  /\ Goto(w, "collect")
  /\ UNCHANGED <<failFast, queue, stop, current, result, completed, reported, processVars>>

TimeOut(w) ==
  /\ pc[w] = "wait" /\ leader[current[w]] = "running"
  /\ Goto(w, "kill")
  /\ UNCHANGED <<failFast, queue, stop, current, result, completed, reported, processVars>>

(* Mutant: only the compiler is killed, not its process group.              *)
KillLeader(w) ==
  /\ pc[w] = "kill"
  /\ leader'  = [leader EXCEPT ![current[w]] = "exited"]
  /\ Goto(w, "collectLate")
  /\ UNCHANGED <<failFast, queue, stop, current, result, completed, reported, program,
                 success>>

(* terminate_test_process, after its grace period: SIGKILL to the group.    *)
Kill(w) ==
  /\ pc[w] = "kill"
  /\ leader'  = [leader EXCEPT ![current[w]] = "exited"]
  /\ program' = [program EXCEPT ![current[w]] = "none"]
  /\ Goto(w, "collectLate")
  /\ UNCHANGED <<failFast, queue, stop, current, result, completed, reported, success>>

(* Mutant: the result does not wait for the pipes to be closed.             *)
CollectAtExit(w) ==
  /\ pc[w] \in {"collect", "collectLate"}
  /\ IF pc[w] = "collect"
     THEN Return(w, current[w] \in success, FALSE)
     ELSE Return(w, FALSE, TRUE)
  /\ UNCHANGED <<failFast, queue, stop, current, completed, reported, processVars>>

(* collect_test_output: the readers end when no process holds the pipes.    *)
Collect(w) ==
  /\ pc[w] \in {"collect", "collectLate"}
  /\ leader[current[w]] = "exited" /\ program[current[w]] = "none"
  /\ IF pc[w] = "collect"
     THEN Return(w, current[w] \in success, FALSE)
     ELSE Return(w, FALSE, TRUE)
  /\ UNCHANGED <<failFast, queue, stop, current, completed, reported, processVars>>

(* Mutant: the flag is set after every case.                                *)
SetStopAlways(w) ==
  /\ pc[w] = "flag"
  /\ stop' = TRUE
  /\ Goto(w, "push")
  /\ UNCHANGED <<failFast, queue, current, result, completed, reported, processVars>>

SetStop(w) ==
  /\ pc[w] = "flag"
  /\ stop' = (stop \/ ~result[w].passed)
  /\ Goto(w, "push")
  /\ UNCHANGED <<failFast, queue, current, result, completed, reported, processVars>>

PushResult(w) ==
  /\ pc[w] = "push"
  /\ completed' = Append(completed, [case |-> current[w], outcome |-> result[w]])
  /\ current' = [current EXCEPT ![w] = NoCase]
  /\ result' = [result EXCEPT ![w] = Pending]
  /\ Goto(w, "check")
  /\ UNCHANGED <<failFast, queue, stop, reported, processVars>>

(* The main thread joins the workers and reports (what it does not run, it  *)
(* does not report).                                                        *)
Report ==
  /\ ~reported /\ \A w \in Workers : pc[w] = "done"
  /\ reported' = TRUE
  /\ UNCHANGED <<failFast, queue, stop, pc, current, result, completed, processVars>>

(***************************************************************************)
(* The processes of a case.                                                 *)
(***************************************************************************)
ProgramStarts(c) ==
  /\ leader[c] = "running" /\ program[c] = "none" /\ c \notin success
  /\ program' = [program EXCEPT ![c] = "running"]
  /\ UNCHANGED <<failFast, runnerVars, leader, success>>

(* The program returns, with or without a failed assertion.                 *)
ProgramExits(c) ==
  /\ program[c] = "running"
  /\ program' = [program EXCEPT ![c] = "none"]
  /\ \/ leader[c] = "running" /\ success' = success \cup {c} /\ UNCHANGED leader
     \/ leader' = [leader EXCEPT ![c] = "exited"] /\ UNCHANGED success
  /\ UNCHANGED <<failFast, runnerVars>>

(* The compiler exits after the program succeeded, or reports an error      *)
(* without having started it.                                               *)
LeaderExits(c) ==
  /\ leader[c] = "running" /\ program[c] = "none"
  /\ leader' = [leader EXCEPT ![c] = "exited"]
  /\ UNCHANGED <<failFast, runnerVars, program, success>>

(* The compiler process dies from a signal and leaves the program running.  *)
LeaderDies(c) ==
  /\ leader[c] = "running"
  /\ leader' = [leader EXCEPT ![c] = "exited"]
  /\ success' = success \ {c}
  /\ UNCHANGED <<failFast, runnerVars, program>>

WorkerStep(w) ==
  \/ CheckStop(w) \/ TakeCase(w) \/ Spawn(w)
  \/ SeeExit(w) \/ TimeOut(w) \/ Kill(w) \/ Collect(w)
  \/ SetStop(w) \/ PushResult(w)

ProcessStep(c) == ProgramStarts(c) \/ ProgramExits(c) \/ LeaderExits(c) \/ LeaderDies(c)

Next ==
  \/ \E w \in Workers : WorkerStep(w)
  \/ Report
  \/ \E c \in Cases : ProcessStep(c)

(* The runner's threads run; a compiler or a test program may hang.         *)
Spec ==
  /\ Init /\ [][Next]_vars
  /\ \A w \in Workers : WF_vars(WorkerStep(w))
  /\ WF_vars(Report)

(***************************************************************************)
(* Properties                                                               *)
(***************************************************************************)
Busy == {current[w] : w \in Workers} \ {NoCase}
Ran  == {completed[i].case : i \in DOMAIN completed}
Queued == {queue[i] : i \in DOMAIN queue}

Outcome == [passed : BOOLEAN, timedOut : BOOLEAN]
Result  == [case : Cases, outcome : Outcome]

(* The variables stay in their ranges.                                      *)
TypeOK ==
  /\ failFast \in BOOLEAN /\ stop \in BOOLEAN /\ reported \in BOOLEAN
  /\ queue \in Seq(Cases)
  /\ pc \in [Workers -> {"check", "take", "spawn", "wait", "kill", "collect", "collectLate",
                         "flag", "push", "done"}]
  /\ current \in [Workers -> Cases \cup {NoCase}]
  /\ \A w \in Workers : current[w] = NoCase <=> pc[w] \in {"check", "take", "done"}
  /\ result \in [Workers -> Outcome]
  /\ completed \in Seq(Result)
  /\ leader \in [Cases -> {"none", "running", "exited"}]
  /\ program \in [Cases -> {"none", "running"}]
  /\ success \subseteq Cases

(* Every case is in exactly one place: in the queue, with one worker, or    *)
(* among the results.  No case runs twice and no result is lost.            *)
EachOnce ==
  /\ Queued \cup Busy \cup Ran = Cases
  /\ Len(queue) + Cardinality({w \in Workers : current[w] # NoCase}) + Len(completed) = NCases

(* A case is skipped only with --fail-fast, and then a failed one is in the *)
(* report: the command cannot succeed without having run everything.        *)
SkippedMeansFailed ==
  reported =>
    \/ Ran = Cases
    \/ failFast /\ \E i \in DOMAIN completed : ~completed[i].outcome.passed

(* When the runner has the result of a case, none of its processes is left  *)
(* running: neither the compiler nor a program that was stuck.              *)
NoProcessLeft ==
  \A c \in Ran : leader[c] # "running" /\ program[c] # "running"

(* A program whose compiler died and that never ends.                       *)
Orphaned == \E w \in Workers : pc[w] = "collect" /\ program[current[w]] = "running"

(* `mux test` ends, however many compilers and programs hang; only a        *)
(* program that outlives its compiler can delay it (TimeoutEndsTest).       *)
EndsUnlessOrphaned == <>[](reported \/ Orphaned)

(* The comment of terminate_test_process: "The compiler can have already    *)
(* exited while a generated test descendant still owns stdout/stderr; only  *)
(* checking the leader would leave that descendant alive and make           *)
(* `wait_with_output` hang indefinitely."  Every test ends, by its timeout  *)
(* at the latest.                                                           *)
TimeoutEndsTest == <>reported

=============================================================================
