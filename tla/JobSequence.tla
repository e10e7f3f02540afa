----------------------------- MODULE JobSequence -----------------------------
(***************************************************************************)
(* The runner process of one task: JobSequenceRunner under task_runner.py, *)
(* the processes of its jobs, and the users who cancel the task or one of  *)
(* its jobs while it runs.  TaskScheduler sees of all this one "exec"      *)
(* stage; RunnerRefines relates the two.                                   *)
(*                                                                         *)
(* An action is one write to the database, one system call or one read of  *)
(* the termination flag: a SIGTERM is handled between any two of them.     *)
(***************************************************************************)
EXTENDS Integers

CONSTANTS
  JobCount,   \* jobs of the task, numbered from 1 in the order of their ids
  Internal,   \* jobs of type "internal": run inside of the runner, no process
  Request,    \* requests to cancel the task
  FailureMode \* sets of steps that may raise: "prepare", "finalize", "finish", "terminate"

Job == 1..JobCount

ASSUME JobAssumption ==
  /\ JobCount \in Nat \ {0}
  /\ Internal \subseteq Job
  /\ FailureMode \subseteq SUBSET {"prepare", "finalize", "finish", "terminate"}

VARIABLES
  failing,     \* the steps that may raise in this run
  command,     \* "start" or "restart"
  todo,        \* configured_jobs, in the order of their ids
  taskStatus,  \* TaskLog.status
  taskPid,     \* TaskLog.pid is the pid of this runner
  concern,     \* the lock or the flag of the task exists
  ownerState,  \* what the task has done to the state of its owner
  jobStatus,   \* [Job -> JobLog.status]
  jobPid,      \* jobs whose row has the pid of their process
  jobProc,     \* [Job -> process of the job, by its exit code once it ended]
  signalled,   \* jobs whose process was sent a SIGTERM
  pc,          \* stage of the runner
  current,     \* the job of todo being processed
  result,      \* _runtime.status
  taskResult,  \* task_result, the copy of it _finish works with
  lastResult,  \* last_job_result
  considered,  \* consider_broken is running
  sigterm,     \* a SIGTERM for the runner is pending
  termination, \* _runtime.termination.is_requested
  late,        \* jobs started after the termination was requested (history)
  request      \* [Request -> stage of the cancel request]

given == <<failing, command>>   \* never changes
rows == <<taskStatus, taskPid, concern, ownerState, jobStatus, jobPid>>
processes == <<jobProc, signalled>>
runtime == <<pc, current, result, taskResult, lastResult, considered>>
signals == <<sigterm, termination>>
vars == <<given, todo, rows, processes, runtime, signals, late, request>>

FinalStatus == {"success", "failed", "aborted", "broken"}
None == "none"

TypeOK ==
  /\ failing \in FailureMode
  /\ command \in {"start", "restart"}
  /\ todo \subseteq Job
  /\ taskStatus \in {"queued", "running"} \cup FinalStatus
  /\ taskPid \in BOOLEAN
  /\ concern \in BOOLEAN
  /\ ownerState \in {None, "on_success", "on_fail"}
  /\ jobStatus \in [Job -> {"created", "running", "success", "failed", "aborted"}]
  /\ jobPid \subseteq Job
  /\ jobProc \in [Job -> {None, "alive", "0", "-15", "other"}]
  /\ signalled \subseteq Job
  /\ pc \in {"configure", "start", "next", "spawned", "wait", "finalize",
             "verdict", "release", "update", "report", "exited"}
  /\ current \in Job
  /\ result \in {"created", "running"} \cup FinalStatus
  /\ taskResult \in {"created"} \cup FinalStatus
  /\ lastResult \in {None, "success", "failed", "aborted"}
  /\ considered \in BOOLEAN
  /\ sigterm \in BOOLEAN
  /\ termination \in BOOLEAN
  /\ late \in Nat
  /\ request \in [Request -> {"idle", "polling", "done"}]

-----------------------------------------------------------------------------
(* What an earlier run of the task leaves in the rows of the jobs: all of  *)
(* them up to the last one processed have a result, and those before the   *)
(* last one let the run proceed.                                           *)
PreviousRun ==
  {f \in [Job -> {"created", "success", "failed", "aborted"}] :
     \E k \in Job : \A j \in Job : /\ f[j] = "created" <=> j > k
                                   /\ j < k => f[j] # "failed"}

FirstStart ==
  /\ command = "start"
  /\ taskStatus = "queued"
  /\ jobStatus = [j \in Job |-> "created"]

(* "restart" of a task that succeeded starts it all over.                  *)
StartAgain ==
  /\ command = "start"
  /\ taskStatus = "success"
  /\ jobStatus \in {f \in PreviousRun : f[JobCount] = "success"}

Restart ==
  /\ command = "restart"
  /\ taskStatus \in {"failed", "aborted"}
  /\ jobStatus \in PreviousRun
  /\ taskStatus = "failed" => \E j \in Job : jobStatus[j] = "failed"

Init ==
  /\ failing \in FailureMode
  /\ FirstStart \/ StartAgain \/ Restart
  /\ todo = {}
  /\ taskPid = FALSE
  /\ concern = TRUE
  /\ ownerState = None
  /\ jobPid = {}
  /\ jobProc = [j \in Job |-> None]
  /\ signalled = {}
  /\ pc = "configure"
  /\ current = 1
  /\ result = "created"
  /\ taskResult = "created"
  /\ lastResult = None
  /\ considered = FALSE
  /\ sigterm = FALSE
  /\ termination = FALSE
  /\ late = 0
  /\ request = [r \in Request |-> "idle"]

-----------------------------------------------------------------------------
(* The runner *)

(* A restart leaves out the jobs that succeeded.                           *)
FilterPredicate(j) == command = "restart" => jobStatus[j] # "success"

Later == {j \in todo : j > current}
FirstOf(jobs) == {j \in jobs : \A i \in jobs : j <= i}

(* Mutant: an exception ends the process.                                  *)
DieOfException ==
  /\ result' = "broken"
  /\ considered' = TRUE
  /\ pc' = "exited"

(* An exception in run: consider_broken finishes the task once more.       *)
ConsiderBroken ==
  /\ result' = "broken"
  /\ considered' = TRUE
  /\ pc' = "release"

(* _configure; it raises when there is no job to do.                       *)
Configure ==
  /\ pc = "configure"
  /\ todo' = {j \in Job : FilterPredicate(j)}
  /\ IF todo' = {}
       THEN ConsiderBroken /\ UNCHANGED current
       ELSE pc' = "start" /\ current' \in FirstOf(todo') /\ UNCHANGED <<result, considered>>
  /\ UNCHANGED <<given, rows, processes, taskResult, lastResult, signals, late, request>>

Start ==
  /\ pc = "start"
  /\ taskStatus' = "running"
  /\ taskPid' = TRUE
  /\ result' = "running"
  /\ pc' = "next"
  /\ UNCHANGED <<given, todo, concern, ownerState, jobStatus, jobPid, processes, current,
                 taskResult, lastResult, considered, signals, late, request>>

(* _prepare_job_environment and execute: an internal script runs here.     *)
ExecuteJob ==
  /\ pc = "next"
  /\ IF current \in Internal
       THEN \E code \in {"0", "other"} : jobProc' = [jobProc EXCEPT ![current] = code]
       ELSE jobProc' = [jobProc EXCEPT ![current] = "alive"]
  /\ late' = IF termination THEN late + 1 ELSE late
  /\ pc' = "spawned"
  /\ UNCHANGED <<given, todo, rows, signalled, current, result, taskResult, lastResult,
                 considered, signals, request>>

PrepareFails ==
  /\ "prepare" \in failing
  /\ pc = "next"
  /\ ConsiderBroken
  /\ UNCHANGED <<given, todo, rows, processes, current, taskResult, lastResult, signals, late, request>>

(* The row of the job says it runs only now.                               *)
RecordJob ==
  /\ pc = "spawned"
  /\ jobStatus' = [jobStatus EXCEPT ![current] = "running"]
  /\ jobPid' = IF current \in Internal THEN jobPid \ {current} ELSE jobPid \cup {current}
  /\ pc' = "wait"
  /\ UNCHANGED <<given, todo, taskStatus, taskPid, concern, ownerState, processes, current,
                 result, taskResult, lastResult, considered, signals, late, request>>

StatusOfCode(code) ==
  CASE code = "-15" -> "aborted" [] code = "0" -> "success" [] OTHER -> "failed"

(* Mutant: a signal interrupts the wait.                                   *)
WaitInterrupted ==
  /\ pc = "wait"
  /\ jobProc[current] \notin {None, "alive"} \/ termination
  /\ jobStatus' = [jobStatus EXCEPT ![current] = StatusOfCode(jobProc[current])]
  /\ pc' = "finalize"
  /\ UNCHANGED <<given, todo, taskStatus, taskPid, concern, ownerState, jobPid, processes,
                 current, result, taskResult, lastResult, considered, signals, late, request>>

WaitFinished ==
  /\ pc = "wait"
  /\ jobProc[current] \notin {None, "alive"}
  /\ jobStatus' = [jobStatus EXCEPT ![current] = StatusOfCode(jobProc[current])]
  /\ pc' = "finalize"
  /\ UNCHANGED <<given, todo, taskStatus, taskPid, concern, ownerState, jobPid, processes,
                 current, result, taskResult, lastResult, considered, signals, late, request>>

(* Mutant: a termination does not stop the task.                           *)
ProceedAfterTermination(jobResult) == jobResult \in {"success", "aborted"}

ShouldProceed(jobResult) ==
  /\ ~termination
  /\ jobResult \in {"success", "aborted"}

(* The finalizers passed: the rest of the loop's iteration.                *)
EndOfJob ==
  /\ pc = "finalize"
  /\ lastResult' = jobStatus[current]
  /\ result' = IF result # "aborted" /\ lastResult' \notin {"success", "aborted"}
                 THEN "failed" ELSE result
  /\ IF ShouldProceed(lastResult') /\ Later # {}
       THEN current' \in FirstOf(Later) /\ pc' = "next"
       ELSE pc' = "verdict" /\ UNCHANGED current
  /\ UNCHANGED <<given, todo, rows, processes, taskResult, considered, signals, late, request>>

FinalizersFail ==
  /\ "finalize" \in failing
  /\ pc = "finalize"
  /\ ConsiderBroken
  /\ UNCHANGED <<given, todo, rows, processes, current, taskResult, lastResult, signals, late, request>>

(* Mutants: the last job's abortion, or the termination, does not count.   *)
ResultOfTermination ==
  IF termination THEN "aborted"
  ELSE IF result # "running" THEN result
  ELSE IF lastResult = "aborted" THEN "success"
  ELSE lastResult

ResultOfJobs == IF result # "running" THEN result ELSE lastResult

TaskResult ==
  IF termination \/ (lastResult = "aborted" /\ Later = {}) THEN "aborted"
  ELSE IF result # "running" THEN result
  ELSE IF lastResult = "aborted" THEN "success"
  ELSE lastResult

ReachVerdict ==
  /\ pc = "verdict"
  /\ result' = TaskResult
  /\ pc' = "release"
  /\ UNCHANGED <<given, todo, rows, processes, current, taskResult, lastResult, considered, signals,
                 late, request>>

ReleaseConcern ==
  /\ pc = "release"
  /\ taskResult' = result
  /\ concern' = FALSE
  /\ pc' = "update"
  /\ UNCHANGED <<given, todo, taskStatus, taskPid, ownerState, jobStatus, jobPid, processes,
                 current, result, lastResult, considered, signals, late, request>>

(* Mutant: whatever is not a success is a failure.                         *)
SuccessOrFail ==
  IF considered THEN ownerState
  ELSE IF result = "success" THEN "on_success" ELSE "on_fail"

(* _update_owner_state; consider_broken passes no last job.                *)
StateAfterTask ==
  IF considered THEN ownerState
  ELSE CASE result = "success" -> "on_success"
         [] result = "failed" -> "on_fail"
         [] OTHER -> ownerState

UpdateOwner ==
  /\ pc = "update"
  /\ ownerState' = StateAfterTask
  /\ pc' = "report"
  /\ UNCHANGED <<given, todo, taskStatus, taskPid, concern, jobStatus, jobPid, processes,
                 current, result, taskResult, lastResult, considered, signals, late, request>>

(* An exception before or after the state was set (audit, mapping,         *)
(* maintenance mode); a second one in a row only writes the status.        *)
UpdateOwnerFails ==
  /\ "finish" \in failing
  /\ pc = "update"
  /\ ownerState' \in {ownerState, StateAfterTask}
  /\ IF considered
       THEN pc' = "report" /\ UNCHANGED <<result, considered>>
       ELSE ConsiderBroken
  /\ UNCHANGED <<given, todo, taskStatus, taskPid, concern, jobStatus, jobPid, processes,
                 current, taskResult, lastResult, signals, late, request>>

Report ==
  /\ pc = "report"
  /\ taskStatus' = taskResult
  /\ pc' = "exited"
  /\ UNCHANGED <<given, todo, taskPid, concern, ownerState, jobStatus, jobPid, processes,
                 current, result, taskResult, lastResult, considered, signals, late, request>>

-----------------------------------------------------------------------------
(* Signals *)

(* Jobs terminate finds in the database and the processes it reaches.      *)
JobsToTerminate == {j \in Job : jobStatus[j] = "running" /\ j \in jobPid /\ jobProc[j] = "alive"}

Terminate ==
  /\ sigterm
  /\ pc # "exited"
  /\ sigterm' = FALSE
  /\ termination' = TRUE
  /\ signalled' = signalled \cup JobsToTerminate
  /\ UNCHANGED <<given, todo, rows, jobProc, runtime, late, request>>

(* terminate raises: the handler itself finishes the task as broken, then  *)
(* the interrupted code goes on.                                           *)
TerminateFails ==
  /\ "terminate" \in failing
  /\ sigterm
  /\ pc # "exited"
  /\ sigterm' = FALSE
  /\ termination' = TRUE
  /\ result' = "broken"
  /\ concern' = FALSE
  /\ taskStatus' = "broken"
  /\ UNCHANGED <<given, todo, taskPid, ownerState, jobStatus, jobPid, processes, pc, current,
                 taskResult, lastResult, considered, late, request>>

-----------------------------------------------------------------------------
(* The processes of the jobs *)

JobEnds(j) ==
  /\ jobProc[j] = "alive"
  /\ \E code \in {"0", "other"} \cup (IF j \in signalled THEN {"-15"} ELSE {}) :
       jobProc' = [jobProc EXCEPT ![j] = code]
  /\ UNCHANGED <<given, todo, rows, signalled, runtime, signals, late, request>>

-----------------------------------------------------------------------------
(* The users *)

(* TaskLog.cancel: the row was read, the checks on it passed.              *)
CancelTask(r) ==
  /\ request[r] = "idle"
  /\ taskPid
  /\ taskStatus \notin {"failed", "aborted", "success"}
  /\ request' = [request EXCEPT ![r] = "polling"]
  /\ UNCHANGED <<given, todo, rows, processes, runtime, signals, late>>

SomeJobRuns == \E j \in Job : jobStatus[j] = "running"

(* A running job was found at one of the looks: the runner is signalled,   *)
(* if it is still there.                                                   *)
CancelSignals(r) ==
  /\ request[r] = "polling"
  /\ SomeJobRuns
  /\ sigterm' = (sigterm \/ pc # "exited")
  /\ request' = [request EXCEPT ![r] = "done"]
  /\ UNCHANGED <<given, todo, rows, processes, runtime, termination, late>>

(* None was found at ten looks.                                            *)
CancelGivesUp(r) ==
  /\ request[r] = "polling"
  /\ ~SomeJobRuns
  /\ request' = [request EXCEPT ![r] = "done"]
  /\ UNCHANGED <<given, todo, rows, processes, runtime, signals, late>>

(* JobLog.cancel: a job of which only the process is terminated.           *)
CancelJob(j) ==
  /\ jobStatus[j] = "running"
  /\ j \in jobPid
  /\ jobProc[j] = "alive"
  /\ signalled' = signalled \cup {j}
  /\ UNCHANGED <<given, todo, rows, jobProc, runtime, signals, late, request>>

-----------------------------------------------------------------------------
RunnerStep ==
  \/ Configure \/ Start
  \/ ExecuteJob \/ PrepareFails \/ RecordJob \/ WaitFinished
  \/ EndOfJob \/ FinalizersFail \/ ReachVerdict
  \/ ReleaseConcern \/ UpdateOwner \/ UpdateOwnerFails \/ Report

SignalStep == Terminate \/ TerminateFails

UserStep ==
  \/ \E r \in Request : CancelTask(r) \/ CancelSignals(r) \/ CancelGivesUp(r)
  \/ \E j \in Job : CancelJob(j)

Next == RunnerStep \/ SignalStep \/ UserStep \/ \E j \in Job : JobEnds(j)

Spec == Init /\ [][Next]_vars

(* The runner is scheduled, signals are delivered and jobs come to an end. *)
Fairness ==
  /\ WF_vars(RunnerStep)
  /\ WF_vars(SignalStep)
  /\ \A j \in Job : WF_vars(JobEnds(j))

FairSpec == Spec /\ Fairness

-----------------------------------------------------------------------------
(* Properties *)

LastOf(jobs) == {j \in jobs : \A i \in jobs : i <= j}

(* The handler of SIGTERM does not itself finish the task.                 *)
HandlerWorks == "terminate" \notin failing

(* No process of the task works on its objects without the task's lock or  *)
(* flag: the runner gives it up only when the last job has ended.          *)
ConcernCoversJobs ==
  HandlerWorks => \A j \in Job : jobProc[j] = "alive" => concern

(* Jobs run one after the other: when one has been started, every earlier  *)
(* job of this run has ended and its recorded result lets the task proceed.*)
JobsRunInOrder ==
  \A i, k \in todo :
    i < k /\ jobProc[k] # None =>
      /\ jobProc[i] \in {"0", "-15"}
      /\ jobStatus[i] \in {"success", "aborted"}

(* Once a termination was requested at most one more job is started: the   *)
(* one the loop was about to start when the signal came.                   *)
AtMostOneLateJob == late <= 1

(* The loop keeps to the list: jobs run in order, and stop for a failure   *)
(* or a termination.                                                       *)
SequenceInv == TypeOK /\ JobsRunInOrder /\ AtMostOneLateJob

(* The status the runner leaves is the one the rows of its jobs account    *)
(* for, however cancellations and results were interleaved, as long as the *)
(* handler of SIGTERM did not write a status of its own.                   *)
VerdictIsJustified ==
  HandlerWorks /\ pc = "exited" =>
    CASE taskStatus = "success" ->
           /\ \A j \in todo : jobStatus[j] \in {"success", "aborted"}
           /\ \A j \in LastOf(todo) : jobStatus[j] = "success"
      [] taskStatus = "failed" -> \E j \in todo : jobStatus[j] = "failed"
      [] taskStatus = "aborted" -> termination \/ \E j \in LastOf(todo) : jobStatus[j] = "aborted"
      [] OTHER -> considered

(* When the runner is done no job is left running, neither as a process    *)
(* nor as a row.                                                           *)
NothingLeftRunning ==
  pc = "exited" => \A j \in Job : jobProc[j] # "alive" /\ jobStatus[j] # "running"

(* The owner is moved to its "on success" state exactly by a task that ends*)
(* as a success, to its "on fail" state exactly by one that fails, unless  *)
(* something raised or the handler of SIGTERM wrote a status of its own.   *)
OwnerStateMatchesStatus ==
  HandlerWorks /\ pc = "exited" /\ taskStatus # "broken" =>
    /\ ownerState = "on_success" <=> taskStatus = "success"
    /\ ownerState = "on_fail" <=> taskStatus = "failed"

(* The runner always ends, with a final status in the row.                 *)
TaskEnds == <>[](pc = "exited" /\ taskStatus \in FinalStatus)

(* A termination requested before the verdict is honoured: the task ends   *)
(* aborted, or broken if a step raised meanwhile.                          *)
TerminationWins ==
  (termination /\ pc \in {"next", "spawned", "wait", "finalize", "verdict"})
    ~> (pc = "exited" /\ taskStatus \in {"aborted", "broken"})

=============================================================================
