-------------------------- MODULE RunnerOfScheduler --------------------------
(***************************************************************************)
(* The runner of JobSequence is the runner process of TaskScheduler: the   *)
(* state of JobSequence, seen as a TaskScheduler with one task and one     *)
(* process, only changes by the steps TaskScheduler gives that process.    *)
(***************************************************************************)
EXTENDS JobSequence

CONSTANTS theTask, thePid, theObject, theAction, nobody

ASSUME NobodyAssumption == nobody # thePid

Stage ==
  IF pc \in {"configure", "start"} THEN "boot"
  ELSE IF pc \in {"next", "spawned", "wait", "finalize", "verdict"} THEN "exec"
  ELSE IF pc = "exited" THEN "zombie"
  ELSE pc

Verdict == IF Stage \in {"boot", "exec"} THEN nobody ELSE result

Process == [p \in {thePid} |-> [pc |-> Stage, task |-> theTask, verdict |-> Verdict]]

Scheduler == INSTANCE TaskScheduler WITH
  Task <- {theTask}, Pid <- {thePid}, Object <- {theObject}, Action <- {theAction},
  target <- [t \in {theTask} |-> theObject],
  owner <- [t \in {theTask} |-> theObject],
  action <- [t \in {theTask} |-> theAction],
  Blocking <- {theTask}, Restartable <- {}, Scope <- [o \in {theObject} |-> {o}],
  NewScheduler <- TRUE, Killable <- {}, EagerWorker <- FALSE, MaxRestarts <- 0,
  None <- nobody,
  id <- [t \in {theTask} |-> 1],
  status <- [t \in {theTask} |-> taskStatus],
  executor <- [t \in {theTask} |-> thePid],
  locks <- IF concern THEN {theTask} ELSE {},
  lockId <- IF concern THEN {theTask} ELSE {},
  flags <- {},
  api <- [t \in {theTask} |-> "idle"],
  launcher <- [pc |-> "idle", task |-> nobody, pid |-> nobody],
  scan <- {},
  proc <- Process,
  phase <- "up",
  restarts <- 0

(* Whatever happens to jobs and signals, the rows and the life of the      *)
(* runner change as TaskScheduler says: started, executed with a verdict,  *)
(* concern deleted, owner updated (or once more as broken), reported.      *)
RunnerRefines == [][HandlerWorks => Scheduler!RunnerStep(thePid)]_(Scheduler!vars)

=============================================================================
