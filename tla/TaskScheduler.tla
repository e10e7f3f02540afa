---------------------------- MODULE TaskScheduler ----------------------------
(***************************************************************************)
(* The life of ADCM tasks: the API that creates (and restarts) them, the   *)
(* launcher and the monitor of the job scheduler, the runner process of    *)
(* each task, and the recovery code that runs when ADCM is restarted.      *)
(*                                                                         *)
(* The database is the shared state (TaskLog rows and ConcernItem rows);   *)
(* an action is one database transaction or one process-level effect       *)
(* (spawn, death).  What a job does and how SIGTERM reaches it is the      *)
(* subject of JobSequence: here a runner executes for a while and ends     *)
(* with a verdict.                                                         *)
(***************************************************************************)
EXTENDS Integers, FiniteSets

CONSTANTS
  Task,          \* tasks (TaskLog rows) the users may create
  Pid,           \* operating-system processes a runner may get
  Object,        \* ADCM objects that concerns are linked to
  Action,        \* actions of the bundles
  target,        \* [Task -> Object]  the object a task's concern is owned by
  owner,         \* [Task -> Object]  the object the task's action belongs to
  action,        \* [Task -> Action]
  Blocking,      \* tasks launched with is_blocking (they take a lock, others a flag)
  Restartable,   \* tasks whose users call "restart" of API v1
  Scope,         \* [Object -> SUBSET Object]  objects a lock of an owner is linked to
  NewScheduler,  \* the FEATURE_JOB_SCHEDULER flag is "new"
  Killable,      \* runner processes that something may kill
  EagerWorker,   \* a runner may get to the database before its launcher commits
  MaxRestarts,   \* bound: how many times ADCM is restarted
  None

ConcernKey(t) == <<action[t], target[t]>>

ASSUME ConstantsAssumption ==
  /\ IsFiniteSet(Task)
  /\ target \in [Task -> Object]
  /\ owner \in [Task -> Object]
  /\ action \in [Task -> Action]
  /\ Blocking \subseteq Task
  /\ Restartable \subseteq Task
  /\ Scope \in [Object -> SUBSET Object]
  /\ \A o \in Object : o \in Scope[o]
  /\ Killable \subseteq Pid
  /\ NewScheduler \in BOOLEAN
  /\ EagerWorker \in BOOLEAN
  /\ MaxRestarts \in Nat
  /\ None \notin Task \cup Pid

(* Of the objects tasks work on, one is covered by the lock of another     *)
(* only if the converse holds: LockScope shows that the code's lock        *)
(* distribution is like that for all objects but providers.                *)
SymmetricScope ==
  \A t, u \in Task : target[t] \in Scope[target[u]] => target[u] \in Scope[target[t]]

VARIABLES
  id,        \* [Task -> Nat] primary key, 0 while the row does not exist
  status,    \* [Task -> status of the row]
  executor,  \* [Task -> pid recorded by the launcher, None for {}]
  locks,     \* tasks whose lock ConcernItem exists
  lockId,    \* tasks whose row points to their lock (lock_id)
  flags,     \* flag ConcernItems, identified by action name and owner
  api,       \* [Task -> stage of the API request working on the task]
  launcher,  \* program counter of the launcher with the task and pid at hand
  scan,      \* records a monitor (or recovery) pass has still to look at
  proc,      \* [Pid -> runner process]
  phase,     \* what of ADCM is up
  restarts   \* how many times ADCM was restarted

db == <<id, status, executor>>
concerns == <<locks, lockId, flags>>
vars == <<db, concerns, api, launcher, scan, proc, phase, restarts>>

-----------------------------------------------------------------------------
(* Types *)

UnfinishedStatus == {"created", "scheduled", "queued", "running"}
FinalStatus == {"revoked", "success", "failed", "aborted", "broken"}
Verdict == {"success", "failed", "aborted", "broken"}

(* "zombie": ended, but its parent has not reaped it; "gone": reaped. *)
AlivePc == {"boot", "exec", "release", "update", "report"}
ProcState == [pc: AlivePc \cup {"free", "zombie", "gone"},
              task: Task \cup {None},
              verdict: Verdict \cup {None}]

ScanRecord == [task: Task, worker: Pid \cup {None}, locked: BOOLEAN]

FreeProc == [pc |-> "free", task |-> None, verdict |-> None]
IdleLauncher == [pc |-> "idle", task |-> None, pid |-> None]

TypeOK ==
  /\ id \in [Task -> Nat]
  /\ status \in [Task -> {"none"} \cup UnfinishedStatus \cup FinalStatus]
  /\ executor \in [Task -> Pid \cup {None}]
  /\ locks \subseteq Task
  /\ lockId \subseteq Task
  /\ flags \subseteq (Action \X Object)
  /\ api \in [Task -> {"idle", "checked", "start", "locked", "spawn"}]
  /\ launcher \in [pc: {"idle", "queue", "spawned"},
                   task: Task \cup {None}, pid: Pid \cup {None}]
  /\ scan \subseteq ScanRecord
  /\ proc \in [Pid -> ProcState]
  /\ phase \in {"init", "wsgi", "actualize", "up"}
  /\ restarts \in 0..MaxRestarts

-----------------------------------------------------------------------------
(* Reading and writing concerns *)

(* Mutant: only a lock of the object itself counts.                        *)
LockedAsOwner(o) == \E t \in locks : o = target[t]

(* Some lock is linked to the object. *)
Locked(o) == \E t \in locks : o \in Scope[target[t]]

(* The unique key (name, owner, type) of ConcernItem is taken. *)
LockOwnerTaken(t) == \E u \in locks : target[u] = target[t]

CreateConcern(t) ==
  IF t \in Blocking
    THEN locks' = locks \cup {t} /\ UNCHANGED flags
    ELSE flags' = flags \cup {ConcernKey(t)} /\ UNCHANGED locks

ConcernCanBeCreated(t) ==
  IF t \in Blocking THEN ~LockOwnerTaken(t) ELSE ConcernKey(t) \notin flags

(* Mutant: the lock of a task that does not run yet is forgotten.          *)
DeleteRunningTaskLock(t) ==
  /\ locks' = IF t \in lockId /\ status[t] = "running" THEN locks \ {t} ELSE locks
  /\ lockId' = lockId \ {t}
  /\ UNCHANGED flags

DeleteTaskLockConcern(t) ==
  /\ locks' = IF t \in lockId THEN locks \ {t} ELSE locks
  /\ lockId' = lockId \ {t}
  /\ UNCHANGED flags

(* Mutant: every flag of the object goes.                                  *)
DeleteFlagsOfObject(t) ==
  /\ flags' = {key \in flags : key[2] # target[t]}
  /\ UNCHANGED <<locks, lockId>>

DeleteTaskFlagConcern(t) ==
  /\ flags' = flags \ {ConcernKey(t)}
  /\ UNCHANGED <<locks, lockId>>

(* The scheduler tells a lock from a flag by the lock_id it has read. *)
DeleteConcernByLockId(t, locked) ==
  IF locked THEN DeleteTaskLockConcern(t) ELSE DeleteTaskFlagConcern(t)

(* finalize_task: one transaction, on the record read earlier. *)
FinalizeTask(rec, newStatus) ==
  /\ status' = [status EXCEPT ![rec.task] = newStatus]
  /\ DeleteConcernByLockId(rec.task, rec.locked)

(* Mutant: lock_id is not among the fields read.                           *)
TaskInfoWithoutLock(t) == [task |-> t, worker |-> executor[t], locked |-> FALSE]

(* What retrieve_tasks reads of a row. *)
TaskShortInfo(t) ==
  [task |-> t, worker |-> executor[t], locked |-> t \in lockId]

-----------------------------------------------------------------------------
Init ==
  /\ id = [t \in Task |-> 0]
  /\ status = [t \in Task |-> "none"]
  /\ executor = [t \in Task |-> None]
  /\ locks = {}
  /\ lockId = {}
  /\ flags = {}
  /\ api = [t \in Task |-> "idle"]
  /\ launcher = IdleLauncher
  /\ scan = {}
  /\ proc = [p \in Pid |-> FreeProc]
  /\ phase = "init"
  /\ restarts = 0

-----------------------------------------------------------------------------
(* The API *)

ApiUp == phase # "init"

(* The rule of ADCM-6081: the rows looked at are those of the same action  *)
(* whose *owner* is the object the new task would lock.                    *)
AlreadyLaunched(t) ==
  \E u \in Task : /\ action[u] = action[t]
                  /\ status[u] \in UnfinishedStatus
                  /\ owner[u] = target[t]

(* run_action: the checks, read before and outside of the transaction. *)
RunActionCheck(t) ==
  /\ ApiUp
  /\ status[t] = "none"
  /\ api[t] = "idle"
  /\ ~Locked(target[t])
  /\ ~AlreadyLaunched(t)
  /\ api' = [api EXCEPT ![t] = "checked"]
  /\ UNCHANGED <<db, concerns, launcher, scan, proc, phase, restarts>>

(* run_action: the transaction that creates the row.  Without the new      *)
(* scheduler the same request goes on to start_task.                       *)
RunActionCreate(t) ==
  /\ api[t] = "checked"
  /\ id' = [id EXCEPT ![t] = 1 + Cardinality({u \in Task : id[u] > 0})]
  /\ status' = [status EXCEPT ![t] = "created"]
  /\ api' = [api EXCEPT ![t] = IF NewScheduler THEN "idle" ELSE "start"]
  /\ UNCHANGED <<executor, concerns, launcher, scan, proc, phase, restarts>>

(* Restart of a finished task (API v1): no look at concerns. *)
RestartTask(t) ==
  /\ ApiUp
  /\ t \in Restartable
  /\ api[t] = "idle"
  /\ status[t] \in {"success", "failed", "aborted"}
  /\ api' = [api EXCEPT ![t] = "start"]
  /\ UNCHANGED <<db, concerns, launcher, scan, proc, phase, restarts>>

(* start_task / restart_task: the concern and its links are inserted, or   *)
(* the request ends with an IntegrityError on the unique key.              *)
StartTaskConcern(t) ==
  /\ api[t] = "start"
  /\ IF ConcernCanBeCreated(t)
       THEN /\ CreateConcern(t)
            /\ api' = [api EXCEPT ![t] = IF t \in Blocking THEN "locked" ELSE "spawn"]
       ELSE /\ api' = [api EXCEPT ![t] = "idle"]
            /\ UNCHANGED <<locks, flags>>
  /\ UNCHANGED <<db, lockId, launcher, scan, proc, phase, restarts>>

(* The lock is recorded in the row, unless it was deleted in between       *)
(* (foreign key violation: the request fails).                             *)
StartTaskSaveLockId(t) ==
  /\ api[t] = "locked"
  /\ IF t \in locks
       THEN /\ lockId' = lockId \cup {t}
            /\ api' = [api EXCEPT ![t] = "spawn"]
       ELSE /\ api' = [api EXCEPT ![t] = "idle"]
            /\ UNCHANGED lockId
  /\ UNCHANGED <<db, locks, flags, launcher, scan, proc, phase, restarts>>

StartTaskSpawn(t) ==
  /\ api[t] = "spawn"
  /\ \E p \in Pid :
       /\ proc[p].pc = "free"
       /\ proc' = [proc EXCEPT ![p] = [pc |-> "boot", task |-> t, verdict |-> None]]
  /\ api' = [api EXCEPT ![t] = "idle"]
  /\ UNCHANGED <<db, concerns, launcher, scan, phase, restarts>>

-----------------------------------------------------------------------------
(* The launcher *)

SchedulerUp == NewScheduler /\ phase = "up"

(* Mutant: the last row is taken, whatever became of the earlier ones.     *)
LastCreated(t) == status[t] = "created" /\ \A u \in Task : id[u] <= id[t]

FirstCreated(t) ==
  /\ status[t] = "created"
  /\ \A u \in Task : status[u] = "created" => id[t] <= id[u]

(* First transaction of an iteration: validate and distribute the concern. *)
(* When the flag's unique key is taken the transaction is rolled back and  *)
(* the same task is tried again at the next iteration.                     *)
LauncherSchedule(t) ==
  /\ SchedulerUp
  /\ launcher.pc = "idle"
  /\ FirstCreated(t)
  /\ ~Locked(target[t])
  /\ ConcernCanBeCreated(t)
  /\ CreateConcern(t)
  /\ lockId' = IF t \in Blocking THEN lockId \cup {t} ELSE lockId
  /\ status' = [status EXCEPT ![t] = "scheduled"]
  /\ launcher' = [launcher EXCEPT !.pc = "queue", !.task = t]
  /\ UNCHANGED <<id, executor, api, scan, proc, phase, restarts>>

(* The same transaction when validation refuses the task (a lock, an issue,*)
(* a state that does not allow the action...: "revoked") or anything else  *)
(* raises ("broken").  clear_concerns_on_error runs in both cases.         *)
LauncherReject(t, newStatus) ==
  /\ SchedulerUp
  /\ launcher.pc = "idle"
  /\ FirstCreated(t)
  /\ status' = [status EXCEPT ![t] = newStatus]
  /\ DeleteConcernByLockId(t, t \in lockId)
  /\ UNCHANGED <<id, executor, api, launcher, scan, proc, phase, restarts>>

(* Second transaction: the process is spawned first (Popen also reaps the  *)
(* launcher's earlier children)...                                         *)
LauncherSpawn ==
  /\ SchedulerUp
  /\ launcher.pc = "queue"
  /\ \E p \in Pid :
       /\ proc[p].pc = "free"
       /\ proc' = [q \in Pid |->
            IF q = p THEN [pc |-> "boot", task |-> launcher.task, verdict |-> None]
            ELSE IF proc[q].pc = "zombie" THEN [proc[q] EXCEPT !.pc = "gone"]
            ELSE proc[q]]
       /\ launcher' = [launcher EXCEPT !.pc = "spawned", !.pid = p]
  /\ UNCHANGED <<db, concerns, api, scan, phase, restarts>>

(* ... or cannot be. *)
LauncherSpawnFails ==
  /\ SchedulerUp
  /\ launcher.pc = "queue"
  /\ status' = [status EXCEPT ![launcher.task] = "broken"]
  /\ DeleteConcernByLockId(launcher.task, launcher.task \in lockId)
  /\ launcher' = IdleLauncher
  /\ UNCHANGED <<id, executor, api, scan, proc, phase, restarts>>

(* ... and the rest of the transaction is written over the row. *)
LauncherCommit ==
  /\ SchedulerUp
  /\ launcher.pc = "spawned"
  /\ executor' = [executor EXCEPT ![launcher.task] = launcher.pid]
  /\ status' = [status EXCEPT ![launcher.task] = "queued"]
  /\ launcher' = IdleLauncher
  /\ UNCHANGED <<id, concerns, api, scan, proc, phase, restarts>>

-----------------------------------------------------------------------------
(* The runner process *)

AtPc(p, pc) == proc[p].pc = pc
Goto(p, pc) == proc' = [proc EXCEPT ![p].pc = pc]

GotoWith(p, pc, verdict) ==
  proc' = [proc EXCEPT ![p] = [@ EXCEPT !.pc = pc, !.verdict = verdict]]

(* Mutant: nothing makes a runner slower than its launcher.                *)
BootsAtOnce(p) == TRUE

MayBoot(p) == EagerWorker \/ launcher.pid # p

(* run: _configure and _start. *)
RunnerStart(p) ==
  /\ AtPc(p, "boot")
  /\ MayBoot(p)
  /\ status' = [status EXCEPT ![proc[p].task] = "running"]
  /\ Goto(p, "exec")
  /\ UNCHANGED <<id, executor, concerns, api, launcher, scan, phase, restarts>>

(* _configure raises (no target, no bundle, no job left to run). *)
RunnerStartFails(p) ==
  /\ AtPc(p, "boot")
  /\ MayBoot(p)
  /\ GotoWith(p, "release", "broken")
  /\ UNCHANGED <<db, concerns, api, launcher, scan, phase, restarts>>

(* The job loop of run is over. *)
RunnerJobsDone(p, verdict) ==
  /\ AtPc(p, "exec")
  /\ GotoWith(p, "release", verdict)
  /\ UNCHANGED <<db, concerns, api, launcher, scan, phase, restarts>>

(* _finish, first statement: the lock or flag of the task is deleted. *)
RunnerRelease(p) ==
  /\ AtPc(p, "release")
  /\ IF proc[p].task \in Blocking
       THEN DeleteTaskLockConcern(proc[p].task)
       ELSE DeleteTaskFlagConcern(proc[p].task)
  /\ Goto(p, "update")
  /\ UNCHANGED <<db, api, launcher, scan, phase, restarts>>

(* _finish: state, multi-state, mapping and maintenance mode of the owner. *)
(* An exception there makes the runner finish once more as broken.         *)
RunnerUpdateOwner(p) ==
  /\ AtPc(p, "update")
  /\ Goto(p, "report")
  /\ UNCHANGED <<db, concerns, api, launcher, scan, phase, restarts>>

RunnerUpdateFails(p) ==
  /\ AtPc(p, "update")
  /\ proc[p].verdict # "broken"
  /\ GotoWith(p, "release", "broken")
  /\ UNCHANGED <<db, concerns, api, launcher, scan, phase, restarts>>

(* _finish: the result is written, the process exits. *)
RunnerReport(p) ==
  /\ AtPc(p, "report")
  /\ status' = [status EXCEPT ![proc[p].task] = proc[p].verdict]
  /\ Goto(p, "zombie")
  /\ UNCHANGED <<id, executor, concerns, api, launcher, scan, phase, restarts>>

(* The process is killed (kill -9, out of memory). *)
RunnerDies(p) ==
  /\ p \in Killable
  /\ proc[p].pc \in AlivePc
  /\ Goto(p, "zombie")
  /\ UNCHANGED <<db, concerns, api, launcher, scan, phase, restarts>>

-----------------------------------------------------------------------------
(* The monitor *)

MonitorScan ==
  /\ SchedulerUp
  /\ scan = {}
  /\ scan' = {TaskShortInfo(t) : t \in {u \in Task : status[u] = "running"}}
  /\ UNCHANGED <<db, concerns, api, launcher, proc, phase, restarts>>

(* Mutant: the test of the error is inverted.                              *)
IsPidGone(p) == proc[p].pc \in {"free", "gone"}

(* kill(pid, 0) succeeds until the process is reaped. *)
IsPidExists(p) == proc[p].pc \notin {"free", "gone"}

MonitorCheck(rec) ==
  /\ SchedulerUp
  /\ rec \in scan
  /\ scan' = scan \ {rec}
  /\ IF rec.worker # None /\ IsPidExists(rec.worker)
       THEN UNCHANGED <<status, concerns>>
       ELSE FinalizeTask(rec, "aborted")
  /\ UNCHANGED <<id, executor, api, launcher, proc, phase, restarts>>

-----------------------------------------------------------------------------
(* Restart of ADCM *)

(* The container stops: every process dies, requests are lost. *)
AdcmRestart ==
  /\ restarts < MaxRestarts
  /\ restarts' = restarts + 1
  /\ phase' = "init"
  /\ proc' = [p \in Pid |-> IF proc[p].pc = "free" THEN proc[p]
                            ELSE [proc[p] EXCEPT !.pc = "gone"]]
  /\ api' = [t \in Task |-> "idle"]
  /\ launcher' = IdleLauncher
  /\ scan' = {}
  /\ UNCHANGED <<db, concerns>>

(* init_db: recover_statuses (rows without an executor are skipped), then  *)
(* drop_locks when the new scheduler is off.  Nothing else runs meanwhile. *)
InitDb ==
  /\ phase = "init"
  /\ LET dead == {t \in Task : status[t] \in UnfinishedStatus /\ executor[t] # None}
     IN  /\ status' = [t \in Task |-> IF t \in dead THEN "aborted" ELSE status[t]]
         /\ flags' = flags \ {ConcernKey(t) : t \in dead \ lockId}
         /\ IF NewScheduler
              THEN /\ locks' = locks \ (dead \cap lockId)
                   /\ lockId' = lockId \ dead
              ELSE locks' = {} /\ lockId' = {}
  /\ phase' = IF NewScheduler THEN "wsgi" ELSE "up"
  /\ UNCHANGED <<id, executor, api, launcher, scan, proc, restarts>>

(* actualize_locks, at the start of the scheduler: locks of no task are    *)
(* deleted, the tasks of the others are re-read whatever their status.     *)
ActualizeLocks ==
  /\ phase = "wsgi"
  /\ locks' = locks \cap lockId
  /\ scan' = {TaskShortInfo(t) : t \in lockId}
  /\ phase' = "actualize"
  /\ UNCHANGED <<db, lockId, flags, api, launcher, proc, restarts>>

ActualizeTask(rec) ==
  /\ phase = "actualize"
  /\ rec \in scan
  /\ scan' = scan \ {rec}
  /\ IF rec.worker = None
       THEN UNCHANGED <<status, concerns>>
       ELSE FinalizeTask(rec, "aborted")
  /\ UNCHANGED <<id, executor, api, launcher, proc, phase, restarts>>

SchedulerReady ==
  /\ phase = "actualize"
  /\ scan = {}
  /\ phase' = "up"
  /\ UNCHANGED <<db, concerns, api, launcher, scan, proc, restarts>>

-----------------------------------------------------------------------------
ApiStep(t) ==
  \/ RunActionCheck(t)
  \/ RunActionCreate(t)
  \/ RestartTask(t)
  \/ StartTaskConcern(t)
  \/ StartTaskSaveLockId(t)
  \/ StartTaskSpawn(t)

LauncherStep ==
  \/ \E t \in Task : LauncherSchedule(t)
  \/ \E t \in Task, s \in {"revoked", "broken"} : LauncherReject(t, s)
  \/ LauncherSpawn
  \/ LauncherSpawnFails
  \/ LauncherCommit

RunnerStep(p) ==
  \/ RunnerStart(p)
  \/ RunnerStartFails(p)
  \/ \E v \in {"success", "failed", "aborted", "broken"} : RunnerJobsDone(p, v)
  \/ RunnerRelease(p)
  \/ RunnerUpdateOwner(p)
  \/ RunnerUpdateFails(p)
  \/ RunnerReport(p)

MonitorStep == MonitorScan \/ \E rec \in scan : MonitorCheck(rec)

RecoveryStep ==
  \/ InitDb
  \/ ActualizeLocks
  \/ \E rec \in scan : ActualizeTask(rec)
  \/ SchedulerReady

Next ==
  \/ \E t \in Task : ApiStep(t)
  \/ LauncherStep
  \/ \E p \in Pid : RunnerStep(p)
  \/ \E p \in Pid : RunnerDies(p)
  \/ MonitorStep
  \/ RecoveryStep
  \/ AdcmRestart

Spec == Init /\ [][Next]_vars

(* An iteration of the launcher that gets through: not the one that is     *)
(* rolled back because another task's flag has the key of the new one.     *)
LauncherIteration(t) ==
  /\ Locked(target[t]) \/ ConcernCanBeCreated(t)
  /\ LauncherSchedule(t) \/ \E s \in {"revoked", "broken"} : LauncherReject(t, s)

(* The loops of the scheduler go on, an API request runs to its end, jobs  *)
(* end and the processes of ADCM are scheduled by the operating system.    *)
(* Nobody has to run or restart an action, to kill or to restart anything. *)
Fairness ==
  /\ \A t \in Task : WF_vars(RunActionCreate(t) \/ StartTaskConcern(t)
                             \/ StartTaskSaveLockId(t) \/ StartTaskSpawn(t))
  /\ WF_vars(\E t \in Task : LauncherIteration(t))
  /\ WF_vars(LauncherSpawn \/ LauncherSpawnFails \/ LauncherCommit)
  /\ \A p \in Pid : WF_vars(RunnerStep(p))
  /\ \A t \in Task : WF_vars(\E rec \in scan : rec.task = t /\ MonitorCheck(rec))
  /\ WF_vars(MonitorScan)
  /\ WF_vars(RecoveryStep)

FairSpec == Spec /\ Fairness

-----------------------------------------------------------------------------
(* Properties *)

Executing(t) == \E p \in Pid : proc[p].task = t /\ proc[p].pc = "exec"

(* The locks that exist never see one another: of two objects with a       *)
(* running blocking task, neither is in the scope of the other's lock.     *)
(* This is what check_no_blocking_concerns, the launcher's transaction and *)
(* the monitor's finalization have to achieve together.                    *)
LockExclusion ==
  \A t, u \in locks : t # u => target[u] \notin Scope[target[t]]

(* The jobs of a blocking task only run while the task's lock is there:    *)
(* neither the monitor nor a recovery takes the lock from a live runner.   *)
ExecutingHoldsLock ==
  \A t \in Blocking : Executing(t) => t \in locks

(* Jobs of two blocking tasks never run at once on objects that see each   *)
(* other's lock.                                                           *)
ExclusiveExecution ==
  \A t, u \in Blocking :
    /\ t # u
    /\ Executing(t)
    /\ Executing(u)
    => target[u] \notin Scope[target[t]]

(* A finished task leaves no lock behind: whoever writes a final status    *)
(* (launcher, runner, monitor, recovery) has removed the lock by then.     *)
LocksOfUnfinished ==
  \A t \in locks : status[t] \in UnfinishedStatus

(* Without the scheduler nobody looks for orphaned locks: as long as ADCM  *)
(* is up, a lock has a request or a live runner that is going to delete it.*)
LockHasKeeper ==
  phase = "up" =>
    \A t \in locks :
      \/ api[t] \in {"locked", "spawn"}
      \/ \E p \in Pid : proc[p].task = t /\ proc[p].pc \in {"boot", "exec", "release"}

(* No other launch of the action on the object: flags go by these two, so  *)
(* one that is refused, or finalized by the monitor after its end, would   *)
(* take the flag of the other with it.                                     *)
OnlyLaunch(t) ==
  \A u \in Task \ {t} : ConcernKey(u) = ConcernKey(t) => status[u] = "none"

(* A running non-blocking task is seen through its flag.                   *)
ExecutingHoldsFlag ==
  \A t \in Task \ Blocking : Executing(t) /\ OnlyLaunch(t) => ConcernKey(t) \in flags

(* A task that is finished stays finished: no late write of the launcher   *)
(* or of a runner brings it back to an unfinished status.                  *)
FinishedStaysFinished ==
  [][\A t \in Task : status[t] \in FinalStatus => status'[t] \in FinalStatus]_status

(* The rule of ADCM-6081: the same action is not launched on an object     *)
(* while an earlier launch of it is not finished.                          *)
NoDuplicateLaunch ==
  \A t, u \in Task :
    /\ t # u
    /\ status[t] \in UnfinishedStatus
    /\ status[u] \in UnfinishedStatus
    => ConcernKey(t) # ConcernKey(u)

(* The scheduler implements the abstract specification of locking.         *)
Locking == INSTANCE TaskLocking WITH
  held <- locks,
  finished <- {t \in Task : status[t] \in FinalStatus},
  conflict <- {c \in Task \X Task : target[c[1]] \in Scope[target[c[2]]]}

(* Launcher, runners, monitor and recovery together are an implementation  *)
(* of TaskLocking: a lock is only taken when nothing in force covers the   *)
(* object, and a task is finished once and without its lock.               *)
ImplementsLocking == Locking!Spec

(* A runner of the task has been killed and is still a child of the        *)
(* launcher, and so alive for the monitor.                                 *)
RunnerKilled(t) ==
  /\ status[t] \notin FinalStatus
  /\ \E p \in Pid : proc[p].task = t /\ proc[p].pc = "zombie"

(* Every task that was created finishes, unless its runner is killed.      *)
TaskFinishes ==
  \A t \in Task : status[t] = "created" ~> (status[t] \in FinalStatus \/ RunnerKilled(t))

(* The monitor finishes the tasks whose runner is gone for the operating   *)
(* system.                                                                 *)
LostRunnerIsFinalized ==
  \A t \in Task, p \in Pid :
    (status[t] = "running" /\ executor[t] = p /\ proc[p].pc = "gone")
      ~> status[t] \in FinalStatus

(* Once ADCM is up again after a restart, a running task has a live        *)
(* runner: those of the previous incarnation were considered dead.         *)
NoGhostTask ==
  phase = "up" =>
    \A t \in Task : status[t] = "running" =>
      \E p \in Pid : proc[p].task = t /\ proc[p].pc # "gone"

=============================================================================
