-------------------------- MODULE TaskSchedulerProofs --------------------------
(***************************************************************************)
(* The types of TaskScheduler and the safety of its locking, execution and *)
(* finalization, for any number of tasks, processes and objects.           *)
(***************************************************************************)
EXTENDS SchedulerInvariant, FiniteSetTheorems, TLAPS

(* A runner on its way out has a verdict to report.                        *)
VerdictKnown ==
  \A p \in Pid : proc[p].pc \in {"release", "update", "report"} => proc[p].verdict \in Verdict

TypeInv == TypeOK /\ VerdictKnown

(* The key of a flag is an action and an object.                           *)
LEMMA ConcernKeyType ==
  \A t \in Task : ConcernKey(t) \in Action \X Object
  BY ConstantsAssumption DEF ConcernKey

(* The initial state has its types.                                        *)
LEMMA TypeInit == Init => TypeInv
  BY ConstantsAssumption
     DEF Init, TypeInv, TypeOK, VerdictKnown, ProcState, FreeProc, IdleLauncher, AlivePc

(* Requests preserve the types.                                            *)
LEMMA TypeApi ==
  ASSUME TypeInv, NEW t \in Task, ApiStep(t)
  PROVE  TypeInv'
<1> USE ConstantsAssumption DEF TypeInv, TypeOK, VerdictKnown
<1>1. CASE RunActionCheck(t)
  BY <1>1 DEF RunActionCheck, db, concerns
<1>2. CASE RunActionCreate(t)
  <2>1. 1 + Cardinality({u \in Task : id[u] > 0}) \in Nat
    <3>1. IsFiniteSet({u \in Task : id[u] > 0})
      BY FS_Subset
    <3> QED
      BY <3>1, FS_CardinalityType
  <2> QED
    BY <1>2, <2>1 DEF RunActionCreate, concerns, UnfinishedStatus
<1>3. CASE RestartTask(t)
  BY <1>3 DEF RestartTask, db, concerns
<1>4. CASE StartTaskConcern(t)
  BY <1>4, ConcernKeyType DEF StartTaskConcern, CreateConcern, db
<1>5. CASE StartTaskSaveLockId(t)
  BY <1>5 DEF StartTaskSaveLockId, db
<1>6. CASE StartTaskSpawn(t)
  BY <1>6 DEF StartTaskSpawn, db, concerns, ProcState, AlivePc
<1> QED
  BY <1>1, <1>2, <1>3, <1>4, <1>5, <1>6 DEF ApiStep

(* Deleting a concern preserves the types of concerns.                     *)
LEMMA DeleteConcernType ==
  ASSUME TypeInv, NEW t, NEW locked, DeleteConcernByLockId(t, locked)
  PROVE  /\ locks' \subseteq Task
         /\ lockId' \subseteq Task
         /\ flags' \subseteq (Action \X Object)
  BY DEF TypeInv, TypeOK, DeleteConcernByLockId, DeleteTaskLockConcern, DeleteTaskFlagConcern

(* The launcher preserves the types.                                       *)
LEMMA TypeLauncher ==
  ASSUME TypeInv, LauncherStep
  PROVE  TypeInv'
<1> USE ConstantsAssumption DEF TypeInv, TypeOK, VerdictKnown
<1>1. ASSUME NEW t \in Task, LauncherSchedule(t)
      PROVE  TypeInv'
  <2>1. /\ locks' \subseteq Task
        /\ lockId' \subseteq Task
        /\ flags' \subseteq (Action \X Object)
    BY <1>1, ConcernKeyType DEF LauncherSchedule, CreateConcern
  <2>2. launcher' \in [pc: {"idle", "queue", "spawned"},
                      task: Task \cup {None}, pid: Pid \cup {None}]
    BY <1>1 DEF LauncherSchedule
  <2> QED
    BY <1>1, <2>1, <2>2 DEF LauncherSchedule, UnfinishedStatus
<1>2. ASSUME NEW t \in Task, NEW s \in {"revoked", "broken"}, LauncherReject(t, s)
      PROVE  TypeInv'
  BY <1>2, DeleteConcernType DEF LauncherReject, FinalStatus
<1>3. CASE LauncherSpawn
  <2>1. PICK p \in Pid :
          /\ proc' = [q \in Pid |->
               IF q = p THEN [pc |-> "boot", task |-> launcher.task, verdict |-> None]
               ELSE IF proc[q].pc = "zombie" THEN [proc[q] EXCEPT !.pc = "gone"]
               ELSE proc[q]]
          /\ launcher' = [launcher EXCEPT !.pc = "spawned", !.pid = p]
    BY <1>3 DEF LauncherSpawn
  <2>2. proc' \in [Pid -> ProcState]
    <3>1. launcher.task \in Task \cup {None}
      OBVIOUS
    <3>2. [pc |-> "boot", task |-> launcher.task, verdict |-> None] \in ProcState
      BY <3>1 DEF ProcState, AlivePc
    <3>3. ASSUME NEW q \in Pid
          PROVE  [proc[q] EXCEPT !.pc = "gone"] \in ProcState
      <4>1. proc[q] \in ProcState
        OBVIOUS
      <4> QED
        BY ONLY <4>1 DEF ProcState
    <3> QED
      BY ONLY <2>1, <3>2, <3>3, TypeInv DEF TypeInv, TypeOK
  <2>3. VerdictKnown'
    BY <2>1 DEF ProcState
  <2> QED
    BY <1>3, <2>1, <2>2, <2>3 DEF LauncherSpawn, db, concerns
<1>4. CASE LauncherSpawnFails
  BY <1>4, DeleteConcernType DEF LauncherSpawnFails, FinalStatus, IdleLauncher
<1>5. CASE LauncherCommit
  BY <1>5 DEF LauncherCommit, UnfinishedStatus, IdleLauncher, concerns
<1> QED
  BY <1>1, <1>2, <1>3, <1>4, <1>5 DEF LauncherStep

(* What a step of a runner may write into its record.                      *)
LEMMA RunnerGoesOn ==
  ASSUME TypeInv, NEW p \in Pid, NEW pc \in AlivePc \cup {"zombie"},
         Goto(p, pc),
         pc \in {"release", "update", "report"} => proc[p].verdict \in Verdict
  PROVE  proc' \in [Pid -> ProcState] /\ VerdictKnown'
  BY DEF TypeInv, TypeOK, VerdictKnown, Goto, ProcState, AlivePc

(* A runner that goes on with a verdict is a process with a verdict.       *)
LEMMA RunnerGoesOnWith ==
  ASSUME TypeInv, NEW p \in Pid, NEW pc \in AlivePc, NEW v \in Verdict, GotoWith(p, pc, v)
  PROVE  proc' \in [Pid -> ProcState] /\ VerdictKnown'
<1>1. proc \in [Pid -> ProcState]
  BY DEF TypeInv, TypeOK
<1>2. proc[p] \in ProcState /\ pc \in AlivePc \cup {"free", "zombie", "gone"} /\ v \in Verdict \cup {None}
  BY <1>1 DEF AlivePc
<1>3. [proc[p] EXCEPT !.pc = pc, !.verdict = v] \in ProcState
  BY <1>2 DEF ProcState
<1>4. [proc[p] EXCEPT !.pc = pc, !.verdict = v].verdict = v
  BY <1>2 DEF ProcState
<1>5. /\ proc' \in [Pid -> ProcState]
      /\ \A q \in Pid \ {p} : proc'[q] = proc[q]
      /\ proc'[p].verdict = v
  BY <1>1, <1>3, <1>4 DEF GotoWith
<1> QED
  BY <1>5 DEF TypeInv, VerdictKnown

(* Runners, killed ones too, preserve the types.                           *)
LEMMA TypeRunner ==
  ASSUME TypeInv, NEW p \in Pid, RunnerStep(p) \/ RunnerDies(p)
  PROVE  TypeInv'
<1> USE ConstantsAssumption DEF AtPc, AlivePc, Verdict, FinalStatus, UnfinishedStatus
<1>1. CASE RunnerStart(p)
  BY <1>1, RunnerGoesOn DEF TypeInv, TypeOK, RunnerStart, concerns
<1>2. CASE RunnerStartFails(p)
  BY <1>2, RunnerGoesOnWith DEF TypeInv, TypeOK, RunnerStartFails, db, concerns
<1>3. ASSUME NEW v \in Verdict, RunnerJobsDone(p, v)
      PROVE  TypeInv'
  BY <1>3, RunnerGoesOnWith DEF TypeInv, TypeOK, RunnerJobsDone, db, concerns
<1>4. CASE RunnerRelease(p)
  <2>1. proc' \in [Pid -> ProcState] /\ VerdictKnown'
    BY <1>4, RunnerGoesOn DEF TypeInv, VerdictKnown, RunnerRelease
  <2> QED
    BY <1>4, <2>1 DEF TypeInv, TypeOK, RunnerRelease, db, DeleteTaskLockConcern, DeleteTaskFlagConcern
<1>5. CASE RunnerUpdateOwner(p)
  BY <1>5, RunnerGoesOn DEF TypeInv, TypeOK, VerdictKnown, RunnerUpdateOwner, db, concerns
<1>6. CASE RunnerUpdateFails(p)
  BY <1>6, RunnerGoesOnWith DEF TypeInv, TypeOK, RunnerUpdateFails, db, concerns
<1>7. CASE RunnerReport(p)
  <2>1. proc' \in [Pid -> ProcState] /\ VerdictKnown'
    BY <1>7, RunnerGoesOn DEF RunnerReport
  <2>2. proc[p].verdict \in Verdict
    BY <1>7 DEF TypeInv, VerdictKnown, RunnerReport
  <2> QED
    BY <1>7, <2>1, <2>2 DEF TypeInv, TypeOK, RunnerReport, concerns
<1>8. CASE RunnerDies(p)
  BY <1>8, RunnerGoesOn DEF TypeInv, TypeOK, RunnerDies, db, concerns
<1> QED
  BY <1>1, <1>2, <1>3, <1>4, <1>5, <1>6, <1>7, <1>8 DEF RunnerStep

(* finalize_task preserves the types of status and concerns.               *)
LEMMA TypeFinalize ==
  ASSUME TypeInv, NEW rec \in scan, FinalizeTask(rec, "aborted")
  PROVE  /\ status' \in [Task -> {"none"} \cup UnfinishedStatus \cup FinalStatus]
         /\ locks' \subseteq Task
         /\ lockId' \subseteq Task
         /\ flags' \subseteq (Action \X Object)
  BY DeleteConcernType DEF TypeInv, TypeOK, FinalizeTask, FinalStatus

(* What is read of a row is a record of a scan.                            *)
LEMMA TaskShortInfoType ==
  ASSUME TypeInv, NEW t \in Task
  PROVE  TaskShortInfo(t) \in ScanRecord
  BY DEF TypeInv, TypeOK, TaskShortInfo, ScanRecord

(* The monitor preserves the types.                                        *)
LEMMA TypeMonitor ==
  ASSUME TypeInv, MonitorStep
  PROVE  TypeInv'
<1>1. CASE MonitorScan
  <2>1. scan' \subseteq ScanRecord
    BY <1>1, TaskShortInfoType DEF MonitorScan
  <2> QED
    BY <1>1, <2>1 DEF TypeInv, TypeOK, VerdictKnown, MonitorScan, db, concerns
<1>2. ASSUME NEW rec \in scan, MonitorCheck(rec)
      PROVE  TypeInv'
  BY <1>2, TypeFinalize DEF TypeInv, TypeOK, VerdictKnown, MonitorCheck, concerns
<1> QED
  BY <1>1, <1>2 DEF MonitorStep

(* Recovery and restart preserve the types.                                *)
LEMMA TypeRecovery ==
  ASSUME TypeInv, RecoveryStep \/ AdcmRestart
  PROVE  TypeInv'
<1>1. CASE InitDb
  BY <1>1 DEF TypeInv, TypeOK, VerdictKnown, InitDb, FinalStatus
<1>2. CASE ActualizeLocks
  <2>1. scan' \subseteq ScanRecord
    BY <1>2, TaskShortInfoType DEF TypeInv, TypeOK, ActualizeLocks
  <2> QED
    BY <1>2, <2>1 DEF TypeInv, TypeOK, VerdictKnown, ActualizeLocks, db
<1>3. ASSUME NEW rec \in scan, ActualizeTask(rec)
      PROVE  TypeInv'
  BY <1>3, TypeFinalize DEF TypeInv, TypeOK, VerdictKnown, ActualizeTask, concerns
<1>4. CASE SchedulerReady
  BY <1>4 DEF TypeInv, TypeOK, VerdictKnown, SchedulerReady, db, concerns
<1>5. CASE AdcmRestart
  <2>1. proc' \in [Pid -> ProcState] /\ VerdictKnown'
    BY <1>5 DEF TypeInv, TypeOK, VerdictKnown, AdcmRestart, ProcState
  <2>2. restarts' \in 0..MaxRestarts
    BY <1>5, ConstantsAssumption DEF TypeInv, TypeOK, AdcmRestart
  <2> QED
    BY <1>5, <2>1, <2>2 DEF TypeInv, TypeOK, AdcmRestart, IdleLauncher, db, concerns
<1> QED
  BY <1>1, <1>2, <1>3, <1>4, <1>5 DEF RecoveryStep

(* Every step preserves the types.                                         *)
LEMMA TypeStep == TypeInv /\ [Next]_vars => TypeInv'
<1>1. SUFFICES ASSUME TypeInv, [Next]_vars PROVE TypeInv'
  OBVIOUS
<1>2. CASE UNCHANGED vars
  BY <1>1, <1>2 DEF TypeInv, TypeOK, VerdictKnown, vars, db, concerns
<1>3. CASE Next
  BY <1>1, <1>3, TypeApi, TypeLauncher, TypeRunner, TypeMonitor, TypeRecovery DEF Next
<1> QED
  BY <1>1, <1>2, <1>3

(* Rows, concerns, processes and scan records keep their types in every    *)
(* mode of the scheduler.                                                  *)
THEOREM TypeCorrect == Spec => []TypeOK
<1>1. TypeInv => TypeOK
  BY DEF TypeInv
<1> QED
  BY <1>1, TypeInit, TypeStep, PTL DEF Spec

-----------------------------------------------------------------------------
(* Lock exclusion alone needs little: that only the launcher takes locks,  *)
(* and that it looks at the object's locks in the same transaction.        *)

ApiCreatesOnly == \A t \in Task : api[t] \in {"idle", "checked"}

(* With the new scheduler, and without restarts of API v1, no request ever *)
(* gets to start_task.                                                     *)
LEMMA ApiCreatesOnlyStep ==
  ASSUME NewScheduler, Restartable = {}, TypeInv, ApiCreatesOnly, [Next]_vars
  PROVE  ApiCreatesOnly'
<1> USE DEF ApiCreatesOnly, TypeInv, TypeOK
<1>1. ASSUME NEW t \in Task, ApiStep(t)
      PROVE  ApiCreatesOnly'
  BY <1>1 DEF ApiStep, RunActionCheck, RunActionCreate, RestartTask, StartTaskConcern,
              StartTaskSaveLockId, StartTaskSpawn
<1>2. CASE LauncherStep
  BY <1>2 DEF LauncherStep, LauncherSchedule, LauncherReject, LauncherSpawn, LauncherSpawnFails,
              LauncherCommit
<1>3. ASSUME NEW p \in Pid, RunnerStep(p) \/ RunnerDies(p)
      PROVE  ApiCreatesOnly'
  BY <1>3 DEF RunnerStep, RunnerStart, RunnerStartFails, RunnerJobsDone, RunnerRelease,
              RunnerUpdateOwner, RunnerUpdateFails, RunnerReport, RunnerDies
<1>4. CASE MonitorStep
  BY <1>4 DEF MonitorStep, MonitorScan, MonitorCheck
<1>5. CASE RecoveryStep \/ AdcmRestart
  BY <1>5 DEF RecoveryStep, InitDb, ActualizeLocks, ActualizeTask, SchedulerReady, AdcmRestart
<1>6. CASE UNCHANGED vars
  BY <1>6 DEF vars
<1> QED
  BY <1>1, <1>2, <1>3, <1>4, <1>5, <1>6 DEF Next

(* Deleting the concern of a task adds no lock.                            *)
LEMMA DeletingConcerns ==
  ASSUME NEW t, NEW locked, DeleteConcernByLockId(t, locked)
  PROVE  locks' \subseteq locks
  BY DEF DeleteConcernByLockId, DeleteTaskLockConcern, DeleteTaskFlagConcern

(* The first transaction of the launcher is the only step that adds a      *)
(* lock.                                                                   *)
LEMMA OnlyTheLauncherLocks ==
  ASSUME NewScheduler, ApiCreatesOnly, [Next]_vars
  PROVE  locks' \subseteq locks \/ \E t \in Task : LauncherSchedule(t)
<1>1. ASSUME NEW t \in Task, ApiStep(t)
      PROVE  locks' \subseteq locks
  BY <1>1 DEF ApiStep, ApiCreatesOnly, RunActionCheck, RunActionCreate, RestartTask,
              StartTaskConcern, StartTaskSaveLockId, StartTaskSpawn, concerns
<1>2. CASE LauncherStep
  <2>1. ASSUME NEW t \in Task, NEW s \in {"revoked", "broken"}, LauncherReject(t, s)
        PROVE  locks' \subseteq locks
    BY <2>1, DeletingConcerns DEF LauncherReject
  <2>2. CASE LauncherSpawn \/ LauncherSpawnFails \/ LauncherCommit
    BY <2>2, DeletingConcerns DEF LauncherSpawn, LauncherSpawnFails, LauncherCommit, concerns
  <2> QED
    BY <1>2, <2>1, <2>2 DEF LauncherStep
<1>3. ASSUME NEW p \in Pid, RunnerStep(p) \/ RunnerDies(p)
      PROVE  locks' \subseteq locks
  <2>1. CASE RunnerRelease(p)
    BY <2>1 DEF RunnerRelease, DeleteTaskLockConcern, DeleteTaskFlagConcern
  <2> QED
    BY <1>3, <2>1 DEF RunnerStep, RunnerStart, RunnerStartFails, RunnerJobsDone,
       RunnerUpdateOwner, RunnerUpdateFails, RunnerReport, RunnerDies, concerns
<1>4. CASE MonitorStep
  BY <1>4, DeletingConcerns DEF MonitorStep, MonitorScan, MonitorCheck, FinalizeTask, concerns
<1>5. CASE RecoveryStep \/ AdcmRestart
  BY <1>5, DeletingConcerns DEF RecoveryStep, InitDb, ActualizeLocks, ActualizeTask,
     SchedulerReady, AdcmRestart, FinalizeTask, concerns
<1>6. CASE UNCHANGED vars
  BY <1>6 DEF vars, concerns
<1> QED
  BY <1>1, <1>2, <1>3, <1>4, <1>5, <1>6 DEF Next

(* No step breaks the exclusion of locks: the launcher has looked for      *)
(* locks on the object, and scopes are symmetric.                          *)
LEMMA LockExclusionStep ==
  ASSUME NewScheduler, SymmetricScope, TypeInv, ApiCreatesOnly, LockExclusion, [Next]_vars
  PROVE  LockExclusion'
<1>1. CASE locks' \subseteq locks
  BY <1>1 DEF LockExclusion
<1>2. ASSUME NEW t \in Task, LauncherSchedule(t)
      PROVE  LockExclusion'
  <2>1. \A u \in locks : target[t] \notin Scope[target[u]] /\ target[u] \notin Scope[target[t]]
    BY <1>2 DEF LauncherSchedule, Locked, SymmetricScope, TypeInv, TypeOK
  <2>2. locks' \subseteq locks \cup {t}
    BY <1>2 DEF LauncherSchedule, CreateConcern
  <2> QED
    BY <2>1, <2>2 DEF LockExclusion
<1> QED
  BY <1>1, <1>2, OnlyTheLauncherLocks

(* With the new scheduler no two locks in force see each other, however    *)
(* requests, launcher, monitor, dying runners and restarts interleave, and *)
(* even if a runner gets to the database before its launcher commits.      *)
THEOREM LocksExclude ==
  ASSUME NewScheduler, Restartable = {}, SymmetricScope
  PROVE  Spec => []LockExclusion
<1> DEFINE Inv == TypeInv /\ ApiCreatesOnly /\ LockExclusion
<1>1. Init => Inv
  BY TypeInit DEF Init, ApiCreatesOnly, LockExclusion
<1>2. Inv /\ [Next]_vars => Inv'
  BY TypeStep, ApiCreatesOnlyStep, LockExclusionStep
<1>3. Inv => LockExclusion
  OBVIOUS
<1> QED
  BY <1>1, <1>2, <1>3, PTL DEF Spec

-----------------------------------------------------------------------------
(* The inductive invariant of the scheduler's mode, action by action.      *)

CoreInv == ApiInv /\ LockInv /\ NewTaskInv /\ LauncherInv /\ OneRunner /\ RunnerInv /\ ScanInv

(* Nothing exists at first.                                                *)
LEMMA CoreInit == Init => CoreInv
  BY ConstantsAssumption
     DEF Init, CoreInv, ApiInv, LockInv, NewTaskInv, LauncherInv, OneRunner, RunnerInv, ScanInv,
         Has, Alive, AlivePc, FreeProc, IdleLauncher

(* Whoever finishes a task with its lock in sight takes the lock away.     *)
LEMMA ConcernDeleted ==
  ASSUME LockInv, NEW t \in Task, NEW locked, t \in locks => locked, DeleteConcernByLockId(t, locked)
  PROVE  locks' = locks \ {t} /\ lockId' = locks'
<1>1. CASE locked
  BY <1>1 DEF LockInv, DeleteConcernByLockId, DeleteTaskLockConcern
<1>2. CASE ~locked
  BY <1>2 DEF LockInv, DeleteConcernByLockId, DeleteTaskFlagConcern
<1> QED
  BY <1>1, <1>2

(* A runner that releases the concern of its task removes its lock and no  *)
(* other one, from the table and from the row.                             *)
LEMMA ConcernReleased ==
  ASSUME LockInv, NEW t \in Task,
         IF t \in Blocking THEN DeleteTaskLockConcern(t) ELSE DeleteTaskFlagConcern(t)
  PROVE  locks' = locks \ {t} /\ lockId' = locks'
  BY DEF LockInv, DeleteTaskLockConcern, DeleteTaskFlagConcern

(* The process at the launcher's hand has not got anywhere.                 *)
LEMMA LauncherHasSpawned ==
  ASSUME TypeInv, LauncherInv, NEW p \in Pid, launcher.pid = p
  PROVE  /\ launcher.pc = "spawned" /\ proc[p].pc \in {"boot", "zombie"}
         /\ proc[p].task = launcher.task
<1>1. launcher.pc \in {"idle", "queue", "spawned"} /\ p # None
  BY ConstantsAssumption DEF TypeInv, TypeOK
<1>2. launcher.pc = "spawned"
  BY <1>1 DEF LauncherInv
<1> QED
  BY <1>2 DEF LauncherInv, Has

(* Finishing a task nobody executes, and releasing its lock with it.        *)
LEMMA TaskAborted ==
  ASSUME TypeInv, CoreInv, NEW t \in Task,
         status[t] \notin {"none", "created"},
         launcher.pc # "idle" => launcher.task # t,
         \A p \in Pid : Alive(p) => proc[p].task # t,
         status' = [status EXCEPT ![t] = "aborted"],
         locks' = locks \ {t}, lockId' = locks',
         UNCHANGED <<executor, api, launcher, proc, phase>>,
         scan' \subseteq scan
  PROVE  CoreInv'
<1> USE DEF CoreInv, TypeInv, TypeOK
<1>1. ApiInv'
  BY DEF ApiInv
<1>2. LockInv'
  BY DEF LockInv
<1>3. NewTaskInv'
  BY DEF NewTaskInv, Has
<1>4. LauncherInv'
  BY DEF LauncherInv, Has
<1>5. OneRunner'
  BY DEF OneRunner, Has
<1>6. RunnerInv'
  BY DEF RunnerInv, Alive, AlivePc
<1>7. ScanInv'
  <2>1. \A rec \in scan' : rec.task \in Task
    BY DEF ScanRecord
  <2> QED
    BY <2>1 DEF ScanInv, FinalStatus
<1> QED
  BY <1>1, <1>2, <1>3, <1>4, <1>5, <1>6, <1>7

(* The checks of run_action.                                               *)
LEMMA RunActionCheckSafe ==
  ASSUME SchedulerMode, TypeInv, CoreInv, NEW t \in Task, RunActionCheck(t)
  PROVE  CoreInv'
<1> USE DEF CoreInv, TypeInv, TypeOK, RunActionCheck, db, concerns
<1>1. ApiInv'
  BY DEF ApiInv
<1>2. LockInv' /\ NewTaskInv' /\ LauncherInv' /\ OneRunner' /\ RunnerInv' /\ ScanInv'
  BY DEF LockInv, NewTaskInv, Has, LauncherInv, OneRunner, RunnerInv, Alive, AlivePc, ScanInv
<1> QED
  BY <1>1, <1>2

(* A new row is a task nobody has touched.                                 *)
LEMMA RunActionCreateSafe ==
  ASSUME SchedulerMode, TypeInv, CoreInv, NEW t \in Task, RunActionCreate(t)
  PROVE  CoreInv'
<1> USE DEF CoreInv, TypeInv, TypeOK, RunActionCreate, concerns
<1>1. status[t] = "none"
  BY DEF ApiInv
<1>2. ApiInv'
  BY DEF ApiInv, SchedulerMode
<1>3. LockInv'
  BY <1>1 DEF LockInv
<1>4. NewTaskInv'
  BY <1>1 DEF NewTaskInv, Has
<1>5. LauncherInv'
  BY <1>1 DEF LauncherInv, Has
<1>6. RunnerInv'
  BY <1>1 DEF RunnerInv, Alive, AlivePc, NewTaskInv, Has
<1>7. ScanInv'
  BY <1>1 DEF ScanInv, NewTaskInv, Has
<1>8. OneRunner'
  BY DEF OneRunner, Has
<1> QED
  BY <1>2, <1>3, <1>4, <1>5, <1>6, <1>7, <1>8

(* A scheduled task is the launcher's, and so is its lock.                 *)
LEMMA LauncherScheduleSafe ==
  ASSUME SchedulerMode, TypeInv, CoreInv, NEW t \in Task, LauncherSchedule(t)
  PROVE  CoreInv'
<1> USE DEF CoreInv, TypeInv, TypeOK, LauncherSchedule, FirstCreated, CreateConcern
<1>1. launcher'.pc = "queue" /\ launcher'.task = t /\ launcher'.pid = None /\ launcher.pid = None
  BY DEF LauncherInv
<1>2. /\ \A p \in Pid : ~Has(p, t)
      /\ \A rec \in scan : rec.task # t
  BY DEF NewTaskInv
<1>3. ApiInv'
  BY DEF ApiInv
<1>4. LockInv'
  BY DEF LockInv
<1>5. NewTaskInv'
  BY DEF NewTaskInv, Has
<1>6. LauncherInv'
  BY <1>1, <1>2 DEF LauncherInv, Has, SchedulerUp
<1>7. RunnerInv'
  BY <1>1, <1>2 DEF RunnerInv, Alive, AlivePc, Has
<1>8. ScanInv'
  BY <1>2 DEF ScanInv
<1>9. OneRunner'
  BY DEF OneRunner, Has
<1> QED
  BY <1>3, <1>4, <1>5, <1>6, <1>7, <1>8, <1>9

(* A task that is refused has neither a lock nor a process.                *)
LEMMA LauncherRejectSafe ==
  ASSUME SchedulerMode, TypeInv, CoreInv, NEW t \in Task, NEW s \in {"revoked", "broken"}, LauncherReject(t, s)
  PROVE  CoreInv'
<1> USE DEF CoreInv, TypeInv, TypeOK, LauncherReject, FirstCreated
<1>1. t \notin locks
  BY DEF LockInv
<1>2. locks' = locks /\ lockId' = locks
  BY <1>1 DEF LockInv, DeleteConcernByLockId, DeleteTaskLockConcern, DeleteTaskFlagConcern
<1>3. /\ \A p \in Pid : ~Has(p, t)
      /\ \A rec \in scan : rec.task # t
  BY DEF NewTaskInv
<1>4. ApiInv'
  BY DEF ApiInv
<1>5. LockInv'
  BY <1>1, <1>2 DEF LockInv
<1>6. NewTaskInv'
  BY <1>3 DEF NewTaskInv, Has
<1>7. LauncherInv'
  BY <1>1, <1>2 DEF LauncherInv, Has
<1>8. RunnerInv'
  BY <1>2, <1>3 DEF RunnerInv, Alive, AlivePc, Has
<1>9. ScanInv'
  BY <1>2, <1>3 DEF ScanInv
<1>10. OneRunner'
  BY DEF OneRunner, Has
<1> QED
  BY <1>4, <1>5, <1>6, <1>7, <1>8, <1>9, <1>10

(* A task whose process cannot be started is finished with its lock.       *)
LEMMA LauncherSpawnFailsSafe ==
  ASSUME SchedulerMode, TypeInv, CoreInv, LauncherSpawnFails
  PROVE  CoreInv'
<1> USE DEF CoreInv, TypeInv, TypeOK, LauncherSpawnFails, IdleLauncher
<1>1. launcher.task \in Task /\ status[launcher.task] = "scheduled" /\ launcher.pid = None
  BY DEF LauncherInv
<1>2. locks' = locks \ {launcher.task} /\ lockId' = locks'
  BY DEF LockInv, DeleteConcernByLockId, DeleteTaskLockConcern, DeleteTaskFlagConcern
<1>3. \A p \in Pid : ~Has(p, launcher.task)
  BY DEF LauncherInv
<1>4. ApiInv'
  BY <1>1 DEF ApiInv
<1>5. LockInv'
  BY <1>1, <1>2 DEF LockInv
<1>6. NewTaskInv'
  BY <1>1 DEF NewTaskInv, Has
<1>7. LauncherInv'
  BY <1>1 DEF LauncherInv, Has
<1>8. RunnerInv'
  BY <1>1, <1>2, <1>3 DEF RunnerInv, Alive, AlivePc, Has
<1>9. ScanInv'
  BY <1>1, <1>2 DEF ScanInv, FinalStatus, LauncherInv, Has
<1>10. OneRunner'
  BY DEF OneRunner, Has
<1> QED
  BY <1>4, <1>5, <1>6, <1>7, <1>8, <1>9, <1>10

(* The spawned process becomes the executor of the row before it has       *)
(* written anything.                                                       *)
LEMMA LauncherCommitSafe ==
  ASSUME SchedulerMode, TypeInv, CoreInv, LauncherCommit
  PROVE  CoreInv'
<1> USE DEF CoreInv, TypeInv, TypeOK, LauncherCommit, IdleLauncher, concerns
<1>1. /\ launcher.task \in Task /\ status[launcher.task] = "scheduled"
      /\ launcher.pid \in Pid /\ Has(launcher.pid, launcher.task)
      /\ proc[launcher.pid].pc \in {"boot", "zombie"}
      /\ phase = "up"
  BY DEF LauncherInv
<1>2. \A rec \in scan : rec.task # launcher.task
  BY <1>1 DEF ScanInv, FinalStatus
<1>3. ApiInv'
  BY <1>1 DEF ApiInv
<1>4. LockInv'
  BY <1>1 DEF LockInv
<1>5. NewTaskInv'
  BY <1>1 DEF NewTaskInv, Has
<1>6. LauncherInv'
  BY DEF LauncherInv, Has
<1>7. RunnerInv'
  BY <1>1 DEF RunnerInv, Alive, AlivePc, OneRunner, Has
<1>8. ScanInv'
  BY <1>1, <1>2 DEF ScanInv
<1>9. OneRunner'
  BY DEF OneRunner, Has
<1> QED
  BY <1>3, <1>4, <1>5, <1>6, <1>7, <1>8, <1>9

(* A runner starts to execute under the lock the launcher took.            *)
LEMMA RunnerStartSafe ==
  ASSUME SchedulerMode, TypeInv, CoreInv, NEW p \in Pid, RunnerStart(p)
  PROVE  CoreInv'
<1> USE DEF CoreInv, TypeInv, TypeOK, ProcState, RunnerStart, AtPc, Goto, MayBoot, SchedulerMode, concerns
<1>1. /\ launcher.pid # p /\ proc[p].task \in Task
      /\ status[proc[p].task] = "queued" /\ executor[proc[p].task] = p
  BY DEF RunnerInv, Alive, AlivePc
<1>2. launcher.pc # "idle" => launcher.task # proc[p].task
  BY <1>1 DEF LauncherInv
<1>3. ApiInv'
  BY <1>1 DEF ApiInv
<1>4. LockInv'
  BY <1>1 DEF LockInv
<1>5. NewTaskInv'
  BY <1>1 DEF NewTaskInv, Has
<1>6. LauncherInv'
  BY <1>1, <1>2 DEF LauncherInv, Has
<1>7. OneRunner'
  BY DEF OneRunner, Has
<1>8. RunnerInv'
  BY <1>1 DEF RunnerInv, Alive, AlivePc, OneRunner, Has
<1>9. ScanInv'
  BY <1>1 DEF ScanInv
<1> QED
  BY <1>3, <1>4, <1>5, <1>6, <1>7, <1>8, <1>9

(* A runner that cannot start goes to its release.                         *)
LEMMA RunnerStartFailsSafe ==
  ASSUME SchedulerMode, TypeInv, CoreInv, NEW p \in Pid, RunnerStartFails(p)
  PROVE  CoreInv'
<1> USE DEF CoreInv, TypeInv, TypeOK, ProcState, RunnerStartFails, AtPc, GotoWith, MayBoot, SchedulerMode, db, concerns
<1>1. launcher.pid # p
  OBVIOUS
<1>2. NewTaskInv'
  BY DEF NewTaskInv, Has
<1>3. LauncherInv'
  BY <1>1 DEF LauncherInv, Has
<1>4. OneRunner'
  BY DEF OneRunner, Has
<1>5. RunnerInv'
  BY DEF RunnerInv, Alive, AlivePc
<1>6. ApiInv' /\ LockInv' /\ ScanInv'
  BY DEF ApiInv, LockInv, ScanInv
<1> QED
  BY <1>2, <1>3, <1>4, <1>5, <1>6

(* The end of the jobs changes neither rows nor locks.                     *)
LEMMA RunnerJobsDoneSafe ==
  ASSUME SchedulerMode, TypeInv, CoreInv, NEW p \in Pid, NEW v \in Verdict, RunnerJobsDone(p, v)
  PROVE  CoreInv'
<1> USE DEF CoreInv, TypeInv, TypeOK, ProcState, RunnerJobsDone, AtPc, GotoWith, db, concerns
<1>1. NewTaskInv'
  BY DEF NewTaskInv, Has
<1>2. LauncherInv'
  BY DEF LauncherInv, Has
<1>3. OneRunner'
  BY DEF OneRunner, Has
<1>4. RunnerInv'
  BY DEF RunnerInv, Alive, AlivePc
<1>5. ApiInv' /\ LockInv' /\ ScanInv'
  BY DEF ApiInv, LockInv, ScanInv
<1> QED
  BY <1>1, <1>2, <1>3, <1>4, <1>5

(* The runner gives up its own lock and no longer executes.                *)
LEMMA RunnerReleaseSafe ==
  ASSUME SchedulerMode, TypeInv, CoreInv, NEW p \in Pid, RunnerRelease(p)
  PROVE  CoreInv'
<1> USE DEF CoreInv, TypeInv, TypeOK, ProcState, RunnerRelease, AtPc, Goto, db
<1>1. /\ launcher.pid # p /\ proc[p].task \in Task /\ executor[proc[p].task] = p
      /\ status[proc[p].task] \in {"queued", "running"}
  BY LauncherHasSpawned DEF RunnerInv, Alive, AlivePc
<1>2. locks' = locks \ {proc[p].task} /\ lockId' = locks'
  BY <1>1, ConcernReleased
<1>3. launcher.pc # "idle" => launcher.task # proc[p].task
  BY <1>1 DEF LauncherInv
<1>4. LockInv'
  BY <1>2 DEF LockInv
<1>5. NewTaskInv'
  BY DEF NewTaskInv, Has
<1>6. LauncherInv'
  BY <1>1, <1>2, <1>3 DEF LauncherInv, Has
<1>7. OneRunner'
  BY DEF OneRunner, Has
<1>8. RunnerInv'
  BY <1>1, <1>2 DEF RunnerInv, Alive, AlivePc, OneRunner, Has
<1>9. ScanInv'
  BY <1>2 DEF ScanInv
<1>10. ApiInv'
  BY DEF ApiInv
<1> QED
  BY <1>4, <1>5, <1>6, <1>7, <1>8, <1>9, <1>10

(* The update of the owner changes neither rows nor locks of tasks.        *)
LEMMA RunnerUpdateOwnerSafe ==
  ASSUME SchedulerMode, TypeInv, CoreInv, NEW p \in Pid, RunnerUpdateOwner(p)
  PROVE  CoreInv'
<1> USE DEF CoreInv, TypeInv, TypeOK, ProcState, RunnerUpdateOwner, AtPc, Goto, db, concerns
<1>1. NewTaskInv'
  BY DEF NewTaskInv, Has
<1>2. LauncherInv'
  BY DEF LauncherInv, Has
<1>3. OneRunner'
  BY DEF OneRunner, Has
<1>4. RunnerInv'
  BY DEF RunnerInv, Alive, AlivePc
<1>5. ApiInv' /\ LockInv' /\ ScanInv'
  BY DEF ApiInv, LockInv, ScanInv
<1> QED
  BY <1>1, <1>2, <1>3, <1>4, <1>5

(* A runner that finishes a second time has no lock to release.            *)
LEMMA RunnerUpdateFailsSafe ==
  ASSUME SchedulerMode, TypeInv, CoreInv, NEW p \in Pid, RunnerUpdateFails(p)
  PROVE  CoreInv'
<1> USE DEF CoreInv, TypeInv, TypeOK, ProcState, RunnerUpdateFails, AtPc, GotoWith, db, concerns
<1>1. NewTaskInv'
  BY DEF NewTaskInv, Has
<1>2. LauncherInv'
  BY DEF LauncherInv, Has
<1>3. OneRunner'
  BY DEF OneRunner, Has
<1>4. RunnerInv'
  BY DEF RunnerInv, Alive, AlivePc
<1>5. ApiInv' /\ LockInv' /\ ScanInv'
  BY DEF ApiInv, LockInv, ScanInv
<1> QED
  BY <1>1, <1>2, <1>3, <1>4, <1>5

(* A runner reports when its lock is gone, and ends.                       *)
LEMMA RunnerReportSafe ==
  ASSUME SchedulerMode, TypeInv, CoreInv, NEW p \in Pid, RunnerReport(p)
  PROVE  CoreInv'
<1> USE DEF CoreInv, TypeInv, TypeOK, ProcState, RunnerReport, AtPc, Goto, concerns
<1>1. /\ launcher.pid # p /\ proc[p].task \in Task /\ proc[p].task \notin locks
      /\ status[proc[p].task] \in {"queued", "running"}
  BY LauncherHasSpawned DEF RunnerInv, Alive, AlivePc
<1>2. proc[p].verdict \in Verdict
  BY DEF VerdictKnown
<1>3. ApiInv'
  BY <1>1, <1>2 DEF ApiInv, Verdict
<1>4. LockInv'
  BY <1>1 DEF LockInv
<1>5. NewTaskInv'
  BY <1>1, <1>2 DEF NewTaskInv, Has, Verdict
<1>6. LauncherInv'
  BY <1>1 DEF LauncherInv, Has
<1>7. OneRunner'
  BY DEF OneRunner, Has
<1>8. RunnerInv'
  BY <1>1 DEF RunnerInv, Alive, AlivePc, OneRunner, Has
<1>9. ScanInv'
  BY <1>1, <1>2 DEF ScanInv, Verdict, FinalStatus
<1> QED
  BY <1>3, <1>4, <1>5, <1>6, <1>7, <1>8, <1>9

(* A dead runner leaves row and lock to the monitor.                       *)
LEMMA RunnerDiesSafe ==
  ASSUME SchedulerMode, TypeInv, CoreInv, NEW p \in Pid, RunnerDies(p)
  PROVE  CoreInv'
<1> USE DEF CoreInv, TypeInv, TypeOK, ProcState, RunnerDies, Goto, AlivePc, db, concerns
<1>1. NewTaskInv'
  BY DEF NewTaskInv, Has
<1>2. LauncherInv'
  BY DEF LauncherInv, Has
<1>3. OneRunner'
  BY DEF OneRunner, Has
<1>4. RunnerInv'
  BY DEF RunnerInv, Alive, AlivePc
<1>5. ApiInv' /\ LockInv' /\ ScanInv'
  BY DEF ApiInv, LockInv, ScanInv
<1> QED
  BY <1>1, <1>2, <1>3, <1>4, <1>5

(* What the monitor reads is the executor and the lock of the row.         *)
LEMMA MonitorScanSafe ==
  ASSUME SchedulerMode, TypeInv, CoreInv, MonitorScan
  PROVE  CoreInv'
<1> USE DEF CoreInv, TypeInv, TypeOK, MonitorScan, SchedulerUp, db, concerns
<1>1. \A rec \in scan' : /\ rec.task \in Task /\ status[rec.task] = "running"
                         /\ rec.worker = executor[rec.task]
                         /\ rec.task \in lockId => rec.locked
  <2> SUFFICES ASSUME NEW rec \in scan'
               PROVE  /\ rec.task \in Task /\ status[rec.task] = "running"
                      /\ rec.worker = executor[rec.task]
                      /\ rec.task \in lockId => rec.locked
    OBVIOUS
  <2>1. PICK t \in Task : status[t] = "running" /\ rec = TaskShortInfo(t)
    OBVIOUS
  <2> QED
    BY <2>1 DEF TaskShortInfo
<1>2. NewTaskInv'
  BY <1>1 DEF NewTaskInv, Has
<1>3. ScanInv'
  BY <1>1 DEF ScanInv, LockInv
<1>4. ApiInv' /\ LockInv' /\ LauncherInv' /\ OneRunner' /\ RunnerInv'
  BY DEF ApiInv, LockInv, LauncherInv, Has, OneRunner, RunnerInv, Alive, AlivePc
<1> QED
  BY <1>2, <1>3, <1>4

(* Who finds the process of a task gone finds the last one of it.          *)
LEMMA MonitorFindsNobody ==
  ASSUME TypeInv, CoreInv, NEW rec \in scan, MonitorCheck(rec),
         ~(rec.worker # None /\ IsPidExists(rec.worker))
  PROVE  /\ launcher.pc # "idle" => launcher.task # rec.task
         /\ \A p \in Pid : Alive(p) => proc[p].task # rec.task
<1> USE DEF CoreInv, TypeInv, TypeOK
<1>1. /\ rec.task \in Task /\ rec.worker = executor[rec.task]
      /\ status[rec.task] \in {"running"} \cup FinalStatus
  BY DEF ScanInv, ScanRecord, MonitorCheck, SchedulerUp
<1>2. launcher.pc # "idle" => launcher.task # rec.task
  BY <1>1 DEF LauncherInv, FinalStatus
<1>3. ASSUME NEW p \in Pid, Alive(p), proc[p].task = rec.task
      PROVE  FALSE
  <2>1. launcher.pid # p
    BY <1>2, <1>3, LauncherHasSpawned
  <2>2. executor[rec.task] = p
    BY <1>3, <2>1 DEF RunnerInv
  <2> QED
    BY <1>1, <1>3, <2>2, ConstantsAssumption DEF Alive, AlivePc, IsPidExists
<1> QED
  BY <1>2, <1>3

(* The monitor only finalizes tasks that have no live runner.              *)
LEMMA MonitorCheckSafe ==
  ASSUME SchedulerMode, TypeInv, CoreInv, NEW rec \in scan, MonitorCheck(rec)
  PROVE  CoreInv'
<1> USE DEF CoreInv, TypeInv, TypeOK
<1>1. /\ rec.task \in Task /\ rec.worker \in Pid \cup {None}
      /\ rec.worker = executor[rec.task] /\ status[rec.task] \in {"running"} \cup FinalStatus
      /\ rec.task \in locks => rec.locked
      /\ phase = "up"
  BY DEF ScanInv, ScanRecord, MonitorCheck, SchedulerUp
<1>2. launcher.pc # "idle" => launcher.task # rec.task
  BY <1>1 DEF LauncherInv, FinalStatus
<1>3. /\ UNCHANGED <<executor, api, launcher, proc, phase>>
      /\ scan' \subseteq scan
  BY DEF MonitorCheck
<1>4. CASE rec.worker # None /\ IsPidExists(rec.worker)
  <2>1. UNCHANGED <<status, locks, lockId>>
    BY <1>4 DEF MonitorCheck, concerns
  <2>2. ScanInv'
    BY <2>1, <1>3 DEF ScanInv
  <2>3. ApiInv' /\ LockInv' /\ NewTaskInv' /\ LauncherInv' /\ OneRunner' /\ RunnerInv'
    BY <2>1, <1>3 DEF ApiInv, LockInv, NewTaskInv, LauncherInv, Has, OneRunner, RunnerInv, Alive, AlivePc
  <2> QED
    BY <2>2, <2>3
<1>5. CASE ~(rec.worker # None /\ IsPidExists(rec.worker))
  <2>1. FinalizeTask(rec, "aborted")
    BY <1>5 DEF MonitorCheck
  <2>2. \A p \in Pid : Alive(p) => proc[p].task # rec.task
    BY <1>5, MonitorFindsNobody
  <2>3. locks' = locks \ {rec.task} /\ lockId' = locks'
    BY <1>1, <2>1, ConcernDeleted DEF FinalizeTask
  <2>4. status' = [status EXCEPT ![rec.task] = "aborted"]
    BY <2>1 DEF FinalizeTask
  <2> QED
    BY <1>1, <1>2, <1>3, <2>2, <2>3, <2>4, TaskAborted DEF FinalStatus
<1> QED
  BY <1>4, <1>5

(* Recovery finishes tasks with an executor together with their locks; no  *)
(* runner is alive then.                                                   *)
LEMMA InitDbSafe ==
  ASSUME SchedulerMode, TypeInv, CoreInv, InitDb
  PROVE  CoreInv'
<1> USE DEF CoreInv, TypeInv, TypeOK, InitDb, UnfinishedStatus
<1>1. NewScheduler
  BY DEF SchedulerMode
<1>2. launcher.pc = "idle" /\ scan = {} /\ \A p \in Pid : ~Alive(p)
  BY DEF LauncherInv, ScanInv, RunnerInv
<1>3. ApiInv'
  BY <1>1, <1>2 DEF ApiInv
<1>4. LockInv'
  BY <1>1 DEF LockInv
<1>5. NewTaskInv'
  BY <1>2 DEF NewTaskInv, Has
<1>6. LauncherInv'
  BY <1>2 DEF LauncherInv, Has
<1>7. RunnerInv'
  BY <1>2 DEF RunnerInv, Alive, AlivePc
<1>8. ScanInv'
  BY <1>2 DEF ScanInv
<1>9. OneRunner'
  BY DEF OneRunner, Has
<1> QED
  BY <1>3, <1>4, <1>5, <1>6, <1>7, <1>8, <1>9

(* What the actualization reads is the executor and the lock of the row.   *)
LEMMA ActualizeLocksSafe ==
  ASSUME SchedulerMode, TypeInv, CoreInv, ActualizeLocks
  PROVE  CoreInv'
<1> USE DEF CoreInv, TypeInv, TypeOK, ActualizeLocks, db
<1>1. launcher.pc = "idle" /\ \A p \in Pid : ~Alive(p)
  BY DEF LauncherInv, RunnerInv
<1>2. locks' = locks /\ lockId' = locks
  BY DEF LockInv
<1>3. \A rec \in scan' : /\ rec.task \in locks
                         /\ rec.worker = executor[rec.task]
                         /\ rec.task \in lockId => rec.locked
  <2> SUFFICES ASSUME NEW rec \in scan'
               PROVE  /\ rec.task \in locks
                      /\ rec.worker = executor[rec.task]
                      /\ rec.task \in lockId => rec.locked
    OBVIOUS
  <2>1. PICK t \in lockId : rec = TaskShortInfo(t)
    OBVIOUS
  <2> QED
    BY <2>1 DEF LockInv, TaskShortInfo
<1>4. LockInv'
  BY <1>2 DEF LockInv
<1>5. NewTaskInv'
  BY <1>3 DEF NewTaskInv, Has, LockInv
<1>6. LauncherInv'
  BY <1>1 DEF LauncherInv, Has
<1>7. RunnerInv'
  BY <1>1 DEF RunnerInv, Alive, AlivePc
<1>8. ScanInv'
  BY <1>2, <1>3 DEF ScanInv, LockInv
<1>9. ApiInv' /\ OneRunner'
  BY DEF ApiInv, OneRunner, Has
<1> QED
  BY <1>4, <1>5, <1>6, <1>7, <1>8, <1>9

(* The actualization finalizes tasks while no runner is alive.             *)
LEMMA ActualizeTaskSafe ==
  ASSUME SchedulerMode, TypeInv, CoreInv, NEW rec \in scan, ActualizeTask(rec)
  PROVE  CoreInv'
<1> USE DEF CoreInv, TypeInv, TypeOK
<1>1. /\ rec.task \in Task /\ rec.worker = executor[rec.task]
      /\ status[rec.task] \notin {"none", "created"}
      /\ rec.task \in locks => rec.locked
  BY DEF ScanInv, NewTaskInv, ScanRecord
<1>2. launcher.pc = "idle" /\ \A p \in Pid : ~Alive(p)
  BY DEF LauncherInv, RunnerInv, ActualizeTask
<1>3. /\ UNCHANGED <<executor, api, launcher, proc, phase>>
      /\ scan' \subseteq scan
  BY DEF ActualizeTask
<1>4. CASE rec.worker = None
  <2>1. UNCHANGED <<status, locks, lockId>>
    BY <1>4 DEF ActualizeTask, concerns
  <2>2. ScanInv'
    BY <2>1, <1>3 DEF ScanInv
  <2>3. ApiInv' /\ LockInv' /\ NewTaskInv' /\ LauncherInv' /\ OneRunner' /\ RunnerInv'
    BY <2>1, <1>3 DEF ApiInv, LockInv, NewTaskInv, LauncherInv, Has, OneRunner, RunnerInv, Alive, AlivePc
  <2> QED
    BY <2>2, <2>3
<1>5. CASE rec.worker # None
  <2>1. FinalizeTask(rec, "aborted")
    BY <1>5 DEF ActualizeTask
  <2>2. locks' = locks \ {rec.task} /\ lockId' = locks'
    BY <1>1, <2>1, ConcernDeleted DEF FinalizeTask
  <2>3. status' = [status EXCEPT ![rec.task] = "aborted"]
    BY <2>1 DEF FinalizeTask
  <2> QED
    BY <1>1, <1>2, <1>3, <2>2, <2>3, TaskAborted
<1> QED
  BY <1>4, <1>5

(* The loops start when nothing is left to actualize.                      *)
LEMMA SchedulerReadySafe ==
  ASSUME SchedulerMode, TypeInv, CoreInv, SchedulerReady
  PROVE  CoreInv'
<1> USE DEF CoreInv, TypeInv, TypeOK, SchedulerReady, db, concerns
<1>1. launcher.pc = "idle" /\ \A p \in Pid : ~Alive(p)
  BY DEF LauncherInv, RunnerInv
<1>2. LauncherInv'
  BY <1>1 DEF LauncherInv, Has
<1>3. RunnerInv'
  BY <1>1 DEF RunnerInv, Alive, AlivePc
<1>4. ScanInv'
  BY DEF ScanInv
<1>5. ApiInv' /\ LockInv' /\ NewTaskInv' /\ OneRunner'
  BY DEF ApiInv, LockInv, NewTaskInv, Has, OneRunner
<1> QED
  BY <1>2, <1>3, <1>4, <1>5

(* A restart takes every process and everything that was read with it.     *)
LEMMA AdcmRestartSafe ==
  ASSUME SchedulerMode, TypeInv, CoreInv, AdcmRestart
  PROVE  CoreInv'
<1> USE DEF CoreInv, TypeInv, TypeOK, ProcState, AdcmRestart, IdleLauncher, db, concerns
<1>1. ApiInv'
  BY DEF ApiInv
<1>2. NewTaskInv'
  BY DEF NewTaskInv, Has
<1>3. LauncherInv'
  BY DEF LauncherInv, Has
<1>4. OneRunner'
  BY DEF OneRunner, Has
<1>5. RunnerInv'
  BY DEF RunnerInv, Alive, AlivePc
<1>6. ScanInv'
  BY DEF ScanInv
<1>7. LockInv'
  BY DEF LockInv
<1> QED
  BY <1>1, <1>2, <1>3, <1>4, <1>5, <1>6, <1>7

(* The spawned process is the first one of its task; those reaped were     *)
(* dead before.                                                            *)
LEMMA LauncherSpawnSafe ==
  ASSUME SchedulerMode, TypeInv, CoreInv, LauncherSpawn
  PROVE  CoreInv'
<1> USE DEF CoreInv, TypeInv, TypeOK, ProcState
<1>1. PICK p \in Pid :
        /\ proc[p].pc = "free"
        /\ proc' = [q \in Pid |->
             IF q = p THEN [pc |-> "boot", task |-> launcher.task, verdict |-> None]
             ELSE IF proc[q].pc = "zombie" THEN [proc[q] EXCEPT !.pc = "gone"]
             ELSE proc[q]]
        /\ launcher' = [launcher EXCEPT !.pc = "spawned", !.pid = p]
  BY DEF LauncherSpawn
<1>2. /\ UNCHANGED <<status, executor, locks, lockId, api, scan, phase>>
      /\ launcher.pc = "queue"
  BY DEF LauncherSpawn, db, concerns
<1>3. launcher'.pc = "spawned" /\ launcher'.pid = p /\ launcher'.task = launcher.task
  BY <1>1
<1>4. /\ phase = "up" /\ launcher.task \in Task /\ status[launcher.task] = "scheduled"
      /\ launcher.task \in Blocking => launcher.task \in locks
      /\ launcher.pid = None
      /\ \A q \in Pid : ~Has(q, launcher.task)
  BY <1>2 DEF LauncherInv
<1>5. /\ proc'[p].pc = "boot" /\ proc'[p].task = launcher.task
      /\ \A q \in Pid \ {p} : /\ proc'[q].task = proc[q].task
                              /\ \/ proc'[q].pc = proc[q].pc
                                 \/ proc[q].pc = "zombie" /\ proc'[q].pc = "gone"
  BY <1>1
<1>6. \A q \in Pid \ {p}, t \in Task : Has(q, t)' => Has(q, t)
  BY <1>5 DEF Has
<1>7. ApiInv' /\ LockInv' /\ ScanInv'
  BY <1>2 DEF ApiInv, LockInv, ScanInv
<1>8. NewTaskInv'
  BY <1>2, <1>4, <1>5, <1>6 DEF NewTaskInv, Has
<1>9. LauncherInv'
  BY <1>2, <1>3, <1>4, <1>5 DEF LauncherInv, Has
<1>10. OneRunner'
  BY <1>4, <1>5, <1>6 DEF OneRunner, Has
<1>11. RunnerInv'
  <2>1. CASE launcher.pid = None
    <3>1. ASSUME NEW q \in Pid \ {p}, Alive(q)'
          PROVE  Alive(q) /\ launcher.pid # q /\ proc'[q].pc = proc[q].pc
      BY <1>5, <2>1, <3>1, ConstantsAssumption DEF Alive, AlivePc
    <3> QED
      BY <1>2, <1>3, <1>4, <1>5, <3>1 DEF RunnerInv
  <2> QED
    BY <1>4, <2>1
<1> QED
  BY <1>7, <1>8, <1>9, <1>10, <1>11

(* Every step preserves the invariant of the parties.                      *)
LEMMA CoreStep ==
  ASSUME SchedulerMode, TypeInv, CoreInv, [Next]_vars
  PROVE  CoreInv'
<1>1. ASSUME NEW t \in Task, ApiStep(t)
      PROVE  CoreInv'
  <2>1. ~RestartTask(t) /\ ~StartTaskConcern(t) /\ ~StartTaskSaveLockId(t) /\ ~StartTaskSpawn(t)
    BY DEF SchedulerMode, CoreInv, ApiInv, RestartTask, StartTaskConcern, StartTaskSaveLockId,
           StartTaskSpawn
  <2> QED
    BY <1>1, <2>1, RunActionCheckSafe, RunActionCreateSafe DEF ApiStep
<1>2. CASE LauncherStep
  BY <1>2, LauncherScheduleSafe, LauncherRejectSafe, LauncherSpawnSafe, LauncherSpawnFailsSafe,
     LauncherCommitSafe DEF LauncherStep
<1>3. ASSUME NEW p \in Pid, RunnerStep(p) \/ RunnerDies(p)
      PROVE  CoreInv'
  BY <1>3, RunnerStartSafe, RunnerStartFailsSafe, RunnerJobsDoneSafe, RunnerReleaseSafe,
     RunnerUpdateOwnerSafe, RunnerUpdateFailsSafe, RunnerReportSafe, RunnerDiesSafe
     DEF RunnerStep, Verdict
<1>4. CASE MonitorStep
  BY <1>4, MonitorScanSafe, MonitorCheckSafe DEF MonitorStep
<1>5. CASE RecoveryStep \/ AdcmRestart
  BY <1>5, InitDbSafe, ActualizeLocksSafe, ActualizeTaskSafe, SchedulerReadySafe, AdcmRestartSafe
     DEF RecoveryStep
<1>6. CASE UNCHANGED vars
  BY <1>6 DEF vars, db, concerns, CoreInv, ApiInv, LockInv, NewTaskInv, LauncherInv, OneRunner,
              RunnerInv, ScanInv, Has, Alive
<1> QED
  BY <1>1, <1>2, <1>3, <1>4, <1>5, <1>6 DEF Next

(* Every step preserves the whole invariant.                               *)
LEMMA SafetyStep ==
  ASSUME SchedulerMode, TypeInv, SafetyInv, [Next]_vars
  PROVE  SafetyInv'
<1>1. CoreInv /\ ApiCreatesOnly /\ LockExclusion
  BY DEF SafetyInv, CoreInv, ApiInv, ApiCreatesOnly
<1>2. CoreInv' /\ LockExclusion'
  BY <1>1, CoreStep, LockExclusionStep DEF SchedulerMode
<1> QED
  BY <1>2 DEF SafetyInv, CoreInv

(* The invariant of the scheduler's mode holds for any number of tasks,    *)
(* processes, objects and restarts: lock_id records every lock, the lock of*)
(* a task is there from its scheduling to the release by its only runner,  *)
(* and what the monitor has read is what it needs to know.                 *)
THEOREM SchedulerIsSafe ==
  ASSUME SchedulerMode
  PROVE  Spec => [](TypeInv /\ SafetyInv)
<1>1. Init => TypeInv /\ SafetyInv
  BY TypeInit, CoreInit DEF SafetyInv, CoreInv, LockExclusion, Init
<1>2. TypeInv /\ SafetyInv /\ [Next]_vars => (TypeInv /\ SafetyInv)'
  BY TypeStep, SafetyStep
<1> QED
  BY <1>1, <1>2, PTL DEF Spec

-----------------------------------------------------------------------------
(* What follows from the invariant.                                        *)

(* The jobs of a blocking task only run under the task's lock: the monitor *)
(* never takes it from a runner that is alive.                             *)
THEOREM JobsRunUnderLock ==
  ASSUME SchedulerMode
  PROVE  Spec => []ExecutingHoldsLock
<1>1. TypeInv /\ SafetyInv => ExecutingHoldsLock
  BY DEF SafetyInv, RunnerInv, ExecutingHoldsLock, Executing, Alive, AlivePc
<1> QED
  BY <1>1, SchedulerIsSafe, PTL

(* A row that is there stays there.                                        *)
LEMMA RowsStay ==
  ASSUME TypeInv, [Next]_vars, NEW u \in Task, status'[u] = "none"
  PROVE  status[u] = "none"
<1> USE DEF TypeInv, TypeOK
<1>1. ASSUME NEW t \in Task, ApiStep(t)
      PROVE  status[u] = "none"
  BY <1>1 DEF ApiStep, RunActionCheck, RunActionCreate, RestartTask, StartTaskConcern,
              StartTaskSaveLockId, StartTaskSpawn, db
<1>2. CASE LauncherStep
  BY <1>2 DEF LauncherStep, LauncherSchedule, LauncherReject, LauncherSpawn, LauncherSpawnFails,
              LauncherCommit, db
<1>3. ASSUME NEW p \in Pid, RunnerStep(p) \/ RunnerDies(p)
      PROVE  status[u] = "none"
  <2>1. CASE RunnerReport(p)
    BY <2>1 DEF RunnerReport, AtPc, VerdictKnown, Verdict
  <2> QED
    BY <1>3, <2>1 DEF RunnerStep, RunnerStart, RunnerStartFails, RunnerJobsDone, RunnerRelease,
       RunnerUpdateOwner, RunnerUpdateFails, RunnerDies, db
<1>4. CASE MonitorStep
  BY <1>4 DEF MonitorStep, MonitorScan, MonitorCheck, FinalizeTask, db
<1>5. CASE RecoveryStep \/ AdcmRestart
  BY <1>5 DEF RecoveryStep, InitDb, ActualizeLocks, ActualizeTask, SchedulerReady, AdcmRestart,
              FinalizeTask, db
<1>6. CASE UNCHANGED vars
  BY <1>6 DEF vars, db
<1> QED
  BY <1>1, <1>2, <1>3, <1>4, <1>5, <1>6 DEF Next

(* Deleting the concern of one task leaves the flags of others.            *)
LEMMA OtherFlags ==
  ASSUME NEW t, NEW locked, DeleteConcernByLockId(t, locked), NEW key, key # ConcernKey(t)
  PROVE  key \in flags => key \in flags'
  BY DEF DeleteConcernByLockId, DeleteTaskLockConcern, DeleteTaskFlagConcern

(* The flag of a task is only deleted when nobody is at the task any more, *)
(* or by another launch of the same action on the same object.             *)
LEMMA FlagStep ==
  ASSUME SchedulerMode, TypeInv, CoreInv, FlagInv, [Next]_vars
  PROVE  FlagInv'
<1> SUFFICES ASSUME NEW t \in Task \ Blocking, OnlyLaunch(t)'
             PROVE  ConcernKey(t) \in flags' \/ NobodyRuns(t)'
  BY DEF FlagInv, ConcernKey
<1> USE DEF TypeInv, TypeOK
<1>1. OnlyLaunch(t)
  BY RowsStay DEF OnlyLaunch, ConcernKey
<1>2. ConcernKey(t) \in flags \/ NobodyRuns(t)
  BY <1>1 DEF FlagInv
<1>3. \A u \in Task \ {t} : status[u] # "none" => ConcernKey(t) # ConcernKey(u)
  BY <1>1 DEF OnlyLaunch
<1>4. ASSUME ConcernKey(t) \in flags => ConcernKey(t) \in flags',
             UNCHANGED <<launcher, proc>>
      PROVE  ConcernKey(t) \in flags' \/ NobodyRuns(t)'
  BY <1>2, <1>4 DEF NobodyRuns, Has
<1>5. ASSUME NEW u \in Task, ApiStep(u)
      PROVE  ConcernKey(t) \in flags' \/ NobodyRuns(t)'
  <2>1. ~RestartTask(u) /\ ~StartTaskConcern(u) /\ ~StartTaskSaveLockId(u) /\ ~StartTaskSpawn(u)
    BY DEF SchedulerMode, CoreInv, ApiInv, RestartTask, StartTaskConcern, StartTaskSaveLockId,
           StartTaskSpawn
  <2> QED
    BY <1>4, <1>5, <2>1 DEF ApiStep, RunActionCheck, RunActionCreate, concerns
<1>6. CASE LauncherStep
  <2>1. ASSUME NEW u \in Task, LauncherSchedule(u)
        PROVE  ConcernKey(t) \in flags' \/ NobodyRuns(t)'
    <3>1. CASE u = t
      BY <2>1, <3>1 DEF LauncherSchedule, CreateConcern
    <3>2. CASE u # t
      <4>1. launcher'.task = u /\ proc' = proc /\ flags \subseteq flags'
        BY <2>1 DEF LauncherSchedule, CreateConcern
      <4> QED
        BY <1>2, <3>2, <4>1 DEF NobodyRuns, Has
    <3> QED
      BY <3>1, <3>2
  <2>2. ASSUME NEW u \in Task, NEW s \in {"revoked", "broken"}, LauncherReject(u, s)
        PROVE  ConcernKey(t) \in flags' \/ NobodyRuns(t)'
    <3>1. status[u] = "created" /\ launcher.pc = "idle" /\ UNCHANGED <<launcher, proc>>
      BY <2>2 DEF LauncherReject, FirstCreated
    <3>2. CASE u = t
      BY <3>1, <3>2 DEF NobodyRuns, CoreInv, NewTaskInv, Has
    <3>3. CASE u # t
      BY <1>3, <1>4, <2>2, <3>1, <3>3, OtherFlags DEF LauncherReject
    <3> QED
      BY <3>2, <3>3
  <2>3. CASE LauncherSpawn
    <3>1. /\ flags' = flags /\ launcher.pc = "queue" /\ launcher'.task = launcher.task
          /\ \A p \in Pid : \/ proc'[p].task = launcher.task
                            \/ proc'[p].pc \notin {"boot", "exec"}
                            \/ proc'[p] = proc[p]
      BY <2>3 DEF LauncherSpawn, concerns, ProcState
    <3> QED
      BY <1>2, <3>1 DEF NobodyRuns, Has
  <2>4. CASE LauncherSpawnFails
    <3>1. /\ launcher.pc = "queue" /\ launcher'.pc = "idle" /\ proc' = proc
          /\ DeleteConcernByLockId(launcher.task, launcher.task \in lockId)
      BY <2>4 DEF LauncherSpawnFails, IdleLauncher
    <3>2. CASE launcher.task = t
      BY <3>1, <3>2 DEF CoreInv, LauncherInv, NobodyRuns, Has
    <3>3. CASE launcher.task # t
      <4>1. launcher.task \in Task \ {t} /\ status[launcher.task] # "none"
        BY <3>1, <3>3 DEF CoreInv, LauncherInv
      <4>2. ConcernKey(t) \in flags => ConcernKey(t) \in flags'
        BY <1>3, <3>1, <4>1, OtherFlags
      <4> QED
        BY <1>2, <3>1, <4>2 DEF NobodyRuns, Has
    <3> QED
      BY <3>2, <3>3
  <2>5. CASE LauncherCommit
    BY <1>2, <2>5 DEF LauncherCommit, IdleLauncher, NobodyRuns, Has, concerns
  <2> QED
    BY <1>6, <2>1, <2>2, <2>3, <2>4, <2>5 DEF LauncherStep
<1>7. ASSUME NEW p \in Pid, RunnerStep(p) \/ RunnerDies(p)
      PROVE  ConcernKey(t) \in flags' \/ NobodyRuns(t)'
  <2>1. CASE RunnerRelease(p)
    <3>1. /\ proc[p].pc = "release" /\ proc' = [proc EXCEPT ![p].pc = "update"] /\ launcher' = launcher
          /\ IF proc[p].task \in Blocking
               THEN DeleteTaskLockConcern(proc[p].task) ELSE DeleteTaskFlagConcern(proc[p].task)
      BY <2>1 DEF RunnerRelease, AtPc, Goto
    <3>2. launcher.pid # p /\ proc[p].task \in Task /\ status[proc[p].task] # "none"
      BY <3>1, LauncherHasSpawned DEF CoreInv, RunnerInv, Alive, AlivePc
    <3>3. CASE proc[p].task = t
      <4>1. \A q \in Pid : Has(q, t) => q = p
        BY <3>1, <3>3 DEF CoreInv, OneRunner, Has
      <4>2. launcher.pc # "idle" => launcher.task # t
        BY <3>1, <3>2, <3>3, <4>1 DEF CoreInv, LauncherInv, Has
      <4> QED
        BY <3>1, <4>1, <4>2 DEF NobodyRuns, Has
    <3>4. CASE proc[p].task # t
      <4>1. ConcernKey(t) \in flags => ConcernKey(t) \in flags'
        BY <1>3, <3>1, <3>2, <3>4 DEF DeleteTaskLockConcern, DeleteTaskFlagConcern
      <4> QED
        BY <1>2, <3>1, <4>1 DEF NobodyRuns, Has
    <3> QED
      BY <3>3, <3>4
  <2>2. CASE ~RunnerRelease(p)
    <3>1. /\ flags' = flags /\ launcher' = launcher
          /\ \A q \in Pid : /\ Has(q, t)' <=> Has(q, t)
                            /\ proc'[q].pc \in {"boot", "exec"} => proc[q].pc \in {"boot", "exec"}
      <4> USE DEF AtPc, Goto, GotoWith, concerns
      <4>1. CASE RunnerStart(p)
        BY <4>1 DEF RunnerStart, Has
      <4>2. CASE RunnerStartFails(p)
        BY <4>2 DEF RunnerStartFails, Has
      <4>3. ASSUME NEW v \in Verdict, RunnerJobsDone(p, v)
            PROVE  /\ flags' = flags /\ launcher' = launcher
                   /\ \A q \in Pid : /\ Has(q, t)' <=> Has(q, t)
                                     /\ proc'[q].pc \in {"boot", "exec"} => proc[q].pc \in {"boot", "exec"}
        BY <4>3 DEF RunnerJobsDone, Has
      <4>4. CASE RunnerUpdateOwner(p)
        BY <4>4 DEF RunnerUpdateOwner, Has
      <4>5. CASE RunnerUpdateFails(p)
        BY <4>5 DEF RunnerUpdateFails, Has
      <4>6. CASE RunnerReport(p)
        BY <4>6 DEF RunnerReport, Has
      <4>7. CASE RunnerDies(p)
        BY <4>7 DEF RunnerDies, Has, AlivePc
      <4> QED
        BY <1>7, <2>2, <4>1, <4>2, <4>3, <4>4, <4>5, <4>6, <4>7 DEF RunnerStep, Verdict
    <3> QED
      BY <1>2, <3>1 DEF NobodyRuns
  <2> QED
    BY <2>1, <2>2
<1>8. CASE MonitorStep
  <2>1. CASE MonitorScan
    BY <1>4, <2>1 DEF MonitorScan, concerns
  <2>2. ASSUME NEW rec \in scan, MonitorCheck(rec)
        PROVE  ConcernKey(t) \in flags' \/ NobodyRuns(t)'
    <3>1. UNCHANGED <<launcher, proc>>
      BY <2>2 DEF MonitorCheck
    <3>2. CASE rec.worker # None /\ IsPidExists(rec.worker)
      BY <1>4, <2>2, <3>1, <3>2 DEF MonitorCheck, concerns
    <3>3. CASE ~(rec.worker # None /\ IsPidExists(rec.worker))
      <4>1. rec.task \in Task /\ status[rec.task] # "none" /\ DeleteConcernByLockId(rec.task, rec.locked)
        BY <2>2, <3>3 DEF MonitorCheck, SchedulerUp, FinalizeTask, CoreInv, ScanInv, ScanRecord, FinalStatus
      <4>2. CASE rec.task = t
        BY <2>2, <3>1, <3>3, <4>2, MonitorFindsNobody DEF NobodyRuns, Has, Alive, AlivePc
      <4>3. CASE rec.task # t
        BY <1>3, <1>4, <3>1, <4>1, <4>3, OtherFlags
      <4> QED
        BY <4>2, <4>3
    <3> QED
      BY <3>2, <3>3
  <2> QED
    BY <1>8, <2>1, <2>2 DEF MonitorStep
<1>9. CASE RecoveryStep \/ AdcmRestart
  <2>1. CASE phase # "up" /\ UNCHANGED <<launcher, proc>>
    <3>1. launcher.pc = "idle" /\ \A p \in Pid : ~Alive(p)
      BY <2>1 DEF CoreInv, LauncherInv, RunnerInv
    <3> QED
      BY <2>1, <3>1 DEF NobodyRuns, Has, Alive, AlivePc
  <2>2. CASE AdcmRestart
    BY <2>2 DEF AdcmRestart, IdleLauncher, NobodyRuns, Has
  <2> QED
    BY <1>9, <2>1, <2>2 DEF RecoveryStep, InitDb, ActualizeLocks, ActualizeTask, SchedulerReady
<1>10. CASE UNCHANGED vars
  BY <1>4, <1>10 DEF vars, concerns
<1> QED
  BY <1>5, <1>6, <1>7, <1>8, <1>9, <1>10 DEF Next

(* The jobs of a non-blocking task run under its flag, as long as no other *)
(* launch of the action on the object could have deleted it.               *)
THEOREM JobsRunUnderFlag ==
  ASSUME SchedulerMode
  PROVE  Spec => []ExecutingHoldsFlag
<1>1. Init => FlagInv
  BY ConstantsAssumption DEF Init, FlagInv, NobodyRuns, Has, IdleLauncher, FreeProc
<1>2. TypeInv /\ SafetyInv /\ FlagInv /\ [Next]_vars => FlagInv'
  BY FlagStep DEF SafetyInv, CoreInv
<1>3. TypeInv /\ FlagInv => ExecutingHoldsFlag
  BY DEF FlagInv, NobodyRuns, ExecutingHoldsFlag, Executing, Has
<1> QED
  BY <1>1, <1>2, <1>3, SchedulerIsSafe, PTL DEF Spec

(* Jobs of blocking tasks whose objects see each other's lock never run at *)
(* the same time.                                                          *)
THEOREM JobsRunAlone ==
  ASSUME SchedulerMode
  PROVE  Spec => []ExclusiveExecution
<1>1. TypeInv /\ SafetyInv => ExclusiveExecution
  BY DEF SafetyInv, RunnerInv, LockExclusion, ExclusiveExecution, Executing, Alive, AlivePc
<1> QED
  BY <1>1, SchedulerIsSafe, PTL

(* Whoever finishes a task, launcher, runner, monitor or recovery, leaves  *)
(* no lock of it behind.                                                   *)
THEOREM FinishedTasksHoldNoLock ==
  ASSUME SchedulerMode
  PROVE  Spec => []LocksOfUnfinished
<1>1. TypeInv /\ SafetyInv => LocksOfUnfinished
  BY DEF SafetyInv, LockInv, LocksOfUnfinished, UnfinishedStatus
<1> QED
  BY <1>1, SchedulerIsSafe, PTL

(* No late write of the launcher, of a runner or of the monitor reopens a  *)
(* task: who writes an unfinished status is the only one working on a task *)
(* that has not finished.                                                  *)
LEMMA FinishedStep ==
  ASSUME SchedulerMode, TypeInv, CoreInv, [Next]_vars,
         NEW u \in Task, status[u] \in FinalStatus
  PROVE  status'[u] \in FinalStatus
<1> USE DEF TypeInv, TypeOK, FinalStatus
<1>1. ASSUME NEW t \in Task, ApiStep(t)
      PROVE  status'[u] \in FinalStatus
  BY <1>1 DEF ApiStep, RunActionCheck, RunActionCreate, RestartTask, StartTaskConcern,
              StartTaskSaveLockId, StartTaskSpawn, CoreInv, ApiInv, db
<1>2. CASE LauncherStep
  BY <1>2 DEF LauncherStep, LauncherSchedule, LauncherReject, LauncherSpawn, LauncherSpawnFails,
              LauncherCommit, FirstCreated, CoreInv, LauncherInv, db
<1>3. ASSUME NEW p \in Pid, RunnerStep(p) \/ RunnerDies(p)
      PROVE  status'[u] \in FinalStatus
  <2>1. CASE RunnerStart(p)
    <3>1. status[proc[p].task] = "queued"
      BY <2>1 DEF RunnerStart, AtPc, MayBoot, SchedulerMode, CoreInv, RunnerInv, Alive, AlivePc
    <3> QED
      BY <2>1, <3>1 DEF RunnerStart
  <2>2. CASE RunnerReport(p)
    BY <2>2 DEF RunnerReport, AtPc, VerdictKnown, Verdict
  <2> QED
    BY <1>3, <2>1, <2>2 DEF RunnerStep, RunnerStartFails, RunnerJobsDone, RunnerRelease,
       RunnerUpdateOwner, RunnerUpdateFails, RunnerDies, db
<1>4. CASE MonitorStep
  BY <1>4 DEF MonitorStep, MonitorScan, MonitorCheck, FinalizeTask, db
<1>5. CASE RecoveryStep \/ AdcmRestart
  BY <1>5 DEF RecoveryStep, InitDb, ActualizeLocks, ActualizeTask, SchedulerReady, AdcmRestart,
              FinalizeTask, UnfinishedStatus, db
<1>6. CASE UNCHANGED vars
  BY <1>6 DEF vars, db
<1> QED
  BY <1>1, <1>2, <1>3, <1>4, <1>5, <1>6 DEF Next

(* A finished task stays finished: neither the launcher's commit nor a     *)
(* runner's status write comes after somebody else's final status.         *)
THEOREM FinishedTasksStayFinished ==
  ASSUME SchedulerMode
  PROVE  Spec => FinishedStaysFinished
<1>1. TypeInv /\ SafetyInv /\ [Next]_vars
        => [\A t \in Task : status[t] \in FinalStatus => status'[t] \in FinalStatus]_status
  BY FinishedStep DEF SafetyInv, CoreInv
<1> QED
  BY <1>1, SchedulerIsSafe, PTL DEF Spec, FinishedStaysFinished

(* Launcher, runners, monitor and recovery implement TaskLocking: the only *)
(* step that takes a lock is the launcher's first transaction.             *)
LEMMA LockingStep ==
  ASSUME SchedulerMode, TypeInv, SafetyInv, [Next]_vars
  PROVE  Locking!Next
<1> DEFINE finished == {t \in Task : status[t] \in FinalStatus}
<1>1. CoreInv /\ CoreInv' /\ ApiCreatesOnly
  BY CoreStep DEF SafetyInv, CoreInv, ApiInv, ApiCreatesOnly
<1>2. finished \subseteq finished' /\ locks' \cap finished' = {}
  BY <1>1, FinishedStep DEF CoreInv, LockInv, FinalStatus
<1>3. CASE locks' \subseteq locks
  <2> DEFINE gone == locks \ locks'
             new == finished' \ finished
  <2>1. gone \in SUBSET locks /\ new \in SUBSET Task
    OBVIOUS
  <2>2. locks' = locks \ gone /\ finished' = finished \cup new /\ locks' \cap finished' = {}
    BY <1>2, <1>3
  <2>3. \E released \in SUBSET locks, done \in SUBSET Task :
          locks' = locks \ released /\ finished' = finished \cup done /\ locks' \cap finished' = {}
    <3> HIDE DEF gone, new, finished
    <3> QED
      BY <2>1, <2>2
  <2> QED
    BY <2>3 DEF Locking!Next, Locking!Retire
<1>4. ASSUME NEW t \in Task, LauncherSchedule(t), ~(locks' \subseteq locks)
      PROVE  Locking!Next
  <2>1. /\ locks' = locks \cup {t} /\ t \notin locks
        /\ \A u \in locks : target[t] \notin Scope[target[u]]
    BY <1>4 DEF LauncherSchedule, CreateConcern, Locked
  <2>2. status[t] = "created" /\ status' = [status EXCEPT ![t] = "scheduled"]
    BY <1>4 DEF LauncherSchedule, FirstCreated
  <2>3. t \notin finished /\ finished' = finished
    BY <2>2 DEF FinalStatus, TypeInv, TypeOK
  <2>4. Locking!Acquire(t)
    BY <2>1, <2>3 DEF Locking!Acquire
  <2> QED
    BY <2>4 DEF Locking!Next
<1> QED
  BY <1>1, <1>3, <1>4, OnlyTheLauncherLocks DEF SchedulerMode

(* The scheduler refines TaskLocking: every step of API, launcher, runner, *)
(* monitor and recovery acquires one lock, retires locks and tasks, or     *)
(* changes neither.                                                        *)
THEOREM SchedulerImplementsLocking ==
  ASSUME SchedulerMode
  PROVE  Spec => ImplementsLocking
<1>1. Init => Locking!Init
  BY DEF Init, Locking!Init, FinalStatus
<1>2. TypeInv /\ SafetyInv /\ [Next]_vars => Locking!Next
  BY LockingStep
<1> QED
  BY <1>1, <1>2, SchedulerIsSafe, PTL DEF Spec, ImplementsLocking, Locking!Spec

-----------------------------------------------------------------------------
(* The default mode.                                                       *)

(* Requests: what creates a lock goes on to record it and to spawn.        *)
LEMMA DirectApi ==
  ASSUME DirectMode, TypeInv, DirectInv, NEW t \in Task, ApiStep(t)
  PROVE  DirectInv'
<1> USE DEF TypeInv, TypeOK, DirectInv, Has, Alive, AlivePc
<1>1. CASE RunActionCheck(t)
  BY <1>1 DEF RunActionCheck, ApiUp, concerns
<1>2. CASE RunActionCreate(t)
  BY <1>2 DEF RunActionCreate, concerns
<1>3. CASE RestartTask(t)
  BY <1>3 DEF RestartTask, ApiUp, concerns
<1>4. CASE StartTaskConcern(t)
  BY <1>4 DEF StartTaskConcern, CreateConcern
<1>5. CASE StartTaskSaveLockId(t)
  BY <1>5 DEF StartTaskSaveLockId
<1>6. CASE StartTaskSpawn(t)
  <2>1. PICK p \in Pid : /\ proc[p].pc = "free"
                         /\ proc' = [proc EXCEPT ![p] = [pc |-> "boot", task |-> t, verdict |-> None]]
    BY <1>6 DEF StartTaskSpawn
  <2>2. /\ phase' = phase /\ phase = "up" /\ UNCHANGED <<launcher, scan, locks, lockId>>
        /\ api' = [api EXCEPT ![t] = "idle"] /\ api[t] = "spawn"
    BY <1>6 DEF StartTaskSpawn, concerns
  <2>3. ASSUME NEW u \in Task, NEW q \in Pid, Has(q, u), proc[q].pc \in {"boot", "exec", "release"}
        PROVE  Has(q, u)' /\ proc'[q].pc = proc[q].pc
    BY <2>1, <2>3
  <2>4. Has(p, t)' /\ proc'[p].pc = "boot"
    BY <2>1
  <2> QED
    BY <2>2, <2>3, <2>4
<1> QED
  BY <1>1, <1>2, <1>3, <1>4, <1>5, <1>6 DEF ApiStep

(* Runners: only the release leaves the stages in which a lock will be     *)
(* deleted, and it deletes the lock if the row knows of it.                *)
LEMMA DirectRunner ==
  ASSUME DirectMode, TypeInv, DirectInv, NEW p \in Pid, RunnerStep(p)
  PROVE  DirectInv'
<1> USE DEF TypeInv, TypeOK
<1>1. UNCHANGED <<launcher, scan, phase, api>> /\ phase = "up"
  BY DEF DirectInv, Alive, AlivePc, RunnerStep, RunnerStart, RunnerStartFails, RunnerJobsDone, RunnerRelease,
         RunnerUpdateOwner, RunnerUpdateFails, RunnerReport, AtPc
<1>2. CASE RunnerRelease(p)
  <2>1. /\ proc[p].pc = "release" /\ proc' = [proc EXCEPT ![p].pc = "update"]
        /\ IF proc[p].task \in Blocking
             THEN DeleteTaskLockConcern(proc[p].task) ELSE DeleteTaskFlagConcern(proc[p].task)
    BY <1>2 DEF RunnerRelease, AtPc, Goto
  <2>2. locks' \subseteq locks /\ \A t \in locks' : t \in lockId => t \in lockId' /\ t # proc[p].task
    BY <2>1 DEF DeleteTaskLockConcern, DeleteTaskFlagConcern, DirectInv
  <2>3. \A q \in Pid : \A t \in Task : Has(q, t) /\ t # proc[p].task => Has(q, t)' /\ proc'[q] = proc[q]
    BY <2>1 DEF Has
  <2> QED
    BY <1>1, <2>2, <2>3 DEF DirectInv
<1>3. CASE ~RunnerRelease(p)
  <2>1. UNCHANGED <<locks, lockId>>
    BY <1>3 DEF RunnerStep, RunnerStart, RunnerStartFails, RunnerJobsDone, RunnerUpdateOwner,
       RunnerUpdateFails, RunnerReport, concerns
  <2>2. \A q \in Pid : \A t \in Task :
          Has(q, t) /\ proc[q].pc \in {"boot", "exec", "release"}
            => Has(q, t)' /\ proc'[q].pc \in {"boot", "exec", "release"}
    <3> USE DEF Has, AtPc, Goto, GotoWith
    <3>1. CASE RunnerStart(p)
      BY <3>1 DEF RunnerStart
    <3>2. CASE RunnerStartFails(p)
      BY <3>2 DEF RunnerStartFails
    <3>3. CASE \E v \in Verdict : RunnerJobsDone(p, v)
      BY <3>3 DEF RunnerJobsDone
    <3>4. CASE RunnerUpdateOwner(p) \/ RunnerUpdateFails(p) \/ RunnerReport(p)
      BY <3>4 DEF RunnerUpdateOwner, RunnerUpdateFails, RunnerReport
    <3> QED
      BY <1>3, <3>1, <3>2, <3>3, <3>4 DEF RunnerStep, Verdict
  <2> QED
    BY <1>1, <2>1, <2>2 DEF DirectInv
<1> QED
  BY <1>2, <1>3

(* In the default mode nobody looks for orphaned locks, and none are left: *)
(* a request that took a lock goes on to its runner, and a runner to the   *)
(* release, whoever restarts the task meanwhile.                           *)
THEOREM LocksAreKept ==
  ASSUME DirectMode
  PROVE  Spec => []LockHasKeeper
<1>1. Init => DirectInv
  BY DEF Init, DirectInv, Alive, AlivePc, FreeProc, IdleLauncher
<1>2. ASSUME TypeInv, DirectInv, [Next]_vars
      PROVE  DirectInv'
  <2>1. ASSUME NEW t \in Task, ApiStep(t)
        PROVE  DirectInv'
    BY <2>1, <1>2, DirectApi
  <2>2. ASSUME NEW p \in Pid, RunnerStep(p)
        PROVE  DirectInv'
    BY <2>2, <1>2, DirectRunner
  <2>3. ~LauncherStep /\ ~MonitorStep /\ \A p \in Pid : ~RunnerDies(p)
    BY <1>2 DEF DirectMode, DirectInv, LauncherStep, LauncherSchedule, LauncherReject, LauncherSpawn,
       LauncherSpawnFails, LauncherCommit, SchedulerUp, MonitorStep, MonitorScan, MonitorCheck, RunnerDies
  <2>4. CASE RecoveryStep
    <3>1. ~ActualizeLocks /\ ~SchedulerReady /\ \A rec \in scan : ~ActualizeTask(rec)
      BY <1>2 DEF DirectInv, ActualizeLocks, SchedulerReady, ActualizeTask
    <3> QED
      BY <1>2, <2>4, <3>1 DEF RecoveryStep, InitDb, DirectMode, DirectInv, Alive
  <2>5. CASE AdcmRestart
    BY <1>2, <2>5 DEF AdcmRestart, IdleLauncher, DirectInv, Alive, AlivePc, concerns, TypeInv, TypeOK
  <2>6. CASE UNCHANGED vars
    BY <1>2, <2>6 DEF vars, concerns, DirectInv, Alive, Has
  <2> QED
    BY <1>2, <2>1, <2>2, <2>3, <2>4, <2>5, <2>6 DEF Next
<1>3. DirectInv => LockHasKeeper
  BY DEF DirectInv, LockHasKeeper, Has
<1>4. Init => TypeInv
  BY TypeInit
<1>5. TypeInv /\ [Next]_vars => TypeInv'
  BY TypeStep
<1> QED
  BY <1>1, <1>2, <1>3, <1>4, <1>5, PTL DEF Spec

================================================================================
