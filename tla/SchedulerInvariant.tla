-------------------------- MODULE SchedulerInvariant --------------------------
(***************************************************************************)
(* Why the locking of TaskScheduler is safe: the inductive invariants of   *)
(* the scheduler's mode, one part for each of the parties, and of the      *)
(* default mode.                                                           *)
(***************************************************************************)
EXTENDS TaskScheduler

(* The mode the invariant is about: the new scheduler, without the restart *)
(* of API v1, and with a launcher that commits before its runner writes.   *)
SchedulerMode ==
  /\ NewScheduler
  /\ Restartable = {}
  /\ SymmetricScope
  /\ ~EagerWorker

Has(p, t) == proc[p].pc # "free" /\ proc[p].task = t
Alive(p) == proc[p].pc \in AlivePc

(* The API only creates rows.                                              *)
ApiInv ==
  \A t \in Task :
    /\ api[t] \in {"idle", "checked"}
    /\ api[t] = "checked" => status[t] = "none"

(* A lock is always recorded in its row, and belongs to a task somebody    *)
(* took up and nobody finished.                                            *)
LockInv ==
  /\ lockId = locks
  /\ \A t \in locks : t \in Blocking /\ status[t] \in {"scheduled", "queued", "running"}

(* Nobody has touched a task before the launcher schedules it.             *)
NewTaskInv ==
  \A t \in Task : status[t] \in {"none", "created"} =>
    /\ \A p \in Pid : ~Has(p, t)
    /\ \A rec \in scan : rec.task # t

(* Between its two transactions the launcher owns its task and the lock of *)
(* it, and the process it has spawned is the only one of the task.         *)
LauncherInv ==
  /\ launcher.pc = "idle" => launcher.pid = None
  /\ launcher.pc # "idle" =>
       /\ phase = "up"
       /\ launcher.task \in Task
       /\ status[launcher.task] = "scheduled"
       /\ launcher.task \in Blocking => launcher.task \in locks
  /\ launcher.pc = "queue" =>
       /\ launcher.pid = None
       /\ \A p \in Pid : ~Has(p, launcher.task)
  /\ launcher.pc = "spawned" =>
       /\ launcher.pid \in Pid
       /\ Has(launcher.pid, launcher.task)
       /\ proc[launcher.pid].pc \in {"boot", "zombie"}

(* A task has one process at most.                                         *)
OneRunner ==
  \A p, q \in Pid : \A t \in Task : Has(p, t) /\ Has(q, t) => p = q

(* A runner the launcher is done with is the executor of its row; it holds *)
(* the lock until it releases it.                                          *)
RunnerInv ==
  \A p \in Pid : Alive(p) =>
    /\ phase = "up"
    /\ proc[p].task \in Task
    /\ launcher.pid # p =>
         /\ executor[proc[p].task] = p
         /\ status[proc[p].task] \in {"queued", "running"}
         /\ proc[p].pc = "boot" => status[proc[p].task] = "queued"
    /\ proc[p].pc \in {"boot", "exec"} /\ proc[p].task \in Blocking => proc[p].task \in locks
    /\ proc[p].pc \in {"update", "report"} => proc[p].task \notin locks

(* What the monitor or a recovery has read is what it needs to know.       *)
ScanInv ==
  \A rec \in scan :
    /\ phase \in {"actualize", "up"}
    /\ rec.worker = executor[rec.task]
    /\ rec.task \in locks => rec.locked
    /\ phase = "up" => status[rec.task] \in {"running"} \cup FinalStatus

(* Neither the launcher nor a runner that may have jobs is at the task.    *)
NobodyRuns(t) ==
  /\ launcher.pc # "idle" => launcher.task # t
  /\ \A p \in Pid : Has(p, t) => proc[p].pc \notin {"boot", "exec"}

(* The flag of a non-blocking task that nobody else's can be mistaken for  *)
(* is there from its scheduling to the release by its runner.              *)
FlagInv ==
  \A t \in Task \ Blocking : OnlyLaunch(t) => ConcernKey(t) \in flags \/ NobodyRuns(t)

(* The parts together with lock exclusion: the inductive invariant, from   *)
(* which the safety of locking, execution and finalization follows.        *)
SafetyInv ==
  /\ ApiInv
  /\ LockInv
  /\ NewTaskInv
  /\ LauncherInv
  /\ OneRunner
  /\ RunnerInv
  /\ ScanInv
  /\ LockExclusion

-----------------------------------------------------------------------------
(* The default mode: no scheduler, restarts of API v1 allowed, no runner   *)
(* is killed.                                                              *)
DirectMode == ~NewScheduler /\ Killable = {}

(* A lock the row does not know of yet is that of the request that is      *)
(* about to save it; of any other one a request or a runner is on the way  *)
(* to where it is deleted.                                                 *)
DirectInv ==
  /\ launcher.pc = "idle" /\ scan = {} /\ phase \in {"init", "up"}
  /\ phase = "init" => \A t \in Task : api[t] = "idle"
  /\ phase = "init" => \A p \in Pid : ~Alive(p)
  /\ locks \subseteq Blocking
  /\ phase = "up" => \A t \in locks :
       \/ api[t] = "locked"
       \/ /\ t \in lockId
          /\ api[t] = "spawn" \/ \E p \in Pid : Has(p, t) /\ proc[p].pc \in {"boot", "exec", "release"}

=============================================================================
