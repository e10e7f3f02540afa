# Formal model of ADCM

TLA+ models of the Arenadata Cluster Manager (the Python backend in `src/python`
and the status server in `src/go/adcm/status`), the TLC configurations that
check them on small instances, and TLAPS proofs of the main theorems. The subject
is what is hard to test in ADCM: several processes and requests that work on the
same rows, and long sequences of operations that each keep a part of the data
consistent by their own means.

Paths below are relative to `src/python/` unless they start with `src/`.

## 1. Inventory of the system

### 1.1 Parts with state that several actors share

| Component | State it keeps | Operations | Interacts with | Modelled by |
|---|---|---|---|---|
| **Task launch API** `cm/services/job/action.py`, `cm/services/job/run/_task.py`, `api/job/views.py` | row of `TaskLog` with its jobs | `run_action` (check locks and earlier launches, create the row), direct start when the new scheduler is off, `restart` of API v1, `cancel` | reads concerns, writes `TaskLog`; spawns a runner without the scheduler | `TaskScheduler` |
| **Job scheduler** `jobs/scheduler/*` | `TaskLog.status`, `executor`, `lock_id`; concerns of tasks | launcher loop (schedule, queue), monitor loop (finalize tasks whose runner is dead), `actualize_locks` at start | takes rows the API creates, spawns runners, deletes locks of dead ones | `TaskScheduler` |
| **Recovery at start** `init_db.py`, `jobs/scheduler/recover.py` | the same rows | `recover_statuses`, `drop_locks`, `actualize_locks` | runs before the web server, and before the loops | `TaskScheduler` |
| **Job sequence runner** `task_runner.py`, `cm/services/job/run/*`, `core/job/*` | `TaskLog.status`, `pid`, `JobLog` rows, state and multi-state of the owner, mapping, maintenance mode | `run` (loop over jobs), `_finish`, `consider_broken`, the SIGTERM handler, `TaskLog.cancel`, `JobLog.cancel` | one process per task, one child per job; signalled by the API; watched by the monitor | `JobSequence` |
| **Locks and flags of tasks** `cm/services/concern/locks.py`, `distribution.py` | `ConcernItem` rows and their links to objects | create, delete, distribute over related objects, check `object.concerns` | used by launcher, runner, monitor, recovery, API | `LockScope`, `TaskScheduler`, `Concerns` |
| **Concerns and issues** `cm/services/concern/*`, `core/concern/checks/*`, `cm/api.py` | `ConcernItem` rows (issues, outdated-configuration flags) and links | create and delete an issue with its cause, distribute one concern, recompute all links of a cluster | an issue on an object blocks launches; every operation on clusters, services, hosts, mapping, imports, configurations | `Concerns` |
| **Mapping** `cm/services/mapping/*`, `core/cluster/*` | `HostComponent` rows | set mapping by request and by job, check constraints, update concerns and groups | redistribution of concerns; host groups; end of tasks | `Concerns`, `ClusterHosts`, `ClusterUpgrade` |
| **Maintenance mode** `cm/services/maintenance_mode.py`, `_task_finalizers.py` | `maintenance_mode` of hosts, components, services | switch directly or by an action (`changing`), inherit | `run_action`, plugin, `_finish`, mapping | `ClusterHosts` |
| **Action host groups** `cm/services/action_host_group.py`, `host_group_common.py` | groups of hosts of a cluster, service, component | candidates, add and remove hosts, follow the mapping | mapping, removal of hosts | `ClusterHosts` |
| **Status server** `src/go/adcm/status` | statuses of hosts and components with timers, service map, clients of events | set and clear statuses, aggregate, report events, websocket hub | fed by agents and by the backend | `StatusServer`, `WsHub` |
| **Upgrade of clusters and providers** `cm/upgrade/*`, `_target_factories.py` | prototypes, `before_upgrade` | check, write `before_upgrade`, switch the bundle (at once or by a task), revert | services, components, configurations, mapping, locks | `ClusterUpgrade` (clusters) |

### 1.2 Parts that are not modelled

Configuration and config host groups (checks and conversions of typed values;
what others see of configurations is in `Concerns` and `ClusterUpgrade`), bundles
(parsing and validation of archives), roles and policies (permissions recomputed
as a whole after each operation), audit, the celery worker, REST serialisation
and routing, the web interface, maintenance commands. `PROJECT.json` lists them
with the reason of each.

### 1.3 Hard behaviours, and what makes the parts correct

*Concurrency.* The database is shared by web workers, the launcher, the monitor
and any number of runners. Most writes are not conditional on what was read: a
stale writer overwrites. Several sequences (lock, links, `lock_id`; spawn,
executor, QUEUED; lock release, owner, status; `before_upgrade`, launch) are
separate transactions or mix a transaction with an effect on processes. The
status server is a set of goroutines that meet over unbuffered channels.

*Failure.* A runner may be killed; ADCM may be restarted between any two writes;
any step of the runner may raise, including the signal handler; connections of
listeners are lost at any point; a switch or revert may raise in its middle.

*Ordering.* A runner may reach the database before the launcher's transaction
that spawned it commits; the monitor decides on a snapshot; SIGTERM arrives
between any two statements; a request saves a row it has read before a task ran.

*Long sequences.* Issues, links, groups and modes are kept up to date by each
operation for itself: nothing recomputes them from scratch.

*Progress.* Two endless loops carry all tasks. One task in the way of the
launcher, or a task nobody looks at, stops others or holds a lock for ever. One
lost client may stop the hub of the status server.

What makes the system correct:

* launch and scheduling: two blocking tasks whose objects cover each other never
  both hold a lock or run jobs; created tasks finish;
* scheduler and recovery: nobody takes the lock of a live runner, a finished task
  leaves no lock and stays finished, the tasks of dead runners are finished;
* runner: jobs run in order and only under the task's concern, nothing is left
  running, the verdict is the one the jobs account for, the owner's state agrees
  with it, a termination is honoured, the process always ends with a final status;
* locks: the distribution over objects is mutual (the order of two tasks does not
  matter), and follows the mapping while the lock is in force;
* concerns: an issue is there exactly when its cause is, and concerns are linked
  to what they concern and nothing else;
* hosts: an object does not stay `changing`, a mode is inherited in one way,
  hosts in groups are hosts the owner runs on, a removed host leaves nothing;
* status server: a status lives for its whole timeout and no longer, listeners
  know what is up, no client is left behind or stops the others;
* upgrade: a cluster is of one bundle, a revert restores what was there, and the
  upgrade by itself never makes its revert impossible.

The hazards with their lines are in `PROJECT.json`, `hazards`.

## 2. Modules and plan

| Module | What it is |
|---|---|
| `LockScope` | pure definitions: the objects a lock is linked to, for a topology and a mapping |
| `TaskScheduler` | API, launcher, monitor, runner processes, kills, restart and recovery |
| `TaskLocking` | abstract specification: what the scheduler promises about locks |
| `SchedulerInvariant` | the inductive invariants of the scheduler's mode and of the default mode |
| `JobSequence` | the inside of a runner: jobs, signals, cancellation, exceptions |
| `RunnerOfScheduler` | `JobSequence` as the runner process of `TaskScheduler` |
| `Concerns` (extends `LockScope`) | issues, flags and locks with their links under every operation on clusters |
| `ClusterHosts` (extends `LockScope`) | hosts of a cluster: mapping, groups, maintenance modes |
| `ClusterUpgrade` | upgrade and revert of a cluster |
| `StatusServer` | statuses, timers, aggregates, events |
| `WsHub` | the websocket hub of the status server |
| `MC*` | instances for TLC |
| `TaskSchedulerProofs`, `TaskLockingProofs`, `JobSequenceProofs`, `ConcernsProofs` (also of `LockScope`), `ClusterHostsProofs`, `ClusterUpgradeProofs`, `StatusServerProofs`, `WsHubProofs` | theorems |

`SchedulerInvariant` extends `TaskScheduler`, which is an instance of the abstract
`TaskLocking`; `RunnerOfScheduler` is `JobSequence` seen as a `TaskScheduler` of
one task; `MCTaskScheduler` computes the scope of locks with `LockScope`.

Every safety invariant and action property of the passing runs is proved; liveness
is left to TLC. Candidates for models are upgrades of providers and the multi-states of
owners.

## 3. How the modules correspond to the code

### 3.1 TaskScheduler

An action is one database transaction or one effect on processes. What the code
does in one transaction (`transaction.atomic`) is one action even if it calls
several functions; what it does outside of one is split.

| State | Code |
|---|---|
| `id`, `status`, `executor` | columns of `TaskLog`; `id = 0`, `status = "none"`: no row yet |
| `locks`, `lockId`, `flags` | `ConcernItem` rows of type LOCK by the task they were created for, `TaskLog.lock_id`, and flags by their unique key (action name, owner) |
| `api` | where a request is: between the checks and the transaction of `run_action`, and in `start_task` |
| `launcher` | idle, between the two transactions of an iteration, between `Popen` and the commit of the second one |
| `scan` | records of `retrieve_tasks` a pass has still to look at |
| `proc` | runner processes: stage, task, verdict; `zombie` is ended and not reaped |
| `phase`, `restarts` | init_db, web server only, actualization of locks, up |

| Actions | Code |
|---|---|
| `RunActionCheck`, `RunActionCreate` | `run_action`: checks outside, row inside of the transaction |
| `RestartTask`, `StartTaskConcern`, `StartTaskSaveLockId`, `StartTaskSpawn` | API v1 restart and the direct start: no transaction around the statements |
| `LauncherSchedule`, `LauncherReject` | first transaction of `run_launcher_in_loop`: take the first created task, validate, create and distribute the concern, SCHEDULED; REVOKED or BROKEN with `clear_concerns_on_error` |
| `LauncherSpawn`, `LauncherCommit`, `LauncherSpawnFails` | `queue_task`: the process exists before the row says so |
| `RunnerStart` … `RunnerReport` | `JobSequenceRunner.run` and `_finish` in their order: RUNNING, jobs, delete concern, update owner, status |
| `RunnerUpdateFails` | an exception of `_finish`: `consider_broken` finishes again |
| `RunnerDies` | kill of a runner |
| `MonitorScan`, `MonitorCheck` | one pass of `run_monitor_in_loop`; `finalize_task` writes without a second look |
| `AdcmRestart`, `InitDb`, `ActualizeLocks`, `ActualizeTask`, `SchedulerReady` | restart, `recover_statuses` and `drop_locks`, `actualize_locks`, start of the loops |

Modes are constants: `NewScheduler` (the feature flag), `Restartable` (users call
the restart of API v1), `Killable` (processes that may be killed), `EagerWorker`
(a runner may write before its launcher commits: a runner needs to start Python
and Django, the launcher needs one UPDATE, so most runs take the launcher to be
faster).

### 3.2 LockScope

`LockTargets(hc, o)` is `distribute_concern_on_related_objects` for a lock of `o`
under mapping `hc`: one definition per branch of
`_find_concern_distribution_targets`, and `ByHosts` for `_distribute_by_hosts`.
`MCTaskScheduler` uses it to compute `Scope`, so the scheduler is checked with
the code's own distribution.

### 3.3 JobSequence

One runner with its jobs. An action is one write, one system call or one read of
the termination flag, so a SIGTERM may be handled between any two of them.

| State | Code |
|---|---|
| `command`, `todo`, `current` | `start` / `restart`, `configured_jobs` (a set: they are walked in the order of their ids), the job the loop is at |
| `taskStatus`, `taskPid`, `jobStatus`, `jobPid`, `concern`, `ownerState` | rows |
| `jobProc`, `signalled` | child processes by exit code, SIGTERM sent to them |
| `result`, `taskResult`, `lastResult` | `_runtime.status`, its copy in `_finish`, `last_job_result` |
| `sigterm`, `termination` | pending signal, `_runtime.termination.is_requested` |
| `request` | `TaskLog.cancel` requests: idle, polling for a running job, done |
| `considered` | the second finish (`consider_broken`) is under way |
| `late` | history: jobs started after the termination |

Actions: `Configure`, `Start`, then per job `ExecuteJob`, `RecordJob`,
`WaitFinished`, `EndOfJob`, then `ReachVerdict`, `ReleaseConcern`, `UpdateOwner`,
`Report`; `PrepareFails`, `FinalizersFail`, `UpdateOwnerFails` are exceptions,
`Terminate` / `TerminateFails` the handler, `CancelTask`, `CancelSignals`,
`CancelGivesUp`, `CancelJob` the users, `JobEnds` the operating system. `Init`
covers a first start, a start of a successful task over again, and a restart
after every outcome an earlier run may leave.

`RunnerOfScheduler` maps this state to a `TaskScheduler` with one task and one
process; `RunnerRefines` says that every step of it that shows there is a
`RunnerStep`. So "exec with some verdict" of `TaskScheduler` is no invention.

### 3.4 Concerns

An operation of the API or of a plugin is one transaction and one action; its
checks and everything it does to issues, flags, links and locks is in it.

| State | Code |
|---|---|
| `clusters`, `services`, `hostCluster`, `hc` | rows of clusters, services (with all components of the prototype), hosts, `HostComponent` |
| `empty`, `imported` | objects whose current configuration lacks a required value; required imports that are bound |
| `link` | `ConcernItem` rows by owner and kind, with the objects of the many-to-many tables |
| `locks` | lock rows by owner, each with the owners of those older than it: `_update_concerns` takes the first lock it finds linked to the cluster. An owner has at most one (unique name and owner of `ConcernItem`, and the check for existing locks before) |
| `unchecked` | history: the mapping's issue was not rechecked since a change |

| Actions | Code |
|---|---|
| `SetMapping`, `ChangeMappingByTask` | `cm/services/mapping/_base.py`: `MappingIssueUpdated`, `Redistributed`, `LockMoved` are the parts of `_update_concerns` |
| `AddServices`, `DeleteService`, `DeleteServiceByTask` | `api_v2/service/utils.py`, `cm/services/service.py`, `adcm_delete_service`; `AddedConcerns` is `recalculate_own_concerns_on_add_services` |
| `AddCluster`, `DeleteCluster`, `AddHost`, `CreateHostInCluster`, `AddHostToCluster`, `RemoveHostFromCluster`, `DeleteHost`, `SetImports` | `cm/api.py`, `api_v2/host/utils.py`, `cm/services/cluster.py` |
| `SaveConfig`, `SaveGroupConfig`, `SaveConfigByPlugin`, `RaiseFlag`, `LowerFlag` | `update_obj_config`, `set_object_config_with_plugin`, `adcm_change_flag`, `cm/services/concern/flags.py` |
| `TakeLock`, `ReleaseLock` | `create_task_lock_concern`, `delete_task_lock_concern` |

`MappingHasIssue`, `Unsatisfied` and `RequiredServicesMissing` are the checks of
`core/concern/checks`. Links are computed in two ways, as in the code:
`Targets` distributes one concern from its owner, `Redistributed` recomputes all
links of a cluster.

### 3.5 ClusterHosts

| State | Code |
|---|---|
| `bound`, `hc`, `mode`, `member` | `Host.cluster`, `HostComponent`, `maintenance_mode`, hosts of groups |
| `patch` | requests for a mode: before `run_action`, before `serializer.save()`, with the value of the row that was read |
| `task` | tasks of the mode's actions: running with the lock, lock gone and mode not yet reset |
| `leaving`, `adding` | removals of hosts and additions to groups between check and write |
| `overlapped`, `orphaned` | history: removals and additions on an outdated check; objects nobody will take out of `changing` |

`RequestMode`, `Launch`, `Refuse`, `SaveMode` are the stages of
`get_maintenance_mode_response`; `TaskReports` the plugin, `TaskUnlocks`,
`TaskEnds` the end of the task (`_finish`, `update_object_maintenance_mode`),
`TaskDies` its kill. `CheckRemoval`/`RemoveHost` and `CheckCandidate`/`AddToGroup`
are the two halves of the requests that check outside of their transaction.
`ModelMode` and `TopologyMode` are the two implementations of inherited modes.

### 3.6 ClusterUpgrade

| State | Code |
|---|---|
| `row` | cluster, services and components: bundle of the prototype, state, configuration, and state and configuration in `before_upgrade` |
| `snap` | the rest of the cluster's `before_upgrade`: bundle, services, mapping, deleted services and components |
| `hc`, `bound` | mapping, hosts of the cluster |
| `request` | requests for an upgrade: checked (with the cluster in memory), written, switched |
| `task` | the task that holds the cluster's lock: upgrade or revert, before or after its switch |
| `past`, `since` | history: what was there when `before_upgrade` was written, and the kinds of things that have happened since: services added by users or the `hc_acl` (`created`), deleted, hosts left, `overtaken` by another request |

`CheckUpgrade`, `WriteBeforeUpgrade`, `SwitchAtOnce`, `SaveState`, `LaunchUpgrade`,
`EndInError` are the steps of `do_upgrade`; `SwitchByTask`, `BundleRevert` the
internal scripts of a task, each one transaction. `Switched` and `KeptByCluster`
are what `_upgrade_children` makes of the rows and of `before_upgrade`;
`Reverted` what `bundle_revert` makes of them, `Obstacles` what makes it raise;
a switch that `SwitchRaises` is rolled back. Names stand for the objects: an object
that is deleted and created again is the same name with a new row. `written`
rows are one step, as nothing in between looks at them.

### 3.7 StatusServer

| State | Code |
|---|---|
| `entry`, `timers` | `dbMap2` of the storages: status and counter; goroutines of `startTimer` with the counter they were armed with |
| `smap`, `mm` | `ServiceServer.smap`, `MMObjects.data` |
| `base`, `clusterBase` | `StatusEvent.db`: the statuses saved for comparison |
| `run`, `callbacks` | handlers and `clearFunc` callbacks: save, set, check, report |
| `shown` | history: what a listener takes each object for |

A call of a storage is one step, because a storage answers one request before it
takes the next. `Save`, `Set`, `Check`, `Report` are the stages of a handler
(`setHost`, `setHostComp`) around `status_event.go`. Aggregated statuses are sets of
values: the folds of `status.go` walk maps in random order and the last value that
is not 0 wins.

### 3.8 WsHub

`HubRegister`, `HubUnregister`, `HubBroadcast`, `HubSends` are the cases of
`wsHub.run`; `Connect`, `StartClient` are `initWS`; `Write`, `WriteFails`,
`PingFails`, `ChannelClosed` the cases of `write2ws`; `ReadFails` the end of
`read4ws`; `Send` is `send2ws`; `PeerGone` the browser. A send over an unbuffered
channel and its receive are one step.

## 4. Runs

Sizes are distinct states.

| Run | Question | Instance and why it is enough |
|---|---|---|
| `SchedulerSafety` (714 663) | exclusion, execution under the concern, finished tasks, inductive invariant, refinement of `TaskLocking` | two blocking tasks on services that share a host (so their locks meet through distribution, not because they are on one object), a non-blocking task on the first service (a flag that must survive locks coming and going); two processes that may be killed at any stage; one restart. Conflicts are between two tasks, the monitor's snapshot needs one other task, and a restart in every stage needs one restart |
| `SchedulerLiveness` (22 933) | created tasks finish, lost runners are noticed | two blocking tasks in conflict, kills, no restart |
| `DirectLaunch` (246 580) | default mode: no orphaned lock | two conflicting tasks, both restartable, three processes, one restart |
| `JobRun` (137 350) | safety of the loop, refinement of the runner, termination, progress | three jobs (before, at and after a signal), the second one internal (no process), two cancel requests, exceptions in preparation, finalizers and `_finish`, a failing signal handler |
| `Concerns` (66 177) | issues, links, and locks under changes of the mapping | one cluster, two services of one component each, two hosts of a provider; each cause of an issue at an object of its own, constraints that depend on the number of hosts, a component that needs the other service; locks of the cluster and the provider at a time. Links cross at most one level of each kind, so one object of a kind and one other show a missing or a superfluous link |
| `ClusterHosts` (97 696) | maintenance modes, groups, removals | a service with one component, two hosts, one of them with mode actions, the service without; an action host group of the service; two requests of several steps at a time: the races are between two requests, or a request and a task |
| `ClusterUpgrade` (327 354) | one bundle, possible and exact reverts | two bundles and three services: one in both bundles with a component that stays, one that goes and one that is new; one of the old bundle only; one the upgrade adds; two requests, three changes (requests counted). An upgrade, a change and a revert, or two requests and a change, are the shortest histories with an effect on each other |
| `StatusServer` (554 104) | timers, expiry, events, aggregates | one host with two components of a service, a service map and none, maintenance on and off, two goroutines, two posts: a renewal needs two posts, interference two handlers |
| `WsHub` (86 484) | delivery, closed channels, who can stop the hub | two clients, three events: one before, at and after a change of the clients |
| `GhostTask`, `DuplicateLaunch`, `RequirementLost` | statements of the repository the code does not meet | one or two tasks; four services without components |

Bounds: `MaxRestarts` (restarts of ADCM), `MaxLocks` (locks at a time in
`Concerns`), `MaxRequests` (requests under way in `ClusterHosts`), `MaxChanges`
(requests and changes in `ClusterUpgrade`), `MaxPosts` (statuses posted). All else
is bounded by the constant sets; processes are not reused. Runner processes,
requests for upgrades and the hosts of `Concerns` are interchangeable (symmetry, in
safety runs only); tasks are not, their keys order them.

Deadlock is checked where the system never stops (the scheduler's runs,
`Concerns`, `ClusterHosts`). It is switched off in `DirectLaunch` and `JobRun`
(tasks finish, the runner exits), `ClusterUpgrade` (requests and changes are used
up), `StatusServer` and `WsHub` (posts and events are).

### Properties

* Scheduler: `LockExclusion`, `ExecutingHoldsLock`, `ExecutingHoldsFlag`,
  `FinishedStaysFinished`, the inductive invariant `SafetyInv`, and
  `ImplementsLocking`: the scheduler implements `TaskLocking` with `held <- locks`
  and `finished <-` tasks with a final status. `TaskFinishes`: every created task
  finishes unless its runner was killed and not reaped yet.
  `LostRunnerIsFinalized`: the monitor finishes tasks whose runner was reaped.
  `LockHasKeeper`: in the default mode nobody looks for orphaned locks, so each
  must have a request or runner that will delete it.
* Runner: `SequenceInv` (types, order of jobs, at most one job after a
  termination), `ConcernCoversJobs`, `VerdictIsJustified`, `NothingLeftRunning`,
  `OwnerStateMatchesStatus`, `RunnerRefines`, `TaskEnds`, `TerminationWins`.
* Concerns: `NoFalseAlarm` and `IssueIsTold` (an issue is there exactly when its
  cause is), `LinksAreExact`, `ClusterLockFollowsMapping`, `LockIsMutual`.
* Hosts: `HostsInv` (types, hosts without a cluster are not in maintenance,
  components are mapped to hosts of the cluster), `ModesAgree`, `ChangingHasTask`,
  `ChangingEnds`, `GroupHostsAreMapped`.
* Upgrade: `OneBundle`, `RevertRestores`, `RevertIsPossible`, `SwitchIsPossible`.
* Status server: `LastTimerClears`, `StatusExpires`, `PostIsReported`,
  `UpIsJustified`; hub: `HubInv` (no send on a closed channel), `GaplessDelivery`,
  `OnlyLostClientsBlock`, `EventsPass`, `LostClientIsForgotten`.

Where a property exempts a case, the exemption is a weakness of the code that the
property's comment names and section 6 describes; the property says that there is
no other way to break the rule.

### Fairness

*Scheduler.* The loops of launcher and monitor are endless (`while True` with a
sleep), so an iteration that can be completed is (weak fairness). Assumed for an
iteration are only its outcomes that commit: one whose transaction is rolled back
because another task's flag holds the unique key changes nothing and may repeat.
An API request that was accepted runs to its end. A runner is scheduled and its
jobs end. The records of one pass of the monitor are worked off one by one, so
fairness is stated per task. Nothing is assumed of users, kills or restarts.

*Runner.* The process is scheduled, pending signals are delivered, jobs end.
`TaskLog.cancel` is not assumed to find a job.

*Hosts.* A runner that is not killed ends its task. Requests need not go on.

*Status server.* Sleeps end (`TimerFires`). Every goroutine of the hub and of its
clients is scheduled; clients and events are finitely many, so the choice of
`select` between ready channels needs no assumption.

### Findings

1. `GhostTask`: in the default mode no executor is ever recorded, so recovery
   skips all tasks and a running one stays running after a restart, although "tasks
   in local environment are always considered dead on ADCM restart"
   (`jobs/scheduler/recover.py:63`). With the scheduler the same lines strand a
   task that is scheduled and not yet queued.
2. `DuplicateLaunch`: the rule "the same action shouldn't be running" looks for
   rows by the object to lock, but rows of host actions carry the component,
   service or cluster of the action as owner; a second launch is not found
   (`cm/services/job/action.py:92`).
3. `RequirementLost`: the names of services with unsatisfied requirements are kept
   in a generator that every membership test consumes; adding a service deletes
   the issue of another one whose requirement is still not met
   (`cm/services/concern/cases.py:138`).

## 5. Proofs

Checked by TLAPS for any number of tasks, jobs, processes, objects, requests,
clients and restarts.

| Theorem | Module | Says |
|---|---|---|
| `TypeCorrect` | TaskSchedulerProofs | `Spec => []TypeOK`, every mode |
| `LocksExclude` | TaskSchedulerProofs | `LockExclusion` with the scheduler, runners may overtake their launcher |
| `SchedulerIsSafe` | TaskSchedulerProofs | the inductive invariant `SafetyInv` |
| `JobsRunUnderLock`, `JobsRunAlone`, `FinishedTasksHoldNoLock` | TaskSchedulerProofs | `ExecutingHoldsLock`, `ExclusiveExecution`, `LocksOfUnfinished` |
| `JobsRunUnderFlag` | TaskSchedulerProofs | `ExecutingHoldsFlag` |
| `LocksAreKept` | TaskSchedulerProofs | `LockHasKeeper`, in the default mode |
| `FinishedTasksStayFinished` | TaskSchedulerProofs | the action property `FinishedStaysFinished` |
| `SchedulerImplementsLocking` | TaskSchedulerProofs | `Spec => Locking!Spec` |
| `LockingIsExclusive` | TaskLockingProofs | what `TaskLocking` promises |
| `JobsRunInTurn`, `ConcernHeldByJobs`, `NothingRunsAfterwards` | JobSequenceProofs | `SequenceInv`, `ConcernCoversJobs`, `NothingLeftRunning` |
| `VerdictFollowsJobs`, `OwnerStateFollowsStatus` | JobSequenceProofs | `VerdictIsJustified`, `OwnerStateMatchesStatus` |
| `RunnerIsScheduled` | JobSequenceProofs | `RunnerRefines`: the runner is a runner process of `TaskScheduler` |
| `LocksAreMutual` | ConcernsProofs | `CoversMutually(hc)` for every topology and mapping |
| `LocksStayMutual` | ConcernsProofs | `LockIsMutual` after every history of operations |
| `IssuesHaveCauses`, `CausesAreTold` | ConcernsProofs | `NoFalseAlarm`, `IssueIsTold` |
| `ClusterLocksFollow` | ConcernsProofs | `ClusterLockFollowsMapping` |
| `LinksFollowTopology` | ConcernsProofs | `LinksAreExact` |
| `HostsStayConsistent`, `ChangingIsAccountedFor` | ClusterHostsProofs | `HostsInv`, `ChangingHasTask` |
| `GroupsFollowMapping`, `ModesAlwaysAgree` | ClusterHostsProofs | `GroupHostsAreMapped`, `ModesAgree` |
| `ClusterOfOneBundle` | ClusterUpgradeProofs | `OneBundle` |
| `UpgradeCanBeReverted`, `SwitchGoesThrough` | ClusterUpgradeProofs | `RevertIsPossible`, `SwitchIsPossible` |
| `RevertRestoresAll` | ClusterUpgradeProofs | the action property `RevertRestores` |
| `TimersAreOfTheirEntry`, `OnlyTheLastTimerClears` | StatusServerProofs | `TimersMatch`, and the action property `LastTimerClears` |
| `ClusterStatusIsJustified`, `PostsAreReported` | StatusServerProofs | `UpIsJustified`, and the action property `PostIsReported` |
| `HubIsSafe` | WsHubProofs | `HubInv`: the hub never sends on a closed channel |
| `HubWaitsForLost`, `ListenersMissNothing` | WsHubProofs | `OnlyLostClientsBlock`, `GaplessDelivery` |

*Assumptions of the scheduler's theorems.* `ConstantsAssumption` (types of the constants) everywhere. The
safety theorems assume `SchedulerMode`: the new scheduler, no API v1 restarts, a
symmetric scope, and a launcher that commits before its runner writes. The last
one is dropped in `LocksExclude`. `LocksAreKept` assumes `DirectMode`: no scheduler, any
restarts, and no killed runner (one leaves its lock behind). `SymmetricScope` is what `LocksAreMutual` proves
of the code's distribution for all objects but providers.

*Argument for the scheduler.* None of the safety properties is inductive. `ExecutingHoldsLock`, for
one, needs that the monitor and the recovery never finalize a task whose runner
is alive; that needs that what they have read of the executor is still true when
they write (`ScanInv`), that a runner the launcher is done with *is* the executor
of its row (`RunnerInv`), that the launcher owns its task between its two
transactions (`LauncherInv`), that a task never has two processes (`OneRunner`),
that no process or record exists for a task the launcher has not taken up
(`NewTaskInv`), and that `lock_id` always tells whether there is a lock, because
finalization decides by it between lock and flag (`LockInv`). The conjunction of
these parts with `LockExclusion` is `SafetyInv`. It is proved action by action;
the theorems above follow from it. `LockExclusion` alone only needs `LockInv`-like
facts about `locks`, hence the stronger theorem. `JobsRunUnderFlag` adds `FlagInv`, the
same for flags, which go by action and object instead of a foreign key. In the default mode
`DirectInv` says that a lock is either that of the request about to save it, or
recorded in its row and on the way to its deletion. For the refinement, only
`LauncherSchedule` acquires; every other step deletes locks, finishes tasks, or
both, and `SafetyInv` gives that what is held afterwards is not finished.

*Runner.* `JobInv` describes a run by the place the runner is at: only the job of
the loop can have a live process, and only from its start to `wait_finished`
(`OneJobAtATime`); the jobs of the list before it have results that let the task
proceed, those after it have not been touched by this run (`Order`); what
`_runtime` and `last_job_result` hold is what the rows say at that place
(`Results`); at most one job starts after a termination (`LateJob`), because the
flag is read between any two; and from the verdict on nothing is left running,
unless the signal handler itself raises (`VerdictStages`). The last part is
what carries `VerdictIsJustified`: the result of a task is fixed before the
concern is released, the owner's state and the status are written from it.
For `RunnerIsScheduled`, each step of the runner is mapped to one of
`Scheduler!RunnerStep` or to a stutter; `NobodyAssumption` sets the id of no
process apart from the one process there is.

*Concerns.* `LocksAreMutual` needs that a host is in one cluster. The first
invariant, `Consistent`, is that rows refer to rows: services to clusters that
exist, hosts to clusters, a mapping to hosts and components of one cluster,
concerns to owners that exist. No operation on one host or one cluster can see the
others, so the proof is that hosts that are added, moved or deleted are mapped
nowhere, and that a new mapping takes hosts and components of its own cluster.
`Told` relates each kind of issue to its cause, both ways and with the exemptions
of the code; it is proved kind by kind, since an operation on mapping,
services or imports rechecks several kinds for several owners. `LockInv` is that a lock row
exists for each entry of `locks`, that a cluster's lock is the first one found on
that cluster and on no other, and that it is on exactly the mapped hosts: the
lock `_update_concerns` moves is then the cluster's own.

`LinksFollowTopology` says that the two ways the code computes links agree: the
targets of one concern, by the type of its owner
(`distribute_concern_on_related_objects`), and the concerns of each object of one
cluster (`redistribute_issues_and_flags`). `Near` is what a concern is to reach, and
`Fits` that one link is there when it is to be and only within what a lock of the
owner would cover: the spread to neighbours on hosts of an issue that was
distributed is allowed, not required, since redistribution takes it back.
`LinkInv` has `Fits` of every link. `LinksOfNear` is that recomputing an object's
links finds exactly the concerns it is near; it fails for concerns of hosts and
providers on hosts, which the code therefore leaves as they are
(`RelinkedOnHost`). Links of objects outside of the cluster stay; that is right
since a mapping of one cluster does not change what is near in others (`FarStays`),
nor what concerns of the cluster reach there (`FarApart`). And where the
function returns early because nothing is concerned, no link could have been
due (`RelatedCovers`). `RelinkedFits` puts the four together for any set of
services, so that it serves changes of the mapping, new services and new
clusters. That a provider has no issue but its config's (`ConcernsOfProvider`)
is what makes the two concerns a new host inherits enough.

`TopologyAssumption` and
`BundleAssumption` type the bundle; the latter also says that a service
requires services of its own cluster, and all services of the components it needs.

*Hosts.* `HostInv` adds to the checked invariants what a request remembers across
its two transactions: a host being removed is mapped nowhere, a candidate of a
group is mapped, unless the history `overlapped` says that it was overtaken.
`ChangingHasTask` is inductive with `HostsInv`. `ModesAgree` is a statement about
two definitions, and proved for every state of the types. `HostsAssumption` says
that there is one cluster, and that hosts are no pairs.

*Upgrade.* `UpgradeInv` is `OneBundle`, that services are those the bundle offers,
that what requests hold in memory is what the cluster was, and `Revertible`, for
snapshots that nothing has overtaken: the snapshot is of the bundle it names and
agrees with the history `past` (`SnapIsOfBundle`, `PastIsSnap`); each row that
stays carries in its own `before_upgrade` what it was (`BeforeIsPast`); unless
`since` says so there are no other services than those of the snapshot, what the
new bundle lacks is kept, and mapped hosts are still there (`NoneAdded`,
`DeletedAreKept`, `DroppedAreKept`, `HostsAreBound`). That
a revert restores *all* needs every one of them: a service is in exactly one of
three places, its row, the `deleted` of the cluster, or `since`.
`BundlesAssumption` types the bundles (components are offered with their
service), `NoneAssumption` sets `None` apart from what it stands in for.

*Status server.* `TimersMatch` is inductive with the types of the storages: the
pending timers of a key carry consecutive counters up to its entry's. So the
oldest one matches the entry only when it is the last. `PostIsReported` follows
from `ReportInv`: what a handler has saved is what listeners take an object for,
and what it has found changed and not yet told is the difference, as long as
no other handler came between. `UpIsJustified` is about the folds of `status.go`,
for every state of the types. `HubInv` needs two additions: a client that is in the
map or closed has been registered, so none is registered again after it was closed; and a broadcast
under way has a client that is in the map. `WaitInv` adds that a client whose other
end is there has its two goroutines; `DeliveryInv` that what a client has got
is the log since its registration, up to the event that is on its way to it.
`StatusAssumption` and `HubAssumption` type the constants, set `None` apart
from what it stands in for, and hosts, components, services and the cluster
from each other.

*Model-checked only.* Liveness (`TaskFinishes`, `LostRunnerIsFinalized`, `TaskEnds`,
`TerminationWins`, `ChangingEnds`, `StatusExpires`, `EventsPass`,
`LostClientIsForgotten`) and fairness, which are out of the prover's reach,
and the statements of the findings. `TypeCorrect`, `JobsRunAlone` and
`FinishedTasksHoldNoLock` are theorems no run repeats.

## 6. What is abstracted, left out, or known to fail

### Scheduler and runner

* The celery environment; the scheduler's processes dying one at a time.
* A killed runner is a child of the launcher, which never waits for it, and
  `os.kill(pid, 0)` succeeds for a zombie: it counts as alive until a later `Popen`
  reaps it, and its task keeps its lock. `TaskFinishes` exempts such tasks.
* Reuse of a pid by another process: a stale executor or `TaskLog.pid` then
  designates a stranger.
* Of the validation of a task by the launcher, the locks are modelled; issues,
  state, configuration and permissions are the nondeterministic refusal of
  `LauncherReject`.
* A late abort of the monitor may overwrite a success: `finalize_task` writes on
  its record without a second look. No property excludes it.
* Flags go by action and object. A second launch of the same action on the object
  that is refused (`clear_concerns_on_error`), or the late abort of an earlier
  one, deletes the flag of the one that runs. `ExecutingHoldsFlag` is claimed
  for the only launch.
* With `EagerWorker` the row may go back from a final status to QUEUED, and the
  monitor may abort a live task whose executor is not yet written. Only lock
  exclusion is claimed then.
* The child of a killed runner may go on after the monitor has released the lock:
  the processes of jobs are part of `JobSequence`, where runners are not killed.
* An exception between `Popen` of a job and `wait_finished`.
* `ADCM_DELETE_SERVICE` and other special concern names; texts of concerns.
* Multi-states: `update_owner_multi_states` reads, changes and writes a dictionary
  (`cm/services/job/run/repo.py:279`), so two tasks that end together may lose an
  update. The race is plain and not modelled.
* Direct mode: that a statement of `start_task` raises for any other reason than
  a constraint of the database.

### Concerns and mapping

* Locks of providers cover hosts, but locks of hosts do not cover providers, so
  provider objects are left out of `LockIsMutual` and of `SymmetricScope`'s
  justification.
* The mapping API does not look at locks. `_update_concerns` moves the lock it finds
  on the cluster, whoever its owner; `remove_host_from_cluster` may take a
  provider's lock off the host; services added under a lock are not locked.
  `ClusterLockFollowsMapping` is claimed for the cluster's own lock.
* Causes nobody rechecks: a host created in a cluster (mapping), a required service
  deleted by a job, a field set by a plugin, the main object's configuration when a
  config host group is saved, the mapping put right by new services. They are the
  exemptions of `NoFalseAlarm` and `IssueIsTold`. `adcm_delete_service` does not
  recheck importers and requirers either; the check before a deletion misses
  service-only requirements of components that also need components
  (`cm/services/service.py:79`).
* Flags of a provider are not linked to hosts created later.
* Imports are checked by prototype: one required import per importer is modelled.
* What an upgrade does to concerns (`recalculate_concerns_on_cluster_upgrade` only
  creates), and the recheck of everything in `init_db`. The provider's switch
  collects removals in a plain dictionary (`cm/upgrade/base.py:764`) and would
  raise on the first one.
* The lock's links and a change of the mapping are each one step; the reads of a
  distribution that overlaps a change of the mapping are not interleaved.

### Hosts

* A request saves `changing` after its action was launched; if the task has ended by
  then nobody resets the mode. The row it saves is the one it read, so a host that
  was removed meanwhile is back in its cluster. `orphaned` marks the first, the
  second is part of the model.
* The lock goes before the mode is reset: a late reset may hit the mode of the next,
  opposite request.
* Removal of a host checks for components outside of its transaction; components
  mapped in between stay mapped to a host outside of the cluster and every build of
  the topology raises. The same race leaves hosts in groups. `overlapped` marks
  exactly these.
* A change of a group is refused while its owner has a locking task: left out, it
  only restricts. Issue rechecks after a switch, and bundles without maintenance
  mode, are left out.

### Upgrade

* Left out: providers, host groups of the objects, checks of versions, editions and
  imports, licences, concerns and policies.
* `before_upgrade` is written after a check that is not repeated and before
  `run_action` looks at locks: a second request that passed the check overwrites what
  the first one wrote, also when its own launch is refused. A revert then loses what
  the first upgrade has deleted, or raises. `RevertRestores` and the others exempt
  snapshots that are `overtaken`.
* A row that had no configuration comes back with the default one if the new bundle
  gave it one. A service a user has deleted since comes back if an earlier upgrade has
  kept it, as it was then: `RevertRestores` only claims that it is there.
* A revert raises for services that are in both bundles and were added after
  `before_upgrade` was written (by users, or by the `hc_acl` of the upgrade: their
  `before_upgrade` has no state), for services deleted since, and for mapped hosts
  that have left. A switch raises for services added between the write and the switch
  that the new bundle lacks.
* A revert when the switch has not been made, or failed, deletes the services of the
  cluster and restores those that were kept; it
  raises if one was not kept, and when there were none it deletes those added since.
  It is outside of `RevertRestores`, not of `OneBundle`.
* An upgrade without an action switches the bundle without a lock. An addition of
  services that read the bundle before a switch and is written after it would leave
  services of two bundles; `AddService` is one step.
* The merge of configurations is "own values are kept, others become the new
  defaults".

### Status server

* HTTP, tokens, several clusters, and the events that only pass through the hub.
* Timers of one length fire in the order they were armed. The read of an aggregate is
  one step. The unsynchronised access to `MMObjects` is not modelled as a data race.
* The save of one handler replaces the baseline another one compares with: an event of
  the cluster may be lost, and the "down" event of an expiry when the status was renewed
  between. `PostIsReported` is claimed for handlers that are not disturbed so.
* The hub deadlocks when the writer of a registered client ends by a failed write while
  the hub sends to it: the reader that would unregister it waits for the hub.
  `OnlyLostClientsBlock` says that nothing else stops the hub.
