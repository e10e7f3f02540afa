-------------------------- MODULE JobSequenceProofs --------------------------
(***************************************************************************)
(* The runner of a task, for any number of jobs and of cancel requests and *)
(* any steps that may raise: its invariants, and that each of its steps is *)
(* a step TaskScheduler gives a runner process, or changes nothing there.  *)
(***************************************************************************)
EXTENDS RunnerOfScheduler, TLAPS

InLoop == {"next", "spawned", "wait", "finalize"}
BeforeVerdict == {"configure", "start", "verdict"} \cup InLoop
Finishing == {"release", "update", "report", "exited"}

(* A process is alive only while the runner waits for it, a row running    *)
(* only in that wait.                                                      *)
OneJobAtATime ==
  \A j \in Job :
    /\ jobProc[j] = "alive" => j = current /\ pc \in {"spawned", "wait"}
    /\ jobStatus[j] = "running" => j = current /\ pc = "wait"

(* A job that lets the loop go on.                                         *)
Passed(j) == jobProc[j] \in {"0", "-15"} /\ jobStatus[j] \in {"success", "aborted"}

(* The jobs before the current one have let the loop go on, those after it *)
(* have not been started.                                                  *)
Order ==
  /\ pc \in InLoop \cup {"start", "verdict"} => current \in todo
  /\ pc \in {"configure", "start"} => \A j \in Job : jobProc[j] = None
  /\ pc = "next" => jobProc[current] = None
  /\ \A j \in todo : /\ j < current => Passed(j)
                     /\ j > current => jobProc[j] = None
  /\ pc \in {"spawned", "wait"} => jobProc[current] # None
  /\ pc = "finalize" => /\ jobProc[current] \in {"0", "-15", "other"}
                        /\ jobStatus[current] = StatusOfCode(jobProc[current])

(* There is a result when one is needed.                                   *)
Results ==
  /\ pc \in InLoop \cup {"verdict"} => result # "created"
  /\ pc = "verdict" => lastResult # None
  /\ pc \in Finishing => result \in FinalStatus
  /\ pc \in {"update", "report", "exited"} => taskResult \in FinalStatus

(* A late job is the one the loop was about to start when the signal came. *)
LateJob == late = 0 \/ (late = 1 /\ termination /\ pc \notin {"configure", "start", "next"})

(* What the loop knows when it is left.                                    *)
LoopEnded ==
  /\ lastResult = jobStatus[current] /\ lastResult \in {"success", "failed", "aborted"}
  /\ result = IF lastResult = "failed" THEN "failed" ELSE "running"
  /\ lastResult # "failed" => termination \/ Later = {}

(* What the verdict says of the jobs.                                      *)
Justified ==
  /\ current \in todo
  /\ result \in {"success", "failed", "aborted"}
  /\ result = "success" => Later = {} /\ jobStatus[current] = "success"
  /\ result = "failed" => jobStatus[current] = "failed"
  /\ result = "aborted" => termination \/ (Later = {} /\ jobStatus[current] = "aborted")

(* What each stage knows of the verdict, the concern and the owner, as     *)
(* long as the handler of SIGTERM works.                                   *)
VerdictStages ==
  /\ pc \in BeforeVerdict => ~considered /\ ownerState = None /\ concern
  /\ pc \in {"configure", "start"} => result = "created"
  /\ pc \in InLoop => result = "running"
  /\ pc = "verdict" => LoopEnded
  /\ pc \in Finishing => IF considered THEN result = "broken" ELSE Justified
  /\ pc \in {"update", "report", "exited"} => taskResult = result
  /\ pc \in {"release", "update"} /\ ~considered => ownerState = None
  /\ pc \in {"report", "exited"} /\ ~considered =>
       ownerState = CASE result = "success" -> "on_success"
                      [] result = "failed" -> "on_fail"
                      [] OTHER -> None
  /\ pc = "exited" => taskStatus = result

JobInv == TypeOK /\ OneJobAtATime /\ Order /\ Results /\ LateJob /\ (HandlerWorks => VerdictStages)

(* Every step keeps the types.                                             *)
LEMMA TypeOKStep ==
  ASSUME JobInv, [Next]_vars PROVE TypeOK'
<1> USE DEF JobInv, TypeOK, FinalStatus, Results, InLoop, Finishing, Order, StatusOfCode, given,
            rows, processes, runtime, signals, None
<1>1. CASE Configure
  <2>1. todo' \subseteq Job /\ current' \in Job
    BY <1>1 DEF Configure, ConsiderBroken, FirstOf
  <2>2. /\ pc' \in {"start", "release"}
        /\ result' \in {"created", "running"} \cup FinalStatus
        /\ considered' \in BOOLEAN
    BY <1>1 DEF Configure, ConsiderBroken
  <2> QED
    BY <1>1, <2>1, <2>2 DEF Configure
<1>2. CASE Start
  BY <1>2 DEF Start
<1>3. CASE ExecuteJob
  BY <1>3 DEF ExecuteJob
<1>4. CASE PrepareFails
  BY <1>4 DEF PrepareFails, ConsiderBroken
<1>5. CASE RecordJob
  BY <1>5 DEF RecordJob
<1>6. CASE WaitFinished
  BY <1>6 DEF WaitFinished, StatusOfCode
<1>7. CASE EndOfJob
  BY <1>7 DEF EndOfJob, FirstOf, Later, ShouldProceed
<1>8. CASE FinalizersFail
  BY <1>8 DEF FinalizersFail, ConsiderBroken
<1>9. CASE ReachVerdict
  BY <1>9 DEF ReachVerdict, TaskResult, Later
<1>10. CASE ReleaseConcern
  <2>1. taskResult' \in FinalStatus /\ concern' \in BOOLEAN /\ pc' = "update"
    BY <1>10 DEF ReleaseConcern
  <2>2. UNCHANGED <<given, todo, taskStatus, taskPid, ownerState, jobStatus, jobPid, processes,
                    current, result, lastResult, considered, signals, late, request>>
    BY <1>10 DEF ReleaseConcern
  <2> QED
    BY <2>1, <2>2
<1>11. CASE UpdateOwner
  BY <1>11 DEF UpdateOwner, StateAfterTask
<1>12. CASE UpdateOwnerFails
  <2>1. ownerState' \in {None, "on_success", "on_fail"}
    BY <1>12 DEF UpdateOwnerFails, StateAfterTask
  <2>2. pc' \in {"report", "release"} /\ result' \in FinalStatus /\ considered' \in BOOLEAN
    BY <1>12 DEF UpdateOwnerFails, ConsiderBroken
  <2>3. UNCHANGED <<given, todo, taskStatus, taskPid, concern, jobStatus, jobPid, processes,
                    current, taskResult, lastResult, signals, late, request>>
    BY <1>12 DEF UpdateOwnerFails
  <2> QED
    BY <2>1, <2>2, <2>3
<1>13. CASE Report
  BY <1>13 DEF Report
<1>14. CASE Terminate
  <2>1. signalled' \subseteq Job
    BY <1>14 DEF Terminate, JobsToTerminate
  <2>2. sigterm' \in BOOLEAN /\ termination' \in BOOLEAN
    BY <1>14 DEF Terminate
  <2>3. UNCHANGED <<given, todo, rows, jobProc, runtime, late, request>>
    BY <1>14 DEF Terminate
  <2> QED
    BY <2>1, <2>2, <2>3
<1>15. CASE TerminateFails
  <2>1. sigterm' \in BOOLEAN /\ termination' \in BOOLEAN /\ concern' \in BOOLEAN
    BY <1>15 DEF TerminateFails
  <2>2. taskStatus' = "broken" /\ result' = "broken"
    BY <1>15 DEF TerminateFails
  <2>3. UNCHANGED <<given, todo, taskPid, ownerState, jobStatus, jobPid, processes, pc, current,
                    taskResult, lastResult, considered, late, request>>
    BY <1>15 DEF TerminateFails
  <2> QED
    BY <2>1, <2>2, <2>3
<1>16. ASSUME NEW r \in Request, CancelTask(r) \/ CancelSignals(r) \/ CancelGivesUp(r)
       PROVE  TypeOK'
  <2>1. sigterm' \in BOOLEAN
    BY <1>16 DEF CancelTask, CancelSignals, CancelGivesUp
  <2>2. request' \in [Request -> {"idle", "polling", "done"}]
    BY <1>16 DEF CancelTask, CancelSignals, CancelGivesUp
  <2>3. UNCHANGED <<given, todo, rows, processes, runtime, termination, late>>
    BY <1>16 DEF CancelTask, CancelSignals, CancelGivesUp
  <2> QED
    BY <2>1, <2>2, <2>3
<1>17. ASSUME NEW j \in Job, CancelJob(j) PROVE TypeOK'
  BY <1>17 DEF CancelJob
<1>18. ASSUME NEW j \in Job, JobEnds(j) PROVE TypeOK'
  BY <1>18 DEF JobEnds
<1>19. CASE UNCHANGED vars
  BY <1>19 DEF vars
<1> QED
  BY <1>1, <1>2, <1>3, <1>4, <1>5, <1>6, <1>7, <1>8, <1>9, <1>10, <1>11, <1>12, <1>13, <1>14,
     <1>15, <1>16, <1>17, <1>18, <1>19 DEF Next, RunnerStep, SignalStep, UserStep

(* Every step leaves a result where the next stage needs one.              *)
LEMMA ResultsStep ==
  ASSUME JobInv, [Next]_vars PROVE Results'
<1> USE DEF JobInv, Results, TypeOK, FinalStatus, InLoop, Finishing, Order, StatusOfCode, given,
            rows, processes, runtime, signals, None
<1>1. CASE Configure
  BY <1>1 DEF Configure, ConsiderBroken
<1>2. CASE Start
  BY <1>2 DEF Start
<1>3. CASE ExecuteJob
  BY <1>3 DEF ExecuteJob
<1>4. CASE PrepareFails
  BY <1>4 DEF PrepareFails, ConsiderBroken
<1>5. CASE RecordJob
  BY <1>5 DEF RecordJob
<1>6. CASE WaitFinished
  BY <1>6 DEF WaitFinished, StatusOfCode
<1>7. CASE EndOfJob
  BY <1>7 DEF EndOfJob, ShouldProceed
<1>8. CASE FinalizersFail
  BY <1>8 DEF FinalizersFail, ConsiderBroken
<1>9. CASE ReachVerdict
  BY <1>9 DEF ReachVerdict, TaskResult
<1>10. CASE ReleaseConcern
  BY <1>10 DEF ReleaseConcern
<1>11. CASE UpdateOwner
  BY <1>11 DEF UpdateOwner
<1>12. CASE UpdateOwnerFails
  BY <1>12 DEF UpdateOwnerFails, ConsiderBroken
<1>13. CASE Report
  BY <1>13 DEF Report
<1>14. CASE Terminate
  BY <1>14 DEF Terminate
<1>15. CASE TerminateFails
  BY <1>15 DEF TerminateFails
<1>16. ASSUME NEW r \in Request, CancelTask(r) \/ CancelSignals(r) \/ CancelGivesUp(r)
       PROVE  Results'
  BY <1>16 DEF CancelTask, CancelSignals, CancelGivesUp
<1>17. ASSUME NEW j \in Job, CancelJob(j) PROVE Results'
  BY <1>17 DEF CancelJob
<1>18. ASSUME NEW j \in Job, JobEnds(j) PROVE Results'
  BY <1>18 DEF JobEnds
<1>19. CASE UNCHANGED vars
  BY <1>19 DEF vars
<1> QED
  BY <1>1, <1>2, <1>3, <1>4, <1>5, <1>6, <1>7, <1>8, <1>9, <1>10, <1>11, <1>12, <1>13, <1>14,
     <1>15, <1>16, <1>17, <1>18, <1>19 DEF Next, RunnerStep, SignalStep, UserStep

(* Every step keeps to one job at a time.                                  *)
LEMMA OneJobAtATimeStep ==
  ASSUME JobInv, [Next]_vars PROVE OneJobAtATime'
<1> USE DEF JobInv, OneJobAtATime, TypeOK, given, rows, processes, runtime, signals, None
<1>1. CASE Configure
  BY <1>1 DEF Configure, ConsiderBroken
<1>2. CASE Start
  BY <1>2 DEF Start
<1>3. CASE ExecuteJob
  BY <1>3 DEF ExecuteJob
<1>4. CASE PrepareFails
  BY <1>4 DEF PrepareFails, ConsiderBroken
<1>5. CASE RecordJob
  BY <1>5 DEF RecordJob
<1>6. CASE WaitFinished
  BY <1>6 DEF WaitFinished, StatusOfCode
<1>7. CASE EndOfJob
  BY <1>7 DEF EndOfJob
<1>8. CASE FinalizersFail
  BY <1>8 DEF FinalizersFail, ConsiderBroken
<1>9. CASE ReachVerdict
  BY <1>9 DEF ReachVerdict
<1>10. CASE ReleaseConcern
  BY <1>10 DEF ReleaseConcern
<1>11. CASE UpdateOwner
  BY <1>11 DEF UpdateOwner
<1>12. CASE UpdateOwnerFails
  BY <1>12 DEF UpdateOwnerFails, ConsiderBroken
<1>13. CASE Report
  BY <1>13 DEF Report
<1>14. CASE Terminate
  BY <1>14 DEF Terminate
<1>15. CASE TerminateFails
  BY <1>15 DEF TerminateFails
<1>16. ASSUME NEW r \in Request, CancelTask(r) \/ CancelSignals(r) \/ CancelGivesUp(r)
       PROVE  OneJobAtATime'
  BY <1>16 DEF CancelTask, CancelSignals, CancelGivesUp
<1>17. ASSUME NEW j \in Job, CancelJob(j) PROVE OneJobAtATime'
  BY <1>17 DEF CancelJob
<1>18. ASSUME NEW j \in Job, JobEnds(j) PROVE OneJobAtATime'
  BY <1>18 DEF JobEnds
<1>19. CASE UNCHANGED vars
  BY <1>19 DEF vars
<1> QED
  BY <1>1, <1>2, <1>3, <1>4, <1>5, <1>6, <1>7, <1>8, <1>9, <1>10, <1>11, <1>12, <1>13, <1>14,
     <1>15, <1>16, <1>17, <1>18, <1>19 DEF Next, RunnerStep, SignalStep, UserStep

(* Every step keeps the order of the jobs.                                 *)
LEMMA OrderStep ==
  ASSUME JobInv, [Next]_vars PROVE Order'
<1> USE DEF JobInv, Order, TypeOK, OneJobAtATime, InLoop, Passed, given, rows, processes, runtime,
            signals, None
<1>1. CASE Configure
  <2>1. CASE todo' = {}
    BY <1>1, <2>1 DEF Configure, ConsiderBroken
  <2>2. CASE todo' # {}
    BY <1>1, <2>2 DEF Configure, FirstOf, Job
  <2> QED
    BY <2>1, <2>2
<1>2. CASE Start
  BY <1>2 DEF Start
<1>3. CASE ExecuteJob
  BY <1>3 DEF ExecuteJob
<1>4. CASE PrepareFails
  BY <1>4 DEF PrepareFails, ConsiderBroken
<1>5. CASE RecordJob
  <2>1. pc = "spawned" /\ pc' = "wait" /\ UNCHANGED <<todo, current, jobProc>>
    BY <1>5 DEF RecordJob
  <2>2. \A j \in Job : j # current => jobStatus'[j] = jobStatus[j]
    BY <1>5 DEF RecordJob
  <2>3. jobProc[current] # None
    BY <2>1
  <2>4. ASSUME NEW j \in todo, j < current PROVE jobStatus'[j] = jobStatus[j]
    BY <2>2, <2>4 DEF Job
  <2> QED
    BY <2>1, <2>3, <2>4
<1>6. CASE WaitFinished
  BY <1>6 DEF WaitFinished, StatusOfCode
<1>7. CASE EndOfJob
  <2>1. pc = "finalize" /\ UNCHANGED <<todo, jobProc, jobStatus>>
    BY <1>7 DEF EndOfJob
  <2>2. CASE pc' = "verdict" /\ UNCHANGED current
    BY <2>1, <2>2
  <2>3. CASE /\ pc' = "next"
             /\ jobStatus[current] \in {"success", "aborted"}
             /\ current' \in FirstOf(Later)
    <3>1. current' \in todo /\ current' > current
      BY <2>3 DEF FirstOf, Later
    <3>2. \A j \in todo : j < current' => j <= current
      BY <2>3 DEF FirstOf, Later, Job
    <3>3. Passed(current)
      BY <2>1, <2>3 DEF StatusOfCode
    <3>4. ASSUME NEW j \in todo, j < current' PROVE Passed(j)
      BY <3>2, <3>3, <3>4 DEF Job
    <3>5. ASSUME NEW j \in todo, j >= current' PROVE jobProc[j] = None
      BY <3>1, <3>5 DEF Job
    <3> QED
      BY <2>1, <2>3, <3>1, <3>4, <3>5 DEF Job
  <2> QED
    BY <1>7, <2>2, <2>3 DEF EndOfJob, ShouldProceed
<1>8. CASE FinalizersFail
  BY <1>8 DEF FinalizersFail, ConsiderBroken
<1>9. CASE ReachVerdict
  BY <1>9 DEF ReachVerdict, Later
<1>10. CASE ReleaseConcern
  BY <1>10 DEF ReleaseConcern
<1>11. CASE UpdateOwner
  BY <1>11 DEF UpdateOwner
<1>12. CASE UpdateOwnerFails
  BY <1>12 DEF UpdateOwnerFails, ConsiderBroken
<1>13. CASE Report
  BY <1>13 DEF Report
<1>14. CASE Terminate
  BY <1>14 DEF Terminate
<1>15. CASE TerminateFails
  BY <1>15 DEF TerminateFails
<1>16. ASSUME NEW r \in Request, CancelTask(r) \/ CancelSignals(r) \/ CancelGivesUp(r)
       PROVE  Order'
  BY <1>16 DEF CancelTask, CancelSignals, CancelGivesUp
<1>17. ASSUME NEW j \in Job, CancelJob(j) PROVE Order'
  BY <1>17 DEF CancelJob
<1>18. ASSUME NEW j \in Job, JobEnds(j) PROVE Order'
  BY <1>18 DEF JobEnds
<1>19. CASE UNCHANGED vars
  BY <1>19 DEF vars
<1> QED
  BY <1>1, <1>2, <1>3, <1>4, <1>5, <1>6, <1>7, <1>8, <1>9, <1>10, <1>11, <1>12, <1>13, <1>14,
     <1>15, <1>16, <1>17, <1>18, <1>19 DEF Next, RunnerStep, SignalStep, UserStep

(* Only the job the loop was about to start is started late.               *)
LEMMA LateJobStep ==
  ASSUME JobInv, [Next]_vars PROVE LateJob'
<1> USE DEF JobInv, LateJob, given, rows, processes, runtime, signals, None
<1>1. CASE Configure
  BY <1>1 DEF Configure, ConsiderBroken
<1>2. CASE Start
  BY <1>2 DEF Start
<1>3. CASE ExecuteJob
  BY <1>3 DEF ExecuteJob
<1>4. CASE PrepareFails
  BY <1>4 DEF PrepareFails, ConsiderBroken
<1>5. CASE RecordJob
  BY <1>5 DEF RecordJob
<1>6. CASE WaitFinished
  BY <1>6 DEF WaitFinished
<1>7. CASE EndOfJob
  BY <1>7 DEF EndOfJob, ShouldProceed
<1>8. CASE FinalizersFail
  BY <1>8 DEF FinalizersFail, ConsiderBroken
<1>9. CASE ReachVerdict
  BY <1>9 DEF ReachVerdict
<1>10. CASE ReleaseConcern
  BY <1>10 DEF ReleaseConcern
<1>11. CASE UpdateOwner
  BY <1>11 DEF UpdateOwner
<1>12. CASE UpdateOwnerFails
  BY <1>12 DEF UpdateOwnerFails, ConsiderBroken
<1>13. CASE Report
  BY <1>13 DEF Report
<1>14. CASE Terminate
  BY <1>14 DEF Terminate
<1>15. CASE TerminateFails
  BY <1>15 DEF TerminateFails
<1>16. ASSUME NEW r \in Request, CancelTask(r) \/ CancelSignals(r) \/ CancelGivesUp(r)
       PROVE  LateJob'
  BY <1>16 DEF CancelTask, CancelSignals, CancelGivesUp
<1>17. ASSUME NEW j \in Job, CancelJob(j) PROVE LateJob'
  BY <1>17 DEF CancelJob
<1>18. ASSUME NEW j \in Job, JobEnds(j) PROVE LateJob'
  BY <1>18 DEF JobEnds
<1>19. CASE UNCHANGED vars
  BY <1>19 DEF vars
<1> QED
  BY <1>1, <1>2, <1>3, <1>4, <1>5, <1>6, <1>7, <1>8, <1>9, <1>10, <1>11, <1>12, <1>13, <1>14,
     <1>15, <1>16, <1>17, <1>18, <1>19 DEF Next, RunnerStep, SignalStep, UserStep

(* Every step but the SIGTERM handler's own report keeps what the stages   *)
(* know.                                                                   *)
LEMMA VerdictStagesStep ==
  ASSUME JobInv, HandlerWorks, [Next]_vars PROVE VerdictStages'
<1> USE DEF JobInv, VerdictStages, InLoop, BeforeVerdict, Finishing, LoopEnded, Justified, Later,
            HandlerWorks, Order, TypeOK, given, rows, processes, runtime, signals, None
<1>1. CASE Configure
  BY <1>1 DEF Configure, ConsiderBroken, FirstOf
<1>2. CASE Start
  BY <1>2 DEF Start
<1>3. CASE ExecuteJob
  BY <1>3 DEF ExecuteJob
<1>4. CASE PrepareFails
  BY <1>4 DEF PrepareFails, ConsiderBroken
<1>5. CASE RecordJob
  BY <1>5 DEF RecordJob
<1>6. CASE WaitFinished
  BY <1>6 DEF WaitFinished, StatusOfCode
<1>7. CASE EndOfJob
  <2>1. /\ pc = "finalize" /\ result = "running" /\ ~considered
        /\ UNCHANGED <<todo, jobStatus, ownerState, concern, considered, termination>>
    BY <1>7 DEF EndOfJob
  <2>2. lastResult' = jobStatus[current] /\ lastResult' \in {"success", "failed", "aborted"}
    BY <1>7 DEF EndOfJob, StatusOfCode
  <2>3. result' = IF lastResult' = "failed" THEN "failed" ELSE "running"
    BY <1>7, <2>1, <2>2 DEF EndOfJob
  <2>4. CASE pc' = "next" /\ lastResult' # "failed"
    BY <2>1, <2>3, <2>4
  <2>5. CASE /\ pc' = "verdict" /\ UNCHANGED current
             /\ (lastResult' # "failed" => termination \/ Later = {})
    BY <2>1, <2>2, <2>3, <2>5
  <2> QED
    BY <1>7, <2>2, <2>4, <2>5 DEF EndOfJob, ShouldProceed
<1>8. CASE FinalizersFail
  BY <1>8 DEF FinalizersFail, ConsiderBroken
<1>9. CASE ReachVerdict
  BY <1>9 DEF ReachVerdict, TaskResult, Later
<1>10. CASE ReleaseConcern
  BY <1>10 DEF ReleaseConcern
<1>11. CASE UpdateOwner
  BY <1>11 DEF UpdateOwner, StateAfterTask
<1>12. CASE UpdateOwnerFails
  BY <1>12 DEF UpdateOwnerFails, ConsiderBroken, StateAfterTask
<1>13. CASE Report
  BY <1>13 DEF Report
<1>14. CASE Terminate
  BY <1>14 DEF Terminate
<1>15. CASE TerminateFails
  BY <1>15 DEF TerminateFails
<1>16. ASSUME NEW r \in Request, CancelTask(r) \/ CancelSignals(r) \/ CancelGivesUp(r)
       PROVE  VerdictStages'
  BY <1>16 DEF CancelTask, CancelSignals, CancelGivesUp
<1>17. ASSUME NEW j \in Job, CancelJob(j) PROVE VerdictStages'
  BY <1>17 DEF CancelJob
<1>18. ASSUME NEW j \in Job, JobEnds(j) PROVE VerdictStages'
  BY <1>18 DEF JobEnds
<1>19. CASE UNCHANGED vars
  BY <1>19 DEF vars
<1> QED
  BY <1>1, <1>2, <1>3, <1>4, <1>5, <1>6, <1>7, <1>8, <1>9, <1>10, <1>11, <1>12, <1>13, <1>14,
     <1>15, <1>16, <1>17, <1>18, <1>19 DEF Next, RunnerStep, SignalStep, UserStep

-----------------------------------------------------------------------------
(* The invariant holds of a first start, of a restart and of a start over. *)
LEMMA JobInvInit == Init => JobInv
<1> SUFFICES ASSUME Init PROVE JobInv
  OBVIOUS
<1>1. command \in {"start", "restart"} /\ taskStatus \in {"queued"} \cup FinalStatus
  BY DEF Init, FirstStart, StartAgain, Restart, FinalStatus
<1>2. jobStatus \in [Job -> {"created", "success", "failed", "aborted"}]
  BY DEF Init, FirstStart, StartAgain, Restart, PreviousRun
<1>3. 1 \in Job
  BY JobAssumption DEF Job
<1>4. TypeOK
  BY <1>1, <1>2, <1>3 DEF Init, TypeOK, None, FinalStatus
<1>5. OneJobAtATime
  BY <1>2 DEF Init, OneJobAtATime, None
<1>6. Order /\ Results /\ LateJob
  BY DEF Init, Order, InLoop, Results, Finishing, LateJob
<1>7. VerdictStages
  BY DEF Init, VerdictStages, BeforeVerdict, InLoop, Finishing
<1> QED
  BY <1>4, <1>5, <1>6, <1>7 DEF JobInv

(* The invariant is inductive.                                             *)
LEMMA JobInvStep == JobInv /\ [Next]_vars => JobInv'
<1> SUFFICES ASSUME JobInv, [Next]_vars PROVE JobInv'
  OBVIOUS
<1>1. HandlerWorks' => VerdictStages'
  <2>1. HandlerWorks' <=> HandlerWorks
    <3>1. failing' = failing
      BY DEF Next, RunnerStep, SignalStep, UserStep, Configure, Start, ExecuteJob, PrepareFails,
             RecordJob, WaitFinished, EndOfJob, FinalizersFail, ReachVerdict, ReleaseConcern,
             UpdateOwner, UpdateOwnerFails, Report, Terminate, TerminateFails, CancelTask,
             CancelSignals, CancelGivesUp, CancelJob, JobEnds, vars, given
    <3> QED
      BY <3>1 DEF HandlerWorks
  <2> QED
    BY <2>1, VerdictStagesStep
<1> QED
  BY <1>1, TypeOKStep, OneJobAtATimeStep, OrderStep, ResultsStep, LateJobStep DEF JobInv

(* The invariant holds in every state.                                     *)
LEMMA JobInvAlways == Spec => []JobInv
  BY JobInvInit, JobInvStep, PTL DEF Spec

(* The loop keeps to its list for any number of jobs: a job is started     *)
(* only when every earlier one of this run ended with a result that lets   *)
(* the task proceed, and at most one is started after a termination was    *)
(* requested (JobSequenceRunner.run).                                      *)
THEOREM JobsRunInTurn == Spec => []SequenceInv
<1>1. JobInv => SequenceInv
  <2> SUFFICES ASSUME JobInv PROVE SequenceInv
    OBVIOUS
  <2>1. JobsRunInOrder
    <3> SUFFICES ASSUME NEW i \in todo, NEW k \in todo, i < k, jobProc[k] # None PROVE Passed(i)
      BY DEF JobsRunInOrder, Passed
    <3>1. i \in Int /\ k \in Int /\ current \in Int
      BY DEF JobInv, TypeOK, Job
    <3>2. ~(k > current)
      BY DEF JobInv, Order
    <3> QED
      BY <3>1, <3>2 DEF JobInv, Order
  <2> QED
    BY <2>1 DEF JobInv, SequenceInv, LateJob, AtMostOneLateJob
<1> QED
  BY <1>1, JobInvAlways, PTL

(* The lock or the flag of the task is there as long as a process of one   *)
(* of its jobs is alive (run waits for the process before _finish deletes  *)
(* the concern).                                                           *)
THEOREM ConcernHeldByJobs == Spec => []ConcernCoversJobs
<1>1. JobInv => ConcernCoversJobs
  BY DEF JobInv, ConcernCoversJobs, OneJobAtATime, VerdictStages, BeforeVerdict, InLoop
<1> QED
  BY <1>1, JobInvAlways, PTL

(* A runner that is done leaves no job running, neither the process nor    *)
(* the row, whatever raised or was signalled on the way.                   *)
THEOREM NothingRunsAfterwards == Spec => []NothingLeftRunning
<1>1. JobInv => NothingLeftRunning
  BY DEF JobInv, NothingLeftRunning, OneJobAtATime
<1> QED
  BY <1>1, JobInvAlways, PTL

(* The status the runner leaves is accounted for by the rows of the jobs:  *)
(* a success by a last job that succeeded, a failure by a failed job, an   *)
(* abortion by the termination or by a last job that was aborted.          *)
THEOREM VerdictFollowsJobs == Spec => []VerdictIsJustified
<1>1. JobInv => VerdictIsJustified
  <2> SUFFICES ASSUME JobInv, HandlerWorks, pc = "exited" PROVE VerdictIsJustified
    BY DEF VerdictIsJustified
  <2>1. taskStatus = result /\ (IF considered THEN result = "broken" ELSE Justified)
    BY DEF JobInv, VerdictStages, Finishing
  <2>2. CASE considered
    BY <2>1, <2>2 DEF VerdictIsJustified
  <2>3. CASE ~considered
    <3>1. \A j \in todo : j \in Int /\ current \in Int
      BY DEF JobInv, TypeOK, Job
    <3>2. Later = {} => LastOf(todo) = {current}
      BY <2>1, <2>3, <3>1 DEF Later, LastOf, Justified
    <3>3. Later = {} => \A j \in todo \ {current} : Passed(j)
      BY <3>1 DEF Later, JobInv, Order
    <3>4. Later = {} => \A j \in todo \ {current} : jobStatus[j] \in {"success", "aborted"}
      BY <3>3 DEF Passed
    <3> QED
      BY <2>1, <2>3, <3>2, <3>4 DEF VerdictIsJustified, Justified
  <2> QED
    BY <2>2, <2>3
<1> QED
  BY <1>1, JobInvAlways, PTL

(* The owner is moved to the state after a success, or after a failure,    *)
(* exactly by a task that ends so (_update_owner_state and the status      *)
(* _finish writes come from one result).                                   *)
THEOREM OwnerStateFollowsStatus == Spec => []OwnerStateMatchesStatus
<1>1. JobInv => OwnerStateMatchesStatus
  BY DEF JobInv, OwnerStateMatchesStatus, VerdictStages, Finishing, Justified, None
<1> QED
  BY <1>1, JobInvAlways, PTL

-----------------------------------------------------------------------------
(* The runner as a process of the scheduler *)

(* The one process of the scheduler is this runner.                        *)
LEMMA TheProcess ==
  /\ Process[thePid] = [pc |-> Stage, task |-> theTask, verdict |-> Verdict]
  /\ Process[thePid].pc = Stage
  /\ Process[thePid].task = theTask
  /\ Process[thePid].verdict = Verdict
<1> DEFINE Record(p) == [pc |-> Stage, task |-> theTask, verdict |-> Verdict]
<1>1. [p \in {thePid} |-> Record(p)][thePid] = Record(thePid)
  <2> HIDE DEF Record
  <2> QED
    OBVIOUS
<1>2. Process[thePid] = Record(thePid)
  BY <1>1 DEF Process
<1>3. ASSUME NEW a, NEW b, NEW c
      PROVE /\ [pc |-> a, task |-> b, verdict |-> c].pc = a
            /\ [pc |-> a, task |-> b, verdict |-> c].task = b
            /\ [pc |-> a, task |-> b, verdict |-> c].verdict = c
  OBVIOUS
<1> QED
  BY <1>2, <1>3

(* What EXCEPT does to the record of a process.                            *)
LEMMA GotoRecord ==
  ASSUME NEW S, NEW T, NEW V, NEW r \in [pc : S, task : T, verdict : V], NEW x \in S
  PROVE  [r EXCEPT !.pc = x] = [pc |-> x, task |-> r.task, verdict |-> r.verdict]
OBVIOUS

(* What EXCEPT does to a function of one argument.                         *)
LEMMA OnlyEntry ==
  ASSUME NEW P, NEW r, NEW q
  PROVE  [[p \in {P} |-> r] EXCEPT ![P] = q] = [p \in {P} |-> q]
OBVIOUS

(* However the stage changes, TaskScheduler's Goto and GotoWith describe   *)
(* it.                                                                     *)
LEMMA ProcessSteps ==
  /\ Verdict' = Verdict => Scheduler!Goto(thePid, Stage')
  /\ Scheduler!GotoWith(thePid, Stage', Verdict')
<1> DEFINE S == {Stage, Stage'}
           T == {theTask}
           V == {Verdict, Verdict'}
           r == Process[thePid]
<1>1. /\ r \in [pc : S, task : T, verdict : V]
      /\ r.pc = Stage /\ r.task = theTask /\ r.verdict = Verdict
  BY TheProcess
<1> DEFINE q == [pc |-> Stage', task |-> theTask, verdict |-> Verdict']
<1>2. Process' = [p \in {thePid} |-> q]
  BY DEF Process
<1>3. Process = [p \in {thePid} |-> r]
  BY TheProcess DEF Process
<1> HIDE DEF S, T, V, r, q, Stage, Verdict
<1>4. \A x \in S, y \in V :
        /\ [r EXCEPT !.pc = x] = [pc |-> x, task |-> theTask, verdict |-> Verdict]
        /\ [r EXCEPT !.pc = x, !.verdict = y]
                           = [pc |-> x, task |-> theTask, verdict |-> y]
  <2> SUFFICES ASSUME NEW x \in S, NEW y \in V
               PROVE  /\ [r EXCEPT !.pc = x] = [pc |-> x, task |-> theTask, verdict |-> Verdict]
                      /\ [r EXCEPT !.pc = x, !.verdict = y]
                           = [pc |-> x, task |-> theTask, verdict |-> y]
    OBVIOUS
  <2>1. [r EXCEPT !.pc = x] = [pc |-> x, task |-> r.task, verdict |-> r.verdict]
    BY <1>1, GotoRecord, Zenon
  <2>2. [r EXCEPT !.pc = x, !.verdict = y] = [pc |-> x, task |-> r.task, verdict |-> y]
    <3> DEFINE z == [r EXCEPT !.pc = x]
    <3>1. z \in [pc : S, task : T, verdict : V] /\ z.pc = x /\ z.task = r.task
      BY <1>1, <2>1
    <3>2. [r EXCEPT !.pc = x, !.verdict = y] = [z EXCEPT !.verdict = y]
      OBVIOUS
    <3> HIDE DEF z
    <3>3. [z EXCEPT !.verdict = y] = [pc |-> z.pc, task |-> z.task, verdict |-> y]
      BY <3>1
    <3> QED
      BY <3>1, <3>2, <3>3, Zenon
  <2> QED
    BY <1>1, <2>1, <2>2, Zenon
<1>5. [r EXCEPT !.pc = Stage'] = [pc |-> Stage', task |-> theTask, verdict |-> Verdict]
  BY <1>4 DEF S, V
<1>6. [r EXCEPT !.pc = Stage', !.verdict = Verdict'] = q
  BY <1>4 DEF S, V, q
<1>7. Scheduler!GotoWith(thePid, Stage', Verdict')
  BY <1>2, <1>3, <1>6, OnlyEntry DEF Scheduler!GotoWith, r
<1>8. Verdict' = Verdict => Scheduler!Goto(thePid, Stage')
  BY <1>2, <1>3, <1>5, OnlyEntry DEF Scheduler!Goto, r, q
<1> QED
  BY <1>7, <1>8


(* The stages of the runner in TaskScheduler's terms.                      *)
LEMMA StageOf ==
  /\ pc \in {"configure", "start"} => Stage = "boot"
  /\ pc \in InLoop \cup {"verdict"} => Stage = "exec"
  /\ pc \in {"release", "update", "report"} => Stage = pc
  /\ pc = "exited" => Stage = "zombie"
  /\ Stage \in {"boot", "exec"} => Verdict = nobody
  /\ Stage \notin {"boot", "exec"} => Verdict = result
BY DEF Stage, Verdict, InLoop

(* A step of the runner, or the handling of a signal, is a step of the     *)
(* scheduler's runner or leaves the scheduler's state as it is.            *)
LEMMA Moves ==
  ASSUME JobInv, HandlerWorks, [Next]_vars, RunnerStep \/ SignalStep
  PROVE  Scheduler!RunnerStep(thePid) \/ UNCHANGED Scheduler!vars
<1> USE TheProcess, ProcessSteps, NobodyAssumption
    DEF InLoop, rows, None, Scheduler!RunnerStep, Scheduler!AtPc, Scheduler!MayBoot
<1>1. /\ pc' \in {"configure", "start"} => Stage' = "boot"
      /\ pc' \in InLoop \cup {"verdict"} => Stage' = "exec"
      /\ pc' \in {"release", "update", "report"} => Stage' = pc'
      /\ pc' = "exited" => Stage' = "zombie"
      /\ Stage' \in {"boot", "exec"} => Verdict' = nobody
      /\ Stage' \notin {"boot", "exec"} => Verdict' = result'
  BY DEF Stage, Verdict
<1>2. ASSUME UNCHANGED <<taskStatus, concern, Stage>>, Stage \in {"boot", "exec"} \/ UNCHANGED result
      PROVE  UNCHANGED Scheduler!vars
  BY <1>2 DEF Scheduler!vars, Scheduler!db, Scheduler!concerns, Process, Verdict
<1>3. UNCHANGED <<taskStatus, concern>> => UNCHANGED <<Scheduler!db, Scheduler!concerns>>
  BY DEF Scheduler!db, Scheduler!concerns
<1>4. /\ pc' = "release" => result' \in FinalStatus
      /\ pc = "update" /\ ~considered => result # "broken"
      /\ pc = "report" => taskResult = result
  BY ResultsStep DEF JobInv, VerdictStages, Results, Finishing, Justified
<1>5. CASE Configure
  <2>1. CASE todo' = {}
    <3>1. Stage = "boot" /\ Stage' = "release" /\ Verdict' = "broken"
      BY <1>5, <2>1, <1>1, StageOf DEF Configure, ConsiderBroken
    <3>2. Scheduler!RunnerStartFails(thePid)
      BY <1>5, <3>1, <1>3 DEF Configure, Scheduler!RunnerStartFails
    <3> QED
      BY <3>2
  <2>2. CASE todo' # {}
    BY <1>5, <2>2, <1>1, <1>2, StageOf DEF Configure
  <2> QED
    BY <2>1, <2>2
<1>6. CASE Start
  <2>1. Stage = "boot" /\ Stage' = "exec" /\ Verdict' = Verdict
    BY <1>6, <1>1, StageOf DEF Start
  <2>2. Scheduler!RunnerStart(thePid)
    BY <1>6, <2>1 DEF Start, Scheduler!RunnerStart, Scheduler!concerns
  <2> QED
    BY <2>2
<1>7. CASE ExecuteJob \/ RecordJob \/ WaitFinished \/ EndOfJob
  BY <1>7, <1>1, <1>2, StageOf DEF ExecuteJob, RecordJob, WaitFinished, EndOfJob
<1>8. CASE PrepareFails \/ FinalizersFail \/ ReachVerdict
  <2>1. Stage = "exec" /\ Stage' = "release" /\ Verdict' = result'
    BY <1>8, <1>1, StageOf DEF PrepareFails, FinalizersFail, ReachVerdict, ConsiderBroken
  <2>2. Scheduler!RunnerJobsDone(thePid, result')
    BY <1>8, <2>1, <1>3 DEF PrepareFails, FinalizersFail, ReachVerdict, Scheduler!RunnerJobsDone
  <2>3. result' \in {"success", "failed", "aborted", "broken"}
    BY <1>4, <1>8 DEF PrepareFails, FinalizersFail, ReachVerdict, ConsiderBroken, FinalStatus
  <2> QED
    BY <2>2, <2>3
<1>9. CASE ReleaseConcern
  <2>1. Stage = "release" /\ Stage' = "update" /\ Verdict' = Verdict
    BY <1>9, <1>1, StageOf DEF ReleaseConcern
  <2>2. Scheduler!RunnerRelease(thePid)
    BY <1>9, <2>1 DEF ReleaseConcern, Scheduler!RunnerRelease, Scheduler!DeleteTaskLockConcern,
       Scheduler!db
  <2> QED
    BY <2>2
<1>10. CASE UpdateOwner \/ (UpdateOwnerFails /\ considered)
  <2>1. Stage = "update" /\ Stage' = "report" /\ Verdict' = Verdict
    BY <1>10, <1>1, StageOf DEF UpdateOwner, UpdateOwnerFails
  <2>2. Scheduler!RunnerUpdateOwner(thePid)
    BY <1>10, <2>1, <1>3 DEF UpdateOwner, UpdateOwnerFails, Scheduler!RunnerUpdateOwner
  <2> QED
    BY <2>2
<1>11. CASE UpdateOwnerFails /\ ~considered
  <2>1. Stage = "update" /\ Stage' = "release" /\ Verdict' = "broken" /\ Verdict # "broken"
    BY <1>11, <1>1, <1>4, StageOf DEF UpdateOwnerFails, ConsiderBroken
  <2>2. Scheduler!RunnerUpdateFails(thePid)
    BY <1>11, <2>1, <1>3 DEF UpdateOwnerFails, Scheduler!RunnerUpdateFails
  <2> QED
    BY <2>2
<1>12. CASE Report
  <2>1. Stage = "report" /\ Stage' = "zombie" /\ Verdict' = Verdict /\ Verdict = taskStatus'
    BY <1>12, <1>1, <1>4, StageOf DEF Report
  <2>2. Scheduler!RunnerReport(thePid)
    BY <1>12, <2>1 DEF Report, Scheduler!RunnerReport, Scheduler!concerns
  <2> QED
    BY <2>2
<1>13. CASE SignalStep
  BY <1>13, <1>2 DEF SignalStep, Terminate, TerminateFails, runtime, HandlerWorks, Stage
<1> QED
  BY <1>5, <1>6, <1>7, <1>8, <1>9, <1>10, <1>11, <1>12, <1>13 DEF RunnerStep


(* The runner refines the runner process of TaskScheduler: what happens to *)
(* the rows, the concern and the process while jobs run, fail and are      *)
(* signalled is what TaskScheduler says a runner process does.             *)
THEOREM RunnerIsScheduled == Spec => RunnerRefines
<1>1. JobInv /\ [Next]_vars => [HandlerWorks => Scheduler!RunnerStep(thePid)]_(Scheduler!vars)
  <2> SUFFICES ASSUME JobInv, HandlerWorks, [Next]_vars
               PROVE  Scheduler!RunnerStep(thePid) \/ UNCHANGED Scheduler!vars
    OBVIOUS
  <2>1. CASE RunnerStep \/ SignalStep
    BY <2>1, Moves
  <2>2. CASE UserStep \/ (\E j \in Job : JobEnds(j)) \/ UNCHANGED vars
    <3>1. UNCHANGED <<taskStatus, concern, pc, result>>
      BY <2>2 DEF UserStep, JobEnds, CancelTask, CancelSignals, CancelGivesUp, CancelJob, rows,
         runtime, vars
    <3> QED
      BY <3>1 DEF Scheduler!vars, Scheduler!db, Scheduler!concerns, Process, Verdict, Stage
  <2> QED
    BY <2>1, <2>2 DEF Next
<1> QED
  BY <1>1, JobInvAlways, PTL DEF Spec, RunnerRefines

=============================================================================
