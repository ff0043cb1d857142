-------------------------- MODULE JobPipelineProofs --------------------------
(* Proofs about module JobPipeline, for all values of its constants.        *)
EXTENDS JobPipeline, TLAPS

-----------------------------------------------------------------------------
(* Every step leaves the messages well-formed.                             *)

LEMMA GotoType ==
  ASSUME TypeOK, NEW m \in Messages, NEW p \in Points, Goto(m, p)
  PROVE  task' \in [Messages -> TaskType]
BY DEF TypeOK, Goto, TaskType

LEMMA HoldType ==
  ASSUME TypeOK, NEW m \in Messages, NEW p \in Points, NEW v \in Verdicts \cup {"none"},
         Hold(m, p, v)
  PROVE  task' \in [Messages -> TaskType]
BY DEF TypeOK, Hold, TaskType

LEMMA DispatchType ==
  ASSUME TypeOK, NEW m \in Messages, NEW k \in Kinds, Dispatch(m, k)
  PROVE  task' \in [Messages -> TaskType]
BY DEF TypeOK, Dispatch, Queued, TaskType, Points

LEMMA RequeueType ==
  ASSUME TypeOK, NEW m \in Messages, ~Exhausted(m), Requeue(m)
  PROVE  task' \in [Messages -> TaskType]
BY BoundsAssumption DEF TypeOK, Requeue, Exhausted, TaskType, Points, MaxRetries

-----------------------------------------------------------------------------
LEMMA TypeInit == Init => TypeOK
<1> SUFFICES ASSUME Init PROVE TypeOK
  OBVIOUS
<1>1. task \in [Messages -> TaskType]
  BY DEF Init, Idle, TaskType, Points
<1>2. redeliveries \in 0..MaxRedeliveries /\ losses \in 0..MaxLosses
  BY BoundsAssumption DEF Init
<1>3. QED
  BY <1>1, <1>2 DEF Init, TypeOK, HostStates

LEMMA PreflightStepType ==
  ASSUME TypeOK, NEW m \in Messages, PreflightStep(m)
  PROVE  TypeOK'
<1>1. CASE PreflightNoProfile(m)
  BY <1>1, GotoType DEF TypeOK, PreflightNoProfile, At, Points, JobStatus, faultVars
<1>2. CASE PreflightStart(m)
  BY <1>2, GotoType
     DEF TypeOK, PreflightStart, At, WriteStatus, Points, JobStatus, faultVars
<1>3. CASE PreflightBaselineFails(m)
  BY <1>3, GotoType DEF TypeOK, PreflightBaselineFails, At, Points, faultVars
<1>4. CASE PreflightConfigure(m)
  BY <1>4, GotoType
     DEF TypeOK, PreflightConfigure, At, Points, HostStates, jobVars, faultVars
<1>5. CASE PreflightReboot(m)
  BY <1>5, GotoType
     DEF TypeOK, PreflightReboot, At, WriteStatus, Points, JobStatus, faultVars
<1>6. CASE PreflightScripts(m)
  BY <1>6, GotoType DEF TypeOK, PreflightScripts, At, Points, faultVars
<1>7. CASE PreflightForward(m)
  BY <1>7, DispatchType DEF TypeOK, PreflightForward, At, Points, Kinds, jobVars, faultVars
<1>8. QED
  BY <1>1, <1>2, <1>3, <1>4, <1>5, <1>6, <1>7 DEF PreflightStep

LEMMA SwInstallStepType ==
  ASSUME TypeOK, NEW m \in Messages, SwInstallStep(m)
  PROVE  TypeOK'
<1>1. CASE SwInstallStart(m)
  BY <1>1, GotoType
     DEF TypeOK, SwInstallStart, At, WriteStatus, Points, JobStatus, faultVars
<1>2. CASE SwInstallReboot(m)
  BY <1>2, GotoType
     DEF TypeOK, SwInstallReboot, At, WriteStatus, Points, JobStatus, faultVars
<1>3. CASE SwInstallSave(m)
  BY <1>3, GotoType DEF TypeOK, SwInstallSave, At, Points, faultVars
<1>4. CASE SwInstallJudge(m)
  BY <1>4, GotoType DEF TypeOK, SwInstallJudge, At, Points, jobVars, faultVars
<1>5. CASE SwInstallForward(m)
  BY <1>5, DispatchType DEF TypeOK, SwInstallForward, At, Points, Kinds, jobVars, faultVars
<1>6. QED
  BY <1>1, <1>2, <1>3, <1>4, <1>5 DEF SwInstallStep

LEMMA PostInstallStepType ==
  ASSUME TypeOK, NEW m \in Messages, PostInstallStep(m)
  PROVE  TypeOK'
<1>1. CASE PostInstallStart(m)
  BY <1>1, GotoType
     DEF TypeOK, PostInstallStart, At, WriteStatus, Points, JobStatus, faultVars
<1>2. CASE PostInstallTools(m)
  BY <1>2, GotoType DEF TypeOK, PostInstallTools, At, Points, HostStates, jobVars, faultVars
<1>3. CASE PostInstallScripts(m)
  BY <1>3, GotoType DEF TypeOK, PostInstallScripts, At, Points, faultVars
<1>4. CASE PostInstallForward(m)
  BY <1>4, DispatchType
     DEF TypeOK, PostInstallForward, At, Points, Kinds, jobVars, faultVars
<1>5. CASE CollectResults(m)
  BY <1>5, GotoType
     DEF TypeOK, CollectResults, At, WriteStatus, Points, JobStatus, faultVars
<1>6. CASE CollectForward(m)
  BY <1>6, DispatchType DEF TypeOK, CollectForward, At, Points, Kinds, jobVars, faultVars
<1>7. QED
  BY <1>1, <1>2, <1>3, <1>4, <1>5, <1>6 DEF PostInstallStep

LEMMA ValidateStepType ==
  ASSUME TypeOK, NEW m \in Messages, ValidateStep(m)
  PROVE  TypeOK'
<1>1. CASE ValidateEmpty(m)
  BY <1>1, GotoType DEF TypeOK, ValidateEmpty, At, WriteStatus, Points, JobStatus, faultVars
<1>2. CASE ValidateJudge(m)
  BY <1>2, HoldType DEF TypeOK, ValidateJudge, At, Points, jobVars, faultVars
<1>3. CASE ValidateSave(m)
  BY <1>3, GotoType DEF TypeOK, ValidateSave, At, Points, faultVars, TaskType, Verdicts
<1>4. CASE ValidateStatus(m)
  BY <1>4, GotoType
     DEF TypeOK, ValidateStatus, At, WriteStatus, StatusAfterVerdict, Points, JobStatus,
         faultVars, TaskType, Verdicts
<1>5. CASE ValidateForward(m)
  BY <1>5, DispatchType DEF TypeOK, ValidateForward, At, Points, Kinds, jobVars, faultVars
<1>6. QED
  BY <1>1, <1>2, <1>3, <1>4, <1>5 DEF ValidateStep

LEMMA CleanupStepType ==
  ASSUME TypeOK, NEW m \in Messages, CleanupStep(m)
  PROVE  TypeOK'
<1>1. CASE CleanupStart(m)
  BY <1>1, GotoType DEF TypeOK, CleanupStart, At, WriteStatus, Points, JobStatus, faultVars
<1>2. CASE CleanupSweep(m)
  BY <1>2, GotoType DEF TypeOK, CleanupSweep, At, Points, HostStates, jobVars, faultVars
<1>3. CASE CleanupStatus(m)
  BY <1>3, GotoType DEF TypeOK, CleanupStatus, At, WriteStatus, Points, JobStatus, faultVars
<1>4. CASE CleanupForward(m)
  BY <1>4, DispatchType DEF TypeOK, CleanupForward, At, Points, Kinds, jobVars, faultVars
<1>5. QED
  BY <1>1, <1>2, <1>3, <1>4 DEF CleanupStep

LEMMA ReportStepType ==
  ASSUME TypeOK, NEW m \in Messages, ReportStep(m)
  PROVE  TypeOK'
<1>1. CASE ReportRender(m)
  BY <1>1, HoldType
     DEF TypeOK, ReportRender, At, Points, jobVars, faultVars, TaskType, Verdicts
<1>2. CASE ReportRecord(m)
  BY <1>2, GotoType DEF TypeOK, ReportRecord, At, Points, faultVars
<1>3. CASE ReportFinish(m)
  BY <1>3, GotoType
     DEF TypeOK, ReportFinish, At, WriteStatus, FinalStatus, Points, JobStatus,
         faultVars, TaskType, Verdicts
<1>4. QED
  BY <1>1, <1>2, <1>3 DEF ReportStep

LEMMA SharedStepType ==
  ASSUME TypeOK, NEW m \in Messages, SharedStep(m)
  PROVE  TypeOK'
<1>1. CASE RebootTimeout(m)
  BY <1>1, GotoType DEF TypeOK, RebootTimeout, Points, jobVars, faultVars
<1>2. CASE MarkFailed(m)
  BY <1>2, GotoType DEF TypeOK, MarkFailed, WriteStatus, Points, JobStatus, faultVars
<1>3. CASE DispatchCleanup(m)
  BY <1>3, DispatchType DEF TypeOK, DispatchCleanup, Points, Kinds, jobVars, faultVars
<1>4. CASE Close(m)
  BY <1>4, GotoType DEF TypeOK, Close, Points, jobVars, faultVars
<1>5. CASE Ack(m)
  BY <1>5 DEF TypeOK, Ack, Idle, TaskType, Points, jobVars, faultVars
<1>6. QED
  BY <1>1, <1>2, <1>3, <1>4, <1>5 DEF SharedStep

LEMMA HandlerStepType ==
  ASSUME TypeOK, NEW m \in Messages, HandlerStep(m)
  PROVE  TypeOK'
<1>1. CASE Retry(m)
  BY <1>1, RequeueType DEF TypeOK, Retry, CanRaise, Retrying, Points, jobVars, faultVars
<1>2. CASE Exhaust(m)
  BY <1>2, GotoType DEF TypeOK, Exhaust, CanRaise, Retrying, Points, JobStatus, faultVars
<1>3. CASE CollectRaise(m)
  BY <1>3, GotoType DEF TypeOK, CollectRaise, CanRaise, Points, jobVars, faultVars
<1>4. CASE CleanupGiveUp(m)
  BY <1>4, GotoType DEF TypeOK, CleanupGiveUp, CanRaise, Points, JobStatus, faultVars
<1>5. CASE ReportRaise(m)
  BY <1>5, GotoType, RequeueType
     DEF TypeOK, ReportRaise, CanRaise, Points, JobStatus, faultVars
<1>6. CASE CollectGone(m)
  BY <1>6, GotoType DEF TypeOK, CollectGone, At, Points, jobVars, faultVars
<1>7. QED
  BY <1>1, <1>2, <1>3, <1>4, <1>5, <1>6 DEF HandlerStep

LEMMA FaultStepType ==
  ASSUME TypeOK, NEW m \in Messages, FaultStep(m)
  PROVE  TypeOK'
<1>1. CASE WorkerLost(m)
  <2>1. task' \in [Messages -> TaskType]
    BY <1>1, HoldType DEF WorkerLost, Points
  <2>2. redeliveries' \in 0..MaxRedeliveries
    BY <1>1, BoundsAssumption DEF TypeOK, WorkerLost
  <2>3. QED
    BY <1>1, <2>1, <2>2 DEF TypeOK, WorkerLost, jobVars
<1>2. CASE VisibilityTimeout(m)
  BY <1>2, BoundsAssumption DEF TypeOK, VisibilityTimeout, Queued, TaskType, Points, jobVars
<1>3. CASE TaskDies(m)
  BY <1>3, GotoType, BoundsAssumption DEF TypeOK, TaskDies, Points, TaskType, jobVars
<1>4. QED
  BY <1>1, <1>2, <1>3 DEF FaultStep

LEMMA ApiStepType ==
  ASSUME TypeOK, ApiStep
  PROVE  TypeOK'
<1>1. CASE CreateJob
  BY <1>1 DEF TypeOK, CreateJob, Queued, TaskType, Points, Kinds, jobVars, faultVars
<1>2. CASE CommitJob
  BY <1>2 DEF TypeOK, CommitJob, JobStatus, faultVars
<1>3. CASE RollbackJob
  BY <1>3 DEF TypeOK, RollbackJob, jobVars, faultVars
<1>4. CASE DeleteJob
  BY <1>4 DEF TypeOK, DeleteJob, faultVars
<1>5. QED
  BY <1>1, <1>2, <1>3, <1>4 DEF ApiStep

LEMMA TypeStep ==
  ASSUME TypeOK, Next
  PROVE  TypeOK'
BY ApiStepType, PreflightStepType, SwInstallStepType, PostInstallStepType,
   ValidateStepType, CleanupStepType, ReportStepType, SharedStepType,
   HandlerStepType, FaultStepType
   DEF Next, TaskStep

\* The variables always have the shape the handlers rely on: no status outside
\* the enumeration, no fourth retry, no message at a point no handler has.
THEOREM TypeCorrect == Spec => []TypeOK
<1>1. TypeOK /\ [Next]_vars => TypeOK'
  BY TypeStep DEF vars, TypeOK
<1>2. QED
  BY TypeInit, <1>1, PTL DEF Spec

-----------------------------------------------------------------------------
(* A deleted job stays deleted, however often its messages are delivered.   *)

LEMMA DeletedStep ==
  ASSUME NoResurrection, Next
  PROVE  NoResurrection'
<1>1. CASE ApiStep
  BY <1>1 DEF NoResurrection, ApiStep, CreateJob, CommitJob, RollbackJob, DeleteJob, Exists,
     jobVars
<1>2. ASSUME NEW m \in Messages, TaskStep(m) PROVE NoResurrection'
  <2>1. CASE PreflightStep(m)
    BY <1>2, <2>1 DEF NoResurrection, PreflightStep, PreflightNoProfile, PreflightStart,
       PreflightBaselineFails, PreflightConfigure, PreflightReboot, PreflightScripts,
       PreflightForward, Exists, WriteStatus, jobVars
  <2>2. CASE SwInstallStep(m)
    BY <1>2, <2>2 DEF NoResurrection, SwInstallStep, SwInstallStart, SwInstallReboot,
       SwInstallSave, SwInstallJudge, SwInstallForward, Exists, WriteStatus, jobVars
  <2>3. CASE PostInstallStep(m)
    BY <1>2, <2>3 DEF NoResurrection, PostInstallStep, PostInstallStart, PostInstallTools,
       PostInstallScripts, PostInstallForward, CollectResults, CollectForward,
       Exists, WriteStatus, jobVars
  <2>4. CASE ValidateStep(m)
    BY <1>2, <2>4
       DEF NoResurrection, ValidateStep, ValidateEmpty, ValidateJudge, ValidateSave,
       ValidateStatus, ValidateForward, Exists, WriteStatus, jobVars
  <2>5. CASE CleanupStep(m)
    BY <1>2, <2>5
       DEF NoResurrection, CleanupStep, CleanupStart, CleanupSweep, CleanupStatus,
       CleanupForward, Exists, WriteStatus, jobVars
  <2>6. CASE ReportStep(m)
    BY <1>2, <2>6
       DEF NoResurrection, ReportStep, ReportRender, ReportRecord, ReportFinish, Exists,
       WriteStatus, jobVars
  <2>7. CASE SharedStep(m)
    BY <1>2, <2>7
       DEF NoResurrection, SharedStep, RebootTimeout, MarkFailed, DispatchCleanup,
           Close,
       Ack, Exists, WriteStatus, jobVars
  <2>8. CASE HandlerStep(m)
    BY <1>2, <2>8
       DEF NoResurrection, HandlerStep, Retry, Exhaust, CollectRaise, CleanupGiveUp,
       ReportRaise, CollectGone, Exists, WriteStatus, jobVars
  <2>9. QED
    BY <1>2, <2>1, <2>2, <2>3, <2>4, <2>5, <2>6, <2>7, <2>8 DEF TaskStep
<1>3. ASSUME NEW m \in Messages, FaultStep(m) PROVE NoResurrection'
  BY <1>3 DEF NoResurrection, FaultStep, WorkerLost, VisibilityTimeout, TaskDies, jobVars
<1>4. QED
  BY <1>1, <1>2, <1>3 DEF Next

\* A task still in flight never brings a deleted job, or part of it, back; for any
\* number of duplicates and losses.
THEOREM DeletedStaysDeleted == Spec => []NoResurrection
<1>1. Init => NoResurrection
  BY DEF Init, NoResurrection
<1>2. NoResurrection /\ [Next]_vars => NoResurrection'
  BY DeletedStep DEF vars, NoResurrection
<1>3. QED
  BY <1>1, <1>2, PTL DEF Spec

-----------------------------------------------------------------------------
(* Single delivery: at most one task of the job is live, and what follows.  *)

\* What IInv says beyond the types and deletion.
IRest == SingleToken /\ Fresh /\ SweptSoFar /\ ReportInHand /\ PassMeansOver /\ PassIsEarned

\* The step works on message m and on nothing else in the broker.
OnlyOn(m) == \A n \in Messages \ {m} : task'[n] = task[n]

LEMMA GotoEffect ==
  ASSUME TypeOK, NEW m \in Messages, NEW p, Goto(m, p)
  PROVE  /\ OnlyOn(m)
         /\ task'[m].pc = p /\ task'[m].kind = task[m].kind /\ task'[m].val = task[m].val
BY DEF TypeOK, TaskType, Goto, OnlyOn

LEMMA HoldEffect ==
  ASSUME TypeOK, NEW m \in Messages, NEW p, NEW v, Hold(m, p, v)
  PROVE  /\ OnlyOn(m)
         /\ task'[m].pc = p /\ task'[m].kind = task[m].kind /\ task'[m].val = v
BY DEF TypeOK, TaskType, Hold, OnlyOn

LEMMA RequeueEffect ==
  ASSUME TypeOK, NEW m \in Messages, Requeue(m)
  PROVE  /\ OnlyOn(m)
         /\ task'[m].pc = "queued" /\ task'[m].kind = task[m].kind
BY DEF TypeOK, TaskType, Requeue, OnlyOn

\* The sender is done and exactly one message is new.
LEMMA DispatchEffect ==
  ASSUME TypeOK, NEW m \in Messages, NEW k, Live(m), Dispatch(m, k)
  PROVE  /\ task'[m].pc = "acking"
         /\ \E n \in Messages \ {m} :
              /\ task'[n].pc = "queued" /\ task'[n].kind = k
              /\ \A o \in Messages \ {m, n} : task'[o] = task[o]
<1>1. PICK n \in Messages :
        /\ task[n].pc = "free"
        /\ task' = [task EXCEPT ![m].pc = "acking", ![n] = Queued(k)]
  BY DEF Dispatch
<1>2. n # m
  BY <1>1 DEF Live
<1>3. task'[m].pc = "acking"
  BY <1>1, <1>2 DEF TypeOK, TaskType
<1>4. task'[n].pc = "queued" /\ task'[n].kind = k
  BY <1>1, <1>2 DEF TypeOK, Queued
<1>5. \A o \in Messages \ {m, n} : task'[o] = task[o]
  BY <1>1, <1>2 DEF TypeOK
<1>6. QED
  BY <1>2, <1>3, <1>4, <1>5

\* The only live message stays the only one.
LEMMA StillAlone ==
  ASSUME SingleToken, NEW m \in Messages, Live(m), OnlyOn(m)
  PROVE  \A n \in Messages \ {m} : ~Live(n) /\ ~Live(n)'
BY DEF SingleToken, OnlyOn, Live

\* A job is shown as passed only by a report that is about to be closed.
LEMMA NotPassedYet ==
  ASSUME IInv, NEW m \in Messages, Live(m), task[m].pc # "closing"
  PROVE  status # "pass"
BY DEF IInv, PassMeansOver

LEMMA ApiNotOpen ==
  ASSUME IInv, NEW m \in Messages, Live(m)
  PROVE  api # "open"
BY DEF IInv, Fresh, Quiet

\* A step on the one live message is right when it is right for that message.
LEMMA OneMessageStep ==
  ASSUME IInv, NEW m \in Messages, Live(m), OnlyOn(m), api' = api,
         (AfterSweep(m) => HostSwept)', HoldsVerdict(m)',
         status' # "pass" \/ (PassIsEarned' /\ 
           (Live(m)' => task'[m].kind = "generate_report" /\ task'[m].pc = "closing"))
  PROVE  IRest'
<1>1. \A n \in Messages \ {m} : ~Live(n)'
  BY StillAlone DEF IInv
<1>2. api # "open"
  BY ApiNotOpen
<1>3. SingleToken' /\ Fresh' /\ PassMeansOver' /\ PassIsEarned'
  BY <1>1, <1>2 DEF SingleToken, Fresh, PassMeansOver, PassIsEarned
<1>4. SweptSoFar'
  BY <1>1 DEF SweptSoFar, AfterSweep
<1>5. ReportInHand'
  BY <1>1 DEF ReportInHand, HoldsVerdict, Live
<1>6. QED
  BY <1>3, <1>4, <1>5 DEF IRest

\* A handler of the inspection proper moves on, is retried or ends.
LEMMA InspectionStep ==
  ASSUME IInv, NEW m \in Messages, Live(m), OnlyOn(m), api' = api,
         task[m].kind \notin {"run_cleanup", "generate_report"},
         task'[m].kind = task[m].kind, status' = status \/ status' # "pass"
  PROVE  IRest'
<1>1. status' # "pass"
  BY DEF IInv, PassMeansOver
<1>2. QED
  BY <1>1, OneMessageStep DEF AfterSweep, HoldsVerdict

\* A handler dispatches its successor.
LEMMA DispatchStep ==
  ASSUME IInv, NEW m \in Messages, NEW k, Live(m), Dispatch(m, k),
         task[m].pc # "closing", k = "generate_report" => HostSwept,
         UNCHANGED <<api, status, verdictFile, reportRow, host, gaveUp>>
  PROVE  IRest'
<1>1. PICK n \in Messages \ {m} :
        /\ task'[n].pc = "queued" /\ task'[n].kind = k
        /\ \A o \in Messages \ {m, n} : task'[o] = task[o]
  BY DispatchEffect DEF IInv
<1>2. task'[m].pc = "acking"
  BY DispatchEffect DEF IInv
<1>3. \A o \in Messages \ {n} : ~Live(o)'
  BY <1>1, <1>2 DEF IInv, SingleToken, Live
<1>4. status' # "pass"
  BY NotPassedYet
<1>5. api # "open"
  BY ApiNotOpen
<1>6. SingleToken' /\ Fresh' /\ PassMeansOver' /\ PassIsEarned'
  BY <1>3, <1>4, <1>5 DEF SingleToken, Fresh, PassMeansOver, PassIsEarned
<1>7. SweptSoFar'
  BY <1>1, <1>3 DEF SweptSoFar, AfterSweep, HostSwept
<1>8. ReportInHand'
  BY <1>1, <1>2, <1>3 DEF ReportInHand, HoldsVerdict, Live
<1>9. QED
  BY <1>6, <1>7, <1>8 DEF IRest

\* Confirming a finished message disturbs nothing.
LEMMA DoneIsIdle ==
  ASSUME IInv, NEW m \in Messages, ~Live(m), OnlyOn(m), task'[m].pc = "free",
         UNCHANGED <<api, status, verdictFile, reportRow, host, gaveUp>>
  PROVE  IRest'
BY DEF IInv, IRest, OnlyOn, SingleToken, Fresh, Quiet, SweptSoFar, AfterSweep, HostSwept,
       ReportInHand, HoldsVerdict, PassMeansOver, PassIsEarned, Live

LEMMA PreflightStepInv ==
  ASSUME IInv, NEW m \in Messages, PreflightStep(m)
  PROVE  IRest'
<1>0. TypeOK
  BY DEF IInv
<1>1. CASE PreflightNoProfile(m)
  BY <1>0, <1>1, GotoEffect, InspectionStep DEF PreflightNoProfile, At, Live
<1>2. CASE PreflightStart(m)
  BY <1>0, <1>2, GotoEffect, InspectionStep DEF PreflightStart, At, WriteStatus, Live
<1>3. CASE PreflightBaselineFails(m)
  BY <1>0, <1>3, GotoEffect, InspectionStep DEF PreflightBaselineFails, At, Live
<1>4. CASE PreflightConfigure(m)
  BY <1>0, <1>4, GotoEffect, InspectionStep DEF PreflightConfigure, At, Live, jobVars
<1>5. CASE PreflightReboot(m)
  BY <1>0, <1>5, GotoEffect, InspectionStep DEF PreflightReboot, At, WriteStatus, Live
<1>6. CASE PreflightScripts(m)
  BY <1>0, <1>6, GotoEffect, InspectionStep DEF PreflightScripts, At, Live
<1>7. CASE PreflightForward(m)
  BY <1>0, <1>7, DispatchStep DEF PreflightForward, At, Live, jobVars
<1>8. QED
  BY <1>1, <1>2, <1>3, <1>4, <1>5, <1>6, <1>7 DEF PreflightStep

LEMMA SwInstallStepInv ==
  ASSUME IInv, NEW m \in Messages, SwInstallStep(m)
  PROVE  IRest'
<1>0. TypeOK
  BY DEF IInv
<1>1. CASE SwInstallStart(m)
  BY <1>0, <1>1, GotoEffect, InspectionStep DEF SwInstallStart, At, WriteStatus, Live
<1>2. CASE SwInstallReboot(m)
  BY <1>0, <1>2, GotoEffect, InspectionStep DEF SwInstallReboot, At, WriteStatus, Live
<1>3. CASE SwInstallSave(m)
  BY <1>0, <1>3, GotoEffect, InspectionStep DEF SwInstallSave, At, Live
<1>4. CASE SwInstallJudge(m)
  BY <1>0, <1>4, GotoEffect, InspectionStep DEF SwInstallJudge, At, Live, jobVars
<1>5. CASE SwInstallForward(m)
  BY <1>0, <1>5, DispatchStep DEF SwInstallForward, At, Live, jobVars
<1>6. QED
  BY <1>1, <1>2, <1>3, <1>4, <1>5 DEF SwInstallStep

LEMMA PostInstallStepInv ==
  ASSUME IInv, NEW m \in Messages, PostInstallStep(m)
  PROVE  IRest'
<1>0. TypeOK
  BY DEF IInv
<1>1. CASE PostInstallStart(m)
  BY <1>0, <1>1, GotoEffect, InspectionStep DEF PostInstallStart, At, WriteStatus, Live
<1>2. CASE PostInstallTools(m)
  BY <1>0, <1>2, GotoEffect, InspectionStep DEF PostInstallTools, At, Live, jobVars
<1>3. CASE PostInstallScripts(m)
  BY <1>0, <1>3, GotoEffect, InspectionStep DEF PostInstallScripts, At, Live
<1>4. CASE PostInstallForward(m)
  BY <1>0, <1>4, DispatchStep DEF PostInstallForward, At, Live, jobVars
<1>5. CASE CollectResults(m)
  BY <1>0, <1>5, GotoEffect, InspectionStep DEF CollectResults, At, WriteStatus, Live
<1>6. CASE CollectForward(m)
  BY <1>0, <1>6, DispatchStep DEF CollectForward, At, Live, jobVars
<1>7. QED
  BY <1>1, <1>2, <1>3, <1>4, <1>5, <1>6 DEF PostInstallStep

LEMMA ValidateStepInv ==
  ASSUME IInv, NEW m \in Messages, ValidateStep(m)
  PROVE  IRest'
<1>0. TypeOK
  BY DEF IInv
<1>1. CASE ValidateEmpty(m)
  BY <1>0, <1>1, GotoEffect, InspectionStep DEF ValidateEmpty, At, WriteStatus, Live
<1>2. CASE ValidateJudge(m)
  BY <1>0, <1>2, HoldEffect, InspectionStep DEF ValidateJudge, At, Live, jobVars
<1>3. CASE ValidateSave(m)
  BY <1>0, <1>3, GotoEffect, InspectionStep DEF ValidateSave, At, Live
<1>4. CASE ValidateStatus(m)
  BY <1>0, <1>4, GotoEffect, InspectionStep
     DEF ValidateStatus, At, WriteStatus, StatusAfterVerdict, Live
<1>5. CASE ValidateForward(m)
  BY <1>0, <1>5, DispatchStep DEF ValidateForward, At, Live, jobVars
<1>6. QED
  BY <1>1, <1>2, <1>3, <1>4, <1>5 DEF ValidateStep

LEMMA CleanupStepInv ==
  ASSUME IInv, NEW m \in Messages, CleanupStep(m)
  PROVE  IRest'
<1>0. TypeOK
  BY DEF IInv
<1>1. CASE CleanupStart(m)
  BY <1>0, <1>1, GotoEffect, OneMessageStep, NotPassedYet
     DEF CleanupStart, At, WriteStatus, Live, AfterSweep, HoldsVerdict, HostSwept, IInv,
         SweptSoFar, ReportInHand
<1>2. CASE CleanupSweep(m)
  BY <1>0, <1>2, GotoEffect, OneMessageStep, NotPassedYet
     DEF CleanupSweep, At, Live, AfterSweep, HoldsVerdict, HostSwept, IInv, SweptSoFar,
         ReportInHand, jobVars
<1>3. CASE CleanupStatus(m)
  BY <1>0, <1>3, GotoEffect, OneMessageStep, NotPassedYet
     DEF CleanupStatus, At, WriteStatus, Live, AfterSweep, HoldsVerdict, HostSwept,
         IInv, SweptSoFar, ReportInHand
<1>4. CASE CleanupForward(m)
  BY <1>0, <1>4, DispatchStep
     DEF CleanupForward, At, Live, IInv, SweptSoFar, AfterSweep, jobVars
<1>5. QED
  BY <1>1, <1>2, <1>3, <1>4 DEF CleanupStep

LEMMA ReportStepInv ==
  ASSUME IInv, NEW m \in Messages, ReportStep(m)
  PROVE  IRest'
<1>0. TypeOK
  BY DEF IInv
<1>1. CASE ReportRender(m)
  BY <1>0, <1>1, HoldEffect, OneMessageStep, NotPassedYet
     DEF ReportRender, At, Live, AfterSweep, HoldsVerdict, HostSwept, IInv, SweptSoFar,
         ReportInHand, jobVars
<1>2. CASE ReportRecord(m)
  BY <1>0, <1>2, GotoEffect, OneMessageStep, NotPassedYet
     DEF ReportRecord, At, Live, AfterSweep, HoldsVerdict, HostSwept, IInv, SweptSoFar,
         ReportInHand
<1>3. CASE ReportFinish(m)
  BY <1>0, <1>3, GotoEffect, OneMessageStep, NotPassedYet
     DEF ReportFinish, At, WriteStatus, Live, AfterSweep, HoldsVerdict, HostSwept, IInv,
         SweptSoFar,
         ReportInHand, FinalStatus, PassIsEarned, NoResurrection, Exists
<1>4. QED
  BY <1>1, <1>2, <1>3 DEF ReportStep

LEMMA SharedStepInv ==
  ASSUME IInv, NEW m \in Messages, SharedStep(m)
  PROVE  IRest'
<1>0. TypeOK
  BY DEF IInv
<1>1. CASE RebootTimeout(m)
  BY <1>0, <1>1, GotoEffect, OneMessageStep, NotPassedYet
     DEF RebootTimeout, Live, AfterSweep, HoldsVerdict, HostSwept, IInv, SweptSoFar,
         ReportInHand, jobVars
<1>2. CASE MarkFailed(m)
  BY <1>0, <1>2, GotoEffect, OneMessageStep, NotPassedYet
     DEF MarkFailed, WriteStatus, Live, AfterSweep, HoldsVerdict, HostSwept, IInv,
         SweptSoFar, ReportInHand
<1>3. CASE DispatchCleanup(m)
  BY <1>0, <1>3, DispatchStep DEF DispatchCleanup, Live, jobVars
<1>4. CASE Close(m)
  BY <1>0, <1>4, GotoEffect, OneMessageStep, NotPassedYet
     DEF Close, Live, AfterSweep, PassIsEarned, HoldsVerdict, HostSwept, IInv,
         SweptSoFar, ReportInHand, jobVars
<1>5. CASE Ack(m)
  BY <1>0, <1>5, DoneIsIdle DEF Ack, Live, Idle, OnlyOn, TypeOK, jobVars
<1>6. QED
  BY <1>1, <1>2, <1>3, <1>4, <1>5 DEF SharedStep

LEMMA HandlerStepInv ==
  ASSUME IInv, NEW m \in Messages, HandlerStep(m)
  PROVE  IRest'
<1>0. TypeOK
  BY DEF IInv
<1>1. CASE Retry(m)
  BY <1>0, <1>1, RequeueEffect, OneMessageStep
     DEF Retry, CanRaise, Retrying, Live, PassMeansOver, AfterSweep, HoldsVerdict,
         HostSwept, IInv, SweptSoFar, ReportInHand, jobVars
<1>2. CASE Exhaust(m)
  BY <1>0, <1>2, GotoEffect, InspectionStep DEF Exhaust, CanRaise, Retrying, Live
<1>3. CASE CollectRaise(m)
  BY <1>0, <1>3, GotoEffect, InspectionStep DEF CollectRaise, CanRaise, Live, jobVars
<1>4. CASE CleanupGiveUp(m)
  BY <1>0, <1>4, GotoEffect, OneMessageStep, NotPassedYet
     DEF CleanupGiveUp, CanRaise, Live, Exists, AfterSweep, HoldsVerdict, HostSwept, IInv,
         SweptSoFar, ReportInHand
<1>5. CASE ReportRaise(m)
  BY <1>0, <1>5, GotoEffect, RequeueEffect, OneMessageStep, NotPassedYet
     DEF ReportRaise, CanRaise, Live, Exists, AfterSweep, HoldsVerdict, HostSwept, IInv,
         SweptSoFar, ReportInHand
<1>6. CASE CollectGone(m)
  BY <1>0, <1>6, GotoEffect, InspectionStep DEF CollectGone, At, Live, jobVars
<1>7. QED
  BY <1>1, <1>2, <1>3, <1>4, <1>5, <1>6 DEF HandlerStep

LEMMA FaultStepInv ==
  ASSUME IInv, MaxRedeliveries = 0, NEW m \in Messages, FaultStep(m)
  PROVE  IRest'
<1>1. TypeOK
  BY DEF IInv
<1>2. redeliveries = 0
  BY <1>1 DEF TypeOK
<1>3. ~WorkerLost(m) /\ ~VisibilityTimeout(m)
  BY <1>2 DEF WorkerLost, VisibilityTimeout
<1>4. CASE TaskDies(m)
  BY <1>1, <1>4, GotoEffect, OneMessageStep
     DEF TaskDies, Live, AfterSweep, HoldsVerdict, PassIsEarned, IInv, jobVars
<1>5. QED
  BY <1>3, <1>4 DEF FaultStep

LEMMA ApiStepInv ==
  ASSUME IInv, ApiStep
  PROVE  IRest'
<1>0. TypeOK
  BY DEF IInv
<1>1. CASE CreateJob
  <2>1. PICK n \in Messages : task' = [task EXCEPT ![n] = Queued("run_preflight")]
    BY <1>1 DEF CreateJob
  <2>2. task'[n].pc = "queued" /\ task'[n].kind = "run_preflight" /\ OnlyOn(n)
    BY <1>0, <2>1 DEF TypeOK, Queued, OnlyOn
  <2>3. status # "pass" /\ \A o \in Messages : ~Live(o)
    BY <1>1 DEF CreateJob, IInv, Fresh, Quiet
  <2>4. \A o \in Messages \ {n} : ~Live(o)'
    BY <2>2, <2>3 DEF OnlyOn, Live
  <2>5. QED
    BY <1>1, <2>2, <2>3, <2>4
       DEF CreateJob, IRest, SingleToken, Fresh, SweptSoFar, AfterSweep, ReportInHand,
           HoldsVerdict, Live, PassMeansOver, PassIsEarned, jobVars
<1>2. CASE CommitJob
  BY <1>2 DEF CommitJob, IInv, IRest, SingleToken, Fresh, SweptSoFar, AfterSweep, HostSwept,
              ReportInHand, HoldsVerdict, Live, PassMeansOver, PassIsEarned
<1>3. CASE RollbackJob
  BY <1>3
     DEF RollbackJob, IInv, IRest, SingleToken, Fresh, SweptSoFar, AfterSweep,
         HostSwept,
              ReportInHand, HoldsVerdict, Live, PassMeansOver, PassIsEarned, jobVars
<1>4. CASE DeleteJob
  BY <1>4 DEF DeleteJob, IInv, IRest, SingleToken, Fresh, SweptSoFar, AfterSweep, HostSwept,
              ReportInHand, HoldsVerdict, Live, PassMeansOver, PassIsEarned
<1>5. QED
  BY <1>1, <1>2, <1>3, <1>4 DEF ApiStep

LEMMA InvInit == Init => IInv
<1> SUFFICES ASSUME Init PROVE IInv
  OBVIOUS
<1>1. \A m \in Messages : task[m].pc = "free" /\ task[m].kind = "none"
  BY DEF Init, Idle
<1>2. QED
  BY <1>1, TypeInit
     DEF Init, IInv, SingleToken, NoResurrection, Fresh, Quiet, Live, SweptSoFar,
         AfterSweep,
     ReportInHand, HoldsVerdict, PassMeansOver, PassIsEarned

LEMMA InvStep ==
  ASSUME IInv, MaxRedeliveries = 0, [Next]_vars
  PROVE  IInv'
<1>1. CASE UNCHANGED vars
  BY <1>1
     DEF vars, IInv, TypeOK, SingleToken, NoResurrection, Fresh, Quiet, Live,
         SweptSoFar, AfterSweep,
     HostSwept, ReportInHand, HoldsVerdict, PassMeansOver, PassIsEarned
<1>2. CASE Next
  <2>1. TypeOK'
    BY <1>2, TypeStep DEF IInv
  <2>2. IRest'
    BY <1>2, ApiStepInv, PreflightStepInv, SwInstallStepInv, PostInstallStepInv,
       ValidateStepInv, CleanupStepInv, ReportStepInv, SharedStepInv, HandlerStepInv,
       FaultStepInv
       DEF Next, TaskStep
  <2>3. NoResurrection'
    BY <1>2, DeletedStep DEF IInv
  <2>4. QED
    BY <2>1, <2>2, <2>3 DEF IInv, IRest
<1>3. QED
  BY <1>1, <1>2

\* The invariant of single delivery.
THEOREM Inductive == ASSUME MaxRedeliveries = 0 PROVE Spec => []IInv
<1>1. IInv /\ [Next]_vars => IInv'
  BY InvStep
<1>2. QED
  BY InvInit, <1>1, PTL DEF Spec

\* When the broker delivers each message once, at most one task of a job has work
\* left, whatever fails, is retried or is deleted in between.
THEOREM OneTaskAtATime == ASSUME MaxRedeliveries = 0 PROVE Spec => []SingleToken
<1>1. IInv => SingleToken
  BY DEF IInv
<1>2. QED
  BY Inductive, <1>1, PTL

\* A job shown as passed was judged passed, has its report, and a cleanup has been
\* through with its target, or ran out of retries; what that cleanup could not remove
\* is left all the same.
THEOREM PassesAreEarned == ASSUME MaxRedeliveries = 0 PROVE Spec => []PassIsEarned
<1>1. IInv => PassIsEarned
  BY DEF IInv
<1>2. QED
  BY Inductive, <1>1, PTL

\* "pass" is shown only when nothing but the closing publish is left to do.
THEOREM PassesAreOver == ASSUME MaxRedeliveries = 0 PROVE Spec => []PassMeansOver
<1>1. IInv => PassMeansOver
  BY DEF IInv
<1>2. QED
  BY Inductive, <1>1, PTL

\* Once cleanup or the report is under way no step touches the verdict file: only
\* validate_results writes it, and it would have to be live beside them.
THEOREM VerdictStaysFrozen == ASSUME MaxRedeliveries = 0 PROVE Spec => VerdictFrozen
<1> DEFINE Late == \E m \in Messages :
              Live(m) /\ task[m].kind \in {"run_cleanup", "generate_report"}
<1>1. ASSUME IInv, Late, Next PROVE UNCHANGED verdictFile
  <2>1. \A m \in Messages : ~ValidateSave(m)
    BY <1>1 DEF ValidateSave, At, Live, IInv, SingleToken
  <2>2. QED
    BY <1>1, <2>1 DEF Next, ApiStep, CreateJob, CommitJob, RollbackJob, DeleteJob, TaskStep,
       PreflightStep, PreflightNoProfile, PreflightStart, PreflightBaselineFails,
       PreflightConfigure, PreflightReboot, PreflightScripts, PreflightForward,
       SwInstallStep, SwInstallStart, SwInstallReboot, SwInstallSave, SwInstallJudge, SwInstallForward,
       PostInstallStep, PostInstallStart, PostInstallTools, PostInstallScripts,
       PostInstallForward, CollectResults, CollectForward, ValidateStep, ValidateEmpty,
       ValidateJudge, ValidateStatus, ValidateForward, CleanupStep, CleanupStart,
       CleanupSweep, CleanupStatus, CleanupForward, ReportStep, ReportRender, ReportRecord,
       ReportFinish, SharedStep, RebootTimeout, MarkFailed, DispatchCleanup, Close, Ack,
       HandlerStep, Retry, Exhaust, CollectRaise, CleanupGiveUp, ReportRaise, CollectGone,
       FaultStep, WorkerLost, VisibilityTimeout, TaskDies, jobVars
<1>2. IInv /\ [Next]_vars => [Late => UNCHANGED verdictFile]_vars
  BY <1>1
<1>3. QED
  BY Inductive, <1>2, PTL DEF Spec, VerdictFrozen
=============================================================================
