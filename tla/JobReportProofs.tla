--------------------------- MODULE JobReportProofs ---------------------------
(***************************************************************************)
(* Proofs about the report of a job, module JobPipeline, for all values of *)
(* its constants: that a job shown as passed has one however often its     *)
(* messages are delivered, and that under single delivery it decides the   *)
(* status the job is left with.                                            *)
(***************************************************************************)
EXTENDS JobPipelineProofs

-----------------------------------------------------------------------------
(* The strengthenings.                                                     *)

\* A verdict that is about to be written is one; a report of a pass has read the
\* file; a report past its INSERT has its row unless the job was deleted.
RowBacked(m) ==
  /\ task[m].kind = "validate_results" /\ task[m].pc = "judged" => task[m].val # "none"
  /\ task[m].kind = "generate_report" =>
       /\ task[m].pc \in {"rendered", "recorded"} /\ task[m].val = "pass" =>
            verdictFile # "none"
       /\ task[m].pc = "recorded" => reportRow \/ api = "deleted"

RowRest == PassHasReport /\ \A m \in Messages : RowBacked(m)
RowInv == TypeOK /\ NoResurrection /\ RowRest

\* The row of the job becomes visible with the commit; the last two tasks have
\* these points only; and once there is a report no other task is live, and the status
\* is its verdict, an error, or about to be written.
Unborn == api \in {"open", "dispatched", "rolledback"} => ~Exists

TailPoints ==
  \A m \in Messages :
    /\ task[m].kind = "run_cleanup" =>
         task[m].pc \in {"queued", "started", "swept", "forward", "report_due", "acking", "free"}
    /\ task[m].kind = "generate_report" =>
         task[m].pc \in {"queued", "rendered", "recorded", "closing", "acking", "free"}

Recording(m) == task[m].kind = "generate_report" /\ task[m].pc = "recorded"

Reported ==
  reportRow =>
    /\ Exists
    /\ \A m \in Messages : Live(m) => task[m].kind = "generate_report"
    /\ losses = 0 =>
         \/ status \in {FinalStatus(verdictFile), "error"}
         \/ \E m \in Messages : Recording(m)

ReportPhase == Unborn /\ TailPoints /\ Reported

-----------------------------------------------------------------------------
(* PassHasReport, for any number of duplicates and losses.                  *)

\* No message gets to a point where it holds a verdict.
Harmless ==
  \A n \in Messages :
    task'[n] = task[n] \/ task'[n].pc \notin {"judged", "rendered", "recorded"}

LEMMA GotoHarmless ==
  ASSUME TypeOK, NEW m \in Messages, NEW p, Goto(m, p),
         p \notin {"judged", "rendered", "recorded"}
  PROVE  Harmless
BY DEF TypeOK, TaskType, Goto, Harmless

LEMMA RequeueHarmless ==
  ASSUME TypeOK, NEW m \in Messages, Requeue(m)
  PROVE  Harmless
BY DEF TypeOK, TaskType, Requeue, Harmless

LEMMA DispatchHarmless ==
  ASSUME TypeOK, NEW m \in Messages, NEW k, Dispatch(m, k)
  PROVE  Harmless
<1>1. PICK n \in Messages :
        task' = [task EXCEPT ![m].pc = "acking", ![n] = Queued(k)]
  BY DEF Dispatch
<1>2. \A o \in Messages \ {m, n} : task'[o] = task[o]
  BY <1>1 DEF TypeOK
<1>3. task'[n].pc = "queued"
  BY <1>1 DEF TypeOK, Queued
<1>4. m # n => task'[m].pc = "acking"
  BY <1>1 DEF TypeOK, TaskType
<1>5. QED
  BY <1>2, <1>3, <1>4 DEF Harmless

\* Such a step is right when it shows no pass and leaves verdict and report alone.
LEMMA HarmlessStep ==
  ASSUME RowInv, Harmless, UNCHANGED <<api, verdictFile, reportRow>>,
         status' = status \/ status' # "pass"
  PROVE  RowRest'
<1>1. PassHasReport'
  BY DEF RowInv, RowRest, PassHasReport
<1>2. \A n \in Messages : RowBacked(n)'
  BY DEF RowInv, RowRest, RowBacked, Harmless
<1>3. QED
  BY <1>1, <1>2 DEF RowRest

LEMMA PreflightKeepsRow ==
  ASSUME RowInv, NEW m \in Messages, PreflightStep(m)
  PROVE  RowRest'
<1>0. TypeOK
  BY DEF RowInv
<1>1. CASE PreflightNoProfile(m)
  BY <1>0, <1>1, GotoHarmless, HarmlessStep DEF PreflightNoProfile, WriteStatus, jobVars
<1>2. CASE PreflightStart(m)
  BY <1>0, <1>2, GotoHarmless, HarmlessStep DEF PreflightStart, WriteStatus, jobVars
<1>3. CASE PreflightBaselineFails(m)
  BY <1>0, <1>3, GotoHarmless, HarmlessStep DEF PreflightBaselineFails, WriteStatus, jobVars
<1>4. CASE PreflightConfigure(m)
  BY <1>0, <1>4, GotoHarmless, HarmlessStep DEF PreflightConfigure, WriteStatus, jobVars
<1>5. CASE PreflightReboot(m)
  BY <1>0, <1>5, GotoHarmless, HarmlessStep DEF PreflightReboot, WriteStatus, jobVars
<1>6. CASE PreflightScripts(m)
  BY <1>0, <1>6, GotoHarmless, HarmlessStep DEF PreflightScripts, WriteStatus, jobVars
<1>7. CASE PreflightForward(m)
  BY <1>0, <1>7, DispatchHarmless, HarmlessStep DEF PreflightForward, jobVars
<1>8. QED
  BY <1>1, <1>2, <1>3, <1>4, <1>5, <1>6, <1>7 DEF PreflightStep

LEMMA SwInstallKeepsRow ==
  ASSUME RowInv, NEW m \in Messages, SwInstallStep(m)
  PROVE  RowRest'
<1>0. TypeOK
  BY DEF RowInv
<1>1. CASE SwInstallStart(m)
  BY <1>0, <1>1, GotoHarmless, HarmlessStep DEF SwInstallStart, WriteStatus, jobVars
<1>2. CASE SwInstallReboot(m)
  BY <1>0, <1>2, GotoHarmless, HarmlessStep DEF SwInstallReboot, WriteStatus, jobVars
<1>3. CASE SwInstallSave(m)
  BY <1>0, <1>3, GotoHarmless, HarmlessStep DEF SwInstallSave, WriteStatus, jobVars
<1>4. CASE SwInstallJudge(m)
  BY <1>0, <1>4, GotoHarmless, HarmlessStep DEF SwInstallJudge, WriteStatus, jobVars
<1>5. CASE SwInstallForward(m)
  BY <1>0, <1>5, DispatchHarmless, HarmlessStep DEF SwInstallForward, jobVars
<1>6. QED
  BY <1>1, <1>2, <1>3, <1>4, <1>5 DEF SwInstallStep

LEMMA PostInstallKeepsRow ==
  ASSUME RowInv, NEW m \in Messages, PostInstallStep(m)
  PROVE  RowRest'
<1>0. TypeOK
  BY DEF RowInv
<1>1. CASE PostInstallStart(m)
  BY <1>0, <1>1, GotoHarmless, HarmlessStep DEF PostInstallStart, WriteStatus, jobVars
<1>2. CASE PostInstallTools(m)
  BY <1>0, <1>2, GotoHarmless, HarmlessStep DEF PostInstallTools, WriteStatus, jobVars
<1>3. CASE PostInstallScripts(m)
  BY <1>0, <1>3, GotoHarmless, HarmlessStep DEF PostInstallScripts, WriteStatus, jobVars
<1>4. CASE PostInstallForward(m)
  BY <1>0, <1>4, DispatchHarmless, HarmlessStep DEF PostInstallForward, jobVars
<1>5. CASE CollectResults(m)
  BY <1>0, <1>5, GotoHarmless, HarmlessStep DEF CollectResults, WriteStatus, jobVars
<1>6. CASE CollectForward(m)
  BY <1>0, <1>6, DispatchHarmless, HarmlessStep DEF CollectForward, jobVars
<1>7. QED
  BY <1>1, <1>2, <1>3, <1>4, <1>5, <1>6 DEF PostInstallStep

LEMMA ValidateKeepsRow ==
  ASSUME RowInv, NEW m \in Messages, ValidateStep(m)
  PROVE  RowRest'
<1>0. TypeOK
  BY DEF RowInv
<1>1. CASE ValidateEmpty(m)
  BY <1>0, <1>1, GotoHarmless, HarmlessStep DEF ValidateEmpty, WriteStatus, jobVars
<1>2. CASE ValidateJudge(m)
  <2>1. PICK v \in Verdicts : Hold(m, "judged", v)
    BY <1>2 DEF ValidateJudge
  <2>2. OnlyOn(m) /\ task'[m].kind = "validate_results" /\ task'[m].val # "none"
    BY <1>0, <1>2, <2>1, HoldEffect DEF ValidateJudge, At, Verdicts
  <2>3. PassHasReport'
    BY <1>2 DEF ValidateJudge, RowInv, RowRest, PassHasReport, jobVars
  <2>4. RowBacked(m)'
    BY <2>2 DEF RowBacked
  <2>5. \A o \in Messages \ {m} : RowBacked(o)'
    BY <1>2, <2>2 DEF ValidateJudge, RowInv, RowRest, RowBacked, OnlyOn, jobVars
  <2>6. QED
    BY <2>3, <2>4, <2>5 DEF RowRest
<1>3. CASE ValidateSave(m)
  <2>1. verdictFile' # "none" /\ UNCHANGED <<api, status, reportRow>>
    BY <1>3 DEF ValidateSave, At, RowInv, RowRest, RowBacked
  <2>2. Harmless
    BY <1>0, <1>3, GotoHarmless DEF ValidateSave
  <2>3. PassHasReport'
    BY <2>1 DEF RowInv, RowRest, PassHasReport
  <2>4. \A o \in Messages : RowBacked(o)'
    BY <2>1, <2>2 DEF RowInv, RowRest, RowBacked, Harmless
  <2>5. QED
    BY <2>3, <2>4 DEF RowRest
<1>4. CASE ValidateStatus(m)
  BY <1>0, <1>4, GotoHarmless, HarmlessStep DEF ValidateStatus, WriteStatus, jobVars,
     StatusAfterVerdict, TaskType, Verdicts
<1>5. CASE ValidateForward(m)
  BY <1>0, <1>5, DispatchHarmless, HarmlessStep DEF ValidateForward, jobVars
<1>6. QED
  BY <1>1, <1>2, <1>3, <1>4, <1>5 DEF ValidateStep

LEMMA CleanupKeepsRow ==
  ASSUME RowInv, NEW m \in Messages, CleanupStep(m)
  PROVE  RowRest'
<1>0. TypeOK
  BY DEF RowInv
<1>1. CASE CleanupStart(m)
  BY <1>0, <1>1, GotoHarmless, HarmlessStep DEF CleanupStart, WriteStatus, jobVars
<1>2. CASE CleanupSweep(m)
  BY <1>0, <1>2, GotoHarmless, HarmlessStep DEF CleanupSweep, WriteStatus, jobVars
<1>3. CASE CleanupStatus(m)
  BY <1>0, <1>3, GotoHarmless, HarmlessStep DEF CleanupStatus, WriteStatus, jobVars
<1>4. CASE CleanupForward(m)
  BY <1>0, <1>4, DispatchHarmless, HarmlessStep DEF CleanupForward, jobVars
<1>5. QED
  BY <1>1, <1>2, <1>3, <1>4 DEF CleanupStep

LEMMA ReportKeepsRow ==
  ASSUME RowInv, NEW m \in Messages, ReportStep(m)
  PROVE  RowRest'
<1>0. TypeOK
  BY DEF RowInv
<1>1. CASE ReportRender(m)
  <2>1. OnlyOn(m) /\ task'[m].kind = "generate_report" /\ task'[m].pc = "rendered"
    BY <1>0, <1>1, HoldEffect DEF ReportRender, At
  <2>2. task'[m].val = "pass" => verdictFile # "none"
    BY <1>0, <1>1, HoldEffect DEF ReportRender
  <2>3. PassHasReport'
    BY <1>1 DEF ReportRender, RowInv, RowRest, PassHasReport, jobVars
  <2>4. RowBacked(m)'
    BY <1>1, <2>1, <2>2 DEF ReportRender, RowBacked, jobVars
  <2>5. \A o \in Messages \ {m} : RowBacked(o)'
    BY <1>1, <2>1 DEF ReportRender, RowInv, RowRest, RowBacked, OnlyOn, jobVars
  <2>6. QED
    BY <2>3, <2>4, <2>5 DEF RowRest
<1>2. CASE ReportRecord(m)
  <2>1. /\ OnlyOn(m) /\ task'[m].kind = "generate_report" /\ task'[m].val = task[m].val
        /\ task[m].kind = "generate_report" /\ task[m].pc = "rendered"
    BY <1>0, <1>2, GotoEffect DEF ReportRecord, At
  <2>2. reportRow' /\ UNCHANGED <<api, status, verdictFile>>
    BY <1>2 DEF ReportRecord
  <2>3. PassHasReport'
    BY <2>2 DEF RowInv, RowRest, PassHasReport
  <2>4. RowBacked(m)'
    BY <2>1, <2>2 DEF RowInv, RowRest, RowBacked
  <2>5. \A o \in Messages \ {m} : RowBacked(o)'
    BY <2>1, <2>2 DEF RowInv, RowRest, RowBacked, OnlyOn
  <2>6. QED
    BY <2>3, <2>4, <2>5 DEF RowRest
<1>3. CASE ReportFinish(m)
  <2>1. Harmless
    BY <1>0, <1>3, GotoHarmless DEF ReportFinish
  <2>2. UNCHANGED <<api, verdictFile, reportRow>> /\ Exists
    BY <1>3 DEF ReportFinish, WriteStatus
  <2>3. reportRow
    BY <1>3, <2>2 DEF ReportFinish, At, RowInv, RowRest, RowBacked, NoResurrection, Exists
  <2>4. status' = "pass" => verdictFile # "none"
    BY <1>3 DEF ReportFinish, At, WriteStatus, FinalStatus, RowInv, RowRest, RowBacked
  <2>5. PassHasReport'
    BY <2>2, <2>3, <2>4 DEF PassHasReport
  <2>6. \A o \in Messages : RowBacked(o)'
    BY <2>1, <2>2 DEF RowInv, RowRest, RowBacked, Harmless
  <2>7. QED
    BY <2>5, <2>6 DEF RowRest
<1>4. QED
  BY <1>1, <1>2, <1>3 DEF ReportStep

LEMMA SharedKeepsRow ==
  ASSUME RowInv, NEW m \in Messages, SharedStep(m)
  PROVE  RowRest'
<1>0. TypeOK
  BY DEF RowInv
<1>1. CASE RebootTimeout(m)
  BY <1>0, <1>1, GotoHarmless, HarmlessStep DEF RebootTimeout, WriteStatus, jobVars
<1>2. CASE MarkFailed(m)
  BY <1>0, <1>2, GotoHarmless, HarmlessStep DEF MarkFailed, WriteStatus, jobVars
<1>3. CASE DispatchCleanup(m)
  BY <1>0, <1>3, DispatchHarmless, HarmlessStep DEF DispatchCleanup, jobVars
<1>4. CASE Close(m)
  BY <1>0, <1>4, GotoHarmless, HarmlessStep DEF Close, WriteStatus, jobVars
<1>5. CASE Ack(m)
  BY <1>0, <1>5, HarmlessStep DEF Ack, Idle, Harmless, TypeOK, jobVars
<1>6. QED
  BY <1>1, <1>2, <1>3, <1>4, <1>5 DEF SharedStep

LEMMA HandlerKeepsRow ==
  ASSUME RowInv, NEW m \in Messages, HandlerStep(m)
  PROVE  RowRest'
<1>0. TypeOK
  BY DEF RowInv
<1>1. CASE Retry(m)
  BY <1>0, <1>1, RequeueHarmless, HarmlessStep DEF Retry, jobVars
<1>2. CASE Exhaust(m)
  BY <1>0, <1>2, GotoHarmless, HarmlessStep DEF Exhaust, WriteStatus, jobVars
<1>3. CASE CollectRaise(m)
  BY <1>0, <1>3, GotoHarmless, HarmlessStep DEF CollectRaise, WriteStatus, jobVars
<1>4. CASE CleanupGiveUp(m)
  BY <1>0, <1>4, GotoHarmless, HarmlessStep DEF CleanupGiveUp, WriteStatus, jobVars
<1>5. CASE ReportRaise(m)
  BY <1>0, <1>5, GotoHarmless, RequeueHarmless, HarmlessStep DEF ReportRaise
<1>6. CASE CollectGone(m)
  BY <1>0, <1>6, GotoHarmless, HarmlessStep DEF CollectGone, WriteStatus, jobVars
<1>7. QED
  BY <1>1, <1>2, <1>3, <1>4, <1>5, <1>6 DEF HandlerStep

LEMMA FaultKeepsRow ==
  ASSUME RowInv, NEW m \in Messages, FaultStep(m)
  PROVE  RowRest'
<1>0. TypeOK
  BY DEF RowInv
<1>1. CASE WorkerLost(m)
  BY <1>0, <1>1, HarmlessStep DEF WorkerLost, Hold, Harmless, TypeOK, TaskType, jobVars
<1>2. CASE VisibilityTimeout(m)
  BY <1>0, <1>2, HarmlessStep DEF VisibilityTimeout, Queued, Harmless, TypeOK, jobVars
<1>3. CASE TaskDies(m)
  BY <1>0, <1>3, GotoHarmless, HarmlessStep DEF TaskDies, WriteStatus, jobVars
<1>4. QED
  BY <1>1, <1>2, <1>3 DEF FaultStep

LEMMA ApiKeepsRow ==
  ASSUME RowInv, ApiStep
  PROVE  RowRest'
<1>0. TypeOK
  BY DEF RowInv
<1>1. CASE CreateJob
  BY <1>0, <1>1 DEF CreateJob, Queued, TypeOK, RowInv, RowRest, PassHasReport, RowBacked, jobVars
<1>2. CASE CommitJob
  BY <1>2 DEF CommitJob, RowInv, RowRest, PassHasReport, RowBacked
<1>3. CASE RollbackJob
  BY <1>3 DEF RollbackJob, RowInv, RowRest, PassHasReport, RowBacked, jobVars
<1>4. CASE DeleteJob
  BY <1>4 DEF DeleteJob, RowInv, RowRest, PassHasReport, RowBacked
<1>5. QED
  BY <1>1, <1>2, <1>3, <1>4 DEF ApiStep

LEMMA RowInit == Init => RowInv
<1> SUFFICES ASSUME Init PROVE RowInv
  OBVIOUS
<1>1. \A m \in Messages : task[m].pc = "free" /\ task[m].kind = "none"
  BY DEF Init, Idle
<1>2. QED
  BY <1>1, TypeInit DEF Init, RowInv, RowRest, NoResurrection, PassHasReport, RowBacked

\* The invariant of the report row, for any number of duplicates and losses.
THEOREM RowInductive == Spec => []RowInv
<1>1. ASSUME RowInv, Next PROVE RowInv'
  <2>1. RowRest'
    BY <1>1, ApiKeepsRow, PreflightKeepsRow, SwInstallKeepsRow, PostInstallKeepsRow,
       ValidateKeepsRow, CleanupKeepsRow, ReportKeepsRow, SharedKeepsRow,
       HandlerKeepsRow, FaultKeepsRow
       DEF Next, TaskStep
  <2>2. TypeOK' /\ NoResurrection'
    BY <1>1, TypeStep, DeletedStep DEF RowInv
  <2>3. QED
    BY <2>1, <2>2 DEF RowInv
<1>2. ASSUME RowInv, UNCHANGED vars PROVE RowInv'
  BY <1>2 DEF vars, RowInv, TypeOK, NoResurrection, RowRest, PassHasReport, RowBacked
<1>3. RowInv /\ [Next]_vars => RowInv'
  BY <1>1, <1>2
<1>4. QED
  BY RowInit, <1>3, PTL DEF Spec

\* Whatever is delivered twice, retried, lost or deleted, a job shown as passed
\* has a report and a verdict: the row is committed before the status is written
\* and only goes with the job itself, and a pass is read from the file.
THEOREM PassesHaveReports == Spec => []PassHasReport
<1>1. RowInv => PassHasReport
  BY DEF RowInv, RowRest
<1>2. QED
  BY RowInductive, <1>1, PTL

-----------------------------------------------------------------------------
(* ReportDecides, under single delivery.                                    *)

\* A task other than the report moves on: there is no report yet.
LEMMA BeforeReport ==
  ASSUME IInv, ReportPhase, NEW m \in Messages, Live(m), task[m].kind # "generate_report",
         OnlyOn(m), task'[m].kind = task[m].kind, UNCHANGED <<api, reportRow>>,
         status' = status \/ Exists,
         task[m].kind = "run_cleanup" =>
           task'[m].pc \in {"queued", "started", "swept", "forward", "report_due", "acking"}
  PROVE  ReportPhase'
<1>1. ~reportRow'
  BY DEF ReportPhase, Reported
<1>2. Unborn'
  BY DEF ReportPhase, Unborn, Exists
<1>3. TailPoints'
  BY DEF ReportPhase, TailPoints, OnlyOn
<1>4. QED
  BY <1>1, <1>2, <1>3 DEF ReportPhase, Reported

\* A task other than the report dispatches its successor.
LEMMA BeforeReportDispatch ==
  ASSUME IInv, ReportPhase, NEW m \in Messages, NEW k, Live(m),
         task[m].kind # "generate_report", Dispatch(m, k),
         UNCHANGED <<api, status, reportRow>>
  PROVE  ReportPhase'
<1>1. PICK n \in Messages \ {m} :
        /\ task'[n].pc = "queued" /\ task'[n].kind = k
        /\ \A o \in Messages \ {m, n} : task'[o] = task[o]
  BY DispatchEffect DEF IInv
<1>2. task'[m].pc = "acking"
  BY DispatchEffect DEF IInv
<1>3. ~reportRow'
  BY DEF ReportPhase, Reported
<1>4. Unborn'
  BY DEF ReportPhase, Unborn, Exists
<1>5. TailPoints'
  BY <1>1, <1>2 DEF ReportPhase, TailPoints
<1>6. QED
  BY <1>3, <1>4, <1>5 DEF ReportPhase, Reported

\* The report task, alone, moves between its points.
LEMMA ReportMoves ==
  ASSUME IInv, ReportPhase, NEW m \in Messages, Live(m), task[m].kind = "generate_report",
         OnlyOn(m), task'[m].kind = task[m].kind,
         task'[m].pc \in {"queued", "rendered", "recorded", "closing", "acking"},
         api' = api, Exists, status' # "absent",
         reportRow' /\ losses' = 0 =>
           status' \in {FinalStatus(verdictFile), "error"} \/ Recording(m)',
         verdictFile' = verdictFile
  PROVE  ReportPhase'
<1>1. Unborn'
  BY DEF ReportPhase, Unborn, Exists
<1>2. TailPoints'
  BY DEF ReportPhase, TailPoints, OnlyOn
<1>3. \A n \in Messages \ {m} : ~Live(n)'
  BY StillAlone DEF IInv
<1>4. Reported'
  BY <1>3 DEF Reported, Exists, FinalStatus
<1>5. QED
  BY <1>1, <1>2, <1>4 DEF ReportPhase

LEMMA PreflightKeepsPhase ==
  ASSUME IInv, ReportPhase, NEW m \in Messages, PreflightStep(m)
  PROVE  ReportPhase'
<1>0. TypeOK
  BY DEF IInv
<1>1. CASE PreflightNoProfile(m)
  BY <1>0, <1>1, GotoEffect, BeforeReport DEF PreflightNoProfile, At, WriteStatus, Live, jobVars
<1>2. CASE PreflightStart(m)
  BY <1>0, <1>2, GotoEffect, BeforeReport DEF PreflightStart, At, WriteStatus, Live, jobVars
<1>3. CASE PreflightBaselineFails(m)
  BY <1>0, <1>3, GotoEffect, BeforeReport DEF PreflightBaselineFails, At, WriteStatus, Live, jobVars
<1>4. CASE PreflightConfigure(m)
  BY <1>0, <1>4, GotoEffect, BeforeReport DEF PreflightConfigure, At, WriteStatus, Live, jobVars
<1>5. CASE PreflightReboot(m)
  BY <1>0, <1>5, GotoEffect, BeforeReport DEF PreflightReboot, At, WriteStatus, Live, jobVars
<1>6. CASE PreflightScripts(m)
  BY <1>0, <1>6, GotoEffect, BeforeReport DEF PreflightScripts, At, WriteStatus, Live, jobVars
<1>7. CASE PreflightForward(m)
  BY <1>7, BeforeReportDispatch DEF PreflightForward, At, Live, jobVars
<1>8. QED
  BY <1>1, <1>2, <1>3, <1>4, <1>5, <1>6, <1>7 DEF PreflightStep

LEMMA SwInstallKeepsPhase ==
  ASSUME IInv, ReportPhase, NEW m \in Messages, SwInstallStep(m)
  PROVE  ReportPhase'
<1>0. TypeOK
  BY DEF IInv
<1>1. CASE SwInstallStart(m)
  BY <1>0, <1>1, GotoEffect, BeforeReport DEF SwInstallStart, At, WriteStatus, Live, jobVars
<1>2. CASE SwInstallReboot(m)
  BY <1>0, <1>2, GotoEffect, BeforeReport DEF SwInstallReboot, At, WriteStatus, Live, jobVars
<1>3. CASE SwInstallSave(m)
  BY <1>0, <1>3, GotoEffect, BeforeReport DEF SwInstallSave, At, WriteStatus, Live, jobVars
<1>4. CASE SwInstallJudge(m)
  BY <1>0, <1>4, GotoEffect, BeforeReport DEF SwInstallJudge, At, WriteStatus, Live, jobVars
<1>5. CASE SwInstallForward(m)
  BY <1>5, BeforeReportDispatch DEF SwInstallForward, At, Live, jobVars
<1>6. QED
  BY <1>1, <1>2, <1>3, <1>4, <1>5 DEF SwInstallStep

LEMMA PostInstallKeepsPhase ==
  ASSUME IInv, ReportPhase, NEW m \in Messages, PostInstallStep(m)
  PROVE  ReportPhase'
<1>0. TypeOK
  BY DEF IInv
<1>1. CASE PostInstallStart(m)
  BY <1>0, <1>1, GotoEffect, BeforeReport DEF PostInstallStart, At, WriteStatus, Live, jobVars
<1>2. CASE PostInstallTools(m)
  BY <1>0, <1>2, GotoEffect, BeforeReport DEF PostInstallTools, At, WriteStatus, Live, jobVars
<1>3. CASE PostInstallScripts(m)
  BY <1>0, <1>3, GotoEffect, BeforeReport DEF PostInstallScripts, At, WriteStatus, Live, jobVars
<1>4. CASE PostInstallForward(m)
  BY <1>4, BeforeReportDispatch DEF PostInstallForward, At, Live, jobVars
<1>5. CASE CollectResults(m)
  BY <1>0, <1>5, GotoEffect, BeforeReport DEF CollectResults, At, WriteStatus, Live, jobVars
<1>6. CASE CollectForward(m)
  BY <1>6, BeforeReportDispatch DEF CollectForward, At, Live, jobVars
<1>7. QED
  BY <1>1, <1>2, <1>3, <1>4, <1>5, <1>6 DEF PostInstallStep

LEMMA ValidateKeepsPhase ==
  ASSUME IInv, ReportPhase, NEW m \in Messages, ValidateStep(m)
  PROVE  ReportPhase'
<1>0. TypeOK
  BY DEF IInv
<1>1. CASE ValidateEmpty(m)
  BY <1>0, <1>1, GotoEffect, BeforeReport DEF ValidateEmpty, At, WriteStatus, Live, jobVars
<1>2. CASE ValidateJudge(m)
  BY <1>0, <1>2, HoldEffect, BeforeReport DEF ValidateJudge, At, Live, jobVars
<1>3. CASE ValidateSave(m)
  BY <1>0, <1>3, GotoEffect, BeforeReport DEF ValidateSave, At, WriteStatus, Live, jobVars
<1>4. CASE ValidateStatus(m)
  BY <1>0, <1>4, GotoEffect, BeforeReport DEF ValidateStatus, At, WriteStatus, Live, jobVars
<1>5. CASE ValidateForward(m)
  BY <1>5, BeforeReportDispatch DEF ValidateForward, At, Live, jobVars
<1>6. QED
  BY <1>1, <1>2, <1>3, <1>4, <1>5 DEF ValidateStep

LEMMA CleanupKeepsPhase ==
  ASSUME IInv, ReportPhase, NEW m \in Messages, CleanupStep(m)
  PROVE  ReportPhase'
<1>0. TypeOK
  BY DEF IInv
<1>1. CASE CleanupStart(m)
  BY <1>0, <1>1, GotoEffect, BeforeReport DEF CleanupStart, At, WriteStatus, Live, jobVars
<1>2. CASE CleanupSweep(m)
  BY <1>0, <1>2, GotoEffect, BeforeReport DEF CleanupSweep, At, WriteStatus, Live, jobVars
<1>3. CASE CleanupStatus(m)
  BY <1>0, <1>3, GotoEffect, BeforeReport DEF CleanupStatus, At, WriteStatus, Live, jobVars
<1>4. CASE CleanupForward(m)
  BY <1>4, BeforeReportDispatch DEF CleanupForward, At, Live, jobVars
<1>5. QED
  BY <1>1, <1>2, <1>3, <1>4 DEF CleanupStep

LEMMA ReportKeepsPhase ==
  ASSUME IInv, ReportPhase, NEW m \in Messages, ReportStep(m)
  PROVE  ReportPhase'
<1>0. TypeOK
  BY DEF IInv
<1>1. CASE ReportRender(m)
  BY <1>0, <1>1, HoldEffect, ReportMoves
     DEF ReportRender, At, Live, Exists, Recording, ReportPhase, Reported, IInv, SingleToken,
         jobVars, faultVars
<1>2. CASE ReportRecord(m)
  BY <1>0, <1>2, GotoEffect, ReportMoves
     DEF ReportRecord, At, Live, Exists, Recording
<1>3. CASE ReportFinish(m)
  <2>1. task[m].val = IF verdictFile = "none" THEN "fail" ELSE verdictFile
    BY <1>3 DEF ReportFinish, At, IInv, ReportInHand, HoldsVerdict
  <2>2. status' = FinalStatus(verdictFile)
    BY <1>3, <2>1 DEF ReportFinish, WriteStatus, FinalStatus
  <2>3. status' # "absent"
    BY <2>2 DEF FinalStatus
  <2>4. QED
    BY <1>0, <1>3, <2>2, <2>3, GotoEffect, ReportMoves
       DEF ReportFinish, At, Live, WriteStatus
<1>4. QED
  BY <1>1, <1>2, <1>3 DEF ReportStep

LEMMA SharedKeepsPhase ==
  ASSUME IInv, ReportPhase, NEW m \in Messages, SharedStep(m)
  PROVE  ReportPhase'
<1>0. TypeOK
  BY DEF IInv
<1>1. CASE RebootTimeout(m)
  BY <1>0, <1>1, GotoEffect, BeforeReport
     DEF RebootTimeout, WriteStatus, Live, ReportPhase, TailPoints, jobVars
<1>2. CASE MarkFailed(m)
  BY <1>0, <1>2, GotoEffect, BeforeReport
     DEF MarkFailed, WriteStatus, Live, ReportPhase, TailPoints, jobVars
<1>3. CASE DispatchCleanup(m)
  BY <1>3, BeforeReportDispatch
     DEF DispatchCleanup, Live, ReportPhase, TailPoints, jobVars
<1>4. CASE Close(m)
  <2>1. /\ OnlyOn(m) /\ task'[m].pc = "acking"
        /\ UNCHANGED <<api, status, verdictFile, reportRow, losses>>
    BY <1>0, <1>4, GotoEffect DEF Close, jobVars, faultVars
  <2>2. Unborn' /\ TailPoints'
    BY <2>1 DEF ReportPhase, Unborn, Exists, TailPoints, OnlyOn
  <2>3. Reported'
    <3>1. \A n \in Messages : Live(n)' => Live(n) /\ task'[n] = task[n]
      BY <2>1 DEF OnlyOn, Live
    <3>2. \A n \in Messages : Recording(n) => Recording(n)'
      BY <1>4, <2>1 DEF Close, Recording, OnlyOn
    <3>3. QED
      BY <2>1, <3>1, <3>2 DEF ReportPhase, Reported, Exists, FinalStatus
  <2>4. QED
    BY <2>2, <2>3 DEF ReportPhase
<1>5. CASE Ack(m)
  <2>1. /\ OnlyOn(m) /\ task'[m].pc = "free" /\ task'[m].kind = "none"
        /\ UNCHANGED <<api, status, verdictFile, reportRow, losses>>
    BY <1>0, <1>5 DEF Ack, Idle, OnlyOn, TypeOK, jobVars, faultVars
  <2>2. Unborn' /\ TailPoints'
    BY <2>1 DEF ReportPhase, Unborn, Exists, TailPoints, OnlyOn
  <2>3. Reported'
    <3>1. \A n \in Messages : Live(n)' => Live(n) /\ task'[n] = task[n]
      BY <2>1 DEF OnlyOn, Live
    <3>2. \A n \in Messages : Recording(n) => Recording(n)'
      BY <1>5, <2>1 DEF Ack, Recording, OnlyOn
    <3>3. QED
      BY <2>1, <3>1, <3>2 DEF ReportPhase, Reported, Exists, FinalStatus
  <2>4. QED
    BY <2>2, <2>3 DEF ReportPhase
<1>6. QED
  BY <1>1, <1>2, <1>3, <1>4, <1>5 DEF SharedStep

LEMMA HandlerKeepsPhase ==
  ASSUME IInv, ReportPhase, NEW m \in Messages, HandlerStep(m)
  PROVE  ReportPhase'
<1>0. TypeOK
  BY DEF IInv
<1>1. CASE Retry(m)
  BY <1>0, <1>1, RequeueEffect, BeforeReport DEF Retry, CanRaise, Retrying, jobVars
<1>2. CASE Exhaust(m)
  BY <1>0, <1>2, GotoEffect, BeforeReport DEF Exhaust, CanRaise, Retrying, jobVars
<1>3. CASE CollectRaise(m)
  BY <1>0, <1>3, GotoEffect, BeforeReport DEF CollectRaise, CanRaise, Retrying, jobVars
<1>4. CASE CleanupGiveUp(m)
  BY <1>0, <1>4, GotoEffect, BeforeReport DEF CleanupGiveUp, CanRaise, Retrying, jobVars
<1>5. CASE ReportRaise(m)
  <2>1. CASE Exists
    BY <1>0, <1>5, <2>1, GotoEffect, RequeueEffect, ReportMoves DEF ReportRaise, CanRaise
  <2>2. CASE ~Exists
    <3>1. OnlyOn(m) /\ task'[m].pc = "acking" /\ UNCHANGED <<api, status, reportRow>>
      BY <1>0, <1>5, <2>2, GotoEffect DEF ReportRaise
    <3>2. ~reportRow
      BY <2>2 DEF ReportPhase, Reported
    <3>3. QED
      BY <3>1, <3>2 DEF ReportPhase, Unborn, Exists, TailPoints, Reported, OnlyOn
  <2>3. QED
    BY <2>1, <2>2
<1>6. CASE CollectGone(m)
  BY <1>0, <1>6, GotoEffect, BeforeReport DEF CollectGone, At, WriteStatus, Live, jobVars
<1>7. QED
  BY <1>1, <1>2, <1>3, <1>4, <1>5, <1>6 DEF HandlerStep

LEMMA FaultKeepsPhase ==
  ASSUME IInv, ReportPhase, MaxRedeliveries = 0, NEW m \in Messages, FaultStep(m)
  PROVE  ReportPhase'
<1>1. TypeOK
  BY DEF IInv
<1>2. ~WorkerLost(m) /\ ~VisibilityTimeout(m)
  BY <1>1 DEF TypeOK, WorkerLost, VisibilityTimeout
<1>3. CASE TaskDies(m)
  <2>1. /\ OnlyOn(m) /\ task'[m].pc = "acking"
        /\ UNCHANGED <<api, status, verdictFile, reportRow>>
    BY <1>1, <1>3, GotoEffect DEF TaskDies, jobVars
  <2>2. losses' # 0
    BY <1>1, <1>3, BoundsAssumption DEF TaskDies, TypeOK
  <2>3. Unborn' /\ TailPoints'
    BY <2>1 DEF ReportPhase, Unborn, Exists, TailPoints, OnlyOn
  <2>4. Reported'
    BY <2>1, <2>2 DEF ReportPhase, Reported, Exists, OnlyOn, Live
  <2>5. QED
    BY <2>3, <2>4 DEF ReportPhase
<1>4. QED
  BY <1>2, <1>3 DEF FaultStep

LEMMA ApiKeepsPhase ==
  ASSUME IInv, ReportPhase, ApiStep
  PROVE  ReportPhase'
<1>0. TypeOK
  BY DEF IInv
<1>1. CASE CreateJob
  <2>1. ~Exists /\ ~reportRow
    BY <1>1 DEF CreateJob, IInv, Fresh, Exists, ReportPhase, Reported
  <2>2. TailPoints'
    BY <1>0, <1>1 DEF CreateJob, Queued, TypeOK, ReportPhase, TailPoints
  <2>3. QED
    BY <1>1, <2>1, <2>2 DEF CreateJob, ReportPhase, Unborn, Exists, Reported, jobVars
<1>2. CASE CommitJob
  <2>1. ~reportRow
    BY <1>2 DEF CommitJob, ReportPhase, Unborn, Reported
  <2>2. QED
    BY <1>2, <2>1 DEF CommitJob, ReportPhase, Unborn, TailPoints, Reported
<1>3. CASE RollbackJob
  <2>1. ~Exists /\ ~reportRow
    BY <1>3 DEF RollbackJob, ReportPhase, Unborn, Reported
  <2>2. QED
    BY <1>3, <2>1 DEF RollbackJob, ReportPhase, Unborn, Exists, TailPoints, Reported, jobVars
<1>4. CASE DeleteJob
  BY <1>4 DEF DeleteJob, ReportPhase, Unborn, TailPoints, Reported
<1>5. QED
  BY <1>1, <1>2, <1>3, <1>4 DEF ApiStep

LEMMA PhaseInit == Init => ReportPhase
<1> SUFFICES ASSUME Init PROVE ReportPhase
  OBVIOUS
<1>1. \A m \in Messages : task[m].kind = "none"
  BY DEF Init, Idle
<1>2. QED
  BY <1>1 DEF Init, ReportPhase, Unborn, Exists, TailPoints, Reported

LEMMA PhaseStep ==
  ASSUME MaxRedeliveries = 0, ReportPhase, IInv, [Next]_vars
  PROVE  ReportPhase'
<1>1. CASE Next
  BY <1>1, ApiKeepsPhase, PreflightKeepsPhase, SwInstallKeepsPhase, PostInstallKeepsPhase,
     ValidateKeepsPhase, CleanupKeepsPhase, ReportKeepsPhase, SharedKeepsPhase,
     HandlerKeepsPhase, FaultKeepsPhase
     DEF Next, TaskStep
<1>2. CASE UNCHANGED vars
  BY <1>2 DEF vars, ReportPhase, Unborn, Exists, TailPoints, Reported, Live, Recording,
              FinalStatus
<1>3. QED
  BY <1>1, <1>2

\* The invariant of the report, beside that of single delivery.
THEOREM ReportInductive == ASSUME MaxRedeliveries = 0 PROVE Spec => [](IInv /\ ReportPhase)
<1>1. IInv /\ ReportPhase /\ [Next]_vars => ReportPhase'
  BY PhaseStep
<1>2. QED
  BY Inductive, PhaseInit, <1>1, PTL DEF Spec

\* When no task was lost and each message was delivered once, a job that has a
\* report ends with the verdict of the file, or as an error: what an earlier task
\* wrote into the status is never what remains.
THEOREM ReportsDecide == ASSUME MaxRedeliveries = 0 PROVE Spec => []ReportDecides
<1>1. ReportPhase => ReportDecides
  BY DEF ReportPhase, Reported, Recording, ReportDecides, Quiet, Live
<1>2. QED
  BY ReportInductive, <1>1, PTL
=============================================================================
