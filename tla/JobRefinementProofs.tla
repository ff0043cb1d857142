------------------------- MODULE JobRefinementProofs -------------------------
(***************************************************************************)
(* Module JobPipeline implements modules StatusSource and JobLifecycle,    *)
(* for all values of its constants, as long as each message is delivered   *)
(* once.                                                                   *)
(***************************************************************************)
EXTENDS JobReportProofs

-----------------------------------------------------------------------------
(* Which statuses a task meets and leaves behind.                           *)

\* The statuses a visible job can have while the task k stands at p.
SeenAtTask(k, p) ==
  CASE k = "run_preflight" ->
         (CASE p = "queued" -> {"pending", "preflight", "rebooting", "failed"}
            [] p \in {"started", "reboot_due"} -> {"preflight"}
            [] p = "rebooting" -> {"rebooting"}
            [] p \in {"forward", "aborting"} -> {"preflight", "rebooting"}
            [] p = "aborted" -> {"failed"}
            [] OTHER -> {})
    [] k = "run_sw_install" ->
         (CASE p = "queued" -> {"preflight", "rebooting", "sw_install", "failed"}
            [] p = "started" -> {"sw_install"}
            [] p = "rebooting" -> {"rebooting"}
            [] p \in {"saved", "forward", "aborting"} -> {"sw_install", "rebooting"}
            [] p = "aborted" -> {"failed"}
            [] OTHER -> {})
    [] k = "run_post_install" ->
         (CASE p = "queued" -> {"preflight", "rebooting", "sw_install", "post_install", "failed"}
            [] p \in {"started", "equipped", "forward", "aborting"} -> {"post_install"}
            [] p = "aborted" -> {"failed"}
            [] OTHER -> {})
    [] k = "run_collect" ->
         (CASE p = "queued" -> {"post_install"}
            [] p = "forward" -> {"validating"}
            [] p = "aborting" -> {"post_install", "validating"}
            [] p = "aborted" -> {"failed"}
            [] OTHER -> {})
    [] k = "validate_results" ->
         (CASE p \in {"queued", "judged", "saved"} ->
                 {"validating", "cleanup", "failed", "rejected"}
            [] p = "forward" -> {"cleanup", "failed", "rejected"}
            [] p = "closing" -> {"failed"}
            [] OTHER -> {})
    [] k = "run_cleanup" ->
         (CASE p = "queued" -> {"cleanup", "failed", "rejected", "reporting"}
            [] p \in {"started", "swept"} -> {"cleanup"}
            [] p \in {"forward", "report_due"} -> {"reporting"}
            [] OTHER -> {})
    [] k = "generate_report" ->
         (CASE p \in {"queued", "rendered", "recorded"} -> {"reporting", "error"}
            [] p = "closing" -> {"pass", "failed", "rejected"}
            [] OTHER -> {})
    [] OTHER -> {}

SeenAt(m) == Exists => status \in SeenAtTask(task[m].kind, task[m].pc)

\* Until the commit there is only the first message, and it cannot be begun.
EarlyAt(m) ==
  api = "dispatched" => task[m].kind = "run_preflight" /\ task[m].pc = "queued"

Watched == \A m \in Messages : Live(m) => SeenAt(m) /\ EarlyAt(m)

FeedInv == IInv /\ ReportPhase /\ Watched

\* What every step has to do: keep Watched, and be a step of the source.
FeedStep == Watched' /\ [Source!SourceNext]_(Source!sourceVars)

-----------------------------------------------------------------------------
(* The kinds of steps.                                                      *)

\* While a message is live the job is busy, and what it does unseen is Unseen.
LEMMA FeedUnseen ==
  ASSUME NEW m \in Messages, Live(m), UNCHANGED <<api, status, verdictFile, reportRow>>
  PROVE  Source!SourceNext
<1>1. ~Quiet /\ UNCHANGED Life
  BY DEF Quiet, Life, Exists
<1>2. (~Quiet)' \in BOOLEAN
  OBVIOUS
<1>3. Source!Unseen
  BY <1>1, <1>2 DEF Source!Unseen
<1>4. QED
  BY <1>3 DEF Source!SourceNext

LEMMA FeedWritten ==
  ASSUME IInv, NEW m \in Messages, Live(m), Exists, api # "deleted",
         UNCHANGED <<api, verdictFile, reportRow>>,
         status' \in JobStatus, status' \in Source!Follows(status),
         status' = "pass" => verdictFile = "pass" /\ reportRow
  PROVE  Source!SourceNext
<1>1. ~Quiet /\ Life = "live"
  BY DEF Quiet, Life
<1>2. UNCHANGED Life
  BY DEF Life, Exists, JobStatus
<1>3. (~Quiet)' \in BOOLEAN
  OBVIOUS
<1>4. Source!Written(status')
  BY <1>1, <1>2, <1>3 DEF Source!Written
<1>5. QED
  BY <1>4 DEF Source!SourceNext, JobStatus, Source!JobStatus

LEMMA ExistsNotEarly ==
  ASSUME FeedInv, Exists
  PROVE  api # "dispatched" /\ api # "deleted"
BY DEF FeedInv, ReportPhase, Unborn, IInv, NoResurrection, Exists

LEMMA MoveStep ==
  ASSUME FeedInv, NEW m \in Messages, Live(m), OnlyOn(m),
         UNCHANGED <<api, status, verdictFile, reportRow>>,
         Live(m)' => SeenAt(m)' /\ EarlyAt(m)'
  PROVE  FeedStep
<1>1. \A n \in Messages \ {m} : ~Live(n)'
  BY StillAlone DEF FeedInv, IInv
<1>2. Watched'
  BY <1>1 DEF Watched
<1>3. QED
  BY <1>2, FeedUnseen DEF FeedStep

LEMMA WriteStep ==
  ASSUME FeedInv, NEW m \in Messages, Live(m), OnlyOn(m), Exists,
         UNCHANGED <<api, verdictFile, reportRow>>,
         status' \in JobStatus, status' \in Source!Follows(status),
         status' = "pass" => verdictFile = "pass" /\ reportRow,
         Live(m)' => status' \in SeenAtTask(task'[m].kind, task'[m].pc)
  PROVE  FeedStep
<1>1. \A n \in Messages \ {m} : ~Live(n)'
  BY StillAlone DEF FeedInv, IInv
<1>2. api # "dispatched" /\ api # "deleted"
  BY ExistsNotEarly
<1>3. Watched'
  BY <1>1, <1>2 DEF Watched, SeenAt, EarlyAt
<1>4. QED
  BY <1>2, <1>3, FeedWritten DEF FeedStep, FeedInv

LEMMA SendStep ==
  ASSUME FeedInv, NEW m \in Messages, NEW k, Live(m), task[m].pc # "queued", Dispatch(m, k),
         UNCHANGED <<api, status, verdictFile, reportRow>>,
         Exists => status \in SeenAtTask(k, "queued")
  PROVE  FeedStep
<1>1. PICK n \in Messages \ {m} :
        /\ task'[n].pc = "queued" /\ task'[n].kind = k
        /\ \A o \in Messages \ {m, n} : task'[o] = task[o]
  BY DispatchEffect DEF FeedInv, IInv
<1>2. task'[m].pc = "acking"
  BY DispatchEffect DEF FeedInv, IInv
<1>3. \A o \in Messages \ {n} : ~Live(o)'
  BY <1>1, <1>2 DEF FeedInv, IInv, SingleToken, Live
<1>4. api # "dispatched"
  BY DEF FeedInv, Watched, EarlyAt
<1>5. Watched'
  BY <1>1, <1>3, <1>4 DEF Watched, SeenAt, EarlyAt, Exists
<1>6. QED
  BY <1>5, FeedUnseen DEF FeedStep

\* Whatever a task had reached, raising leaves a status it can begin again with,
\* and one that the status written by the handler may follow.
LEMMA RetrySeen ==
  ASSUME NEW k \in Retrying \cup {"run_cleanup"}, NEW p, NEW s \in SeenAtTask(k, p)
  PROVE  s \in SeenAtTask(k, "queued")
BY DEF Retrying, SeenAtTask

LEMMA RaiseFollows ==
  ASSUME NEW k, NEW p, NEW s \in SeenAtTask(k, p)
  PROVE  /\ k \in Retrying => "failed" \in Source!Follows(s)
         /\ k = "run_cleanup" => "reporting" \in Source!Follows(s)
         /\ k = "generate_report" => "error" \in Source!Follows(s)
BY DEF Retrying, SeenAtTask, Source!Follows

-----------------------------------------------------------------------------
(* The steps.                                                               *)

LEMMA PreflightFeeds ==
  ASSUME FeedInv, NEW m \in Messages, PreflightStep(m)
  PROVE  FeedStep
<1>0. TypeOK /\ (Live(m) => SeenAt(m) /\ EarlyAt(m))
  BY DEF FeedInv, IInv, Watched
<1>1. CASE PreflightNoProfile(m)
  <2>1. OnlyOn(m) /\ ~Live(m)' /\ Live(m) /\ UNCHANGED <<api, verdictFile, reportRow>>
    BY <1>0, <1>1, GotoEffect DEF PreflightNoProfile, At, Live
  <2>2. CASE Exists
    BY <1>0, <1>1, <2>1, <2>2, WriteStep
       DEF PreflightNoProfile, At, SeenAt, SeenAtTask, JobStatus, Source!Follows
  <2>3. CASE ~Exists
    BY <1>1, <2>1, <2>3, MoveStep DEF PreflightNoProfile
  <2>4. QED
    BY <2>2, <2>3
<1>2. CASE PreflightStart(m)
  BY <1>0, <1>2, GotoEffect, WriteStep
     DEF PreflightStart, At, Live, WriteStatus, SeenAt, SeenAtTask, JobStatus, Source!Follows
<1>3. CASE PreflightBaselineFails(m)
  BY <1>0, <1>3, GotoEffect, MoveStep
     DEF PreflightBaselineFails, At, Live, Exists, SeenAt, EarlyAt, SeenAtTask, jobVars
<1>4. CASE PreflightConfigure(m)
  BY <1>0, <1>4, GotoEffect, MoveStep
     DEF PreflightConfigure, At, Live, Exists, SeenAt, EarlyAt, SeenAtTask, jobVars
<1>5. CASE PreflightReboot(m)
  BY <1>0, <1>5, GotoEffect, WriteStep
     DEF PreflightReboot, At, Live, WriteStatus, SeenAt, SeenAtTask, JobStatus, Source!Follows
<1>6. CASE PreflightScripts(m)
  BY <1>0, <1>6, GotoEffect, MoveStep
     DEF PreflightScripts, At, Live, Exists, SeenAt, EarlyAt, SeenAtTask, jobVars
<1>7. CASE PreflightForward(m)
  BY <1>0, <1>7, SendStep DEF PreflightForward, At, Live, SeenAt, SeenAtTask, jobVars
<1>8. QED
  BY <1>1, <1>2, <1>3, <1>4, <1>5, <1>6, <1>7 DEF PreflightStep

LEMMA SwInstallFeeds ==
  ASSUME FeedInv, NEW m \in Messages, SwInstallStep(m)
  PROVE  FeedStep
<1>0. TypeOK /\ (Live(m) => SeenAt(m) /\ EarlyAt(m))
  BY DEF FeedInv, IInv, Watched
<1>1. CASE SwInstallStart(m)
  BY <1>0, <1>1, GotoEffect, WriteStep
     DEF SwInstallStart, At, Live, WriteStatus, SeenAt, SeenAtTask, JobStatus, Source!Follows
<1>2. CASE SwInstallReboot(m)
  BY <1>0, <1>2, GotoEffect, WriteStep
     DEF SwInstallReboot, At, Live, WriteStatus, SeenAt, SeenAtTask, JobStatus, Source!Follows
<1>3. CASE SwInstallSave(m)
  BY <1>0, <1>3, GotoEffect, MoveStep
     DEF SwInstallSave, At, Live, Exists, SeenAt, EarlyAt, SeenAtTask, jobVars
<1>4. CASE SwInstallJudge(m)
  BY <1>0, <1>4, GotoEffect, MoveStep
     DEF SwInstallJudge, At, Live, Exists, SeenAt, EarlyAt, SeenAtTask, jobVars
<1>5. CASE SwInstallForward(m)
  BY <1>0, <1>5, SendStep DEF SwInstallForward, At, Live, SeenAt, SeenAtTask, jobVars
<1>6. QED
  BY <1>1, <1>2, <1>3, <1>4, <1>5 DEF SwInstallStep

LEMMA PostInstallFeeds ==
  ASSUME FeedInv, NEW m \in Messages, PostInstallStep(m)
  PROVE  FeedStep
<1>0. TypeOK /\ (Live(m) => SeenAt(m) /\ EarlyAt(m))
  BY DEF FeedInv, IInv, Watched
<1>1. CASE PostInstallStart(m)
  BY <1>0, <1>1, GotoEffect, WriteStep
     DEF PostInstallStart, At, Live, WriteStatus, SeenAt, SeenAtTask, JobStatus, Source!Follows
<1>2. CASE PostInstallTools(m)
  BY <1>0, <1>2, GotoEffect, MoveStep
     DEF PostInstallTools, At, Live, Exists, SeenAt, EarlyAt, SeenAtTask, jobVars
<1>3. CASE PostInstallScripts(m)
  BY <1>0, <1>3, GotoEffect, MoveStep
     DEF PostInstallScripts, At, Live, Exists, SeenAt, EarlyAt, SeenAtTask, jobVars
<1>4. CASE PostInstallForward(m)
  BY <1>0, <1>4, SendStep DEF PostInstallForward, At, Live, SeenAt, SeenAtTask, jobVars
<1>5. CASE CollectResults(m)
  BY <1>0, <1>5, GotoEffect, WriteStep
     DEF CollectResults, At, Live, WriteStatus, SeenAt, SeenAtTask, JobStatus, Source!Follows
<1>6. CASE CollectForward(m)
  BY <1>0, <1>6, SendStep DEF CollectForward, At, Live, SeenAt, SeenAtTask, jobVars
<1>7. QED
  BY <1>1, <1>2, <1>3, <1>4, <1>5, <1>6 DEF PostInstallStep

LEMMA ValidateFeeds ==
  ASSUME FeedInv, NEW m \in Messages, ValidateStep(m)
  PROVE  FeedStep
<1>0. TypeOK /\ (Live(m) => SeenAt(m) /\ EarlyAt(m))
  BY DEF FeedInv, IInv, Watched
<1>1. CASE ValidateEmpty(m)
  BY <1>0, <1>1, GotoEffect, WriteStep
     DEF ValidateEmpty, At, Live, WriteStatus, SeenAt, SeenAtTask, JobStatus, Source!Follows
<1>2. CASE ValidateJudge(m)
  BY <1>0, <1>2, HoldEffect, MoveStep
     DEF ValidateJudge, At, Live, Exists, SeenAt, EarlyAt, SeenAtTask, jobVars
<1>3. CASE ValidateSave(m)
  <2>1. /\ OnlyOn(m) /\ Live(m) /\ task'[m].pc = "saved" /\ task'[m].kind = "validate_results"
        /\ UNCHANGED <<api, status, reportRow>>
    BY <1>0, <1>3, GotoEffect DEF ValidateSave, At, Live
  <2>2. ~reportRow
    BY <1>3, <2>1 DEF ValidateSave, At, FeedInv, ReportPhase, Reported
  <2>3. Watched'
    <3>1. \A o \in Messages \ {m} : ~Live(o)'
      BY <2>1, StillAlone DEF FeedInv, IInv
    <3>2. SeenAt(m)' /\ EarlyAt(m)'
      BY <1>0, <1>3, <2>1 DEF ValidateSave, At, SeenAt, EarlyAt, Exists, SeenAtTask
    <3>3. QED
      BY <3>1, <3>2 DEF Watched
  <2>4. Source!SourceNext
    <3>1. ~Quiet /\ UNCHANGED Life /\ (~Quiet)' \in BOOLEAN
      BY <2>1 DEF Quiet, Life, Exists
    <3>2. Source!Unseen
      BY <2>1, <2>2, <3>1 DEF Source!Unseen
    <3>3. QED
      BY <3>2 DEF Source!SourceNext
  <2>5. QED
    BY <2>3, <2>4 DEF FeedStep
<1>4. CASE ValidateStatus(m)
  <2>1. /\ OnlyOn(m) /\ Live(m) /\ task'[m].pc = "forward" /\ task'[m].kind = "validate_results"
        /\ Exists /\ UNCHANGED <<api, verdictFile, reportRow>>
    BY <1>0, <1>4, GotoEffect DEF ValidateStatus, At, Live, WriteStatus
  <2>2. status \in {"validating", "cleanup", "failed", "rejected"}
    BY <1>0, <1>4, <2>1 DEF ValidateStatus, At, SeenAt, SeenAtTask
  <2>3. status' \in {"cleanup", "failed", "rejected"}
    BY <1>4 DEF ValidateStatus, WriteStatus, StatusAfterVerdict
  <2>4. status' \in Source!Follows(status) /\ status' \in JobStatus /\ status' # "pass"
    BY <2>2, <2>3 DEF Source!Follows, JobStatus
  <2>5. status' \in SeenAtTask("validate_results", "forward")
    BY <2>3 DEF SeenAtTask
  <2>6. QED
    BY <2>1, <2>4, <2>5, WriteStep
<1>5. CASE ValidateForward(m)
  BY <1>0, <1>5, SendStep DEF ValidateForward, At, Live, SeenAt, SeenAtTask, jobVars
<1>6. QED
  BY <1>1, <1>2, <1>3, <1>4, <1>5 DEF ValidateStep

LEMMA CleanupFeeds ==
  ASSUME FeedInv, NEW m \in Messages, CleanupStep(m)
  PROVE  FeedStep
<1>0. TypeOK /\ (Live(m) => SeenAt(m) /\ EarlyAt(m))
  BY DEF FeedInv, IInv, Watched
<1>1. CASE CleanupStart(m)
  BY <1>0, <1>1, GotoEffect, WriteStep
     DEF CleanupStart, At, Live, WriteStatus, SeenAt, SeenAtTask, JobStatus, Source!Follows
<1>2. CASE CleanupSweep(m)
  BY <1>0, <1>2, GotoEffect, MoveStep
     DEF CleanupSweep, At, Live, Exists, SeenAt, EarlyAt, SeenAtTask, jobVars
<1>3. CASE CleanupStatus(m)
  BY <1>0, <1>3, GotoEffect, WriteStep
     DEF CleanupStatus, At, Live, WriteStatus, SeenAt, SeenAtTask, JobStatus, Source!Follows
<1>4. CASE CleanupForward(m)
  BY <1>0, <1>4, SendStep DEF CleanupForward, At, Live, SeenAt, SeenAtTask, jobVars
<1>5. QED
  BY <1>1, <1>2, <1>3, <1>4 DEF CleanupStep

LEMMA ReportFeeds ==
  ASSUME FeedInv, NEW m \in Messages, ReportStep(m)
  PROVE  FeedStep
<1>0. TypeOK /\ (Live(m) => SeenAt(m) /\ EarlyAt(m))
  BY DEF FeedInv, IInv, Watched
<1>1. CASE ReportRender(m)
  BY <1>0, <1>1, HoldEffect, MoveStep
     DEF ReportRender, At, Live, Exists, SeenAt, EarlyAt, SeenAtTask, jobVars
<1>2. CASE ReportRecord(m)
  <2>1. /\ OnlyOn(m) /\ Live(m) /\ task'[m].pc = "recorded" /\ task'[m].kind = "generate_report"
        /\ UNCHANGED <<api, status, verdictFile>> /\ Exists /\ ~reportRow /\ reportRow'
    BY <1>0, <1>2, GotoEffect DEF ReportRecord, At, Live
  <2>2. api # "deleted" /\ api # "dispatched"
    BY <2>1, ExistsNotEarly
  <2>3. Watched'
    <3>1. \A o \in Messages \ {m} : ~Live(o)'
      BY <2>1, StillAlone DEF FeedInv, IInv
    <3>2. SeenAt(m)' /\ EarlyAt(m)'
      BY <1>0, <1>2, <2>1, <2>2 DEF ReportRecord, At, SeenAt, EarlyAt, Exists, SeenAtTask
    <3>3. QED
      BY <3>1, <3>2 DEF Watched
  <2>4. Source!SourceNext
    <3>1. ~Quiet /\ UNCHANGED Life /\ Life = "live" /\ (~Quiet)' \in BOOLEAN
      BY <2>1, <2>2 DEF Quiet, Life, Exists
    <3>2. (verdictFile = "pass" /\ reportRow)' \in {verdictFile = "pass" /\ reportRow, Life = "live"}
      BY <2>1, <3>1
    <3>3. Source!Unseen
      BY <2>1, <3>1, <3>2 DEF Source!Unseen
    <3>4. QED
      BY <3>3 DEF Source!SourceNext
  <2>5. QED
    BY <2>3, <2>4 DEF FeedStep
<1>3. CASE ReportFinish(m)
  <2>1. /\ OnlyOn(m) /\ Live(m) /\ task'[m].pc = "closing" /\ task'[m].kind = "generate_report"
        /\ Exists /\ UNCHANGED <<api, verdictFile, reportRow>>
    BY <1>0, <1>3, GotoEffect DEF ReportFinish, At, Live, WriteStatus
  <2>2. status \in {"reporting", "error"}
    BY <1>0, <1>3, <2>1 DEF ReportFinish, At, SeenAt, SeenAtTask
  <2>3. status' \in {"pass", "failed", "rejected"}
    BY <1>3 DEF ReportFinish, WriteStatus, FinalStatus
  <2>4. status' = "pass" => verdictFile = "pass" /\ reportRow
    BY <1>3, <2>1, ExistsNotEarly DEF ReportFinish, At, WriteStatus, FinalStatus, FeedInv, IInv,
       ReportInHand, HoldsVerdict
  <2>5. status' \in Source!Follows(status) /\ status' \in JobStatus
    BY <2>2, <2>3 DEF Source!Follows, JobStatus
  <2>6. status' \in SeenAtTask("generate_report", "closing")
    BY <2>3 DEF SeenAtTask
  <2>7. QED
    BY <2>1, <2>4, <2>5, <2>6, WriteStep
<1>4. QED
  BY <1>1, <1>2, <1>3 DEF ReportStep

LEMMA SharedFeeds ==
  ASSUME FeedInv, NEW m \in Messages, SharedStep(m)
  PROVE  FeedStep
<1>0. TypeOK /\ (Live(m) => SeenAt(m) /\ EarlyAt(m))
  BY DEF FeedInv, IInv, Watched
<1>1. CASE RebootTimeout(m)
  BY <1>0, <1>1, GotoEffect, MoveStep
     DEF RebootTimeout, Live, Exists, SeenAt, EarlyAt, SeenAtTask, jobVars
<1>2. CASE MarkFailed(m)
  BY <1>0, <1>2, GotoEffect, WriteStep
     DEF MarkFailed, Live, WriteStatus, SeenAt, SeenAtTask, JobStatus, Source!Follows
<1>3. CASE DispatchCleanup(m)
  BY <1>0, <1>3, SendStep DEF DispatchCleanup, Live, SeenAt, SeenAtTask, jobVars
<1>4. CASE Close(m)
  BY <1>0, <1>4, GotoEffect, MoveStep DEF Close, Live, jobVars
<1>5. CASE Ack(m)
  <2>1. /\ \A o \in Messages : Live(o)' <=> Live(o)
        /\ \A o \in Messages : Live(o) => task'[o] = task[o]
        /\ UNCHANGED <<api, status, verdictFile, reportRow>>
    BY <1>0, <1>5 DEF Ack, Idle, TypeOK, Live, jobVars
  <2>2. Watched'
    BY <2>1 DEF FeedInv, Watched, SeenAt, EarlyAt, Exists
  <2>3. UNCHANGED Source!sourceVars
    BY <2>1 DEF Source!sourceVars, Life, Exists, Quiet
  <2>4. QED
    BY <2>2, <2>3 DEF FeedStep
<1>6. QED
  BY <1>1, <1>2, <1>3, <1>4, <1>5 DEF SharedStep

LEMMA HandlerFeeds ==
  ASSUME FeedInv, NEW m \in Messages, HandlerStep(m)
  PROVE  FeedStep
<1>0. TypeOK /\ (Live(m) => SeenAt(m) /\ EarlyAt(m))
  BY DEF FeedInv, IInv, Watched
<1>1. CASE Retry(m)
  <2>1. /\ OnlyOn(m) /\ Live(m) /\ task'[m].pc = "queued" /\ task'[m].kind = task[m].kind
        /\ UNCHANGED <<api, status, verdictFile, reportRow>>
        /\ task[m].kind \in Retrying \cup {"run_cleanup"}
    BY <1>0, <1>1, RequeueEffect DEF Retry, CanRaise, jobVars
  <2>2. SeenAt(m)'
    BY <1>0, <2>1, RetrySeen DEF SeenAt, Exists
  <2>3. QED
    BY <1>0, <2>1, <2>2, MoveStep DEF EarlyAt
<1>2. CASE Exhaust(m)
  <2>1. /\ OnlyOn(m) /\ Live(m) /\ UNCHANGED <<api, verdictFile, reportRow>>
        /\ task[m].kind \in Retrying
        /\ status' = IF Exists THEN "failed" ELSE status
    BY <1>0, <1>2, GotoEffect DEF Exhaust, CanRaise
  <2>2. ~Live(m)'
    BY <1>0, <1>2, <2>1, GotoEffect DEF Exhaust, Live
  <2>3. CASE Exists
    <3>1. "failed" \in Source!Follows(status)
      BY <1>0, <2>1, <2>3, RaiseFollows DEF SeenAt
    <3>2. QED
      BY <2>1, <2>2, <2>3, <3>1, WriteStep DEF JobStatus, SeenAtTask
  <2>4. CASE ~Exists
    BY <2>1, <2>2, <2>4, MoveStep
  <2>5. QED
    BY <2>3, <2>4
<1>3. CASE CollectRaise(m)
  <2>1. /\ OnlyOn(m) /\ Live(m) /\ UNCHANGED <<api, status, verdictFile, reportRow>>
        /\ task[m].kind = "run_collect" /\ task'[m].kind = "run_collect"
        /\ task[m].pc \notin {"aborting", "aborted"}
        /\ Live(m)' => Exists /\ task'[m].pc = "aborting"
    BY <1>0, <1>3, GotoEffect DEF CollectRaise, CanRaise, Live, jobVars
  <2>2. Live(m)' => SeenAt(m)' /\ EarlyAt(m)'
    BY <1>0, <2>1, ExistsNotEarly DEF SeenAt, EarlyAt, SeenAtTask, Exists
  <2>3. QED
    BY <2>1, <2>2, MoveStep
<1>4. CASE CleanupGiveUp(m)
  <2>1. /\ OnlyOn(m) /\ Live(m) /\ UNCHANGED <<api, verdictFile, reportRow>>
        /\ task[m].kind = "run_cleanup"
        /\ status' = IF Exists THEN "reporting" ELSE status
    BY <1>0, <1>4, GotoEffect DEF CleanupGiveUp, CanRaise
  <2>2. (Live(m)' => Exists /\ task'[m].kind = "run_cleanup" /\ task'[m].pc = "report_due")
    BY <1>0, <1>4, <2>1, GotoEffect DEF CleanupGiveUp, Live
  <2>3. CASE Exists
    <3>1. "reporting" \in Source!Follows(status)
      BY <1>0, <2>1, <2>3, RaiseFollows DEF SeenAt
    <3>2. QED
      BY <2>1, <2>2, <2>3, <3>1, WriteStep DEF JobStatus, SeenAtTask
  <2>4. CASE ~Exists
    BY <2>1, <2>2, <2>4, MoveStep
  <2>5. QED
    BY <2>3, <2>4
<1>5. CASE ReportRaise(m)
  <2>1. /\ OnlyOn(m) /\ Live(m) /\ UNCHANGED <<api, verdictFile, reportRow>>
        /\ task[m].kind = "generate_report"
        /\ status' = IF Exists THEN "error" ELSE status
    BY <1>0, <1>5, GotoEffect, RequeueEffect DEF ReportRaise, CanRaise
  <2>2. (Live(m)' => Exists /\ task'[m].kind = "generate_report" /\ task'[m].pc = "queued")
    BY <1>0, <1>5, <2>1, GotoEffect, RequeueEffect DEF ReportRaise, Live
  <2>3. CASE Exists
    <3>1. "error" \in Source!Follows(status)
      BY <1>0, <2>1, <2>3, RaiseFollows DEF SeenAt
    <3>2. QED
      BY <2>1, <2>2, <2>3, <3>1, WriteStep DEF JobStatus, SeenAtTask
  <2>4. CASE ~Exists
    BY <2>1, <2>2, <2>4, MoveStep
  <2>5. QED
    BY <2>3, <2>4
<1>6. CASE CollectGone(m)
  BY <1>0, <1>6, GotoEffect, MoveStep DEF CollectGone, At, Live, jobVars
<1>7. QED
  BY <1>1, <1>2, <1>3, <1>4, <1>5, <1>6 DEF HandlerStep

LEMMA FaultFeeds ==
  ASSUME FeedInv, MaxRedeliveries = 0, NEW m \in Messages, FaultStep(m)
  PROVE  FeedStep
<1>1. TypeOK
  BY DEF FeedInv, IInv
<1>2. ~WorkerLost(m) /\ ~VisibilityTimeout(m)
  BY <1>1 DEF TypeOK, WorkerLost, VisibilityTimeout
<1>3. CASE TaskDies(m)
  BY <1>1, <1>3, GotoEffect, MoveStep DEF TaskDies, Live, jobVars
<1>4. QED
  BY <1>2, <1>3 DEF FaultStep

LEMMA ApiFeeds ==
  ASSUME FeedInv, ApiStep
  PROVE  FeedStep
<1>0. TypeOK
  BY DEF FeedInv, IInv
<1>1. CASE CreateJob
  <2>1. PICK n \in Messages : task' = [task EXCEPT ![n] = Queued("run_preflight")]
    BY <1>1 DEF CreateJob
  <2>2. task'[n].pc = "queued" /\ task'[n].kind = "run_preflight" /\ OnlyOn(n)
    BY <1>0, <2>1 DEF TypeOK, Queued, OnlyOn
  <2>3. /\ ~Exists /\ api = "open" /\ api' = "dispatched"
        /\ \A o \in Messages : ~Live(o)
        /\ UNCHANGED <<status, verdictFile, reportRow>>
    BY <1>1 DEF CreateJob, FeedInv, IInv, Fresh, Quiet, Exists, jobVars
  <2>4. Watched'
    BY <2>2, <2>3 DEF Watched, SeenAt, EarlyAt, Exists, OnlyOn, Live
  <2>5. Life = "unborn" /\ UNCHANGED Life /\ (~Quiet)' \in BOOLEAN
    BY <2>3 DEF Life, Exists
  <2>6. Source!Dispatched
    BY <2>3, <2>5 DEF Source!Dispatched
  <2>7. QED
    BY <2>4, <2>6 DEF FeedStep, Source!SourceNext
<1>2. CASE CommitJob
  <2>1. /\ ~Exists /\ api = "dispatched" /\ api' = "committed" /\ status' = "pending"
        /\ UNCHANGED <<task, verdictFile, reportRow>>
    BY <1>2 DEF CommitJob, FeedInv, ReportPhase, Unborn
  <2>2. Watched'
    BY <2>1 DEF FeedInv, Watched, SeenAt, EarlyAt, SeenAtTask, Live
  <2>3. Life = "unborn" /\ Life' = "live" /\ UNCHANGED Quiet
    BY <2>1 DEF Life, Exists, Quiet, Live
  <2>4. Source!Committed
    BY <2>1, <2>3 DEF Source!Committed
  <2>5. QED
    BY <2>2, <2>4 DEF FeedStep, Source!SourceNext
<1>3. CASE RollbackJob
  <2>1. /\ ~Exists /\ api = "dispatched" /\ api' = "rolledback"
        /\ UNCHANGED <<task, status, verdictFile, reportRow>>
    BY <1>3 DEF RollbackJob, FeedInv, ReportPhase, Unborn, jobVars
  <2>2. Watched'
    BY <2>1 DEF Watched, SeenAt, EarlyAt, Exists
  <2>3. UNCHANGED Source!sourceVars
    BY <2>1 DEF Source!sourceVars, Life, Exists, Quiet, Live
  <2>4. QED
    BY <2>2, <2>3 DEF FeedStep
<1>4. CASE DeleteJob
  <2>1. /\ Exists /\ api' = "deleted" /\ status' = "absent" /\ reportRow' = FALSE
        /\ UNCHANGED task
    BY <1>4 DEF DeleteJob
  <2>2. Watched'
    BY <2>1 DEF Watched, SeenAt, EarlyAt, Exists
  <2>3. Life = "live" /\ Life' = "gone" /\ UNCHANGED Quiet
    BY <2>1, ExistsNotEarly DEF Life, Quiet, Live
  <2>4. Source!Deleted
    BY <2>1, <2>3 DEF Source!Deleted
  <2>5. QED
    BY <2>2, <2>4 DEF FeedStep, Source!SourceNext
<1>5. QED
  BY <1>1, <1>2, <1>3, <1>4 DEF ApiStep

LEMMA FeedsNext ==
  ASSUME MaxRedeliveries = 0, FeedInv, [Next]_vars
  PROVE  FeedStep
<1>1. CASE Next
  BY <1>1, ApiFeeds, PreflightFeeds, SwInstallFeeds, PostInstallFeeds, ValidateFeeds,
     CleanupFeeds, ReportFeeds, SharedFeeds, HandlerFeeds, FaultFeeds
     DEF Next, TaskStep
<1>2. CASE UNCHANGED vars
  <2>1. UNCHANGED <<api, status, verdictFile, reportRow, task>>
    BY <1>2 DEF vars
  <2>2. Watched'
    BY <2>1 DEF FeedInv, Watched, SeenAt, EarlyAt, Exists, Live
  <2>3. UNCHANGED Source!sourceVars
    BY <2>1 DEF Source!sourceVars, Life, Exists, Quiet, Live
  <2>4. QED
    BY <2>2, <2>3 DEF FeedStep
<1>3. QED
  BY <1>1, <1>2

\* The invariant of the statuses, beside those of single delivery and the report.
THEOREM FeedInductive == ASSUME MaxRedeliveries = 0 PROVE Spec => []FeedInv
<1>1. Init => Watched
  <2> SUFFICES ASSUME Init PROVE Watched
    OBVIOUS
  <2>1. \A m \in Messages : ~Live(m)
    BY DEF Init, Idle, Live
  <2>2. QED
    BY <2>1 DEF Watched
<1>2. ReportPhase /\ IInv /\ Watched /\ [Next]_vars => Watched'
  BY FeedsNext DEF FeedInv, FeedStep
<1>3. QED
  BY <1>1, <1>2, ReportInductive, PTL DEF Spec, FeedInv

\* When every message is delivered once, the statuses of a job follow one another as
\* module StatusSource has it, whatever fails, is retried, lost or deleted:
\* FeedsStream.  A second delivery is excluded: a late duplicate may write a status
\* after the tasks are over.
THEOREM PipelineFeedsStream == ASSUME MaxRedeliveries = 0 PROVE Spec => FeedsStream
<1>1. Init => Source!SourceInit
  <2> SUFFICES ASSUME Init PROVE Source!SourceInit
    OBVIOUS
  <2>1. Quiet
    BY DEF Init, Idle, Live, Quiet
  <2>2. Life = "unborn" /\ ~reportRow /\ status = "absent"
    BY DEF Init, Life, Exists
  <2>3. QED
    BY <2>1, <2>2 DEF Source!SourceInit
<1>2. FeedInv /\ [Next]_vars => [Source!SourceNext]_(Source!sourceVars)
  BY FeedsNext DEF FeedStep
<1>3. QED
  BY <1>1, <1>2, FeedInductive, PTL DEF Spec, FeedsStream, Source!SourceSpec

-----------------------------------------------------------------------------
(* JobLifecycle: one stage per kind of the live task.                       *)

LifeInv == FeedInv /\ RowInv

LifeStep == [Lifecycle!LifeNext]_(Lifecycle!lifeVars)

StageOf(k) ==
  CASE k = "run_cleanup" -> "cleaning"
    [] k = "generate_report" -> "reporting"
    [] OTHER -> "inspecting"

Shown(stage, s) == IF stage \in {"reporting", "over"} /\ s \in Settled THEN s ELSE "none"

LEMMA StageBefore ==
  ASSUME IInv, NEW m \in Messages, Live(m)
  PROVE  Stage = StageOf(task[m].kind) /\ Outcome = Shown(StageOf(task[m].kind), status)
<1>1. \A n \in Messages : Live(n) => n = m
  BY DEF IInv, SingleToken
<1>2. api # "open" /\ ~Quiet
  BY ApiNotOpen DEF Quiet
<1>3. Stage = StageOf(task[m].kind)
  BY <1>1, <1>2 DEF Stage, StageOf
<1>4. QED
  BY <1>3 DEF Outcome, Shown

LEMMA StageAfter ==
  ASSUME NEW m \in Messages, Live(m)', api' # "open", \A n \in Messages \ {m} : ~Live(n)'
  PROVE  Stage' = StageOf(task'[m].kind) /\ Outcome' = Shown(StageOf(task'[m].kind), status')
<1>1. ~Quiet'
  BY DEF Quiet
<1>2. Stage' = StageOf(task'[m].kind)
  BY <1>1 DEF Stage, StageOf
<1>3. QED
  BY <1>2 DEF Outcome, Shown

LEMMA StageOver ==
  ASSUME api' # "open", \A n \in Messages : ~Live(n)'
  PROVE  Stage' = "over" /\ Outcome' = Shown("over", status')
<1>1. Quiet'
  BY DEF Quiet
<1>2. Stage' = "over"
  BY <1>1 DEF Stage
<1>3. QED
  BY <1>2 DEF Outcome, Shown

\* The one live task goes on: nothing is seen but what a report writes.
LEMMA GoesOn ==
  ASSUME LifeInv, NEW m \in Messages, Live(m), OnlyOn(m), Live(m)',
         task'[m].kind = task[m].kind, UNCHANGED <<api, verdictFile>>,
         task[m].kind = "generate_report" =>
           status' = status \/ status' \in {FinalStatus(verdictFile), "error"}
  PROVE  LifeStep
<1>1. \A n \in Messages \ {m} : ~Live(n)'
  BY StillAlone DEF LifeInv, FeedInv, IInv
<1>2. api' # "open"
  BY ApiNotOpen DEF LifeInv, FeedInv
<1>3. /\ Stage = StageOf(task[m].kind) /\ Outcome = Shown(Stage, status)
      /\ Stage' = Stage /\ Outcome' = Shown(Stage, status')
  BY <1>1, <1>2, StageBefore, StageAfter DEF LifeInv, FeedInv
<1>4. CASE status' = status \/ task[m].kind # "generate_report"
  <2>1. Outcome' = Outcome
    BY <1>3, <1>4 DEF Shown, StageOf
  <2>2. QED
    BY <1>3, <2>1 DEF LifeStep, Lifecycle!lifeVars
<1>5. CASE status' \in {FinalStatus(verdictFile), "error"} /\ task[m].kind = "generate_report"
  <2>1. Stage = "reporting" /\ Outcome' = status'
    BY <1>3, <1>5 DEF Shown, StageOf, Settled, FinalStatus
  <2>2. Lifecycle!Show
    BY <1>3, <1>5, <2>1 DEF Lifecycle!Show, Lifecycle!Result, FinalStatus
  <2>3. QED
    BY <2>2 DEF LifeStep, Lifecycle!LifeNext
<1>6. QED
  BY <1>4, <1>5

\* The one live task ends and leaves no other: the conveyor stops.
LEMMA Ends ==
  ASSUME LifeInv, NEW m \in Messages, Live(m), OnlyOn(m), ~Live(m)',
         UNCHANGED <<api, verdictFile>>,
         IF task[m].kind = "generate_report" THEN status' \in {status, "error"}
                                             ELSE status' \notin {"pass", "error"}
  PROVE  LifeStep
<1>1. \A n \in Messages : ~Live(n)'
  BY StillAlone DEF LifeInv, FeedInv, IInv
<1>2. api' # "open"
  BY ApiNotOpen DEF LifeInv, FeedInv
<1>3. /\ Stage = StageOf(task[m].kind) /\ Outcome = Shown(Stage, status)
      /\ Stage' = "over" /\ Outcome' = Shown("over", status')
  BY <1>1, <1>2, StageBefore, StageOver DEF LifeInv, FeedInv
<1>4. CASE task[m].kind = "generate_report"
  <2>1. Lifecycle!Finish
    BY <1>3, <1>4 DEF Lifecycle!Finish, Lifecycle!Move, StageOf, Shown, Settled
  <2>2. QED
    BY <2>1 DEF LifeStep, Lifecycle!LifeNext
<1>5. CASE task[m].kind # "generate_report"
  <2>1. Lifecycle!GiveUp
    BY <1>3, <1>5 DEF Lifecycle!GiveUp, StageOf, Shown, Settled
  <2>2. QED
    BY <2>1 DEF LifeStep, Lifecycle!LifeNext
<1>6. QED
  BY <1>4, <1>5

\* The one live task hands over to the next, one stage on or in the same one.
LEMMA HandsOver ==
  ASSUME LifeInv, NEW m \in Messages, NEW k \in Kinds, Live(m), Dispatch(m, k),
         UNCHANGED <<api, status, verdictFile>>,
         \/ StageOf(task[m].kind) = "inspecting" /\ k # "generate_report"
         \/ task[m].kind = "run_cleanup" /\ k = "generate_report" /\ status \notin Settled
  PROVE  LifeStep
<1>1. PICK n \in Messages \ {m} :
        /\ task'[n].pc = "queued" /\ task'[n].kind = k
        /\ \A o \in Messages \ {m, n} : task'[o] = task[o]
  BY DispatchEffect DEF LifeInv, FeedInv, IInv
<1>2. task'[m].pc = "acking"
  BY DispatchEffect DEF LifeInv, FeedInv, IInv
<1>3. Live(n)' /\ \A o \in Messages \ {n} : ~Live(o)'
  BY <1>1, <1>2 DEF LifeInv, FeedInv, IInv, SingleToken, Live
<1>4. api' # "open"
  BY ApiNotOpen DEF LifeInv, FeedInv
<1>5. /\ Stage = StageOf(task[m].kind) /\ Outcome = Shown(Stage, status)
      /\ Stage' = StageOf(k) /\ Outcome' = Shown(StageOf(k), status)
  BY <1>1, <1>3, <1>4, StageBefore, StageAfter DEF LifeInv, FeedInv
<1>6. CASE StageOf(task[m].kind) = "inspecting" /\ k = "run_cleanup"
  <2>1. Lifecycle!Clean
    BY <1>5, <1>6 DEF Lifecycle!Clean, Lifecycle!Move, StageOf, Shown
  <2>2. QED
    BY <2>1 DEF LifeStep, Lifecycle!LifeNext
<1>7. CASE StageOf(task[m].kind) = "inspecting" /\ k \notin {"run_cleanup", "generate_report"}
  <2>1. Stage' = Stage /\ Outcome' = Outcome
    BY <1>5, <1>7 DEF StageOf, Shown
  <2>2. QED
    BY <2>1 DEF LifeStep, Lifecycle!lifeVars
<1>8. CASE task[m].kind = "run_cleanup" /\ k = "generate_report" /\ status \notin Settled
  <2>1. Lifecycle!Report
    BY <1>5, <1>8 DEF Lifecycle!Report, Lifecycle!Move, StageOf, Shown
  <2>2. QED
    BY <2>1 DEF LifeStep, Lifecycle!LifeNext
<1>9. QED
  BY <1>6, <1>7, <1>8

\* What a visible job shows while a task other than the report is live.
LEMMA NotShownYet ==
  ASSUME LifeInv, NEW m \in Messages, Live(m), task[m].kind # "generate_report"
  PROVE  status \notin {"pass", "error"}
<1>1. Exists => status \in SeenAtTask(task[m].kind, task[m].pc)
  BY DEF LifeInv, FeedInv, Watched, SeenAt
<1>2. QED
  BY <1>1 DEF Exists, SeenAtTask

\* Nor does a cleanup that has begun show what was judged.
LEMMA CleaningShowsNone ==
  ASSUME LifeInv, NEW m \in Messages, Live(m), task[m].kind = "run_cleanup",
         task[m].pc # "queued"
  PROVE  status \notin Settled
<1>1. Exists => status \in SeenAtTask(task[m].kind, task[m].pc)
  BY DEF LifeInv, FeedInv, Watched, SeenAt
<1>2. QED
  BY <1>1 DEF Exists, SeenAtTask, Settled

LEMMA PreflightLives ==
  ASSUME LifeInv, NEW m \in Messages, PreflightStep(m)
  PROVE  LifeStep
<1>0. TypeOK
  BY DEF LifeInv, RowInv
<1>1. CASE PreflightNoProfile(m)
  BY <1>0, <1>1, GotoEffect, Ends, NotShownYet DEF PreflightNoProfile, At, Live
<1>2. CASE PreflightStart(m)
  BY <1>0, <1>2, GotoEffect, GoesOn DEF PreflightStart, At, Live, jobVars
<1>3. CASE PreflightBaselineFails(m)
  BY <1>0, <1>3, GotoEffect, GoesOn DEF PreflightBaselineFails, At, Live, jobVars
<1>4. CASE PreflightConfigure(m)
  BY <1>0, <1>4, GotoEffect, GoesOn DEF PreflightConfigure, At, Live, jobVars
<1>5. CASE PreflightReboot(m)
  BY <1>0, <1>5, GotoEffect, GoesOn DEF PreflightReboot, At, Live, jobVars
<1>6. CASE PreflightScripts(m)
  BY <1>0, <1>6, GotoEffect, GoesOn DEF PreflightScripts, At, Live, jobVars
<1>7. CASE PreflightForward(m)
  BY <1>7, HandsOver DEF PreflightForward, At, Live, StageOf, Kinds, jobVars
<1>8. QED
  BY <1>1, <1>2, <1>3, <1>4, <1>5, <1>6, <1>7 DEF PreflightStep

LEMMA SwInstallLives ==
  ASSUME LifeInv, NEW m \in Messages, SwInstallStep(m)
  PROVE  LifeStep
<1>0. TypeOK
  BY DEF LifeInv, RowInv
<1>1. CASE SwInstallStart(m)
  BY <1>0, <1>1, GotoEffect, GoesOn DEF SwInstallStart, At, Live, jobVars
<1>2. CASE SwInstallReboot(m)
  BY <1>0, <1>2, GotoEffect, GoesOn DEF SwInstallReboot, At, Live, jobVars
<1>3. CASE SwInstallSave(m)
  BY <1>0, <1>3, GotoEffect, GoesOn DEF SwInstallSave, At, Live, jobVars
<1>4. CASE SwInstallJudge(m)
  BY <1>0, <1>4, GotoEffect, GoesOn DEF SwInstallJudge, At, Live, jobVars
<1>5. CASE SwInstallForward(m)
  BY <1>5, HandsOver DEF SwInstallForward, At, Live, StageOf, Kinds, jobVars
<1>6. QED
  BY <1>1, <1>2, <1>3, <1>4, <1>5 DEF SwInstallStep

LEMMA PostInstallLives ==
  ASSUME LifeInv, NEW m \in Messages, PostInstallStep(m)
  PROVE  LifeStep
<1>0. TypeOK
  BY DEF LifeInv, RowInv
<1>1. CASE PostInstallStart(m)
  BY <1>0, <1>1, GotoEffect, GoesOn DEF PostInstallStart, At, Live, jobVars
<1>2. CASE PostInstallTools(m)
  BY <1>0, <1>2, GotoEffect, GoesOn DEF PostInstallTools, At, Live, jobVars
<1>3. CASE PostInstallScripts(m)
  BY <1>0, <1>3, GotoEffect, GoesOn DEF PostInstallScripts, At, Live, jobVars
<1>4. CASE PostInstallForward(m)
  BY <1>4, HandsOver DEF PostInstallForward, At, Live, StageOf, Kinds, jobVars
<1>5. CASE CollectResults(m)
  BY <1>0, <1>5, GotoEffect, GoesOn DEF CollectResults, At, Live, jobVars
<1>6. CASE CollectForward(m)
  BY <1>6, HandsOver DEF CollectForward, At, Live, StageOf, Kinds, jobVars
<1>7. QED
  BY <1>1, <1>2, <1>3, <1>4, <1>5, <1>6 DEF PostInstallStep

LEMMA ValidateLives ==
  ASSUME LifeInv, NEW m \in Messages, ValidateStep(m)
  PROVE  LifeStep
<1>0. TypeOK
  BY DEF LifeInv, RowInv
<1>1. CASE ValidateEmpty(m)
  BY <1>0, <1>1, GotoEffect, GoesOn DEF ValidateEmpty, At, Live, jobVars
<1>2. CASE ValidateJudge(m)
  BY <1>0, <1>2, HoldEffect, GoesOn DEF ValidateJudge, At, Live, jobVars
<1>3. CASE ValidateSave(m)
  <2>1. /\ Live(m) /\ OnlyOn(m) /\ Live(m)' /\ UNCHANGED <<api, status>>
        /\ task[m].kind = "validate_results" /\ task'[m].kind = "validate_results"
    BY <1>0, <1>3, GotoEffect DEF ValidateSave, At, Live
  <2>2. verdictFile' \in {"pass", "fail", "rejected"}
    BY <1>0, <1>3 DEF ValidateSave, At, LifeInv, RowInv, RowRest, RowBacked, TypeOK, TaskType,
       Verdicts
  <2>3. \A n \in Messages \ {m} : ~Live(n)'
    BY <2>1, StillAlone DEF LifeInv, FeedInv, IInv
  <2>4. api' # "open"
    BY <2>1, ApiNotOpen DEF LifeInv, FeedInv
  <2>5. Stage = "inspecting" /\ Stage' = "inspecting" /\ Outcome = "none" /\ Outcome' = "none"
    BY <2>1, <2>3, <2>4, StageBefore, StageAfter DEF LifeInv, FeedInv, StageOf, Shown
  <2>6. Lifecycle!Judge
    BY <2>2, <2>5 DEF Lifecycle!Judge
  <2>7. QED
    BY <2>6 DEF LifeStep, Lifecycle!LifeNext
<1>4. CASE ValidateStatus(m)
  BY <1>0, <1>4, GotoEffect, GoesOn DEF ValidateStatus, At, Live, jobVars
<1>5. CASE ValidateForward(m)
  BY <1>5, HandsOver DEF ValidateForward, At, Live, StageOf, Kinds, jobVars
<1>6. QED
  BY <1>1, <1>2, <1>3, <1>4, <1>5 DEF ValidateStep

LEMMA CleanupLives ==
  ASSUME LifeInv, NEW m \in Messages, CleanupStep(m)
  PROVE  LifeStep
<1>0. TypeOK
  BY DEF LifeInv, RowInv
<1>1. CASE CleanupStart(m)
  BY <1>0, <1>1, GotoEffect, GoesOn DEF CleanupStart, At, Live, jobVars
<1>2. CASE CleanupSweep(m)
  BY <1>0, <1>2, GotoEffect, GoesOn DEF CleanupSweep, At, Live, jobVars
<1>3. CASE CleanupStatus(m)
  BY <1>0, <1>3, GotoEffect, GoesOn DEF CleanupStatus, At, Live, jobVars
<1>4. CASE CleanupForward(m)
  BY <1>4, HandsOver, CleaningShowsNone DEF CleanupForward, At, Live, Kinds, jobVars
<1>5. QED
  BY <1>1, <1>2, <1>3, <1>4 DEF CleanupStep

LEMMA ReportLives ==
  ASSUME LifeInv, NEW m \in Messages, ReportStep(m)
  PROVE  LifeStep
<1>0. TypeOK
  BY DEF LifeInv, RowInv
<1>1. CASE ReportRender(m)
  BY <1>0, <1>1, HoldEffect, GoesOn DEF ReportRender, At, Live, jobVars
<1>2. CASE ReportRecord(m)
  BY <1>0, <1>2, GotoEffect, GoesOn DEF ReportRecord, At, Live, jobVars
<1>3. CASE ReportFinish(m)
  <2>1. task[m].val = IF verdictFile = "none" THEN "fail" ELSE verdictFile
    BY <1>3 DEF ReportFinish, At, LifeInv, FeedInv, IInv, ReportInHand, HoldsVerdict
  <2>2. status' = FinalStatus(verdictFile)
    BY <1>3, <2>1 DEF ReportFinish, WriteStatus, FinalStatus
  <2>3. QED
    BY <1>0, <1>3, <2>2, GotoEffect, GoesOn DEF ReportFinish, At, Live
<1>4. QED
  BY <1>1, <1>2, <1>3 DEF ReportStep

LEMMA SharedLives ==
  ASSUME LifeInv, NEW m \in Messages, SharedStep(m)
  PROVE  LifeStep
<1>0. TypeOK
  BY DEF LifeInv, RowInv
<1>1. CASE RebootTimeout(m)
  <2>1. /\ OnlyOn(m) /\ Live(m) /\ Live(m)' /\ task'[m].kind = task[m].kind
        /\ UNCHANGED <<api, verdictFile>>
    BY <1>0, <1>1, GotoEffect DEF RebootTimeout, Live, jobVars
  <2>2. task[m].kind # "generate_report"
    BY <1>1 DEF RebootTimeout, LifeInv, FeedInv, ReportPhase, TailPoints
  <2>3. QED
    BY <2>1, <2>2, GoesOn
<1>2. CASE MarkFailed(m)
  <2>1. /\ OnlyOn(m) /\ Live(m) /\ Live(m)' /\ task'[m].kind = task[m].kind
        /\ UNCHANGED <<api, verdictFile>>
    BY <1>0, <1>2, GotoEffect DEF MarkFailed, Live, jobVars
  <2>2. task[m].kind # "generate_report"
    BY <1>2 DEF MarkFailed, LifeInv, FeedInv, ReportPhase, TailPoints
  <2>3. QED
    BY <2>1, <2>2, GoesOn
<1>3. CASE DispatchCleanup(m)
  <2>1. Live(m) /\ Dispatch(m, "run_cleanup") /\ UNCHANGED <<api, status, verdictFile>>
    BY <1>3 DEF DispatchCleanup, Live, jobVars
  <2>2. StageOf(task[m].kind) = "inspecting"
    <3>1. Exists => task[m].kind \notin {"run_cleanup", "generate_report"}
      BY <1>3, <2>1 DEF DispatchCleanup, LifeInv, FeedInv, Watched, SeenAt, SeenAtTask
    <3>2. task[m].kind # "generate_report"
      BY <1>3 DEF DispatchCleanup, LifeInv, FeedInv, ReportPhase, TailPoints
    <3>3. task[m].kind # "run_cleanup"
      BY <1>3 DEF DispatchCleanup, LifeInv, FeedInv, ReportPhase, TailPoints
    <3>4. QED
      BY <3>2, <3>3 DEF StageOf
  <2>3. QED
    BY <2>1, <2>2, HandsOver DEF Kinds
<1>4. CASE Close(m)
  <2>1. /\ Live(m) /\ OnlyOn(m) /\ ~Live(m)' /\ UNCHANGED <<api, status, verdictFile>>
    BY <1>0, <1>4, GotoEffect DEF Close, Live, jobVars
  <2>2. QED
    BY <2>1, Ends, NotShownYet
<1>5. CASE Ack(m)
  <2>1. /\ \A o \in Messages : Live(o)' <=> Live(o)
        /\ \A o \in Messages : Live(o) => task'[o] = task[o]
        /\ UNCHANGED <<api, status, verdictFile>>
    BY <1>0, <1>5 DEF Ack, Idle, TypeOK, Live, jobVars
  <2>2. UNCHANGED Stage
    BY <2>1 DEF Stage, Quiet
  <2>3. UNCHANGED Lifecycle!lifeVars
    BY <2>1, <2>2 DEF Lifecycle!lifeVars, Outcome
  <2>4. QED
    BY <2>3 DEF LifeStep
<1>6. QED
  BY <1>1, <1>2, <1>3, <1>4, <1>5 DEF SharedStep

LEMMA HandlerLives ==
  ASSUME LifeInv, NEW m \in Messages, HandlerStep(m)
  PROVE  LifeStep
<1>0. TypeOK
  BY DEF LifeInv, RowInv
<1>1. CASE Retry(m)
  <2>1. /\ OnlyOn(m) /\ Live(m) /\ Live(m)' /\ task'[m].kind = task[m].kind
        /\ UNCHANGED <<api, status, verdictFile>>
    BY <1>0, <1>1, RequeueEffect DEF Retry, CanRaise, Live, jobVars
  <2>2. QED
    BY <2>1, GoesOn
<1>2. CASE Exhaust(m)
  <2>1. /\ OnlyOn(m) /\ Live(m) /\ ~Live(m)' /\ UNCHANGED <<api, verdictFile>>
        /\ task[m].kind \notin {"generate_report", "run_cleanup"}
        /\ status' \in {status, "failed"}
    BY <1>0, <1>2, GotoEffect DEF Exhaust, CanRaise, Retrying, Live
  <2>2. QED
    BY <2>1, Ends, NotShownYet
<1>3. CASE CollectRaise(m)
  <2>1. /\ OnlyOn(m) /\ Live(m) /\ UNCHANGED <<api, status, verdictFile>>
        /\ task[m].kind = "run_collect" /\ task'[m].kind = "run_collect"
    BY <1>0, <1>3, GotoEffect DEF CollectRaise, CanRaise, Live, jobVars
  <2>2. QED
    BY <2>1, GoesOn, Ends, NotShownYet
<1>4. CASE CleanupGiveUp(m)
  <2>1. /\ OnlyOn(m) /\ Live(m) /\ UNCHANGED <<api, verdictFile>>
        /\ task[m].kind = "run_cleanup" /\ task'[m].kind = "run_cleanup"
        /\ status' \notin {"pass", "error"}
    BY <1>0, <1>4, GotoEffect DEF CleanupGiveUp, CanRaise, Exists
  <2>2. QED
    BY <2>1, GoesOn, Ends
<1>5. CASE ReportRaise(m)
  <2>1. /\ OnlyOn(m) /\ Live(m) /\ UNCHANGED <<api, verdictFile>>
        /\ task[m].kind = "generate_report" /\ task'[m].kind = "generate_report"
        /\ status' \in {status, "error"}
    BY <1>0, <1>5, GotoEffect, RequeueEffect DEF ReportRaise, CanRaise
  <2>2. QED
    BY <2>1, GoesOn, Ends
<1>6. CASE CollectGone(m)
  <2>1. /\ OnlyOn(m) /\ Live(m) /\ UNCHANGED <<api, status, verdictFile>>
        /\ task[m].kind = "run_collect" /\ task'[m].kind = "run_collect"
    BY <1>0, <1>6, GotoEffect DEF CollectGone, At, Live, jobVars
  <2>2. QED
    BY <2>1, GoesOn, Ends, NotShownYet
<1>7. QED
  BY <1>1, <1>2, <1>3, <1>4, <1>5, <1>6 DEF HandlerStep

LEMMA FaultLives ==
  ASSUME LifeInv, MaxRedeliveries = 0, NEW m \in Messages, FaultStep(m)
  PROVE  LifeStep
<1>1. TypeOK
  BY DEF LifeInv, RowInv
<1>2. ~WorkerLost(m) /\ ~VisibilityTimeout(m)
  BY <1>1 DEF TypeOK, WorkerLost, VisibilityTimeout
<1>3. CASE TaskDies(m)
  <2>1. /\ Live(m) /\ OnlyOn(m) /\ ~Live(m)' /\ UNCHANGED <<api, status, verdictFile>>
    BY <1>1, <1>3, GotoEffect DEF TaskDies, Live, jobVars
  <2>2. QED
    BY <2>1, Ends, NotShownYet
<1>4. QED
  BY <1>2, <1>3 DEF FaultStep

LEMMA ApiLives ==
  ASSUME LifeInv, ApiStep
  PROVE  LifeStep
<1>0. TypeOK
  BY DEF LifeInv, RowInv
<1>1. CASE CreateJob
  <2>1. PICK n \in Messages : task' = [task EXCEPT ![n] = Queued("run_preflight")]
    BY <1>1 DEF CreateJob
  <2>2. task'[n].pc = "queued" /\ task'[n].kind = "run_preflight" /\ OnlyOn(n)
    BY <1>0, <2>1 DEF TypeOK, Queued, OnlyOn
  <2>3. /\ api = "open" /\ api' = "dispatched" /\ UNCHANGED verdictFile
        /\ \A o \in Messages : ~Live(o)
    BY <1>1 DEF CreateJob, LifeInv, FeedInv, IInv, Fresh, Quiet, jobVars
  <2>4. Live(n)' /\ \A o \in Messages \ {n} : ~Live(o)'
    BY <2>2, <2>3 DEF OnlyOn, Live
  <2>5. Stage = "submitted" /\ Outcome = "none"
    BY <2>3 DEF Stage, Outcome
  <2>6. Stage' = "inspecting" /\ Outcome' = "none"
    BY <2>2, <2>3, <2>4, StageAfter DEF StageOf, Shown
  <2>7. Lifecycle!Begin
    BY <2>3, <2>5, <2>6 DEF Lifecycle!Begin, Lifecycle!Move
  <2>8. QED
    BY <2>7 DEF LifeStep, Lifecycle!LifeNext
<1>2. CASE CommitJob \/ RollbackJob
  <2>1. /\ ~Exists /\ api \notin {"open"} /\ api' \notin {"open"} /\ status' \notin Settled
        /\ UNCHANGED <<task, verdictFile>>
    BY <1>2 DEF CommitJob, RollbackJob, LifeInv, FeedInv, ReportPhase, Unborn, Exists, Settled,
       jobVars
  <2>2. UNCHANGED Stage
    BY <2>1 DEF Stage, Quiet, Live
  <2>3. Outcome = "none" /\ Outcome' = "none"
    BY <2>1 DEF Outcome, Exists, Settled
  <2>4. QED
    BY <2>1, <2>2, <2>3 DEF LifeStep, Lifecycle!lifeVars
<1>3. CASE DeleteJob
  <2>1. /\ api # "open" /\ api' # "open" /\ status' = "absent" /\ UNCHANGED <<task, verdictFile>>
    BY <1>3 DEF DeleteJob, LifeInv, FeedInv, ReportPhase, Unborn
  <2>2. UNCHANGED Stage /\ Outcome' = "none"
    BY <2>1 DEF Stage, Quiet, Live, Outcome, Settled
  <2>3. Lifecycle!Withdraw
    BY <2>1, <2>2 DEF Lifecycle!Withdraw
  <2>4. QED
    BY <2>3 DEF LifeStep, Lifecycle!LifeNext
<1>4. QED
  BY <1>1, <1>2, <1>3 DEF ApiStep

\* The job moves forward only, is judged only while it is inspected, and shows an
\* outcome only at its end, the one it was judged, whatever fails, is retried, lost
\* or deleted: Refines.
THEOREM PipelineRefinesLifecycle == ASSUME MaxRedeliveries = 0 PROVE Spec => Refines
<1>1. Init => Lifecycle!LifeInit
  <2> SUFFICES ASSUME Init PROVE Lifecycle!LifeInit
    OBVIOUS
  <2>1. \A m \in Messages : ~Live(m)
    BY DEF Init, Idle, Live
  <2>2. Stage = "submitted" /\ Outcome = "none" /\ verdictFile = "none"
    BY <2>1 DEF Init, Stage, Outcome
  <2>3. QED
    BY <2>2 DEF Lifecycle!LifeInit
<1>2. LifeInv /\ [Next]_vars => [Lifecycle!LifeNext]_(Lifecycle!lifeVars)
  <2>1. ASSUME LifeInv, Next PROVE LifeStep
    BY <2>1, ApiLives, PreflightLives, SwInstallLives, PostInstallLives, ValidateLives,
       CleanupLives, ReportLives, SharedLives, HandlerLives, FaultLives
       DEF Next, TaskStep
  <2>2. ASSUME LifeInv, UNCHANGED vars PROVE LifeStep
    <3>1. UNCHANGED <<api, status, verdictFile, task>>
      BY <2>2 DEF vars
    <3>2. UNCHANGED Stage
      BY <3>1 DEF Stage, Quiet, Live
    <3>3. UNCHANGED Lifecycle!lifeVars
      BY <3>1, <3>2 DEF Lifecycle!lifeVars, Outcome
    <3>4. QED
      BY <3>3 DEF LifeStep
  <2>3. QED
    BY <2>1, <2>2 DEF LifeStep
<1>3. Spec => []LifeInv
  BY FeedInductive, RowInductive, PTL DEF LifeInv
<1>4. QED
  BY <1>1, <1>2, <1>3, PTL DEF Spec, Refines, Lifecycle!LifeSpec
=============================================================================
