----------------------------- MODULE JobPipeline -----------------------------
(***************************************************************************)
(* The life of one inspection job: the API request that creates it, the    *)
(* seven Celery tasks that hand it on to one another through Redis, the    *)
(* row of table jobs they all write, and the artefacts they leave (check   *)
(* rows, the verdict file on NFS, the report row, software on the target). *)
(*                                                                         *)
(* A task is a message that a worker holds at some program point.  Points  *)
(* are the places where the handler has committed something another        *)
(* process can see: between two of them it can raise, its worker can die,  *)
(* or the broker can deliver the message again (acks_late, see             *)
(* config/celeryconfig.py).                                                *)
(***************************************************************************)
EXTENDS Naturals, FiniteSets

CONSTANTS
  Messages,         \* slots for the messages in the broker or at a worker
  Requests,         \* the bodies POST /api/jobs/ may be called with
  RetryBound,       \* bound: retries explored; 3 gives every task its own limit
  Causes,           \* the reasons for which a message is delivered again
  MaxRedeliveries,  \* bound: messages delivered a second time
  MaxLosses         \* bound: tasks that end without their error handler

RequestType == [swReq : BOOLEAN, profile : BOOLEAN, scripts : BOOLEAN]

ASSUME RequestsAssumption == Requests \subseteq RequestType
ASSUME CausesAssumption == Causes \subseteq {"worker_lost", "visibility_timeout"}
ASSUME BoundsAssumption ==
  RetryBound \in 0..3 /\ MaxRedeliveries \in Nat /\ MaxLosses \in Nat

VARIABLES
  api,          \* how far create_job / delete_job have got
  request,      \* the columns of the job no task ever changes
  status,       \* jobs.status, "absent" when no such row is visible
  checkRows,    \* has the job any row in check_results?
  verdictFile,  \* claude_verdict.json on NFS
  reportRow,    \* has the job its row in reports (job_id is UNIQUE)?
  host,         \* inspection-only software on the target server
  task,         \* the state of every message
  gaveUp,       \* history: cleanup ran out of retries
  redeliveries, losses

jobVars   == <<status, checkRows, verdictFile, reportRow>>
faultVars == <<redeliveries, losses>>
vars == <<api, request, status, checkRows, verdictFile, reportRow, host, task,
          gaveUp, redeliveries, losses>>

-----------------------------------------------------------------------------
(* Types.                                                                  *)

Kinds == {"run_preflight", "run_sw_install", "run_post_install", "run_collect",
          "validate_results", "run_cleanup", "generate_report"}

JobStatus == {"pending", "preflight", "sw_install", "rebooting", "post_install",
              "validating", "cleanup", "reporting", "pass", "failed",
              "rejected", "report_failed", "error"}

Verdicts == {"pass", "fail", "rejected"}

Points == {"free", "queued", "started", "reboot_due", "rebooting", "equipped",
           "judged", "saved", "swept", "rendered", "recorded", "closing",
           "aborting", "aborted", "forward", "report_due", "acking"}

Idle == [kind |-> "none", pc |-> "free", tries |-> 0, val |-> "none"]
Queued(k) == [kind |-> k, pc |-> "queued", tries |-> 0, val |-> "none"]

TaskType == [kind : Kinds \cup {"none"}, pc : Points, tries : 0..3,
             val : Verdicts \cup {"none"}]

HostStates == {"clean", "tooled", "swept", "left"}

TypeOK ==
  /\ api \in {"open", "dispatched", "committed", "rolledback", "deleted"}
  /\ request \in Requests
  /\ status \in JobStatus \cup {"absent"}
  /\ checkRows \in BOOLEAN
  /\ verdictFile \in Verdicts \cup {"none"}
  /\ reportRow \in BOOLEAN
  /\ host \in HostStates
  /\ task \in [Messages -> TaskType]
  /\ gaveUp \in BOOLEAN
  /\ redeliveries \in 0..MaxRedeliveries
  /\ losses \in 0..MaxLosses

-----------------------------------------------------------------------------
(* Helpers.                                                                *)

\* A live message still has work to do; one at "acking" is done but unconfirmed.
Live(m) == task[m].pc \notin {"free", "acking"}
Quiet == \A m \in Messages : ~Live(m)

Exists == status # "absent"

\* A retried message waits 20 s or more, longer than a request stays uncommitted.
Ready(m) == task[m].tries = 0 \/ api # "dispatched"

\* The message m is of kind k and the worker stands at point p.
At(m, k, p) ==
  /\ task[m].kind = k
  /\ task[m].pc = p
  /\ p = "queued" => Ready(m)

Goto(m, p) == task' = [task EXCEPT ![m].pc = p]
Hold(m, p, v) == task' = [task EXCEPT ![m].pc = p, ![m].val = v]

\* apply_async(...) as the last thing a handler does.
Dispatch(m, k) ==
  \E n \in Messages :
    /\ task[n].pc = "free"
    /\ task' = [task EXCEPT ![m].pc = "acking", ![n] = Queued(k)]

\* self.retry(exc=exc): the message goes back with its counter raised.
Requeue(m) ==
  task' = [task EXCEPT ![m].pc = "queued", ![m].val = "none", ![m].tries = @ + 1]

MaxRetries(k) == IF k \in {"run_collect", "run_cleanup"} THEN 1 ELSE 3

\* Mutant: one retry too many.
ExhaustedLate(m) ==
  task[m].tries > RetryBound \/ task[m].tries > MaxRetries(task[m].kind)

Exhausted(m) ==
  task[m].tries >= RetryBound \/ task[m].tries >= MaxRetries(task[m].kind)

\* Mutant: an UPDATE that does not look whether the row is still there.
WriteStatusBlind(s) == status' = s

\* _update_job raises ValueError when the row is not there.
WriteStatus(s) == Exists /\ status' = s

-----------------------------------------------------------------------------
Init ==
  /\ api = "open"
  /\ request \in Requests
  /\ status = "absent"
  /\ checkRows = FALSE
  /\ verdictFile = "none"
  /\ reportRow = FALSE
  /\ host = "clean"
  /\ task = [m \in Messages |-> Idle]
  /\ gaveUp = FALSE
  /\ redeliveries = 0
  /\ losses = 0

-----------------------------------------------------------------------------
(* The jobs router.  create_job flushes, dispatches, and only then commits. *)

CreateJob ==
  /\ api = "open"
  /\ api' = "dispatched"
  /\ \E n \in Messages : task' = [task EXCEPT ![n] = Queued("run_preflight")]
  /\ UNCHANGED <<request, jobVars, host, gaveUp, faultVars>>

CommitJob ==
  /\ api = "dispatched"
  /\ api' = "committed"
  /\ status' = "pending"
  /\ UNCHANGED <<request, checkRows, verdictFile, reportRow, host, task, gaveUp, faultVars>>

\* The commit fails: the message is out, the row never becomes visible.
RollbackJob ==
  /\ api = "dispatched"
  /\ api' = "rolledback"
  /\ UNCHANGED <<request, jobVars, host, task, gaveUp, faultVars>>

\* Deleting revokes no task; the rows of the job go with it (cascade).
DeleteJob ==
  /\ Exists
  /\ api' = "deleted"
  /\ status' = "absent"
  /\ checkRows' = FALSE
  /\ reportRow' = FALSE
  /\ UNCHANGED <<request, verdictFile, host, task, gaveUp, faultVars>>

-----------------------------------------------------------------------------
(* run_preflight.                                                          *)

\* Profile not found: the handler marks the job failed, which itself raises
\* when the row is not there yet; either way the message is done.
PreflightNoProfile(m) ==
  /\ At(m, "run_preflight", "queued")
  /\ ~request.profile
  /\ status' = IF Exists THEN "failed" ELSE status
  /\ Goto(m, "acking")
  /\ UNCHANGED <<api, request, checkRows, verdictFile, reportRow, host, gaveUp, faultVars>>

PreflightStart(m) ==
  /\ At(m, "run_preflight", "queued")
  /\ request.profile
  /\ WriteStatus("preflight")
  /\ Goto(m, "started")
  /\ UNCHANGED <<api, request, checkRows, verdictFile, reportRow, host, gaveUp, faultVars>>

\* Baseline packages missing, or no sudo password to install them with.
PreflightBaselineFails(m) ==
  /\ At(m, "run_preflight", "started")
  /\ Exists
  /\ checkRows' = TRUE
  /\ Goto(m, "aborting")
  /\ UNCHANGED <<api, request, status, verdictFile, reportRow, host, gaveUp, faultVars>>

\* GRUB parameters changed, or a temporary driver was installed, or both.
PreflightConfigure(m) ==
  /\ At(m, "run_preflight", "started")
  /\ host' \in {host, "tooled"}
  /\ Goto(m, "reboot_due")
  /\ UNCHANGED <<api, request, jobVars, gaveUp, faultVars>>

PreflightReboot(m) ==
  /\ At(m, "run_preflight", "reboot_due")
  /\ WriteStatus("rebooting")
  /\ Goto(m, "rebooting")
  /\ UNCHANGED <<api, request, checkRows, verdictFile, reportRow, host, gaveUp, faultVars>>

\* The phase scripts run, in the first session or in the one after the reboot.
\* A script that exits non-zero ends the phase; each leaves a check row.
PreflightScripts(m) ==
  /\ At(m, "run_preflight", "started") \/ At(m, "run_preflight", "rebooting")
  /\ request.scripts => Exists
  /\ checkRows' = (checkRows \/ request.scripts)
  /\ \/ Goto(m, "forward")
     \/ request.scripts /\ Goto(m, "aborting")
  /\ UNCHANGED <<api, request, status, verdictFile, reportRow, host, gaveUp, faultVars>>

\* The server answers no connection within 300 s (also in run_sw_install).
RebootTimeout(m) ==
  /\ task[m].pc = "rebooting"
  /\ Goto(m, "aborting")
  /\ UNCHANGED <<api, request, jobVars, host, gaveUp, faultVars>>

\* has_sw_req = bool(job and job.sw_requirements)
PreflightForward(m) ==
  /\ At(m, "run_preflight", "forward")
  /\ Dispatch(m, IF Exists /\ request.swReq THEN "run_sw_install" ELSE "run_post_install")
  /\ UNCHANGED <<api, request, jobVars, host, gaveUp, faultVars>>

-----------------------------------------------------------------------------
(* run_sw_install: see module SwInstall for what happens inside a session.  *)

SwInstallStart(m) ==
  /\ At(m, "run_sw_install", "queued")
  /\ WriteStatus("sw_install")
  /\ Goto(m, "started")
  /\ UNCHANGED <<api, request, checkRows, verdictFile, reportRow, host, gaveUp, faultVars>>

SwInstallReboot(m) ==
  /\ At(m, "run_sw_install", "started")
  /\ WriteStatus("rebooting")
  /\ Goto(m, "rebooting")
  /\ UNCHANGED <<api, request, checkRows, verdictFile, reportRow, host, gaveUp, faultVars>>

\* The results of all items.
SwInstallSave(m) ==
  /\ At(m, "run_sw_install", "started") \/ At(m, "run_sw_install", "rebooting")
  /\ Exists
  /\ checkRows' = TRUE
  /\ Goto(m, "saved")
  /\ UNCHANGED <<api, request, status, verdictFile, reportRow, host, gaveUp, faultVars>>

\* A failure the planner agent could not repair fails the job.
SwInstallJudge(m) ==
  /\ At(m, "run_sw_install", "saved")
  /\ Goto(m, "forward") \/ Goto(m, "aborting")
  /\ UNCHANGED <<api, request, jobVars, host, gaveUp, faultVars>>

SwInstallForward(m) ==
  /\ At(m, "run_sw_install", "forward")
  /\ Dispatch(m, "run_post_install")
  /\ UNCHANGED <<api, request, jobVars, host, gaveUp, faultVars>>

-----------------------------------------------------------------------------
(* run_post_install.                                                       *)

PostInstallStart(m) ==
  /\ At(m, "run_post_install", "queued")
  /\ WriteStatus("post_install")
  /\ Goto(m, "started")
  /\ UNCHANGED <<api, request, checkRows, verdictFile, reportRow, host, gaveUp, faultVars>>

\* Stress tools and a temporary CUDA; both are skipped without a password.
PostInstallTools(m) ==
  /\ At(m, "run_post_install", "started")
  /\ host' \in {host, "tooled"}
  /\ Goto(m, "equipped")
  /\ UNCHANGED <<api, request, jobVars, gaveUp, faultVars>>

PostInstallScripts(m) ==
  /\ At(m, "run_post_install", "equipped")
  /\ request.scripts => Exists
  /\ checkRows' = (checkRows \/ request.scripts)
  /\ \/ Goto(m, "forward")
     \/ request.scripts /\ Goto(m, "aborting")
  /\ UNCHANGED <<api, request, status, verdictFile, reportRow, host, gaveUp, faultVars>>

PostInstallForward(m) ==
  /\ At(m, "run_post_install", "forward")
  /\ Dispatch(m, "run_collect")
  /\ UNCHANGED <<api, request, jobVars, host, gaveUp, faultVars>>

-----------------------------------------------------------------------------
(* run_collect: an SSH failure is not fatal, the rows are then missing.     *)

CollectResults(m) ==
  /\ At(m, "run_collect", "queued")
  /\ WriteStatus("validating")
  /\ checkRows' \in {checkRows, checkRows \/ request.scripts}
  /\ Goto(m, "forward")
  /\ UNCHANGED <<api, request, verdictFile, reportRow, host, gaveUp, faultVars>>

CollectForward(m) ==
  /\ At(m, "run_collect", "forward")
  /\ Dispatch(m, "validate_results")
  /\ UNCHANGED <<api, request, jobVars, host, gaveUp, faultVars>>

-----------------------------------------------------------------------------
(* validate_results.                                                       *)

\* No check rows: failed, and no cleanup is dispatched.
ValidateEmpty(m) ==
  /\ At(m, "validate_results", "queued")
  /\ ~checkRows
  /\ WriteStatus("failed")
  /\ Goto(m, "closing")
  /\ UNCHANGED <<api, request, checkRows, verdictFile, reportRow, host, gaveUp, faultVars>>

\* The rules (module RuleValidator) or the Verify Agent settle on a verdict.
ValidateJudge(m) ==
  /\ At(m, "validate_results", "queued")
  /\ Exists /\ checkRows
  /\ \E v \in Verdicts : Hold(m, "judged", v)
  /\ UNCHANGED <<api, request, jobVars, host, gaveUp, faultVars>>

ValidateSave(m) ==
  /\ At(m, "validate_results", "judged")
  /\ verdictFile' = task[m].val
  /\ Goto(m, "saved")
  /\ UNCHANGED <<api, request, status, checkRows, reportRow, host, gaveUp, faultVars>>

\* Mutant: the outcome is announced before cleanup and report.
StatusAfterVerdictEarly(v) ==
  CASE v = "pass" -> "pass" [] v = "fail" -> "failed" [] OTHER -> "rejected"

StatusAfterVerdict(v) ==
  CASE v = "pass" -> "cleanup" [] v = "fail" -> "failed" [] OTHER -> "rejected"

ValidateStatus(m) ==
  /\ At(m, "validate_results", "saved")
  /\ WriteStatus(StatusAfterVerdict(task[m].val))
  /\ Goto(m, "forward")
  /\ UNCHANGED <<api, request, checkRows, verdictFile, reportRow, host, gaveUp, faultVars>>

\* Mutant: cleanup is dispatched as soon as the verdict is known.
ValidateForwardEarly(m) ==
  /\ At(m, "validate_results", "judged")
  /\ \E n \in Messages :
       task[n].pc = "free" /\ task' = [task EXCEPT ![n] = Queued("run_cleanup")]
  /\ UNCHANGED <<api, request, jobVars, host, gaveUp, faultVars>>

ValidateForward(m) ==
  /\ At(m, "validate_results", "forward")
  /\ Dispatch(m, "run_cleanup")
  /\ UNCHANGED <<api, request, jobVars, host, gaveUp, faultVars>>

-----------------------------------------------------------------------------
(* _mark_failed followed by _dispatch_cleanup, the tail of every failure    *)
(* the handlers foresee.                                                   *)

MarkFailed(m) ==
  /\ task[m].pc = "aborting"
  /\ WriteStatus("failed")
  /\ Goto(m, "aborted")
  /\ UNCHANGED <<api, request, checkRows, verdictFile, reportRow, host, gaveUp, faultVars>>

\* Mutant: a failed inspection goes straight to its report.
DispatchReport(m) ==
  /\ task[m].pc = "aborted"
  /\ Dispatch(m, "generate_report")
  /\ UNCHANGED <<api, request, jobVars, host, gaveUp, faultVars>>

DispatchCleanup(m) ==
  /\ task[m].pc = "aborted"
  /\ Dispatch(m, "run_cleanup")
  /\ UNCHANGED <<api, request, jobVars, host, gaveUp, faultVars>>

-----------------------------------------------------------------------------
(* run_cleanup.                                                            *)

CleanupStart(m) ==
  /\ At(m, "run_cleanup", "queued")
  /\ WriteStatus("cleanup")
  /\ Goto(m, "started")
  /\ UNCHANGED <<api, request, checkRows, verdictFile, reportRow, host, gaveUp, faultVars>>

\* Removal is best effort (on_failure = "warn"): what fails stays behind.
CleanupSweep(m) ==
  /\ At(m, "run_cleanup", "started")
  /\ host' \in {"swept", IF host = "tooled" THEN "left" ELSE host}
  /\ Goto(m, "swept")
  /\ UNCHANGED <<api, request, jobVars, gaveUp, faultVars>>

CleanupStatus(m) ==
  /\ At(m, "run_cleanup", "swept")
  /\ WriteStatus("reporting")
  /\ Goto(m, "forward")
  /\ UNCHANGED <<api, request, checkRows, verdictFile, reportRow, host, gaveUp, faultVars>>

\* "report_due" is the same dispatch out of _mark_report_trigger.
CleanupForward(m) ==
  /\ At(m, "run_cleanup", "forward") \/ At(m, "run_cleanup", "report_due")
  /\ Dispatch(m, "generate_report")
  /\ UNCHANGED <<api, request, jobVars, host, gaveUp, faultVars>>

-----------------------------------------------------------------------------
(* generate_report.                                                        *)

\* Mutant: without a verdict file the report assumes the best.
ReportRenderLenient(m) ==
  /\ At(m, "generate_report", "queued")
  /\ Exists
  /\ Hold(m, "rendered", IF verdictFile = "none" THEN "pass" ELSE verdictFile)
  /\ UNCHANGED <<api, request, jobVars, host, gaveUp, faultVars>>

\* The verdict file is read once; without one the report says fail or warn.
ReportRender(m) ==
  /\ At(m, "generate_report", "queued")
  /\ Exists
  /\ Hold(m, "rendered", IF verdictFile = "none" THEN "fail" ELSE verdictFile)
  /\ UNCHANGED <<api, request, jobVars, host, gaveUp, faultVars>>

\* Mutant: the session is closed without committing the row.
ReportRecordUncommitted(m) ==
  /\ At(m, "generate_report", "rendered")
  /\ Exists /\ ~reportRow
  /\ Goto(m, "recorded")
  /\ UNCHANGED <<api, request, jobVars, host, gaveUp, faultVars>>

\* INSERT INTO reports: a second row for the job violates UNIQUE(job_id).
ReportRecord(m) ==
  /\ At(m, "generate_report", "rendered")
  /\ Exists /\ ~reportRow
  /\ reportRow' = TRUE
  /\ Goto(m, "recorded")
  /\ UNCHANGED <<api, request, status, checkRows, verdictFile, host, gaveUp, faultVars>>

\* Mutant: whatever is not rejected has passed.
FinalStatusLenient(v) == IF v = "rejected" THEN "rejected" ELSE "pass"

FinalStatus(v) ==
  CASE v = "pass" -> "pass" [] v = "rejected" -> "rejected" [] OTHER -> "failed"

ReportFinish(m) ==
  /\ At(m, "generate_report", "recorded")
  /\ WriteStatus(FinalStatus(task[m].val))
  /\ Goto(m, "closing")
  /\ UNCHANGED <<api, request, checkRows, verdictFile, reportRow, host, gaveUp, faultVars>>

\* The status is published and the handler returns.
Close(m) ==
  /\ task[m].pc = "closing"
  /\ Goto(m, "acking")
  /\ UNCHANGED <<api, request, jobVars, host, gaveUp, faultVars>>

\* acks_late: the broker forgets the message only now.
Ack(m) ==
  /\ task[m].pc = "acking"
  /\ task' = [task EXCEPT ![m] = Idle]
  /\ UNCHANGED <<api, request, jobVars, host, gaveUp, faultVars>>

-----------------------------------------------------------------------------
(* The except clauses.  An SSH, database, Redis or file error can surface   *)
(* at any point of a handler, the first operation included.                *)

Retrying == {"run_preflight", "run_sw_install", "run_post_install", "validate_results"}

CanRaise(m, K) ==
  /\ Live(m) /\ Ready(m)
  /\ task[m].kind \in K
  /\ task[m].kind = "run_preflight" => request.profile

\* Mutant: run_cleanup triggers the report on every failed attempt.
RetryAndReport(m) ==
  /\ CanRaise(m, Retrying \cup {"run_cleanup"})
  /\ task[m].pc # "report_due"
  /\ ~Exhausted(m)
  /\ IF task[m].kind = "run_cleanup"
     THEN \E n \in Messages :
            /\ task[n].pc = "free"
            /\ task' = [task EXCEPT ![m].pc = "queued", ![m].tries = @ + 1,
                                    ![n] = Queued("generate_report")]
     ELSE Requeue(m)
  /\ UNCHANGED <<api, request, jobVars, host, gaveUp, faultVars>>

Retry(m) ==
  /\ CanRaise(m, Retrying \cup {"run_cleanup"})
  /\ task[m].pc # "report_due"
  /\ ~Exhausted(m)
  /\ Requeue(m)
  /\ UNCHANGED <<api, request, jobVars, host, gaveUp, faultVars>>

\* Mutant: the last attempt ends without marking the job.
ExhaustSilent(m) ==
  /\ CanRaise(m, Retrying)
  /\ Exhausted(m)
  /\ Goto(m, "acking")
  /\ UNCHANGED <<api, request, jobVars, host, gaveUp, faultVars>>

\* Out of retries: marked failed, and nothing more is dispatched.
Exhaust(m) ==
  /\ CanRaise(m, Retrying)
  /\ Exhausted(m)
  /\ status' = IF Exists THEN "failed" ELSE status
  /\ Goto(m, "acking")
  /\ UNCHANGED <<api, request, checkRows, verdictFile, reportRow, host, gaveUp, faultVars>>

\* run_collect marks the job failed at once and dispatches cleanup; when the
\* row is gone marking raises inside the handler and the task is over.
CollectRaise(m) ==
  /\ CanRaise(m, {"run_collect"})
  /\ task[m].pc \notin {"aborting", "aborted"}
  /\ Goto(m, IF Exists THEN "aborting" ELSE "acking")
  /\ UNCHANGED <<api, request, jobVars, host, gaveUp, faultVars>>

\* _mark_report_trigger: cleanup is given up, the report still follows.
CleanupGiveUp(m) ==
  /\ CanRaise(m, {"run_cleanup"})
  /\ task[m].pc # "report_due"
  /\ Exhausted(m)
  /\ status' = IF Exists THEN "reporting" ELSE status
  /\ gaveUp' = (gaveUp \/ Exists)
  /\ Goto(m, IF Exists THEN "report_due" ELSE "acking")
  /\ UNCHANGED <<api, request, checkRows, verdictFile, reportRow, host, faultVars>>

\* generate_report marks the job "error" on every failed attempt, then retries.
ReportRaise(m) ==
  /\ CanRaise(m, {"generate_report"})
  /\ status' = IF Exists THEN "error" ELSE status
  /\ IF Exists /\ ~Exhausted(m) THEN Requeue(m) ELSE Goto(m, "acking")
  /\ UNCHANGED <<api, request, checkRows, verdictFile, reportRow, host, gaveUp, faultVars>>

\* A foreseen failure of run_collect whose row was deleted meanwhile.
CollectGone(m) ==
  /\ At(m, "run_collect", "aborting")
  /\ ~Exists
  /\ Goto(m, "acking")
  /\ UNCHANGED <<api, request, jobVars, host, gaveUp, faultVars>>

-----------------------------------------------------------------------------
(* Faults of the workers and of the broker.                                *)

\* A worker's container stops: what it had not confirmed is delivered again.
WorkerLost(m) ==
  /\ "worker_lost" \in Causes
  /\ task[m].pc \notin {"free", "queued"}
  /\ redeliveries < MaxRedeliveries
  /\ redeliveries' = redeliveries + 1
  /\ Hold(m, "queued", "none")
  /\ UNCHANGED <<api, request, jobVars, host, gaveUp, losses>>

\* A session may outlast the one hour after which the Redis transport hands an
\* unconfirmed message to a second worker, while the first works on: these tasks
\* have two hours.  By then the request is long over.
VisibilityTimeout(m) ==
  /\ "visibility_timeout" \in Causes /\ api # "dispatched"
  /\ task[m].kind \in {"run_preflight", "run_sw_install", "run_post_install"}
  /\ task[m].pc \notin {"free", "queued", "acking"}
  /\ redeliveries < MaxRedeliveries
  /\ redeliveries' = redeliveries + 1
  /\ \E n \in Messages :
       /\ task[n].pc = "free"
       /\ task' = [task EXCEPT ![n] = [Queued(task[m].kind) EXCEPT !.tries = task[m].tries]]
  /\ UNCHANGED <<api, request, jobVars, host, gaveUp, losses>>

\* The hard time limit kills the child, or the error handler itself raises
\* (database or Redis down, also before the first write): the message is
\* confirmed and nothing is recorded.
TaskDies(m) ==
  /\ Live(m) /\ Ready(m)
  /\ losses < MaxLosses
  /\ losses' = losses + 1
  /\ Goto(m, "acking")
  /\ UNCHANGED <<api, request, jobVars, host, gaveUp, redeliveries>>

-----------------------------------------------------------------------------
PreflightStep(m) ==
  \/ PreflightNoProfile(m) \/ PreflightStart(m) \/ PreflightBaselineFails(m)
  \/ PreflightConfigure(m) \/ PreflightReboot(m) \/ PreflightScripts(m)
  \/ PreflightForward(m)

SwInstallStep(m) ==
  \/ SwInstallStart(m) \/ SwInstallReboot(m) \/ SwInstallSave(m) \/ SwInstallJudge(m)
  \/ SwInstallForward(m)

PostInstallStep(m) ==
  \/ PostInstallStart(m) \/ PostInstallTools(m) \/ PostInstallScripts(m)
  \/ PostInstallForward(m) \/ CollectResults(m) \/ CollectForward(m)

ValidateStep(m) ==
  \/ ValidateEmpty(m) \/ ValidateJudge(m) \/ ValidateSave(m) \/ ValidateStatus(m)
  \/ ValidateForward(m)

CleanupStep(m) ==
  \/ CleanupStart(m) \/ CleanupSweep(m) \/ CleanupStatus(m) \/ CleanupForward(m)

ReportStep(m) == ReportRender(m) \/ ReportRecord(m) \/ ReportFinish(m)

SharedStep(m) ==
  \/ RebootTimeout(m) \/ MarkFailed(m) \/ DispatchCleanup(m) \/ Close(m) \/ Ack(m)

HandlerStep(m) ==
  \/ Retry(m) \/ Exhaust(m) \/ CollectRaise(m) \/ CleanupGiveUp(m) \/ ReportRaise(m)
  \/ CollectGone(m)

TaskStep(m) ==
  \/ PreflightStep(m) \/ SwInstallStep(m) \/ PostInstallStep(m) \/ ValidateStep(m)
  \/ CleanupStep(m) \/ ReportStep(m) \/ SharedStep(m) \/ HandlerStep(m)

FaultStep(m) == WorkerLost(m) \/ VisibilityTimeout(m) \/ TaskDies(m)

ApiStep == CreateJob \/ CommitJob \/ RollbackJob \/ DeleteJob

Next == ApiStep \/ \E m \in Messages : TaskStep(m) \/ FaultStep(m)

\* A request in progress ends, and a worker goes on with the message it holds:
\* every wait of a handler has a timeout, and the queues have workers of their own.
Fairness ==
  /\ WF_vars(CommitJob \/ RollbackJob)
  /\ \A m \in Messages : WF_vars(TaskStep(m))

Spec == Init /\ [][Next]_vars
FairSpec == Spec /\ Fairness

-----------------------------------------------------------------------------
(* Safety.                                                                 *)

\* As long as the broker delivers each message once, at most one task of the
\* job has work left: the tasks dispatch each other as the last thing they do,
\* so cleanup never runs beside an inspection and nothing is reported twice.
SingleToken ==
  \A m, n \in Messages : Live(m) /\ Live(n) => m = n

\* A job shown as passed was judged passed, has its report, and a cleanup has been
\* through with its target, or ran out of retries.  To have been through is not to
\* have removed everything: a cleanup whose commands or session fail logs a warning
\* and goes on (CleanupSweep), and such a job passes with its tools "left".
PassIsEarned ==
  status = "pass" =>
    /\ verdictFile = "pass"
    /\ reportRow
    /\ host = "tooled" => gaveUp

\* Once cleanup is dispatched the verdict that the report will show is fixed.
VerdictFrozen ==
  [][(\E m \in Messages : Live(m) /\ task[m].kind \in {"run_cleanup", "generate_report"})
       => UNCHANGED verdictFile]_vars

\* When all tasks are over, a job with a report shows the verdict of the file,
\* or an error; a mid-pipeline "failed" or "cleanup" is never what remains.
ReportDecides ==
  Quiet /\ reportRow /\ losses = 0 =>
    status \in {FinalStatus(verdictFile), "error"}

\* A task still in flight never brings a deleted job, or part of it, back.
NoResurrection ==
  api = "deleted" => status = "absent" /\ ~checkRows /\ ~reportRow

\* A job is shown as passed only when nothing but the closing publish of its
\* report is left to do: the stream may be closed, the server shipped.
PassMeansOver ==
  status = "pass" =>
    \A m \in Messages : Live(m) => task[m].kind = "generate_report" /\ task[m].pc = "closing"

\* Whatever is delivered twice, a job shown as passed has a report and a verdict.
PassHasReport ==
  status = "pass" => reportRow /\ verdictFile # "none"

\* The inductive invariant behind the properties above, for single delivery:
\* before the request nothing is under way; the inspection tools are gone from
\* the moment cleanup has swept; the verdict a report worker holds is the one in
\* the file; and a report past its INSERT has its row unless the job was deleted.
Fresh == api = "open" => status = "absent" /\ Quiet

HostSwept == host = "tooled" => gaveUp

AfterSweep(m) ==
  /\ Live(m)
  /\ \/ task[m].kind = "generate_report"
     \/ task[m].kind = "run_cleanup" /\ task[m].pc \in {"swept", "forward", "report_due"}

SweptSoFar == \A m \in Messages : AfterSweep(m) => HostSwept

HoldsVerdict(m) ==
  task[m].kind = "generate_report" =>
    /\ task[m].pc \in {"rendered", "recorded"} =>
         task[m].val = IF verdictFile = "none" THEN "fail" ELSE verdictFile
    /\ task[m].pc \in {"recorded", "closing"} /\ api # "deleted" => reportRow

ReportInHand == \A m \in Messages : HoldsVerdict(m)

IInv ==
  /\ TypeOK
  /\ SingleToken
  /\ NoResurrection
  /\ Fresh
  /\ SweptSoFar
  /\ ReportInHand
  /\ PassMeansOver
  /\ PassIsEarned

-----------------------------------------------------------------------------
(* What the documentation says and single delivery does not give.          *)

\* "cleanup dispatch (always called on failure)", workers/inspect.py: a job that
\* ends as failed has had the inspection tools removed from its target.
FailureIsSwept ==
  Quiet /\ status = "failed" => HostSwept

-----------------------------------------------------------------------------
(* Liveness.                                                               *)

Settled == {"pass", "failed", "rejected", "error"}

\* A committed job for a profile that exists ends in a final status with no task
\* left, or is deleted, unless a task was lost without a trace.
Settles ==
  (api = "committed" /\ request.profile) ~>
    (Quiet /\ status \in Settled) \/ api = "deleted" \/ losses > 0

-----------------------------------------------------------------------------
(* The pipeline implements module JobLifecycle.                            *)

Stage ==
  CASE api = "open" -> "submitted"
    [] api # "open" /\ Quiet -> "over"
    [] \E m \in Messages : Live(m) /\ task[m].kind = "run_cleanup" -> "cleaning"
    [] \E m \in Messages : Live(m) /\ task[m].kind = "generate_report" -> "reporting"
    [] OTHER -> "inspecting"

Outcome ==
  IF Stage \in {"reporting", "over"} /\ status \in Settled THEN status ELSE "none"

Lifecycle == INSTANCE JobLifecycle
               WITH stage <- Stage, verdict <- verdictFile, outcome <- Outcome

\* Under single delivery the job moves forward only, is judged only while it is
\* inspected, and shows an outcome only at its end, the one it was judged.
Refines == Lifecycle!LifeSpec

-----------------------------------------------------------------------------
(* What a reader of jobs.status may rely on, see module StatusStream.       *)

Life ==
  IF api = "deleted" THEN "gone" ELSE IF Exists THEN "live" ELSE "unborn"

Source == INSTANCE StatusSource
            WITH life <- Life, busy <- ~Quiet,
                 earned <- (verdictFile = "pass" /\ reportRow)

\* Under single delivery the statuses follow one another as StatusSource has it:
\* none once the tasks are over, and "pass" only with a verdict and a report that
\* stay.
FeedsStream == Source!SourceSpec
=============================================================================
