----------------------------- MODULE StatusSource -----------------------------
(***************************************************************************)
(* What the tasks of one job do to the column jobs.status, as those see it *)
(* who only read it: which status may follow which, that nothing follows   *)
(* once the tasks are over or the job is deleted, and that "pass" is       *)
(* written of a job that was judged passed and has its report.  Module     *)
(* JobPipeline implements this one (FeedsStream); module StatusStream      *)
(* stands on it.                                                           *)
(***************************************************************************)

VARIABLES
  life,    \* the row is not visible yet, visible, or deleted
  status,  \* jobs.status
  busy,    \* has a task of the job still work to do?
  earned   \* is the verdict on file a pass, and the report row there?

sourceVars == <<life, status, busy, earned>>

JobStatus == {"pending", "preflight", "sw_install", "rebooting", "post_install",
              "validating", "cleanup", "reporting", "pass", "failed",
              "rejected", "report_failed", "error"}

SourceTypeOK ==
  /\ life \in {"unborn", "live", "gone"}
  /\ status \in JobStatus \cup {"absent"}
  /\ busy \in BOOLEAN /\ earned \in BOOLEAN

\* The same status again is a retry.  "failed" and "rejected" stand in the middle
\* of the pipeline as well as at its end, and a phase that was marked failed is
\* begun anew when its cleanup cannot be dispatched.
Follows(s) ==
  CASE s = "pending" -> {"preflight", "failed"}
    [] s = "preflight" -> {"preflight", "rebooting", "sw_install", "post_install", "failed"}
    [] s = "rebooting" -> {"preflight", "sw_install", "post_install", "failed"}
    [] s = "sw_install" -> {"sw_install", "rebooting", "post_install", "failed"}
    [] s = "post_install" -> {"post_install", "validating", "failed"}
    [] s = "validating" -> {"cleanup", "failed", "rejected"}
    [] s = "cleanup" -> {"cleanup", "reporting", "failed", "rejected"}
    [] s = "failed" -> {"preflight", "sw_install", "post_install", "cleanup",
                        "reporting", "failed", "rejected", "error"}
    [] s = "rejected" -> {"cleanup", "reporting", "failed", "rejected", "error"}
    [] s = "reporting" -> {"cleanup", "reporting", "pass", "failed", "rejected", "error"}
    [] s = "pass" -> {"error"}
    [] s = "error" -> {"pass", "failed", "rejected", "error"}
    [] OTHER -> {}

SourceInit ==
  /\ life = "unborn" /\ status = "absent"
  /\ busy = FALSE /\ earned = FALSE

\* The first message is sent before the row is committed, and may be over by then.
Dispatched ==
  /\ life = "unborn"
  /\ busy' \in BOOLEAN
  /\ UNCHANGED <<life, status, earned>>

Committed ==
  /\ life = "unborn"
  /\ life' = "live" /\ status' = "pending"
  /\ UNCHANGED <<busy, earned>>

\* Mutant: the report is written as passed whatever the verdict.
WrittenBlind(s) ==
  /\ life = "live" /\ busy
  /\ s \in Follows(status)
  /\ status' = s
  /\ busy' \in BOOLEAN
  /\ UNCHANGED <<life, earned>>

\* A task writes; it may be the last thing the tasks do.
Written(s) ==
  /\ life = "live" /\ busy
  /\ s \in Follows(status)
  /\ s = "pass" => earned
  /\ status' = s
  /\ busy' \in BOOLEAN
  /\ UNCHANGED <<life, earned>>

\* A task does something else, or ends.
Unseen ==
  /\ busy
  /\ busy' \in BOOLEAN
  /\ earned' \in {earned, life = "live"}
  /\ UNCHANGED <<life, status>>

Deleted ==
  /\ life = "live"
  /\ life' = "gone" /\ status' = "absent" /\ earned' = FALSE
  /\ UNCHANGED busy

SourceNext ==
  Dispatched \/ Committed \/ Unseen \/ Deleted \/ \E s \in JobStatus : Written(s)

SourceSpec == SourceInit /\ [][SourceNext]_sourceVars
=============================================================================
