---------------------------- MODULE JobLifecycle ----------------------------
(***************************************************************************)
(* What the pipeline promises about one job, without tasks, retries or     *)
(* messages: a conveyor that only moves forward, a verdict that is open    *)
(* only while the job is inspected, and an outcome that is shown only at   *)
(* its end and agrees with the verdict.                                    *)
(***************************************************************************)

VARIABLES
  stage,    \* where the job is on the conveyor
  verdict,  \* what validation has settled on so far
  outcome   \* the final status shown to the user, or "none"

lifeVars == <<stage, verdict, outcome>>

Stages == {"submitted", "inspecting", "cleaning", "reporting", "over"}

Result(v) ==
  CASE v = "pass" -> "pass" [] v = "rejected" -> "rejected" [] OTHER -> "failed"

LifeInit == stage = "submitted" /\ verdict = "none" /\ outcome = "none"

Move(from, to) == stage = from /\ stage' = to

Begin  == Move("submitted", "inspecting") /\ UNCHANGED <<verdict, outcome>>
Clean  == Move("inspecting", "cleaning")  /\ UNCHANGED <<verdict, outcome>>
Report == Move("cleaning", "reporting")   /\ UNCHANGED <<verdict, outcome>>

\* Validation may be retried, and may then judge otherwise.
Judge ==
  /\ stage = "inspecting"
  /\ verdict' \in {"pass", "fail", "rejected"}
  /\ UNCHANGED <<stage, outcome>>

\* The report shows the verdict, or that it could not be produced so far.
Show ==
  /\ stage = "reporting"
  /\ outcome' \in {Result(verdict), "error"}
  /\ UNCHANGED <<stage, verdict>>

\* The last attempt at the report is over, successful or not.
Finish ==
  /\ Move("reporting", "over")
  /\ outcome' \in {outcome, "error"}
  /\ UNCHANGED verdict

\* The conveyor stops early: the inspection failed for good, and nothing tidies
\* up after it, or a task was lost and the job shows what it last wrote.  It may
\* then look failed or rejected, never passed.
GiveUp ==
  /\ stage \in {"inspecting", "cleaning"}
  /\ stage' = "over"
  /\ outcome' \in {"none", "failed", "rejected"}
  /\ UNCHANGED verdict

\* The job is deleted.
Withdraw == outcome' = "none" /\ UNCHANGED <<stage, verdict>>

LifeNext == Begin \/ Clean \/ Report \/ Judge \/ Show \/ Finish \/ GiveUp \/ Withdraw

LifeSpec == LifeInit /\ [][LifeNext]_lifeVars
=============================================================================
