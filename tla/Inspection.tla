------------------------------ MODULE Inspection ------------------------------
(***************************************************************************)
(* The inspection proper: the check scripts of the preflight, post_install  *)
(* and collect phases, the rows they leave in check_results, and the       *)
(* validation that judges the rows by the rules of the profile and, in the *)
(* zone between good and bad, by the Verify Agent.                         *)
(*                                                                         *)
(* One job and one message at a time (module JobPipeline shows when that   *)
(* holds); what sessions install and the software installation between     *)
(* the phases are in JobPipeline and SwInstall.                            *)
(***************************************************************************)
EXTENDS CheckScripts

CONSTANTS
  Profiles,     \* the profiles a job may be inspected by
  Specs,        \* the expected_specs a job may carry
  Findings,     \* per script, what it may find on the server
  Files,        \* the scripts that exist in checks/base
  Answers,      \* what may come back from the Verify Agent
  RetryBound,   \* bound: retries of one task; the code has 3
  Restarts      \* bound: retries of all tasks together

ASSUME BoundsAssumption == RetryBound \in 0..3 /\ Restarts \in Nat

\* A profile lists the scripts of each phase.
ASSUME ProfilesAssumption ==
  \A q \in Profiles : \A p \in {"preflight", "post_install", "collect"} :
    Len(q[p]) \in Nat /\ DOMAIN q[p] = 1..Len(q[p])

\* It judges by the rules of the shipped one, and no rule looks at what is collected.
ASSUME RulesAssumption ==
  \A q \in Profiles :
    /\ q.rules = GpuServerRules /\ q.threshold \in Nat
    /\ \A k \in DOMAIN q.collect : q.collect[k] \notin RuledChecks

\* Files holds scripts whose output CheckScripts knows.
ASSUME FilesAssumption == Files \subseteq Known

ASSUME FindingsAssumption ==
  \A s \in Files : \A f \in Findings[s] : f \in FindingType(s)

VARIABLES
  profile, specs,
  phase,      \* the phase, or "validate": the task the message is for
  pc,         \* how far its handler has got
  next,       \* the position in the scripts of the phase
  rows,       \* check_results, oldest first
  first,      \* history: how many rows there were when a phase last began
  verdict,    \* the judgement the handler holds
  file,       \* claude_verdict.json on NFS
  status,     \* jobs.status
  tries,      \* self.request.retries
  restarts

job  == <<profile, specs>>
vars == <<profile, specs, phase, pc, next, rows, first, verdict, file, status, tries, restarts>>

-----------------------------------------------------------------------------
(* Types.                                                                  *)

ScriptPhases == {"preflight", "post_install", "collect"}

Points == {"queued", "running", "aborting", "judged", "saved", "over"}

Statuses == {"pending", "preflight", "post_install", "validating", "cleanup", "failed", "rejected"}

RowStatus == {"pass", "warn", "fail"}

\* How the script of a row ended; only one that printed its result has a finding.
Endings == {"missing", "timeout", "exit", "garbled", "printed"}

TypeOK ==
  /\ profile \in Profiles
  /\ specs \in Specs
  /\ phase \in ScriptPhases \cup {"validate"}
  /\ pc \in Points
  /\ next \in Nat
  /\ \A i \in DOMAIN rows : rows[i].status \in RowStatus /\ rows[i].ending \in Endings
  /\ first \in [ScriptPhases -> Nat]
  /\ verdict \in {"none", "pass", "fail", "rejected"}
  /\ file \in {"none", "pass", "fail", "rejected"}
  /\ status \in Statuses
  /\ tries \in 0..RetryBound
  /\ restarts \in 0..Restarts

-----------------------------------------------------------------------------
(* Helpers.                                                                *)

Scripts == profile[phase]

Row(script, ending, output, finding) ==
  [check |-> script, ending |-> ending, status |-> output.status,
   metrics |-> output.metrics, saw |-> finding]

AtScript == pc = "running" /\ next <= Len(Scripts)

\* _save_check_result, then the next script of the loop.
AddRow(script, ending, output, finding) ==
  rows' = Append(rows, Row(script, ending, output, finding))

Judgement == Evaluate(profile.rules, profile.threshold, rows, specs)

NextTask ==
  CASE phase = "preflight" -> "post_install"
    [] phase = "post_install" -> "collect"
    [] phase = "collect" -> "validate"

-----------------------------------------------------------------------------
Init ==
  /\ profile \in Profiles
  /\ specs \in Specs
  /\ phase = "preflight"
  /\ pc = "queued"
  /\ next = 1
  /\ rows = <<>>
  /\ first = [p \in ScriptPhases |-> 0]
  /\ verdict = "none"
  /\ file = "none"
  /\ status = "pending"
  /\ tries = 0
  /\ restarts = 0

-----------------------------------------------------------------------------
(* The phases.                                                             *)

\* Mutant: a retry goes on where the attempt before it stopped.
BeginResumes ==
  /\ pc = "queued" /\ phase \in ScriptPhases
  /\ status' = IF phase = "collect" THEN status ELSE phase
  /\ next' = IF tries > 0 THEN next ELSE 1
  /\ first' = [first EXCEPT ![phase] = Len(rows)]
  /\ pc' = "running"
  /\ UNCHANGED <<job, phase, rows, verdict, file, tries, restarts>>

\* Every attempt runs the phase from its first script; run_collect sets no
\* status when it begins.
Begin ==
  /\ pc = "queued" /\ phase \in ScriptPhases
  /\ status' = IF phase = "collect" THEN status ELSE phase
  /\ next' = 1
  /\ first' = [first EXCEPT ![phase] = Len(rows)]
  /\ pc' = "running"
  /\ UNCHANGED <<job, phase, rows, verdict, file, tries, restarts>>

\* A baseline package is missing, or there is no password to install it with.
BaselineFails ==
  /\ pc = "running" /\ phase = "preflight" /\ next = 1
  /\ AddRow("baseline_install", "exit", Broken, "none")
  /\ pc' = "aborting"
  /\ UNCHANGED <<job, phase, next, first, verdict, file, status, tries, restarts>>

\* No such file: a warning, and the phase goes on.
ScriptMissing ==
  /\ AtScript
  /\ Scripts[next] \notin Files
  /\ AddRow(Scripts[next], "missing", Output("warn", NoMetrics), "none")
  /\ next' = next + 1
  /\ UNCHANGED <<job, phase, pc, first, verdict, file, status, tries, restarts>>

\* A time-out or a lost connection: a warning, and the phase goes on.
ScriptTimesOut ==
  /\ AtScript
  /\ Scripts[next] \in Files
  /\ AddRow(Scripts[next], "timeout", Output("warn", NoMetrics), "none")
  /\ next' = next + 1
  /\ UNCHANGED <<job, phase, pc, first, verdict, file, status, tries, restarts>>

\* A script that exits non-zero ends its phase; run_collect does not look at
\* the result and hands over all the same.
ScriptExits ==
  /\ AtScript
  /\ Scripts[next] \in Files
  /\ AddRow(Scripts[next], "exit", Broken, "none")
  /\ IF phase = "collect" THEN pc' = pc /\ next' = Len(Scripts) + 1
                          ELSE pc' = "aborting" /\ next' = next
  /\ UNCHANGED <<job, phase, first, verdict, file, status, tries, restarts>>

\* Output that is no JSON, or the script's own report of an exception: the row
\* says fail, and the phase goes on.
ScriptGarbled ==
  /\ AtScript
  /\ Scripts[next] \in Files
  /\ AddRow(Scripts[next], "garbled", Broken, "none")
  /\ next' = next + 1
  /\ UNCHANGED <<job, phase, pc, first, verdict, file, status, tries, restarts>>

ScriptPrints ==
  /\ AtScript
  /\ Scripts[next] \in Files
  /\ \E f \in Findings[Scripts[next]] :
       AddRow(Scripts[next], "printed", Prints(Scripts[next], f), f)
  /\ next' = next + 1
  /\ UNCHANGED <<job, phase, pc, first, verdict, file, status, tries, restarts>>

\* Whatever goes wrong with the session of run_collect is only logged.
CollectCutShort ==
  /\ AtScript /\ phase = "collect"
  /\ next' = Len(Scripts) + 1
  /\ UNCHANGED <<job, phase, pc, rows, first, verdict, file, status, tries, restarts>>

\* Mutant: nothing to collect, nothing to hand over.
HandOverEarlyReturn ==
  /\ pc = "running"
  /\ next > Len(Scripts)
  /\ phase = "collect" => Scripts # <<>>
  /\ phase' = NextTask
  /\ status' = IF phase = "collect" THEN "validating" ELSE status
  /\ pc' = "queued"
  /\ next' = 1
  /\ tries' = 0
  /\ UNCHANGED <<job, rows, first, verdict, file, restarts>>

HandOver ==
  /\ pc = "running"
  /\ next > Len(Scripts)
  /\ phase' = NextTask
  /\ status' = IF phase = "collect" THEN "validating" ELSE status
  /\ pc' = "queued"
  /\ next' = 1
  /\ tries' = 0
  /\ UNCHANGED <<job, rows, first, verdict, file, restarts>>

\* _mark_failed and _dispatch_cleanup: the job is not judged.
Abort ==
  /\ pc = "aborting"
  /\ status' = "failed"
  /\ pc' = "over"
  /\ UNCHANGED <<job, phase, next, rows, first, verdict, file, tries, restarts>>

-----------------------------------------------------------------------------
(* validate_results.                                                       *)

\* No rows at all: failed, without a verdict file.
ValidateEmpty ==
  /\ pc = "queued" /\ phase = "validate"
  /\ rows = <<>>
  /\ status' = "failed"
  /\ pc' = "over"
  /\ UNCHANGED <<job, phase, next, rows, first, verdict, file, tries, restarts>>

\* call_verify_agent: no answer, no JSON or another word mean reject.
AgentVerdict(answer) == IF answer = "pass" THEN "pass" ELSE "rejected"

\* Mutant: on a retry the agent gives a second opinion on a failure.
JudgeAgain ==
  /\ pc = "queued" /\ phase = "validate"
  /\ rows # <<>>
  /\ IF Judgement = "agent_required" \/ (Judgement = "fail" /\ tries > 0)
     THEN \E answer \in Answers : verdict' = AgentVerdict(answer)
     ELSE verdict' = Judgement
  /\ pc' = "judged"
  /\ UNCHANGED <<job, phase, next, rows, first, file, status, tries, restarts>>

Judge ==
  /\ pc = "queued" /\ phase = "validate"
  /\ rows # <<>>
  /\ IF Judgement = "agent_required"
     THEN \E answer \in Answers : verdict' = AgentVerdict(answer)
     ELSE verdict' = Judgement
  /\ pc' = "judged"
  /\ UNCHANGED <<job, phase, next, rows, first, file, status, tries, restarts>>

SaveVerdict ==
  /\ pc = "judged"
  /\ file' = verdict
  /\ pc' = "saved"
  /\ UNCHANGED <<job, phase, next, rows, first, verdict, status, tries, restarts>>

\* Mutant: the verdict itself is written, no status of a running job.
StatusAfterRaw(v) == v

StatusAfter(v) == CASE v = "pass" -> "cleanup" [] v = "fail" -> "failed" [] OTHER -> "rejected"

\* The status, and the message for cleanup.
Conclude ==
  /\ pc = "saved"
  /\ status' = StatusAfter(verdict)
  /\ pc' = "over"
  /\ UNCHANGED <<job, phase, next, rows, first, verdict, file, tries, restarts>>

-----------------------------------------------------------------------------
(* The except clauses: SSH, database, Redis and NFS errors at any point.    *)

Retry ==
  /\ pc # "over" /\ phase # "collect"
  /\ tries < RetryBound
  /\ restarts < Restarts
  /\ tries' = tries + 1
  /\ restarts' = restarts + 1
  /\ pc' = "queued"
  /\ verdict' = "none"
  /\ UNCHANGED <<job, phase, next, rows, first, file, status>>

Exhaust ==
  /\ pc # "over" /\ phase # "collect"
  /\ tries = RetryBound
  /\ status' = "failed"
  /\ pc' = "over"
  /\ UNCHANGED <<job, phase, next, rows, first, verdict, file, tries, restarts>>

\* Outside its session run_collect gives up at once.
CollectRaises ==
  /\ phase = "collect"
  /\ pc = "queued" \/ (pc = "running" /\ next > Len(Scripts))
  /\ pc' = "aborting"
  /\ UNCHANGED <<job, phase, next, rows, first, verdict, file, status, tries, restarts>>

-----------------------------------------------------------------------------
ScriptStep ==
  ScriptMissing \/ ScriptTimesOut \/ ScriptExits \/ ScriptGarbled \/ ScriptPrints

PhaseStep == Begin \/ BaselineFails \/ ScriptStep \/ CollectCutShort \/ HandOver \/ Abort

ValidateStep == ValidateEmpty \/ Judge \/ SaveVerdict \/ Conclude

Work == PhaseStep \/ ValidateStep

Next == Work \/ Retry \/ Exhaust \/ CollectRaises

Spec == Init /\ [][Next]_vars

\* A worker goes on with the message it holds: scripts, sessions and the call
\* of the agent have time-outs.
FairSpec == Spec /\ WF_vars(Work)

-----------------------------------------------------------------------------
(* Safety.                                                                 *)

\* The newest rows are those the judgement looks at.
Newest(i) == \A j \in i + 1 .. Len(rows) : rows[j].check # rows[i].check

Measured(i) == Newest(i) /\ rows[i].ending = "printed"

\* A passed job broke no criterion in the last run of each script that printed
\* its result, but for the three the rules cannot see (Hides): the names of checks and
\* metrics, the limits, the fail-closed rule and the order of the rows work together,
\* also where script and rule disagree about the name of a metric (sw_cpu.py:158,
\* sw_auto_update.py:143), and one that is hidden hides no other.
PassMeetsCriteria ==
  file = "pass" =>
    \A i \in DOMAIN rows :
      Measured(i) =>
        \A c \in CriteriaOf(rows[i].check) :
          Breaks(c, rows[i].saw, specs) => Hides(c, rows[i].saw)

\* A job judged as failed has a reason in the newest row of a check some rule
\* names: a criterion broken, or a check that failed; an earlier attempt, a slow
\* or missing script, a baseline once missing, the logs alone fail nobody.
FailHasReason ==
  file = "fail" =>
    \E i \in DOMAIN rows :
      /\ Newest(i)
      /\ \E r \in DOMAIN profile.rules : profile.rules[r].check = rows[i].check
      /\ \/ rows[i].status = "fail"
         \/ Measured(i) /\ \E c \in CriteriaOf(rows[i].check) : Breaks(c, rows[i].saw, specs)

\* What is judged is complete: each script of both phases has a row of the
\* last attempt of its phase, and none of them is the one that ended a phase.
JudgedInFull ==
  verdict # "none" =>
    \A p \in {"preflight", "post_install"} :
      \A k \in DOMAIN profile[p] :
        \E i \in DOMAIN rows :
          i > first[p] /\ rows[i].check = profile[p][k] /\ rows[i].ending # "exit"

\* A verdict of fail is final, however often the validation is repeated; only
\* what the agent said may change.
FailStands == [][file = "fail" => file' = "fail"]_vars

\* The logs do not change the verdict: run_collect may fail in any way.
CollectIsNeutral ==
  verdict # "none" /\ first["collect"] > 0 =>
    (verdict = "fail" <=>
       Evaluate(profile.rules, profile.threshold,
                SubSeq(rows, 1, first["collect"]), specs) = "fail")

\* The inspection ends.
Ends == <>(pc = "over")

-----------------------------------------------------------------------------
(* What the documentation says and the code does not do.                    *)

HotUnderLoad ==
  \E i \in DOMAIN rows :
    Measured(i) /\ rows[i].check = "stress_gpu" /\ Breaks("load_temp", rows[i].saw, specs)

Warnings ==
  {c \in UNION {CriteriaOf(s) : s \in Known} :
     \E i \in DOMAIN rows :
       Measured(i) /\ c \in CriteriaOf(rows[i].check) /\ InAgentZone(c, rows[i].saw)}

\* README.md, the table of criteria: a GPU above 87 degrees is a FAIL, a value in its
\* agent zone a WARN; and context/glossary.md: three WARNs ask the Verify Agent.  So a
\* server with both, a GPU that got too hot under load and as many values in their
\* zones as the profile counts, is at least not passed by the rules alone.
TableIsHeeded ==
  verdict = "pass" /\ HotUnderLoad =>
    Judgement = "agent_required" \/ Cardinality(Warnings) < profile.threshold
=============================================================================
