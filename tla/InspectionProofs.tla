--------------------------- MODULE InspectionProofs ---------------------------
(***************************************************************************)
(* Proofs about Inspection, for all profiles, findings, answers and bounds. *)
(***************************************************************************)
EXTENDS Inspection, TLAPS, WellFoundedInduction, FiniteSetTheorems

\* Scripts run in the phases before the validation only.
ScriptsBefore == pc \in {"running", "aborting"} => phase \in ScriptPhases

\* A verdict in hand is one of the validation, and what the rules say of the rows;
\* the agent never says fail, and is asked only when the rules leave it to it.
VerdictInHand ==
  /\ verdict # "none" => phase = "validate"
  /\ pc \in {"judged", "saved"} => verdict # "none"
  /\ verdict = "fail" => Judgement = "fail"
  /\ verdict = "pass" => Judgement # "fail"
  /\ verdict = "rejected" => Judgement = "agent_required"

\* Once a fail is saved, the rows are the ones it was drawn from.
FailIsDrawn ==
  file = "fail" =>
    phase = "validate" /\ Judgement = "fail" /\ verdict \in {"none", "fail"}

PassIsDrawn == file = "pass" => phase = "validate" /\ Judgement # "fail"

InspectionIInv == ScriptsBefore /\ VerdictInHand /\ FailIsDrawn /\ PassIsDrawn

LEMMA InitInspection == Init => InspectionIInv
  BY DEF Init, InspectionIInv, ScriptsBefore, VerdictInHand, FailIsDrawn, PassIsDrawn,
     ScriptPhases

\* Nothing the judgement reads changes.
SameCase == UNCHANGED <<profile, specs, rows>>

LEMMA SameJudgement == SameCase => Judgement' = Judgement
  BY DEF SameCase, Judgement

\* The steps of the phases know no verdict: the phase tells that none is in hand.
LEMMA PhasesKeep ==
  ASSUME InspectionIInv, PhaseStep
  PROVE  InspectionIInv'
<1> USE DEF InspectionIInv, ScriptsBefore, VerdictInHand, FailIsDrawn, PassIsDrawn,
   ScriptPhases
<1>1. CASE Begin
  <2>1. verdict = "none" /\ file \notin {"fail", "pass"}
    BY <1>1 DEF Begin
  <2> QED
    BY <1>1, <2>1 DEF Begin
<1>2. CASE HandOver
  <2>1. verdict = "none" /\ file \notin {"fail", "pass"} /\ phase \in ScriptPhases
    BY <1>2 DEF HandOver
  <2> QED
    BY <1>2, <2>1 DEF HandOver
<1>3. CASE Abort
  <2>1. verdict = "none" /\ file \notin {"fail", "pass"} /\ phase \in ScriptPhases
    BY <1>3 DEF Abort
  <2> QED
    BY <1>3, <2>1 DEF Abort
<1>4. CASE BaselineFails \/ ScriptStep \/ CollectCutShort
  <2>1. /\ pc = "running"
        /\ pc' \in {"running", "aborting"}
        /\ UNCHANGED <<phase, verdict, file>>
    BY <1>4 DEF BaselineFails, ScriptStep, ScriptMissing, ScriptTimesOut, ScriptExits,
       ScriptGarbled, ScriptPrints, CollectCutShort, AtScript
  <2>2. verdict = "none" /\ file \notin {"fail", "pass"} /\ phase \in ScriptPhases
    BY <2>1
  <2> QED
    BY <2>1, <2>2
<1> QED
  BY <1>1, <1>2, <1>3, <1>4 DEF PhaseStep

\* The validation judges the rows it finds; a repeated one finds the same.
LEMMA ValidationKeeps ==
  ASSUME InspectionIInv, ValidateStep
  PROVE  InspectionIInv'
<1> USE DEF InspectionIInv, ScriptsBefore, VerdictInHand, FailIsDrawn, PassIsDrawn
<1>1. Judgement' = Judgement
  <2>1. SameCase
    BY DEF ValidateStep, ValidateEmpty, Judge, SaveVerdict, Conclude, SameCase, job
  <2> QED
    BY <2>1, SameJudgement
<1>2. CASE ValidateEmpty
  BY <1>1, <1>2 DEF ValidateEmpty
<1>3. CASE Judge
  <2>1. verdict' \in {"pass", "rejected", "fail"}
    <3>1. Judgement \in {"fail", "agent_required", "pass"}
      BY DEF Judgement, Evaluate
    <3> QED
      BY <1>3, <3>1 DEF Judge, AgentVerdict
  <2>2. verdict' = "fail" => Judgement = "fail"
    BY <1>3 DEF Judge, AgentVerdict
  <2>3. Judgement = "fail" => verdict' = "fail"
    BY <1>3 DEF Judge
  <2>4. verdict' = "rejected" => Judgement = "agent_required"
    BY <1>3 DEF Judge, Judgement, Evaluate
  <2> QED
    BY <1>1, <1>3, <2>1, <2>2, <2>3, <2>4 DEF Judge
<1>4. CASE SaveVerdict
  BY <1>1, <1>4 DEF SaveVerdict
<1>5. CASE Conclude
  BY <1>1, <1>5 DEF Conclude
<1> QED
  BY <1>2, <1>3, <1>4, <1>5 DEF ValidateStep

\* An error forgets the verdict in hand and leaves rows and file alone.
LEMMA ErrorsKeep ==
  ASSUME InspectionIInv, Retry \/ Exhaust \/ CollectRaises
  PROVE  InspectionIInv'
<1> USE DEF InspectionIInv, ScriptsBefore, VerdictInHand, FailIsDrawn, PassIsDrawn,
   ScriptPhases
<1>1. Judgement' = Judgement
  <2>1. SameCase
    BY DEF Retry, Exhaust, CollectRaises, SameCase, job
  <2> QED
    BY <2>1, SameJudgement
<1> QED
  BY <1>1 DEF Retry, Exhaust, CollectRaises

LEMMA StutterKeeps == ASSUME InspectionIInv, UNCHANGED vars PROVE InspectionIInv'
<1>1. Judgement' = Judgement
  BY SameJudgement DEF SameCase, vars, job
<1> QED
  BY <1>1 DEF vars, InspectionIInv, ScriptsBefore, VerdictInHand, FailIsDrawn, PassIsDrawn

\* The verdict in hand belongs to the rows, at every step.
THEOREM InspectionInductive == Spec => []InspectionIInv
<1>1. InspectionIInv /\ [Next]_vars => InspectionIInv'
  BY PhasesKeep, ValidationKeeps, ErrorsKeep, StutterKeeps DEF Next, Work
<1> QED
  BY InitInspection, <1>1, PTL DEF Spec

\* FailStands of validate_results, for every profile and any number of retries:
\* only SaveVerdict writes the file, and by then the verdict in hand is a fail.
THEOREM FailIsFinal == Spec => FailStands
<1>1. InspectionIInv /\ [Next]_vars => [file = "fail" => file' = "fail"]_vars
  <2> SUFFICES ASSUME InspectionIInv, Next, file = "fail"
               PROVE  file' = "fail"
    BY DEF vars
  <2>1. CASE SaveVerdict
    BY <2>1 DEF SaveVerdict, InspectionIInv, VerdictInHand, FailIsDrawn
  <2>2. CASE ~SaveVerdict
    BY <2>2 DEF Next, Work, PhaseStep, ScriptStep, ValidateStep, Begin, BaselineFails,
       ScriptMissing, ScriptTimesOut, ScriptExits, ScriptGarbled, ScriptPrints,
       CollectCutShort, HandOver, Abort, ValidateEmpty, Judge, Conclude, Retry, Exhaust,
       CollectRaises
  <2> QED
    BY <2>1, <2>2
<1> QED
  BY <1>1, InspectionInductive, PTL DEF Spec, FailStands

-----------------------------------------------------------------------------
(* JudgedInFull: a phase only hands over when its last attempt has a row for *)
(* each of its scripts, and later rows take nothing away.                   *)

\* The first n - 1 of the scripts have a row after row f that did not end the phase.
Recorded(rs, f, scripts, n) ==
  \A k \in 1..Len(scripts) : k < n =>
    \E i \in 1..Len(rs) : i > f /\ rs[i].check = scripts[k] /\ rs[i].ending # "exit"

LEMMA AppendIsSeq ==
  ASSUME NEW S, NEW rs \in Seq(S), NEW r
  PROVE  /\ Append(rs, r) \in Seq(S \cup {r})
         /\ Len(Append(rs, r)) = Len(rs) + 1
         /\ Append(rs, r)[Len(rs) + 1] = r
         /\ \A i \in 1..Len(rs) : Append(rs, r)[i] = rs[i]
<1>1. rs \in Seq(S \cup {r})
  OBVIOUS
<1> QED
  BY <1>1

\* A further row leaves recorded what was recorded.
LEMMA RecordedStays ==
  ASSUME NEW S, NEW rs \in Seq(S), NEW r, NEW f, NEW scripts, NEW n, Recorded(rs, f, scripts, n)
  PROVE  Recorded(Append(rs, r), f, scripts, n)
  BY AppendIsSeq DEF Recorded

\* The row of script n.
LEMMA RecordedNext ==
  ASSUME NEW S, NEW rs \in Seq(S), NEW r, NEW f \in Nat, f <= Len(rs),
         NEW scripts, Len(scripts) \in Nat, NEW n \in Nat,
         Recorded(rs, f, scripts, n), r.check = scripts[n], r.ending # "exit"
  PROVE  Recorded(Append(rs, r), f, scripts, n + 1)
<1> SUFFICES ASSUME NEW k \in 1..Len(scripts), k < n + 1
             PROVE  \E i \in 1..Len(Append(rs, r)) :
                      /\ i > f
                      /\ Append(rs, r)[i].check = scripts[k]
                      /\ Append(rs, r)[i].ending # "exit"
  BY DEF Recorded
<1>1. CASE k < n
  <2>1. Recorded(Append(rs, r), f, scripts, n)
    BY RecordedStays
  <2> QED
    BY <1>1, <2>1 DEF Recorded
<1>2. CASE k = n
  <2>1. Len(rs) + 1 \in 1..Len(Append(rs, r)) /\ Len(rs) + 1 > f
    BY AppendIsSeq
  <2> QED
    BY <1>2, <2>1, AppendIsSeq
<1>3. k < n \/ k = n
  OBVIOUS
<1> QED
  BY <1>1, <1>2, <1>3

Judged == {"preflight", "post_install"}

\* The phases before the present one.
Past == IF phase = "preflight" THEN {}
        ELSE IF phase = "post_install" THEN {"preflight"} ELSE Judged

RecordShape ==
  /\ profile \in Profiles
  /\ phase \in ScriptPhases \cup {"validate"}
  /\ next \in Nat \ {0}
  /\ \E S : rows \in Seq(S)
  /\ first \in [ScriptPhases -> Nat]
  /\ \A p \in ScriptPhases : first[p] <= Len(rows)

RecordedSoFar ==
  /\ pc = "running" => Recorded(rows, first[phase], profile[phase], next) \/ phase = "collect"
  /\ \A p \in Past : Recorded(rows, first[p], profile[p], Len(profile[p]) + 1)

RecordIInv == InspectionIInv /\ RecordShape /\ RecordedSoFar

LEMMA InitRecord == Init => RecordShape /\ RecordedSoFar
<1> SUFFICES ASSUME Init PROVE RecordShape /\ RecordedSoFar
  OBVIOUS
<1>1. \E S : rows \in Seq(S)
  <2>1. <<>> \in Seq({})
    OBVIOUS
  <2> QED
    BY <2>1 DEF Init
<1> QED
  BY <1>1 DEF Init, RecordShape, RecordedSoFar, Past, ScriptPhases

\* A step that adds a row: the phase is running, and goes on only when the row
\* is of its script at hand.
LEMMA RowStep ==
  ASSUME RecordIInv, pc = "running", NEW r,
         rows' = Append(rows, r), UNCHANGED <<profile, phase, first>>,
         next' \in Nat \ {0},
         \/ pc' = "aborting"
         \/ phase = "collect"
         \/ next' = next + 1 /\ r.check = profile[phase][next] /\ r.ending # "exit"
  PROVE  (RecordShape /\ RecordedSoFar)'
<1>1. PICK S : rows \in Seq(S)
  BY DEF RecordIInv, RecordShape
<1>2. rows' \in Seq(S \cup {r}) /\ Len(rows') = Len(rows) + 1 /\ Len(rows) \in Nat
  BY <1>1, AppendIsSeq
<1>3. phase \in ScriptPhases
  BY DEF RecordIInv, InspectionIInv, ScriptsBefore
<1>4. RecordShape'
  <2>1. \A p \in ScriptPhases : first'[p] <= Len(rows')
    BY <1>2 DEF RecordIInv, RecordShape
  <2> QED
    BY <1>2, <2>1 DEF RecordIInv, RecordShape
<1>5. \A p \in Past : Recorded(rows', first[p], profile[p], Len(profile[p]) + 1)
  BY <1>1, RecordedStays DEF RecordIInv, RecordedSoFar
<1>6. ASSUME phase # "collect", next' = next + 1,
             r.check = profile[phase][next], r.ending # "exit"
      PROVE  Recorded(rows', first[phase], profile[phase], next + 1)
  <2>1. /\ first[phase] \in Nat
        /\ first[phase] <= Len(rows)
        /\ Len(profile[phase]) \in Nat
        /\ next \in Nat
    BY <1>3, ProfilesAssumption DEF RecordIInv, RecordShape, ScriptPhases
  <2>2. Recorded(rows, first[phase], profile[phase], next)
    BY <1>6 DEF RecordIInv, RecordedSoFar
  <2> QED
    BY <1>1, <1>6, <2>1, <2>2, RecordedNext
<1>7. RecordedSoFar'
  BY <1>5, <1>6 DEF RecordedSoFar, Past
<1> QED
  BY <1>4, <1>7

LEMMA ScriptsRecord ==
  ASSUME RecordIInv, BaselineFails \/ ScriptStep \/ CollectCutShort
  PROVE  (RecordShape /\ RecordedSoFar)'
<1>0. next \in Nat \ {0} /\ (pc = "running" => phase \in ScriptPhases /\ Len(Scripts) \in Nat)
  BY ProfilesAssumption
     DEF RecordIInv, RecordShape, InspectionIInv, ScriptsBefore, Scripts, ScriptPhases
<1>1. CASE BaselineFails
  BY <1>0, <1>1, RowStep DEF BaselineFails, AddRow, job
<1>2. CASE ScriptMissing
  BY <1>0, <1>2, RowStep DEF ScriptMissing, AddRow, Row, AtScript, Scripts, job
<1>3. CASE ScriptTimesOut
  BY <1>0, <1>3, RowStep DEF ScriptTimesOut, AddRow, Row, AtScript, Scripts, job
<1>4. CASE ScriptExits
  BY <1>0, <1>4, RowStep DEF ScriptExits, AddRow, AtScript, job
<1>5. CASE ScriptGarbled
  BY <1>0, <1>5, RowStep DEF ScriptGarbled, AddRow, Row, AtScript, Scripts, job
<1>6. CASE ScriptPrints
  <2>1. PICK f \in Findings[Scripts[next]] :
          rows' = Append(rows, Row(Scripts[next], "printed", Prints(Scripts[next], f), f))
    BY <1>6 DEF ScriptPrints, AddRow
  <2> DEFINE r == Row(Scripts[next], "printed", Prints(Scripts[next], f), f)
  <2>2. rows' = Append(rows, r) /\ r.check = profile[phase][next] /\ r.ending # "exit"
    BY <2>1 DEF Row, Scripts
  <2>3. pc = "running" /\ next' = next + 1 /\ UNCHANGED <<profile, phase, first>>
    BY <1>6 DEF ScriptPrints, AtScript, job
  <2> HIDE DEF r
  <2> QED
    BY <1>0, <2>2, <2>3, RowStep
<1>7. CASE CollectCutShort
  BY <1>0, <1>7 DEF CollectCutShort, AtScript, job, RecordIInv, RecordShape, RecordedSoFar,
     Past
<1> QED
  BY <1>1, <1>2, <1>3, <1>4, <1>5, <1>6, <1>7 DEF ScriptStep

\* A phase begins with nothing recorded, and hands over with everything.
LEMMA PhaseEndsRecord ==
  ASSUME RecordIInv, Begin \/ HandOver
  PROVE  (RecordShape /\ RecordedSoFar)'
<1> USE DEF RecordIInv, RecordShape, RecordedSoFar
<1>0. Len(rows) \in Nat
  OBVIOUS
<1>1. CASE Begin
  <2>1. RecordShape'
    BY <1>0, <1>1 DEF Begin, job
  <2>2. Recorded(rows', first'[phase'], profile'[phase'], next')
    BY <1>1 DEF Begin, Recorded
  <2>3. \A p \in Past' : Recorded(rows', first'[p], profile'[p], Len(profile'[p]) + 1)
    <3>1. \A p \in Past : first'[p] = first[p]
      BY <1>1 DEF Begin, Past, Judged, ScriptPhases
    <3> QED
      BY <1>1, <3>1 DEF Begin, Past, job
  <2> QED
    BY <2>1, <2>2, <2>3
<1>2. CASE HandOver
  <2>1. phase \in ScriptPhases
    BY <1>2 DEF HandOver, InspectionIInv, ScriptsBefore
  <2>2. RecordShape'
    BY <1>2, <2>1 DEF HandOver, NextTask, ScriptPhases, job
  <2>3. \A p \in Past' : p \in Past \/ (p = phase /\ phase # "collect")
    BY <1>2, <2>1 DEF HandOver, NextTask, Past, Judged, ScriptPhases
  <2>4. phase # "collect" => Recorded(rows, first[phase], profile[phase], Len(profile[phase]) + 1)
    <3>1. Len(profile[phase]) \in Nat /\ Len(profile[phase]) < next
      BY <1>2, <2>1, ProfilesAssumption DEF HandOver, Scripts, ScriptPhases
    <3> QED
      BY <1>2, <3>1 DEF HandOver, Recorded
  <2>5. \A p \in Past' : Recorded(rows', first'[p], profile'[p], Len(profile'[p]) + 1)
    BY <1>2, <2>3, <2>4 DEF HandOver, job
  <2> QED
    BY <1>2, <2>2, <2>5 DEF HandOver
<1> QED
  BY <1>1, <1>2

\* All other steps leave the rows and the phase alone, and nothing runs after.
LEMMA OthersRecord ==
  ASSUME RecordIInv,
         Abort \/ ValidateStep \/ Retry \/ Exhaust \/ CollectRaises \/ UNCHANGED vars
  PROVE  (RecordShape /\ RecordedSoFar)'
<1>1. /\ UNCHANGED <<profile, phase, next, rows, first>>
      /\ pc' = "running" => pc = "running"
  BY DEF Abort, ValidateStep, ValidateEmpty, Judge, SaveVerdict, Conclude, Retry, Exhaust,
     CollectRaises, vars, job
<1> QED
  BY <1>1 DEF RecordIInv, RecordShape, RecordedSoFar, Past

\* What each phase has recorded, at every step.
THEOREM RecordInductive == Spec => []RecordIInv
<1>1. Init => RecordIInv
  BY InitInspection, InitRecord DEF RecordIInv
<1>2. RecordIInv /\ [Next]_vars => (RecordShape /\ RecordedSoFar)'
  BY ScriptsRecord, PhaseEndsRecord, OthersRecord DEF Next, Work, PhaseStep
<1>3. RecordIInv /\ [Next]_vars => InspectionIInv'
  BY PhasesKeep, ValidationKeeps, ErrorsKeep, StutterKeeps DEF Next, Work, RecordIInv
<1>4. RecordIInv /\ [Next]_vars => RecordIInv'
  BY <1>2, <1>3 DEF RecordIInv
<1> QED
  BY <1>1, <1>4, PTL DEF Spec

\* JudgedInFull of validate_results: whatever failed, timed out or was retried,
\* the judged rows are those of complete attempts.
THEOREM JudgementIsComplete == Spec => []JudgedInFull
<1>1. RecordIInv => JudgedInFull
  <2> SUFFICES ASSUME RecordIInv, verdict # "none", NEW p \in Judged, NEW k \in DOMAIN profile[p]
               PROVE  \E i \in DOMAIN rows :
                        i > first[p] /\ rows[i].check = profile[p][k] /\ rows[i].ending # "exit"
    BY DEF JudgedInFull, Judged
  <2>1. phase = "validate" /\ p \in Past
    BY DEF RecordIInv, InspectionIInv, VerdictInHand, Past
  <2>2. k \in 1..Len(profile[p]) /\ Len(profile[p]) \in Nat
    BY ProfilesAssumption DEF RecordIInv, RecordShape, Judged
  <2>3. DOMAIN rows = 1..Len(rows)
    BY DEF RecordIInv, RecordShape
  <2> QED
    BY <2>1, <2>2, <2>3 DEF RecordIInv, RecordedSoFar, Recorded
<1> QED
  BY <1>1, RecordInductive, PTL

-----------------------------------------------------------------------------
(* Types.                                                                  *)

LEMMA StatusPrinted ==
  ASSUME NEW script \in Known, NEW f
  PROVE  Prints(script, f).status \in RowStatus
<1> USE DEF Output, Broken, RowStatus, Prints
<1>1. CASE script = "sw_gpu_hw"
  BY <1>1 DEF SwGpuHw
<1>2. CASE script = "sw_cpu"
  BY <1>2 DEF SwCpu
<1>3. CASE script = "sw_power_mgmt"
  BY <1>3 DEF SwPowerMgmt
<1>4. CASE script = "sw_auto_update"
  BY <1>4 DEF SwAutoUpdate
<1>5. CASE script = "sw_gpu_sw"
  BY <1>5 DEF SwGpuSw
<1>6. CASE script = "stress_gpu"
  BY <1>6 DEF StressGpu
<1>7. CASE script = "nccl_bandwidth"
  BY <1>7 DEF NcclBandwidth
<1>8. CASE script = "collect_all_logs"
  BY <1>8 DEF CollectAllLogs
<1> QED
  BY <1>1, <1>2, <1>3, <1>4, <1>5, <1>6, <1>7, <1>8 DEF Known

RowsOK(rs) == \A i \in DOMAIN rs : rs[i].status \in RowStatus /\ rs[i].ending \in Endings

LEMMA RowsStayOK ==
  ASSUME NEW S, NEW rs \in Seq(S), RowsOK(rs),
         NEW r, r.status \in RowStatus, r.ending \in Endings
  PROVE  RowsOK(Append(rs, r))
<1>1. /\ DOMAIN rs = 1..Len(rs) /\ Len(rs) \in Nat
      /\ DOMAIN Append(rs, r) = 1..Len(rs) + 1
  BY AppendIsSeq
<1>2. ASSUME NEW i \in 1..Len(rs) + 1
      PROVE  Append(rs, r)[i].status \in RowStatus /\ Append(rs, r)[i].ending \in Endings
  <2>1. CASE i = Len(rs) + 1
    BY <2>1, AppendIsSeq
  <2>2. CASE i # Len(rs) + 1
    <3>1. i \in 1..Len(rs)
      BY <1>1, <1>2, <2>2
    <3> QED
      BY <1>1, <3>1, AppendIsSeq DEF RowsOK
  <2> QED
    BY <2>1, <2>2
<1> QED
  BY <1>1, <1>2 DEF RowsOK

\* The rows a step leaves: the same, or one more of a known status.
LEMMA RowsOKNext ==
  ASSUME RecordIInv, TypeOK, [Next]_vars
  PROVE  RowsOK(rows)'
<1>1. PICK S : rows \in Seq(S)
  BY DEF RecordIInv, RecordShape
<1>2. RowsOK(rows)
  BY DEF TypeOK, RowsOK
<1>3. ASSUME BaselineFails \/ ScriptStep
      PROVE  \E r : rows' = Append(rows, r) /\ r.status \in RowStatus /\ r.ending \in Endings
  <2>1. CASE ScriptPrints
    <3>1. PICK f \in Findings[Scripts[next]] :
            rows' = Append(rows, Row(Scripts[next], "printed", Prints(Scripts[next], f), f))
      BY <2>1 DEF ScriptPrints, AddRow
    <3>2. Prints(Scripts[next], f).status \in RowStatus
      BY <2>1, StatusPrinted, FilesAssumption DEF ScriptPrints
    <3> QED
      BY <3>1, <3>2 DEF Row, Endings
  <2>2. CASE ~ScriptPrints
    BY <1>3, <2>2 DEF BaselineFails, ScriptStep, ScriptMissing, ScriptTimesOut, ScriptExits,
       ScriptGarbled, AddRow, Row, Output, Broken, RowStatus, Endings
  <2> QED
    BY <2>1, <2>2
<1>4. ASSUME ~(BaselineFails \/ ScriptStep)
      PROVE  rows' = rows
  BY <1>4 DEF Next, Work, PhaseStep, ValidateStep, Begin, CollectCutShort, HandOver, Abort,
     ValidateEmpty, Judge, SaveVerdict, Conclude, Retry, Exhaust, CollectRaises, vars
<1> QED
  BY <1>1, <1>2, <1>3, <1>4, RowsStayOK

LEMMA TypeNext ==
  ASSUME RecordIInv, RecordIInv', TypeOK, [Next]_vars
  PROVE  TypeOK'
<1>1. RowsOK(rows)'
  BY RowsOKNext
<1>2. /\ profile' \in Profiles
      /\ phase' \in ScriptPhases \cup {"validate"}
      /\ next' \in Nat
      /\ first' \in [ScriptPhases -> Nat]
  BY DEF RecordIInv, RecordShape
<1>3. specs' = specs
  BY DEF Next, Work, PhaseStep, ScriptStep, ValidateStep, Begin, BaselineFails,
     ScriptMissing,
     ScriptTimesOut, ScriptExits, ScriptGarbled, ScriptPrints, CollectCutShort, HandOver,
        Abort,
     ValidateEmpty, Judge, SaveVerdict, Conclude, Retry, Exhaust, CollectRaises, vars, job
<1>4. /\ pc' \in Points
      /\ status' \in Statuses
      /\ tries' \in 0..RetryBound
      /\ restarts' \in 0..Restarts
  <2>1. CASE PhaseStep
    <3>1. phase \in ScriptPhases
      BY <2>1 DEF PhaseStep, ScriptStep, Begin, BaselineFails, ScriptMissing,
         ScriptTimesOut,
         ScriptExits, ScriptGarbled, ScriptPrints, CollectCutShort, HandOver, Abort,
            AtScript,
         RecordIInv, InspectionIInv, ScriptsBefore
    <3> QED
      BY <2>1, <3>1, BoundsAssumption DEF TypeOK, ScriptPhases, Statuses, Points, PhaseStep,
         ScriptStep, Begin, BaselineFails, ScriptMissing, ScriptTimesOut, ScriptExits,
         ScriptGarbled, ScriptPrints, CollectCutShort, HandOver, Abort
  <2>2. CASE ValidateStep
    BY <2>2 DEF TypeOK, Statuses, Points, ValidateStep, ValidateEmpty, Judge, SaveVerdict,
       Conclude, StatusAfter
  <2>3. CASE Retry \/ Exhaust \/ CollectRaises \/ UNCHANGED vars
    BY <2>3, BoundsAssumption DEF TypeOK, Statuses, Points, Retry, Exhaust, CollectRaises,
       vars
  <2> QED
    BY <2>1, <2>2, <2>3 DEF Next, Work
<1>5. /\ verdict' \in {"none", "pass", "fail", "rejected"}
      /\ file' \in {"none", "pass", "fail", "rejected"}
  <2>1. CASE Judge
    <3>1. Judgement \in {"fail", "agent_required", "pass"}
      BY DEF Judgement, Evaluate
    <3> QED
      BY <2>1, <3>1 DEF Judge, AgentVerdict, TypeOK
  <2>2. CASE SaveVerdict
    BY <2>2 DEF SaveVerdict, TypeOK
  <2>3. CASE ~Judge /\ ~SaveVerdict
    BY <2>3 DEF TypeOK, Next, Work, PhaseStep, ScriptStep, ValidateStep, Begin,
       BaselineFails,
       ScriptMissing, ScriptTimesOut, ScriptExits, ScriptGarbled, ScriptPrints,
          CollectCutShort,
       HandOver, Abort, ValidateEmpty, Conclude, Retry, Exhaust, CollectRaises, vars
  <2> QED
    BY <2>1, <2>2, <2>3
<1> QED
  BY <1>1, <1>2, <1>3, <1>4, <1>5 DEF TypeOK, RowsOK

\* Every variable keeps its type, whatever the scripts find: no status outside
\* the enumeration of check_results and jobs, no retry beyond the bound.
THEOREM InspectionTypeCorrect == Spec => []TypeOK
<1>1. Init => TypeOK
  BY BoundsAssumption DEF Init, TypeOK, ScriptPhases, Points, Statuses
<1>2. RecordIInv /\ RecordIInv' /\ TypeOK /\ [Next]_vars => TypeOK'
  BY TypeNext
<1> QED
  BY <1>1, <1>2, RecordInductive, PTL DEF Spec

-----------------------------------------------------------------------------
(* Rows: where they come from, and which of them the rules look at.         *)

\* What a row says is what its script prints on what it found; a script that did
\* not get so far leaves no metrics.
Genuine(r) ==
  \/ /\ r.ending = "printed"
     /\ r.check \in Files /\ r.saw \in FindingType(r.check)
     /\ r.status = Prints(r.check, r.saw).status
     /\ r.metrics = Prints(r.check, r.saw).metrics
  \/ r.ending # "printed" /\ r.metrics = NoMetrics

RowsGenuine == \A i \in 1..Len(rows) : Genuine(rows[i])

\* Behind the rows run_collect began with, no rule has a row to look at.
CollectedOnly ==
  /\ phase \in Judged => first["collect"] = 0
  /\ first["collect"] > 0 =>
       \A i \in first["collect"] + 1 .. Len(rows) : rows[i].check \notin RuledChecks

RowsInv == RowsGenuine /\ CollectedOnly

\* A step leaves the rows alone or adds one.
LEMMA RowCases ==
  ASSUME RecordIInv, [Next]_vars
  PROVE  \/ rows' = rows
         \/ /\ UNCHANGED <<phase, first>> /\ phase \in ScriptPhases
            /\ \E r : /\ rows' = Append(rows, r) /\ Genuine(r)
                      /\ phase = "collect" => r.check \notin RuledChecks
<1>0. BaselineFails \/ ScriptStep => phase \in ScriptPhases
  BY DEF BaselineFails, ScriptStep, ScriptMissing, ScriptTimesOut, ScriptExits,
     ScriptGarbled,
     ScriptPrints, AtScript, RecordIInv, InspectionIInv, ScriptsBefore
<1>1. ASSUME AtScript, phase = "collect" PROVE Scripts[next] \notin RuledChecks
  <2>1. next \in DOMAIN profile["collect"] /\ profile \in Profiles
    BY <1>1, ProfilesAssumption DEF AtScript, Scripts, RecordIInv, RecordShape
  <2> QED
    BY <1>1, <2>1, RulesAssumption DEF Scripts
<1>2. CASE ScriptPrints
  <2>1. PICK f \in Findings[Scripts[next]] :
          rows' = Append(rows, Row(Scripts[next], "printed", Prints(Scripts[next], f), f))
    BY <1>2 DEF ScriptPrints, AddRow
  <2>2. Genuine(Row(Scripts[next], "printed", Prints(Scripts[next], f), f))
    BY <1>2, <2>1, FindingsAssumption DEF ScriptPrints, Genuine, Row
  <2>3. Row(Scripts[next], "printed", Prints(Scripts[next], f), f).check = Scripts[next]
    BY DEF Row
  <2> QED
    BY <1>0, <1>1, <1>2, <2>1, <2>2, <2>3 DEF ScriptStep, ScriptPrints, job
<1>3. CASE BaselineFails
  BY <1>0, <1>3 DEF BaselineFails, AddRow, Row, Genuine, Broken, Output, job
<1>4. CASE ScriptMissing \/ ScriptTimesOut \/ ScriptExits \/ ScriptGarbled
  BY <1>0, <1>1, <1>4 DEF ScriptStep, ScriptMissing, ScriptTimesOut, ScriptExits,
     ScriptGarbled, AddRow, Row,
     Genuine, Broken, Output, job
<1>5. CASE ~(BaselineFails \/ ScriptStep)
  BY <1>5 DEF Next, Work, PhaseStep, ValidateStep, Begin, CollectCutShort, HandOver, Abort,
     ValidateEmpty, Judge, SaveVerdict, Conclude, Retry, Exhaust, CollectRaises, vars
<1> QED
  BY <1>2, <1>3, <1>4, <1>5 DEF ScriptStep

\* Where a step does not add rows, the phase and its beginning may move on.
LEMMA PhaseMoves ==
  ASSUME RecordIInv, RowsInv, [Next]_vars, rows' = rows
  PROVE  CollectedOnly'
<1> USE DEF RecordIInv, RecordShape, RowsInv, CollectedOnly, Judged, ScriptPhases
<1>1. CASE Begin
  BY <1>1 DEF Begin
<1>2. CASE HandOver
  BY <1>2 DEF HandOver, NextTask, InspectionIInv, ScriptsBefore
<1>3. CASE ~Begin /\ ~HandOver
  <2>1. UNCHANGED <<phase, first>>
    BY <1>3 DEF Next, Work, PhaseStep, ScriptStep, ValidateStep, BaselineFails,
       ScriptMissing,
       ScriptTimesOut, ScriptExits, ScriptGarbled, ScriptPrints, CollectCutShort, Abort,
       ValidateEmpty, Judge, SaveVerdict, Conclude, Retry, Exhaust, CollectRaises, vars
  <2> QED
    BY <2>1
<1> QED
  BY <1>1, <1>2, <1>3

\* The rows are genuine at every step.
THEOREM RowsInductive == Spec => []RowsInv
<1>1. Init => RowsInv
  BY DEF Init, RowsInv, RowsGenuine, CollectedOnly, ScriptPhases
<1>2. RecordIInv /\ RowsInv /\ [Next]_vars => RowsInv'
  <2> SUFFICES ASSUME RecordIInv, RowsInv, [Next]_vars PROVE RowsInv'
    OBVIOUS
  <2>1. CASE rows' = rows
    BY <2>1, PhaseMoves DEF RowsInv, RowsGenuine
  <2>2. CASE rows' # rows
    <3>1. PICK r : /\ rows' = Append(rows, r) /\ Genuine(r)
                   /\ phase = "collect" => r.check \notin RuledChecks
                   /\ UNCHANGED <<phase, first>> /\ phase \in ScriptPhases
      BY <2>2, RowCases
    <3>2. PICK S : rows \in Seq(S)
      BY DEF RecordIInv, RecordShape
    <3>3. /\ Len(rows') = Len(rows) + 1 /\ Len(rows) \in Nat /\ rows'[Len(rows) + 1] = r
          /\ \A i \in 1..Len(rows) : rows'[i] = rows[i]
      BY <3>1, <3>2, AppendIsSeq
    <3>4. RowsGenuine'
      BY <3>1, <3>3 DEF RowsInv, RowsGenuine
    <3>5. ASSUME first["collect"] > 0, NEW i \in first["collect"] + 1 .. Len(rows')
          PROVE  rows'[i].check \notin RuledChecks
      <4>1. phase = "collect"
        BY <3>1, <3>5 DEF RowsInv, CollectedOnly, Judged, ScriptPhases
      <4>2. first["collect"] \in Nat
        BY DEF RecordIInv, RecordShape, ScriptPhases
      <4>3. CASE i = Len(rows) + 1
        BY <3>1, <3>3, <4>1, <4>3
      <4>4. CASE i # Len(rows) + 1
        BY <3>3, <3>5, <4>2, <4>4 DEF RowsInv, CollectedOnly
      <4> QED
        BY <4>3, <4>4
    <3>6. CollectedOnly'
      BY <3>1, <3>5 DEF RowsInv, CollectedOnly
    <3> QED
      BY <3>4, <3>6 DEF RowsInv
  <2> QED
    BY <2>1, <2>2
<1> QED
  BY <1>1, <1>2, RecordInductive, PTL DEF Spec
-----------------------------------------------------------------------------
(* The rules of the shipped profile against the criteria of the README.     *)

\* What a rule says of one output of its check (the inner part of Failed).
FailsOn(rule, output, sp) ==
  IF rule.metric \in DOMAIN output.metrics
  THEN FailsBy(rule, output.metrics[rule.metric], sp)
  ELSE output.status = "fail"

\* ... and of Warned.
WarnsOn(rule, output, sp) ==
  /\ ~FailsOn(rule, output, sp)
  /\ rule.metric \in DOMAIN output.metrics /\ InZone(rule, output.metrics[rule.metric])

\* The rules read one by one: the check and the metric of each, ...
LEMMA RuleTable ==
  /\ DOMAIN GpuServerRules = 1..9
  /\ GpuServerRules[1].check = "sw_gpu_hw" /\ GpuServerRules[1].metric = "gpu_count"
  /\ GpuServerRules[2].check = "sw_gpu_sw" /\ GpuServerRules[2].metric = "gpu_max_temp_c"
  /\ GpuServerRules[3].check = "sw_cpu" /\ GpuServerRules[3].metric = "cpu_max_temp_c"
  /\ GpuServerRules[4].check = "sw_gpu_sw" /\ GpuServerRules[4].metric = "ecc_delta_uncorr"
  /\ GpuServerRules[5].check = "nccl_bandwidth" /\ GpuServerRules[5].metric = "bw_2gpu_gbs"
  /\ GpuServerRules[6].check = "nccl_bandwidth" /\ GpuServerRules[6].metric = "bw_4gpu_gbs"
  /\ GpuServerRules[7].check = "stress_gpu"
  /\ GpuServerRules[7].metric = "cooling_consistency_score"
  /\ GpuServerRules[8].check = "sw_power_mgmt" /\ GpuServerRules[8].metric = "sleep_target"
  /\ GpuServerRules[9].check = "sw_auto_update"
  /\ GpuServerRules[9].metric = "unattended_upgrades_active"
  BY DEF GpuServerRules

\* ... and the values it fails.
LEMMA RuleLimits ==
  ASSUME NEW v, NEW sp
  PROVE  /\ FailsBy(GpuServerRules[1], v, sp) <=>
              "expected_gpu_count" \in DOMAIN sp /\ v # sp["expected_gpu_count"]
         /\ FailsBy(GpuServerRules[2], v, sp) <=> IsNum(v) /\ v.num > 87
         /\ FailsBy(GpuServerRules[3], v, sp) <=> IsNum(v) /\ v.num > 100
         /\ FailsBy(GpuServerRules[4], v, sp) <=> IsNum(v) /\ v.num > 0
         /\ FailsBy(GpuServerRules[5], v, sp) <=> IsNum(v) /\ v.num < 30000
         /\ FailsBy(GpuServerRules[6], v, sp) <=> IsNum(v) /\ v.num < 5000
         /\ FailsBy(GpuServerRules[7], v, sp) <=> IsNum(v) /\ v.num < 60
         /\ FailsBy(GpuServerRules[8], v, sp) <=> v # Text("masked")
         /\ FailsBy(GpuServerRules[9], v, sp) <=> v = Text("active")
<1> USE DEF FailsBy, Above, Below, Has, IsNum, GpuServerRules, GB
<1>1. FailsBy(GpuServerRules[1], v, sp) <=>
        "expected_gpu_count" \in DOMAIN sp /\ v # sp["expected_gpu_count"]
  OBVIOUS
<1>2. FailsBy(GpuServerRules[2], v, sp) <=> IsNum(v) /\ v.num > 87
  OBVIOUS
<1>3. FailsBy(GpuServerRules[3], v, sp) <=> IsNum(v) /\ v.num > 100
  OBVIOUS
<1>4. FailsBy(GpuServerRules[4], v, sp) <=> IsNum(v) /\ v.num > 0
  OBVIOUS
<1>5. FailsBy(GpuServerRules[5], v, sp) <=> IsNum(v) /\ v.num < 30000
  OBVIOUS
<1>6. FailsBy(GpuServerRules[6], v, sp) <=> IsNum(v) /\ v.num < 5000
  OBVIOUS
<1>7. FailsBy(GpuServerRules[7], v, sp) <=> IsNum(v) /\ v.num < 60
  OBVIOUS
<1>8. FailsBy(GpuServerRules[8], v, sp) <=> v # Text("masked")
  OBVIOUS
<1>9. FailsBy(GpuServerRules[9], v, sp) <=> v = Text("active")
  OBVIOUS
<1> HIDE DEF FailsBy, IsNum, GpuServerRules, GB
<1> QED
  BY <1>1, <1>2, <1>3, <1>4, <1>5, <1>6, <1>7, <1>8, <1>9

\* What rounding may change.
LEMMA RoundedReadings ==
  ASSUME NEW v \in Reading
  PROVE  /\ IsNum(Rounded(v)) <=> IsNum(v)
         /\ IsNum(v) => v.num \in Int /\ Rounded(v).num \in Int
         /\ IsNum(v) => (Rounded(v).num < 30000 <=> v.num < 29995)
         /\ IsNum(v) => (Rounded(v).num < 5000 <=> v.num < 4995)
<1>1. CASE v \in [num : Int]
  <2>1. PICK n \in Int : v = [num |-> n]
    BY <1>1
  <2>2. IsNum(v) /\ v.num = n /\ Rounded(v) = [num |-> 10 * ((n + 5) \div 10)]
    BY <2>1 DEF IsNum, Rounded, Num
  <2> QED
    BY <2>2 DEF IsNum
<1>2. CASE v \in [text : STRING]
  BY <1>2 DEF IsNum, Rounded
<1> QED
  BY <1>1, <1>2 DEF Reading

\* The criteria read one by one: whose they are, ...
LEMMA CriteriaTable ==
  /\ CriteriaOf("sw_gpu_hw") = {"gpu_count"}
  /\ CriteriaOf("sw_cpu") = {"cpu_temp"}
  /\ CriteriaOf("sw_power_mgmt") = {"sleep_target"}
  /\ CriteriaOf("sw_auto_update") = {"auto_update"}
  /\ CriteriaOf("sw_gpu_sw") = {"gpu_temp", "ecc"}
  /\ CriteriaOf("stress_gpu") = {"load_temp", "cooling"}
  /\ CriteriaOf("nccl_bandwidth") = {"bw_2gpu", "bw_4gpu"}
  /\ CriteriaOf("collect_all_logs") = {}
  BY DEF CriteriaOf

\* ... what breaks them, ...
LEMMA CriterionTable ==
  ASSUME NEW f, NEW sp
  PROVE  /\ (Breaks("gpu_count", f, sp) <=>
               "expected_gpu_count" \in DOMAIN sp /\ Num(f.gpus) # sp.expected_gpu_count)
         /\ (Breaks("cpu_temp", f, sp) <=> IsNum(f.temp) /\ f.temp.num > 100)
         /\ (Breaks("sleep_target", f, sp) <=> f.sleep # "masked")
         /\ (Breaks("auto_update", f, sp) <=> f.enabled \/ (f.family = "debian" /\ f.active))
         /\ (Breaks("gpu_temp", f, sp) <=> f.smi /\ f.gpus > 0 /\ f.hot > 87)
         /\ (Breaks("ecc", f, sp) <=> f.smi /\ f.gpus > 0 /\ f.ecc > 0)
         /\ (Breaks("load_temp", f, sp) <=> f.burns /\ f.peak > 87)
         /\ (Breaks("cooling", f, sp) <=> f.burns /\ f.gpus >= 2 /\ f.score < 60)
         /\ (Breaks("bw_2gpu", f, sp) <=>
               f.smi /\ f.built /\ f.gpus >= 2 /\ IsNum(f.two) /\ f.two.num < 30000)
         /\ (Breaks("bw_4gpu", f, sp) <=>
               f.smi /\ f.built /\ f.gpus >= 4 /\ IsNum(f.four) /\ f.four.num < 5000)
<1>1. Breaks("gpu_count", f, sp) <=>
        "expected_gpu_count" \in DOMAIN sp /\ Num(f.gpus) # sp.expected_gpu_count
  BY DEF Breaks, GB
<1>2. Breaks("cpu_temp", f, sp) <=> IsNum(f.temp) /\ f.temp.num > 100
  BY DEF Breaks, GB
<1>3. Breaks("sleep_target", f, sp) <=> f.sleep # "masked"
  BY DEF Breaks, GB
<1>4. Breaks("auto_update", f, sp) <=> f.enabled \/ (f.family = "debian" /\ f.active)
  BY DEF Breaks, GB
<1>5. Breaks("gpu_temp", f, sp) <=> f.smi /\ f.gpus > 0 /\ f.hot > 87
  BY DEF Breaks, GB
<1>6. Breaks("ecc", f, sp) <=> f.smi /\ f.gpus > 0 /\ f.ecc > 0
  BY DEF Breaks, GB
<1>7. Breaks("load_temp", f, sp) <=> f.burns /\ f.peak > 87
  BY DEF Breaks, GB
<1>8. Breaks("cooling", f, sp) <=> f.burns /\ f.gpus >= 2 /\ f.score < 60
  BY DEF Breaks, GB
<1>9. Breaks("bw_2gpu", f, sp) <=>
        f.smi /\ f.built /\ f.gpus >= 2 /\ IsNum(f.two) /\ f.two.num < 30000
  BY DEF Breaks, GB
<1>10. Breaks("bw_4gpu", f, sp) <=>
        f.smi /\ f.built /\ f.gpus >= 4 /\ IsNum(f.four) /\ f.four.num < 5000
  BY DEF Breaks, GB
<1> QED
  BY <1>1, <1>2, <1>3, <1>4, <1>5, <1>6, <1>7, <1>8, <1>9, <1>10

\* ... and where the rules cannot see it.
LEMMA HiddenTable ==
  ASSUME NEW f
  PROVE  /\ ~Hides("gpu_count", f)
         /\ ~Hides("cpu_temp", f)
         /\ ~Hides("sleep_target", f)
         /\ ~Hides("auto_update", f)
         /\ ~Hides("cooling", f)
         /\ (Hides("gpu_temp", f) <=> ~f.tempsRead)
         /\ (Hides("ecc", f) <=> ~f.eccRead)
         /\ Hides("load_temp", f)
         /\ (Hides("bw_2gpu", f) <=> f.two.num >= 29995)
         /\ (Hides("bw_4gpu", f) <=> f.four.num >= 4995)
<1>1. ~Hides("gpu_count", f)
  BY DEF Hides, GB
<1>2. ~Hides("cpu_temp", f)
  BY DEF Hides, GB
<1>3. ~Hides("sleep_target", f)
  BY DEF Hides, GB
<1>4. ~Hides("auto_update", f)
  BY DEF Hides, GB
<1>5. ~Hides("cooling", f)
  BY DEF Hides, GB
<1>6. Hides("gpu_temp", f) <=> ~f.tempsRead
  BY DEF Hides, GB
<1>7. Hides("ecc", f) <=> ~f.eccRead
  BY DEF Hides, GB
<1>8. Hides("load_temp", f)
  BY DEF Hides, GB
<1>9. Hides("bw_2gpu", f) <=> f.two.num >= 29995
  BY DEF Hides, GB
<1>10. Hides("bw_4gpu", f) <=> f.four.num >= 4995
  BY DEF Hides, GB
<1> QED
  BY <1>1, <1>2, <1>3, <1>4, <1>5, <1>6, <1>7, <1>8, <1>9, <1>10

\* A criterion that is broken makes a rule of its check fail, unless it is hidden.
LEMMA BrokenFails ==
  ASSUME NEW script \in Known, NEW f \in FindingType(script), NEW sp,
         NEW c \in CriteriaOf(script), Breaks(c, f, sp), ~Hides(c, f)
  PROVE  \E k \in DOMAIN GpuServerRules :
           /\ GpuServerRules[k].check = script
           /\ FailsOn(GpuServerRules[k], Prints(script, f), sp)
<1> SUFFICES \E k \in 1..9 : /\ GpuServerRules[k].check = script
                             /\ FailsOn(GpuServerRules[k], Prints(script, f), sp)
  BY RuleTable
<1>1. CASE script = "sw_gpu_hw"
  <2>1. c \in {"gpu_count"}
    BY <1>1, CriteriaTable
  <2>2. f \in FindingType("sw_gpu_hw") /\ Prints(script, f) = SwGpuHw(f)
    BY <1>1 DEF Prints
  <2>3. ASSUME c = "gpu_count" PROVE FailsOn(GpuServerRules[1], Prints(script, f), sp)
    <3>1. "expected_gpu_count" \in DOMAIN sp /\ Num(f.gpus) # sp.expected_gpu_count
      BY <2>3, CriterionTable, HiddenTable
    <3> QED
      BY <2>2, <3>1, RuleTable, RuleLimits
      DEF FailsOn, IsNum, Num, Text, Output, FindingType, Broken, NoMetrics, SwGpuHw
  <2> QED
    BY <1>1, <2>1, <2>3, RuleTable
<1>2. CASE script = "sw_cpu"
  <2>1. c \in {"cpu_temp"}
    BY <1>2, CriteriaTable
  <2>2. f \in FindingType("sw_cpu") /\ Prints(script, f) = SwCpu(f)
    BY <1>2 DEF Prints
  <2>3. ASSUME c = "cpu_temp" PROVE FailsOn(GpuServerRules[3], Prints(script, f), sp)
    <3>1. IsNum(f.temp) /\ f.temp.num > 100
      BY <2>3, CriterionTable, HiddenTable
    <3> QED
      BY <2>2, <3>1, RuleTable, RuleLimits
      DEF FailsOn, IsNum, Num, Text, Output, FindingType, Broken, NoMetrics, SwCpu, Reading
  <2> QED
    BY <1>2, <2>1, <2>3, RuleTable
<1>3. CASE script = "sw_power_mgmt"
  <2>1. c \in {"sleep_target"}
    BY <1>3, CriteriaTable
  <2>2. f \in FindingType("sw_power_mgmt") /\ Prints(script, f) = SwPowerMgmt(f)
    BY <1>3 DEF Prints
  <2>3. ASSUME c = "sleep_target" PROVE FailsOn(GpuServerRules[8], Prints(script, f), sp)
    <3>1. f.sleep # "masked"
      BY <2>3, CriterionTable, HiddenTable
    <3> QED
      BY <2>2, <3>1, RuleTable, RuleLimits
      DEF FailsOn, IsNum, Num, Text, Output, FindingType, Broken, NoMetrics, SwPowerMgmt
  <2> QED
    BY <1>3, <2>1, <2>3, RuleTable
<1>4. CASE script = "sw_auto_update"
  <2>1. c \in {"auto_update"}
    BY <1>4, CriteriaTable
  <2>2. f \in FindingType("sw_auto_update") /\ Prints(script, f) = SwAutoUpdate(f)
    BY <1>4 DEF Prints
  <2>3. ASSUME c = "auto_update" PROVE FailsOn(GpuServerRules[9], Prints(script, f), sp)
    <3>1. f.enabled \/ (f.family = "debian" /\ f.active)
      BY <2>3, CriterionTable, HiddenTable
    <3> QED
      BY <2>2, <3>1, RuleTable, RuleLimits
      DEF FailsOn, IsNum, Num, Text, Output, FindingType, Broken, NoMetrics, SwAutoUpdate
  <2> QED
    BY <1>4, <2>1, <2>3, RuleTable
<1>5. CASE script = "sw_gpu_sw"
  <2>1. c \in {"gpu_temp", "ecc"}
    BY <1>5, CriteriaTable
  <2>2. f \in FindingType("sw_gpu_sw") /\ Prints(script, f) = SwGpuSw(f)
    BY <1>5 DEF Prints
  <2>3. ASSUME c = "gpu_temp" PROVE FailsOn(GpuServerRules[2], Prints(script, f), sp)
    <3>1. f.smi /\ f.gpus > 0 /\ f.hot > 87 /\ f.tempsRead
      BY <2>3, CriterionTable, HiddenTable
    <3> QED
      BY <2>2, <3>1, RuleTable, RuleLimits
      DEF FailsOn, IsNum, Num, Text, Output, FindingType, Broken, NoMetrics, SwGpuSw
  <2>4. ASSUME c = "ecc" PROVE FailsOn(GpuServerRules[4], Prints(script, f), sp)
    <3>1. f.smi /\ f.gpus > 0 /\ f.ecc > 0 /\ f.eccRead
      BY <2>4, CriterionTable, HiddenTable
    <3> QED
      BY <2>2, <3>1, RuleTable, RuleLimits
      DEF FailsOn, IsNum, Num, Text, Output, FindingType, Broken, NoMetrics, SwGpuSw
  <2> QED
    BY <1>5, <2>1, <2>3, <2>4, RuleTable
<1>6. CASE script = "stress_gpu"
  <2>1. c \in {"load_temp", "cooling"}
    BY <1>6, CriteriaTable
  <2>2. f \in FindingType("stress_gpu") /\ Prints(script, f) = StressGpu(f)
    BY <1>6 DEF Prints
  <2>3. ASSUME c = "cooling" PROVE FailsOn(GpuServerRules[7], Prints(script, f), sp)
    <3>1. f.burns /\ f.gpus >= 2 /\ f.score < 60
      BY <2>3, CriterionTable, HiddenTable
    <3> QED
      BY <2>2, <3>1, RuleTable, RuleLimits
      DEF FailsOn, IsNum, Num, Text, Output, FindingType, Broken, NoMetrics, StressGpu,
      CoolingScore
  <2>4. c # "load_temp"
    BY HiddenTable
  <2> QED
    BY <1>6, <2>1, <2>3, <2>4, RuleTable
<1>7. CASE script = "nccl_bandwidth"
  <2>1. c \in {"bw_2gpu", "bw_4gpu"}
    BY <1>7, CriteriaTable
  <2>2. f \in FindingType("nccl_bandwidth") /\ Prints(script, f) = NcclBandwidth(f)
    BY <1>7 DEF Prints
  <2>3. f.two \in Reading /\ f.four \in Reading /\ f.gpus \in Nat
    BY <2>2 DEF FindingType
  <2>4. ASSUME c = "bw_2gpu" PROVE FailsOn(GpuServerRules[5], Prints(script, f), sp)
    <3>1. f.smi /\ f.built /\ f.gpus >= 2 /\ IsNum(f.two) /\ f.two.num < 29995
      BY <2>4, <2>3, CriterionTable, HiddenTable, RoundedReadings
    <3>2. LET ms == Prints(script, f).metrics
          IN  "bw_2gpu_gbs" \in DOMAIN ms /\ ms["bw_2gpu_gbs"] = Rounded(f.two)
      BY <2>2, <2>3, <3>1 DEF NcclBandwidth, Output
    <3>3. IsNum(Rounded(f.two)) /\ Rounded(f.two).num < 30000
      BY <2>3, <3>1, RoundedReadings
    <3> QED
      BY <3>2, <3>3, RuleTable, RuleLimits DEF FailsOn
  <2>5. ASSUME c = "bw_4gpu" PROVE FailsOn(GpuServerRules[6], Prints(script, f), sp)
    <3>1. f.smi /\ f.built /\ f.gpus >= 4 /\ IsNum(f.four) /\ f.four.num < 4995
      BY <2>5, <2>3, CriterionTable, HiddenTable, RoundedReadings
    <3>2. LET ms == Prints(script, f).metrics
          IN  "bw_4gpu_gbs" \in DOMAIN ms /\ ms["bw_4gpu_gbs"] = Rounded(f.four)
      BY <2>2, <2>3, <3>1 DEF NcclBandwidth, Output
    <3>3. IsNum(Rounded(f.four)) /\ Rounded(f.four).num < 5000
      BY <2>3, <3>1, RoundedReadings
    <3> QED
      BY <3>2, <3>3, RuleTable, RuleLimits DEF FailsOn
  <2> QED
    BY <1>7, <2>1, <2>4, <2>5, RuleTable
<1>8. script # "collect_all_logs"
  BY CriteriaTable
<1> QED
  BY <1>1, <1>2, <1>3, <1>4, <1>5, <1>6, <1>7, <1>8 DEF Known

\* The other direction: what a rule finds fault with is a criterion broken, or the
\* check itself says fail.
LEMMA FailsBroken ==
  ASSUME NEW k \in DOMAIN GpuServerRules, NEW f \in FindingType(GpuServerRules[k].check), NEW sp,
         FailsOn(GpuServerRules[k], Prints(GpuServerRules[k].check, f), sp)
  PROVE  \/ Prints(GpuServerRules[k].check, f).status = "fail"
         \/ \E c \in CriteriaOf(GpuServerRules[k].check) : Breaks(c, f, sp)
<1>1. CASE k = 1
  <2>1. f \in FindingType("sw_gpu_hw") /\ Prints("sw_gpu_hw", f) = SwGpuHw(f)
    BY <1>1, RuleTable DEF Prints
  <2>2. FailsOn(GpuServerRules[1], SwGpuHw(f), sp)
    BY <1>1, <2>1, RuleTable
  <2>3. Breaks("gpu_count", f, sp)
    BY <2>1, <2>2, CriterionTable, RuleTable, RuleLimits
    DEF FailsOn, IsNum, Num, Text, Output, FindingType, Broken, NoMetrics, SwGpuHw
  <2> QED
    BY <1>1, <2>1, <2>3, RuleTable, CriteriaTable
<1>2. CASE k = 2
  <2>1. f \in FindingType("sw_gpu_sw") /\ Prints("sw_gpu_sw", f) = SwGpuSw(f)
    BY <1>2, RuleTable DEF Prints
  <2>2. FailsOn(GpuServerRules[2], SwGpuSw(f), sp)
    BY <1>2, <2>1, RuleTable
  <2>3. SwGpuSw(f).status = "fail"
    BY <2>1, <2>2, RuleTable, RuleLimits
    DEF FailsOn, IsNum, Num, Text, Output, FindingType, Broken, NoMetrics, SwGpuSw
  <2> QED
    BY <1>2, <2>1, <2>3, RuleTable
<1>3. CASE k = 3
  <2>1. f \in FindingType("sw_cpu") /\ Prints("sw_cpu", f) = SwCpu(f)
    BY <1>3, RuleTable DEF Prints
  <2>2. FailsOn(GpuServerRules[3], SwCpu(f), sp)
    BY <1>3, <2>1, RuleTable
  <2>3. SwCpu(f).status = "fail"
    BY <2>1, <2>2, RuleTable, RuleLimits
    DEF FailsOn, IsNum, Num, Text, Output, FindingType, Broken, NoMetrics, SwCpu, Reading
  <2> QED
    BY <1>3, <2>1, <2>3, RuleTable
<1>4. CASE k = 4
  <2>1. f \in FindingType("sw_gpu_sw") /\ Prints("sw_gpu_sw", f) = SwGpuSw(f)
    BY <1>4, RuleTable DEF Prints
  <2>2. FailsOn(GpuServerRules[4], SwGpuSw(f), sp)
    BY <1>4, <2>1, RuleTable
  <2>3. SwGpuSw(f).status = "fail"
    BY <2>1, <2>2, RuleTable, RuleLimits
    DEF FailsOn, IsNum, Num, Text, Output, FindingType, Broken, NoMetrics, SwGpuSw
  <2> QED
    BY <1>4, <2>1, <2>3, RuleTable
<1>5. CASE k = 5
  <2>1. f \in FindingType("nccl_bandwidth") /\ Prints("nccl_bandwidth", f) = NcclBandwidth(f)
    BY <1>5, RuleTable DEF Prints
  <2>2. FailsOn(GpuServerRules[5], NcclBandwidth(f), sp)
    BY <1>5, <2>1, RuleTable
  <2>3. f.two \in Reading /\ f.four \in Reading /\ f.gpus \in Nat
    BY <2>1 DEF FindingType
  <2>4. NcclBandwidth(f).status = "fail"
    BY <2>1, <2>2, <2>3, RoundedReadings, RuleTable, RuleLimits
    DEF FailsOn, IsNum, Num, Text, Output, FindingType, Broken, NoMetrics, NcclBandwidth,
      TooSlow, GB
  <2> QED
    BY <1>5, <2>1, <2>4, RuleTable
<1>6. CASE k = 6
  <2>1. f \in FindingType("nccl_bandwidth") /\ Prints("nccl_bandwidth", f) = NcclBandwidth(f)
    BY <1>6, RuleTable DEF Prints
  <2>2. FailsOn(GpuServerRules[6], NcclBandwidth(f), sp)
    BY <1>6, <2>1, RuleTable
  <2>3. f.two \in Reading /\ f.four \in Reading /\ f.gpus \in Nat
    BY <2>1 DEF FindingType
  <2>4. NcclBandwidth(f).status = "fail"
    BY <2>1, <2>2, <2>3, RoundedReadings, RuleTable, RuleLimits
    DEF FailsOn, IsNum, Num, Text, Output, FindingType, Broken, NoMetrics, NcclBandwidth,
      TooSlow, GB
  <2> QED
    BY <1>6, <2>1, <2>4, RuleTable
<1>7. CASE k = 7
  <2>1. f \in FindingType("stress_gpu") /\ Prints("stress_gpu", f) = StressGpu(f)
    BY <1>7, RuleTable DEF Prints
  <2>2. FailsOn(GpuServerRules[7], StressGpu(f), sp)
    BY <1>7, <2>1, RuleTable
  <2>3. StressGpu(f).status = "fail"
    BY <2>1, <2>2, RuleTable, RuleLimits
    DEF FailsOn, IsNum, Num, Text, Output, FindingType, Broken, NoMetrics, StressGpu,
      CoolingScore
  <2> QED
    BY <1>7, <2>1, <2>3, RuleTable
<1>8. CASE k = 8
  <2>1. f \in FindingType("sw_power_mgmt") /\ Prints("sw_power_mgmt", f) = SwPowerMgmt(f)
    BY <1>8, RuleTable DEF Prints
  <2>2. FailsOn(GpuServerRules[8], SwPowerMgmt(f), sp)
    BY <1>8, <2>1, RuleTable
  <2>3. SwPowerMgmt(f).status = "fail"
    BY <2>1, <2>2, RuleTable, RuleLimits
    DEF FailsOn, IsNum, Num, Text, Output, FindingType, Broken, NoMetrics, SwPowerMgmt
  <2> QED
    BY <1>8, <2>1, <2>3, RuleTable
<1>9. CASE k = 9
  <2>1. f \in FindingType("sw_auto_update") /\ Prints("sw_auto_update", f) = SwAutoUpdate(f)
    BY <1>9, RuleTable DEF Prints
  <2>2. FailsOn(GpuServerRules[9], SwAutoUpdate(f), sp)
    BY <1>9, <2>1, RuleTable
  <2>3. SwAutoUpdate(f).status = "fail"
    BY <2>1, <2>2, RuleTable, RuleLimits
    DEF FailsOn, IsNum, Num, Text, Output, FindingType, Broken, NoMetrics, SwAutoUpdate
  <2> QED
    BY <1>9, <2>1, <2>3, RuleTable
<1> QED
  BY <1>1, <1>2, <1>3, <1>4, <1>5, <1>6, <1>7, <1>8, <1>9, RuleTable

NoZone(rule) == ~Has(rule, "agent_zone_above") /\ ~Has(rule, "agent_zone_below")
IdleZone(rule) ==
  /\ Has(rule, "fail_below") /\ Has(rule, "agent_zone_below") /\ ~Has(rule, "agent_zone_above")
  /\ rule["agent_zone_below"] \in Int /\ rule["fail_below"] \in Int
  /\ rule["agent_zone_below"] < rule["fail_below"]

\* Four rules have no zone, and those of two lie beyond their limits.
LEMMA ZoneTable ==
  /\ NoZone(GpuServerRules[1]) /\ NoZone(GpuServerRules[4])
  /\ NoZone(GpuServerRules[8]) /\ NoZone(GpuServerRules[9])
  /\ IdleZone(GpuServerRules[5]) /\ IdleZone(GpuServerRules[6])
<1> USE DEF NoZone, IdleZone, Has, GpuServerRules, GB
<1>1. NoZone(GpuServerRules[1]) /\ NoZone(GpuServerRules[4])
  OBVIOUS
<1>2. NoZone(GpuServerRules[8]) /\ NoZone(GpuServerRules[9])
  OBVIOUS
<1>3. IdleZone(GpuServerRules[5])
  OBVIOUS
<1>4. IdleZone(GpuServerRules[6])
  OBVIOUS
<1> QED
  BY <1>1, <1>2, <1>3, <1>4

\* Who is in such a zone has failed already.
LEMMA IdleZoneFails ==
  ASSUME NEW rule, IdleZone(rule), NEW v, IsNum(v) => v.num \in Int, InZone(rule, v), NEW sp
  PROVE  FailsBy(rule, v, sp)
  BY DEF IdleZone, InZone, Below, Above, FailsBy, Has

LEMMA NcclReadings ==
  ASSUME NEW f \in FindingType("nccl_bandwidth"),
         NEW x \in DOMAIN Prints("nccl_bandwidth", f).metrics,
         IsNum(Prints("nccl_bandwidth", f).metrics[x])
  PROVE  Prints("nccl_bandwidth", f).metrics[x].num \in Int
<1> USE DEF Prints, NcclBandwidth, Output, Broken, NoMetrics, FindingType, Text, IsNum
<1>1. f.two \in Reading /\ f.four \in Reading
  OBVIOUS
<1> QED
  BY <1>1, RoundedReadings

\* Of the five zones two lie beyond the limit of their rule, and no script prints
\* the metric of a third.
LEMMA TwoZones ==
  ASSUME NEW k \in DOMAIN GpuServerRules, NEW f \in FindingType(GpuServerRules[k].check), NEW sp,
         WarnsOn(GpuServerRules[k], Prints(GpuServerRules[k].check, f), sp)
  PROVE  k \in {2, 7}
<1>1. k \notin {1, 4, 8, 9}
  BY ZoneTable DEF WarnsOn, InZone, NoZone, Above, Below
<1>2. k # 3
  <2>1. "cpu_max_temp_c" \notin DOMAIN Prints("sw_cpu", f).metrics
    BY DEF Prints, SwCpu, Output
  <2> QED
    BY <2>1, RuleTable DEF WarnsOn
<1>3. ASSUME k \in {5, 6} PROVE FALSE
  <2> DEFINE m == Prints(GpuServerRules[k].check, f).metrics
             v == m[GpuServerRules[k].metric]
  <2>1. GpuServerRules[k].metric \in DOMAIN m /\ InZone(GpuServerRules[k], v)
    BY DEF WarnsOn
  <2>2. IsNum(v) => v.num \in Int
    BY <1>3, <2>1, RuleTable, NcclReadings
  <2>3. FailsBy(GpuServerRules[k], v, sp)
    BY <1>3, <2>1, <2>2, ZoneTable, IdleZoneFails
  <2> QED
    BY <2>1, <2>3 DEF WarnsOn, FailsOn
<1> QED
  BY <1>1, <1>2, <1>3, RuleTable

-----------------------------------------------------------------------------
(* The newest row.                                                         *)

\* A bounded set of numbers has a greatest one.
LEMMA GreatestExists ==
  ASSUME NEW T \in SUBSET Nat, NEW n \in Nat, \A i \in T : i <= n, T # {}
  PROVE  \E i \in T : \A j \in T : j <= i
<1> DEFINE D == {n - i : i \in T}
<1>1. D \subseteq Nat /\ D # {}
  <2>1. \A i \in T : n - i \in Nat
    OBVIOUS
  <2>2. PICK i \in T : TRUE
    OBVIOUS
  <2> QED
    BY <2>1, <2>2
<1>2. PICK x \in D : \A y \in D : <<y, x>> \notin OpToRel(<, Nat)
  BY <1>1, NatLessThanWellFounded, WFMin
<1>3. \A y \in D : ~(y < x)
  BY <1>1, <1>2 DEF OpToRel
<1>4. PICK i \in T : x = n - i
  OBVIOUS
<1>5. \A j \in T : n - j \in D
  OBVIOUS
<1>6. \A j \in T : ~(n - j < n - i)
  BY <1>3, <1>4, <1>5
<1> QED
  BY <1>6

\* The row of a check after which it has no other is its newest.
LEMMA NewestIs ==
  ASSUME NEW S, NEW rs \in Seq(S), NEW i \in 1..Len(rs),
         \A j \in i + 1 .. Len(rs) : rs[j].check # rs[i].check
  PROVE  i \in RowsOf(rs, rs[i].check) /\ NewestRow(rs, rs[i].check) = rs[i]
<1> DEFINE at == RowsOf(rs, rs[i].check)
<1>1. i \in at /\ at \subseteq 1..Len(rs) /\ Len(rs) \in Nat
  BY DEF RowsOf
<1>2. \A j \in at : j <= i
  BY <1>1 DEF RowsOf
<1>3. \A k \in at : (\A j \in at : j <= k) => k = i
  BY <1>1, <1>2
<1> HIDE DEF at
<1>4. (CHOOSE k \in at : \A j \in at : j <= k) = i
  BY <1>1, <1>2, <1>3
<1> QED
  BY <1>1, <1>4 DEF NewestRow, at

\* A check that has rows has a newest.
LEMMA NewestHas ==
  ASSUME NEW S, NEW rs \in Seq(S), NEW c, RowsOf(rs, c) # {}
  PROVE  \E i \in 1..Len(rs) :
           /\ rs[i].check = c /\ NewestRow(rs, c) = rs[i]
           /\ \A j \in i + 1 .. Len(rs) : rs[j].check # c
<1>1. RowsOf(rs, c) \subseteq 1..Len(rs) /\ Len(rs) \in Nat
  BY DEF RowsOf
<1>2. PICK i \in RowsOf(rs, c) : \A j \in RowsOf(rs, c) : j <= i
  <2>1. RowsOf(rs, c) \in SUBSET Nat /\ \A j \in RowsOf(rs, c) : j <= Len(rs)
    BY <1>1
  <2> QED
    BY <1>1, <2>1, GreatestExists
<1>3. i \in 1..Len(rs) /\ rs[i].check = c
  BY <1>1 DEF RowsOf
<1>4. \A j \in i + 1 .. Len(rs) : rs[j].check # c
  BY <1>1, <1>2, <1>3 DEF RowsOf
<1> QED
  BY <1>3, <1>4, NewestIs

\* The verdict is a fail when one rule fails the newest row of its check.
LEMMA FailMeans ==
  ASSUME NEW rules, NEW t, NEW rs, NEW sp
  PROVE  Evaluate(rules, t, rs, sp) = "fail" <=>
           \E k \in DOMAIN rules :
             RowsOf(rs, rules[k].check) # {} /\ FailsOn(rules[k], NewestRow(rs, rules[k].check), sp)
  BY DEF Evaluate, Failed, FailsOn

\* The parts of the rows and the judgement, together with the types.
JudgeIInv == RecordIInv /\ RowsInv /\ TypeOK

\* The profile judges by the rules of the shipped one.
LEMMA RulesInUse ==
  ASSUME JudgeIInv
  PROVE  /\ profile.rules = GpuServerRules /\ profile.threshold \in Nat
         /\ \E S : rows \in Seq(S)
         /\ DOMAIN rows = 1..Len(rows)
  BY RulesAssumption DEF JudgeIInv, RecordIInv, RecordShape

LEMMA JudgeInductive == Spec => []JudgeIInv
  BY RecordInductive, RowsInductive, InspectionTypeCorrect, PTL DEF JudgeIInv

\* A server that passed broke no criterion in the last run of any script that printed
\* its result, but for the load temperature, the readings next to one that is no
\* number, and bandwidths that rounding lifts to their limit: every other criterion
\* has a rule that fails on it, or the script says fail and the rule fails closed.
THEOREM PassIsEarned == Spec => []PassMeetsCriteria
<1>1. JudgeIInv => PassMeetsCriteria
  <2> SUFFICES ASSUME JudgeIInv, file = "pass", NEW i \in DOMAIN rows, Measured(i),
                      NEW c \in CriteriaOf(rows[i].check), Breaks(c, rows[i].saw, specs),
                      ~Hides(c, rows[i].saw)
               PROVE  FALSE
    BY DEF PassMeetsCriteria
  <2>1. Judgement # "fail"
    BY DEF JudgeIInv, RecordIInv, InspectionIInv, PassIsDrawn
  <2>2. /\ rows[i].check \in Known
        /\ rows[i].saw \in FindingType(rows[i].check)
        /\ rows[i].status = Prints(rows[i].check, rows[i].saw).status
        /\ rows[i].metrics = Prints(rows[i].check, rows[i].saw).metrics
    BY RulesInUse, FilesAssumption DEF JudgeIInv, RowsInv, RowsGenuine, Genuine, Measured
  <2>3. PICK k \in DOMAIN GpuServerRules :
          /\ GpuServerRules[k].check = rows[i].check
          /\ FailsOn(GpuServerRules[k], Prints(rows[i].check, rows[i].saw), specs)
    BY <2>2, BrokenFails
  <2>4. FailsOn(GpuServerRules[k], rows[i], specs)
    BY <2>2, <2>3 DEF FailsOn
  <2>5. RowsOf(rows, rows[i].check) # {} /\ NewestRow(rows, rows[i].check) = rows[i]
    BY RulesInUse, NewestIs DEF Measured, Newest
  <2>6. /\ RowsOf(rows, GpuServerRules[k].check) # {}
        /\ FailsOn(GpuServerRules[k], NewestRow(rows, GpuServerRules[k].check), specs)
    BY <2>3, <2>4, <2>5
  <2>7. Evaluate(profile.rules, profile.threshold, rows, specs) = "fail"
    BY <2>6, RulesInUse, FailMeans
  <2> QED
    BY <2>1, <2>7 DEF Judgement
<1> QED
  BY <1>1, JudgeInductive, PTL

\* A server that failed did so for a reason that can be shown: the newest row of a
\* check some rule names.
THEOREM FailIsJustified == Spec => []FailHasReason
<1>1. JudgeIInv => FailHasReason
  <2> SUFFICES ASSUME JudgeIInv, file = "fail"
               PROVE  \E i \in DOMAIN rows :
                        /\ Newest(i)
                        /\ \E r \in DOMAIN profile.rules : profile.rules[r].check = rows[i].check
                        /\ \/ rows[i].status = "fail"
                           \/ /\ Measured(i)
                              /\ \E c \in CriteriaOf(rows[i].check) : Breaks(c, rows[i].saw, specs)
    BY DEF FailHasReason
  <2>1. Judgement = "fail"
    BY DEF JudgeIInv, RecordIInv, InspectionIInv, FailIsDrawn
  <2>2. PICK k \in DOMAIN GpuServerRules :
          /\ RowsOf(rows, GpuServerRules[k].check) # {}
          /\ FailsOn(GpuServerRules[k], NewestRow(rows, GpuServerRules[k].check), specs)
    BY <2>1, RulesInUse, FailMeans DEF Judgement
  <2>3. PICK i \in 1..Len(rows) :
          /\ rows[i].check = GpuServerRules[k].check
          /\ NewestRow(rows, GpuServerRules[k].check) = rows[i]
          /\ \A j \in i + 1 .. Len(rows) : rows[j].check # GpuServerRules[k].check
    BY <2>2, RulesInUse, NewestHas
  <2>4. Newest(i)
    BY <2>3 DEF Newest
  <2>5. FailsOn(GpuServerRules[k], rows[i], specs) /\ Genuine(rows[i])
    BY <2>2, <2>3 DEF JudgeIInv, RowsInv, RowsGenuine
  <2>6. CASE rows[i].ending = "printed"
    <3>1. /\ rows[i].saw \in FindingType(GpuServerRules[k].check)
          /\ FailsOn(GpuServerRules[k], Prints(GpuServerRules[k].check, rows[i].saw), specs)
          /\ rows[i].status = Prints(GpuServerRules[k].check, rows[i].saw).status
      BY <2>3, <2>5, <2>6 DEF Genuine, FailsOn
    <3>2. \/ rows[i].status = "fail"
          \/ \E c \in CriteriaOf(rows[i].check) : Breaks(c, rows[i].saw, specs)
      BY <2>3, <3>1, FailsBroken
    <3> QED
      BY <2>3, <2>4, <2>6, <3>2, RulesInUse DEF Measured
  <2>7. CASE rows[i].ending # "printed"
    <3>1. rows[i].status = "fail"
      BY <2>5, <2>7 DEF Genuine, FailsOn, NoMetrics
    <3> QED
      BY <2>3, <2>4, <3>1, RulesInUse
  <2> QED
    BY <2>6, <2>7
<1> QED
  BY <1>1, JudgeInductive, PTL

\* What the rules say of the rows run_collect began with, they say of all rows.
LEMMA LogsUnseen ==
  ASSUME JudgeIInv, first["collect"] > 0, NEW k \in DOMAIN GpuServerRules
  PROVE  LET rs == SubSeq(rows, 1, first["collect"])
             c == GpuServerRules[k].check
         IN  /\ RowsOf(rs, c) = RowsOf(rows, c)
             /\ RowsOf(rs, c) # {} => NewestRow(rs, c) = NewestRow(rows, c)
<1> DEFINE n == first["collect"]
           rs == SubSeq(rows, 1, n)
           c == GpuServerRules[k].check
<1>1. PICK S : rows \in Seq(S)
  BY RulesInUse
<1>2. n \in Nat /\ n <= Len(rows) /\ Len(rows) \in Nat
  BY <1>1 DEF JudgeIInv, RecordIInv, RecordShape, ScriptPhases
<1>3. DOMAIN rs = 1..n /\ \A i \in 1..n : rs[i] = rows[i]
  BY <1>1, <1>2
<1>4. c \in RuledChecks
  BY DEF RuledChecks
<1>5. \A i \in n + 1 .. Len(rows) : rows[i].check # c
  BY <1>4 DEF JudgeIInv, RowsInv, CollectedOnly
<1>6. RowsOf(rows, c) \subseteq 1..n
  BY <1>1, <1>2, <1>5 DEF RowsOf
<1>7. RowsOf(rs, c) = RowsOf(rows, c)
  BY <1>1, <1>2, <1>3, <1>6 DEF RowsOf
<1>8. ASSUME RowsOf(rows, c) # {} PROVE NewestRow(rs, c) = NewestRow(rows, c)
  <2> DEFINE i == CHOOSE i \in RowsOf(rows, c) : \A j \in RowsOf(rows, c) : j <= i
  <2>1. i \in RowsOf(rows, c)
    <3>1. RowsOf(rows, c) \in SUBSET Nat /\ \A j \in RowsOf(rows, c) : j <= n
      BY <1>2, <1>6
    <3>2. \E m \in RowsOf(rows, c) : \A j \in RowsOf(rows, c) : j <= m
      BY <1>2, <1>8, <3>1, GreatestExists
    <3> QED
      BY <3>2
  <2>2. rs[i] = rows[i]
    BY <1>3, <1>6, <2>1
  <2> QED
    BY <1>7, <2>2 DEF NewestRow
<1> QED
  BY <1>7, <1>8

\* Whatever run_collect adds or fails to add, the verdict is that of the rows
\* before it.
THEOREM LogsDoNotJudge == Spec => []CollectIsNeutral
<1>1. JudgeIInv => CollectIsNeutral
  <2> SUFFICES ASSUME JudgeIInv, verdict # "none", first["collect"] > 0
               PROVE  verdict = "fail" <=>
                        Evaluate(profile.rules, profile.threshold,
                                 SubSeq(rows, 1, first["collect"]), specs) = "fail"
    BY DEF CollectIsNeutral
  <2>1. verdict = "fail" <=> Judgement = "fail"
    BY DEF JudgeIInv, TypeOK, RecordIInv, InspectionIInv, VerdictInHand
  <2> DEFINE rs == SubSeq(rows, 1, first["collect"])
             Rejects(r) == \E k \in DOMAIN GpuServerRules :
                /\ RowsOf(r, GpuServerRules[k].check) # {}
                /\ FailsOn(GpuServerRules[k], NewestRow(r, GpuServerRules[k].check), specs)
  <2>2. \A k \in DOMAIN GpuServerRules :
          /\ RowsOf(rs, GpuServerRules[k].check) = RowsOf(rows, GpuServerRules[k].check)
          /\ RowsOf(rs, GpuServerRules[k].check) # {} =>
               NewestRow(rs, GpuServerRules[k].check) = NewestRow(rows, GpuServerRules[k].check)
    BY LogsUnseen
  <2> HIDE DEF rs
  <2>3. Rejects(rs) <=> Rejects(rows)
    BY <2>2
  <2>4. Judgement = "fail" <=> Rejects(rows)
    BY RulesInUse, FailMeans DEF Judgement
  <2>5. Evaluate(profile.rules, profile.threshold, rs, specs) = "fail" <=> Rejects(rs)
    BY RulesInUse, FailMeans
  <2> QED
    BY <2>1, <2>3, <2>4, <2>5 DEF rs
<1> QED
  BY <1>1, JudgeInductive, PTL

\* No server, whatever it shows, is rejected with the threshold of the shipped profile.
AgentNeverAsked == profile.threshold >= 3 => verdict # "rejected"

\* Why a job the README gives to the Verify Agent passes without it (TableIsHeeded is
\* violated): three warnings would take three zones, two of the five lie beyond the
\* limit of their rule, and no script prints the metric of a third.
THEOREM AgentStaysIdle == Spec => []AgentNeverAsked
<1>1. JudgeIInv => AgentNeverAsked
  <2> SUFFICES ASSUME JudgeIInv, profile.threshold >= 3, verdict = "rejected"
               PROVE  FALSE
    BY DEF AgentNeverAsked
  <2> DEFINE warns == {k \in DOMAIN GpuServerRules : Warned(GpuServerRules[k], rows, specs)}
  <2>1. Judgement = "agent_required"
    BY DEF JudgeIInv, RecordIInv, InspectionIInv, VerdictInHand
  <2>2. Cardinality(warns) >= profile.threshold
    BY <2>1, RulesInUse DEF Judgement, Evaluate
  <2>3. ASSUME NEW k \in warns PROVE k \in {2, 7}
    <3>1. PICK i \in 1..Len(rows) :
            /\ rows[i].check = GpuServerRules[k].check
            /\ NewestRow(rows, GpuServerRules[k].check) = rows[i]
      BY RulesInUse, NewestHas DEF Warned
    <3>2. WarnsOn(GpuServerRules[k], rows[i], specs) /\ Genuine(rows[i])
      BY <3>1 DEF JudgeIInv, RowsInv, RowsGenuine, Warned, WarnsOn, Failed, FailsOn
    <3>3. rows[i].ending = "printed"
      BY <3>2 DEF Genuine, WarnsOn, NoMetrics
    <3>4. /\ rows[i].saw \in FindingType(GpuServerRules[k].check)
          /\ WarnsOn(GpuServerRules[k], Prints(GpuServerRules[k].check, rows[i].saw), specs)
      BY <3>1, <3>2, <3>3 DEF Genuine, WarnsOn, FailsOn
    <3> QED
      BY <3>4, TwoZones
  <2>4. IsFiniteSet({2, 7}) /\ Cardinality({2, 7}) <= 2
    <3>1. IsFiniteSet({2}) /\ Cardinality({2}) = 1
      BY FS_Singleton
    <3>2. {2, 7} = {2} \cup {7}
      OBVIOUS
    <3>3. /\ IsFiniteSet({2} \cup {7})
          /\ \/ Cardinality({2} \cup {7}) = Cardinality({2})
             \/ Cardinality({2} \cup {7}) = Cardinality({2}) + 1
      BY <3>1, FS_AddElement
    <3> QED
      BY <3>1, <3>2, <3>3
  <2>5. Cardinality(warns) \in Nat /\ Cardinality(warns) <= 2
    BY <2>3, <2>4, FS_Subset, FS_CardinalityType
  <2> QED
    BY <2>2, <2>5, RulesInUse
<1> QED
  BY <1>1, JudgeInductive, PTL
=============================================================================
