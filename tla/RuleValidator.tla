---------------------------- MODULE RuleValidator ----------------------------
(***************************************************************************)
(* evaluate() of workers/rule_validator.py: the rules of a profile, applied *)
(* to the check rows of a job.  A row carries the metrics of its detail    *)
(* text ("key=val|key2=val2"), each a number or another text.              *)
(***************************************************************************)
EXTENDS Integers, Sequences, FiniteSets

\* _to_float(value): only a Num is compared with a limit.
Num(n)  == [num |-> n]
Text(t) == [text |-> t]
IsNum(v) == "num" \in DOMAIN v

Has(rule, key) == key \in DOMAIN rule

Above(rule, key, v) == Has(rule, key) /\ IsNum(v) /\ v.num > rule[key]
Below(rule, key, v) == Has(rule, key) /\ IsNum(v) /\ v.num < rule[key]

\* A rule against a specification the job does not carry never fails.
FailsBy(rule, v, specs) ==
  \/ Above(rule, "fail_above", v)
  \/ Below(rule, "fail_below", v)
  \/ Has(rule, "fail_if") /\ v = rule.fail_if
  \/ Has(rule, "fail_if_not") /\ v # rule.fail_if_not
  \/ /\ Has(rule, "fail_if_not_equal")
     /\ rule.fail_if_not_equal \in DOMAIN specs
     /\ v # specs[rule.fail_if_not_equal]

InZone(rule, v) ==
  Above(rule, "agent_zone_above", v) \/ Below(rule, "agent_zone_below", v)

\* Mutant: without a row of its own a check is judged by the last row.
RowsOfOrLast(rows, c) ==
  IF \E i \in DOMAIN rows : rows[i].check = c
  THEN {i \in DOMAIN rows : rows[i].check = c} ELSE {Len(rows)}

RowsOf(rows, c) == {i \in DOMAIN rows : rows[i].check = c}

\* Mutant: the first row of a check is kept, later ones are ignored.
OldestRow(rows, c) ==
  rows[CHOOSE i \in RowsOf(rows, c) : \A j \in RowsOf(rows, c) : i <= j]

\* A retried phase repeats its checks: the row created last counts.
NewestRow(rows, c) ==
  rows[CHOOSE i \in RowsOf(rows, c) : \A j \in RowsOf(rows, c) : j <= i]

\* Mutant: a metric that is missing is no reason to fail.
FailedOpen(rule, rows, specs) ==
  /\ RowsOf(rows, rule.check) # {}
  /\ LET row == NewestRow(rows, rule.check)
     IN  rule.metric \in DOMAIN row.metrics /\ FailsBy(rule, row.metrics[rule.metric], specs)

\* Without the metric the rule fails only when its check failed (fail closed);
\* without a row of its check it is skipped.
Failed(rule, rows, specs) ==
  /\ RowsOf(rows, rule.check) # {}
  /\ LET row == NewestRow(rows, rule.check)
     IN  IF rule.metric \in DOMAIN row.metrics
         THEN FailsBy(rule, row.metrics[rule.metric], specs)
         ELSE row.status = "fail"

\* The zone is looked at only when the rule did not fail.
Warned(rule, rows, specs) ==
  /\ RowsOf(rows, rule.check) # {}
  /\ ~Failed(rule, rows, specs)
  /\ LET row == NewestRow(rows, rule.check)
     IN  rule.metric \in DOMAIN row.metrics /\ InZone(rule, row.metrics[rule.metric])

\* The verdict: one failure decides, else the number of warnings.
Evaluate(rules, threshold, rows, specs) ==
  LET fails == {i \in DOMAIN rules : Failed(rules[i], rows, specs)}
      warns == {i \in DOMAIN rules : Warned(rules[i], rows, specs)}
  IN  IF fails # {} THEN "fail"
      ELSE IF Cardinality(warns) >= threshold THEN "agent_required" ELSE "pass"
=============================================================================
