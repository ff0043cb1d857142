----------------------------- MODULE CheckScripts -----------------------------
(***************************************************************************)
(* The check scripts the rules of the shipped profile look at: what each    *)
(* prints, as a function of what it finds on the server.  A finding is a   *)
(* record of the readings the status and the judged metrics depend on;     *)
(* metrics that no rule is near to are left out.                           *)
(***************************************************************************)
EXTENDS RuleValidator

Output(status, metrics) == [status |-> status, metrics |-> metrics]

NoMetrics == [m \in {} |-> Text("none")]

\* The except clause of a script, or a reading without which it stops.
Broken == Output("fail", NoMetrics)

\* The GPUs lspci lists; a link narrower than x16 is a warning.
SwGpuHw(f) ==
  Output(IF f.gpus = 0 THEN "fail" ELSE IF f.narrow THEN "warn" ELSE "pass",
         [gpu_count |-> Num(f.gpus)])

\* A temperature that cannot be read is printed as "unknown".
SwCpu(f) ==
  Output(IF ~IsNum(f.temp) THEN "warn" ELSE IF f.temp.num > 100 THEN "fail" ELSE "pass",
         [max_temp_c |-> f.temp])

SwPowerMgmt(f) ==
  Output(IF f.sleep # "masked" \/ f.governor # "performance" THEN "fail"
         ELSE IF f.tuned THEN "pass" ELSE "warn",
         [sleep_target |-> Text(f.sleep)])

\* The service on Ubuntu; on the other family its timer counts when enabled.
SwAutoUpdate(f) ==
  LET active == f.active /\ (f.family = "debian" \/ f.enabled)
  IN  Output(IF f.enabled \/ active THEN "fail" ELSE "pass",
             [unattended_active |-> Text(IF active THEN "true" ELSE "false")])

\* The hottest GPU and the ECC errors of all.  One reading that is no number, of any
\* of the GPUs, and what is printed and judged is 0: the others are not looked at.
SwGpuSw(f) ==
  LET hot == IF f.tempsRead THEN f.hot ELSE 0
      ecc == IF f.eccRead THEN f.ecc ELSE 0
  IN  IF ~f.smi THEN Broken
      ELSE IF f.gpus = 0 THEN Output("fail", [gpu_count |-> Num(0)])
      ELSE Output(IF hot > 87 \/ ecc > 0 THEN "fail"
                  ELSE IF f.persistence THEN "pass" ELSE "warn",
                  [gpu_max_temp_c |-> Num(hot), ecc_delta_uncorr |-> Num(ecc)])

\* compute_cooling_consistency: there is nothing to compare on a single GPU.
CoolingScore(f) == IF f.gpus < 2 THEN 100 ELSE f.score

\* The score is all the rules look at: the peak temperature, the throttling
\* and the early end of the load only show in the status.
StressGpu(f) ==
  IF ~f.burns THEN Broken
  ELSE Output(IF \/ f.peak > 87 \/ f.throttled \/ f.ecc > 0 \/ f.weak \/ f.died
                 \/ CoolingScore(f) < 60 /\ f.gpus >= 2 THEN "fail"
              ELSE IF f.slowed \/ (CoolingScore(f) < 75 /\ f.gpus >= 2) THEN "warn" ELSE "pass",
              [cooling_consistency_score |-> Num(CoolingScore(f))])

\* A bandwidth in MB/s, or the text "N/A" when its measurement failed.
GB == 1000
TooSlow(bw, limit) == ~IsNum(bw) \/ bw.num < limit

\* Printed in GB/s with two decimals (just between two, it is taken to go up).
Rounded(bw) == IF IsNum(bw) THEN Num(10 * ((bw.num + 5) \div 10)) ELSE bw

\* The script compares what it measured, the rules compare what it printed.
NcclBandwidth(f) ==
  IF ~f.smi THEN Broken
  ELSE IF f.gpus < 2 THEN Output("warn", NoMetrics)
  ELSE IF ~f.built THEN Broken
  ELSE Output(IF TooSlow(f.two, 30 * GB) \/ (f.gpus >= 4 /\ TooSlow(f.four, 5 * GB))
              THEN "fail" ELSE "pass",
              [bw_2gpu_gbs |-> Rounded(f.two),
               bw_4gpu_gbs |-> IF f.gpus >= 4 THEN Rounded(f.four) ELSE Text("skipped")])

\* The logs: many errors in them are a warning; no rule looks at it.
CollectAllLogs(f) == Output(IF f.noisy THEN "warn" ELSE "pass", NoMetrics)

\* What there is to be found: a reading is a number or a text.
Reading == [num : Int] \cup [text : STRING]

FindingType(script) ==
  CASE script = "sw_gpu_hw" -> [gpus : Nat, narrow : BOOLEAN]
    [] script = "sw_cpu" -> [temp : Reading]
    [] script = "sw_power_mgmt" -> [sleep : STRING, governor : STRING, tuned : BOOLEAN]
    [] script = "sw_auto_update" -> [family : STRING, enabled : BOOLEAN, active : BOOLEAN]
    [] script = "sw_gpu_sw" -> [smi : BOOLEAN, gpus : Nat, hot : Int, tempsRead : BOOLEAN,
                                ecc : Int, eccRead : BOOLEAN, persistence : BOOLEAN]
    [] script = "stress_gpu" -> [burns : BOOLEAN, peak : Int, throttled : BOOLEAN, ecc : Int,
                                 weak : BOOLEAN, died : BOOLEAN, slowed : BOOLEAN, score : 0..100,
                                 gpus : Nat]
    [] script = "nccl_bandwidth" -> [smi : BOOLEAN, built : BOOLEAN, gpus : Nat,
                                     two : Reading, four : Reading]
    [] script = "collect_all_logs" -> [noisy : BOOLEAN]

Known == {"sw_gpu_hw", "sw_cpu", "sw_power_mgmt", "sw_auto_update", "sw_gpu_sw",
          "stress_gpu", "nccl_bandwidth", "collect_all_logs"}

Prints(script, f) ==
  CASE script = "sw_gpu_hw" -> SwGpuHw(f)
    [] script = "sw_cpu" -> SwCpu(f)
    [] script = "sw_power_mgmt" -> SwPowerMgmt(f)
    [] script = "sw_auto_update" -> SwAutoUpdate(f)
    [] script = "sw_gpu_sw" -> SwGpuSw(f)
    [] script = "stress_gpu" -> StressGpu(f)
    [] script = "nccl_bandwidth" -> NcclBandwidth(f)
    [] script = "collect_all_logs" -> CollectAllLogs(f)

-----------------------------------------------------------------------------
(* The rules of checks/profiles/gpu_server.json, the profile that is shipped. *)

GpuServerRules == <<
  [check |-> "sw_gpu_hw", metric |-> "gpu_count", fail_if_not_equal |-> "expected_gpu_count"],
  [check |-> "sw_gpu_sw", metric |-> "gpu_max_temp_c", fail_above |-> 87, agent_zone_above |-> 75],
  [check |-> "sw_cpu", metric |-> "cpu_max_temp_c", fail_above |-> 100, agent_zone_above |-> 85],
  [check |-> "sw_gpu_sw", metric |-> "ecc_delta_uncorr", fail_above |-> 0],
  [check |-> "nccl_bandwidth", metric |-> "bw_2gpu_gbs", fail_below |-> 30 * GB, agent_zone_below |-> 25 * GB],
  [check |-> "nccl_bandwidth", metric |-> "bw_4gpu_gbs", fail_below |-> 5 * GB, agent_zone_below |-> 3 * GB],
  [check |-> "stress_gpu", metric |-> "cooling_consistency_score", fail_below |-> 60, agent_zone_below |-> 75],
  [check |-> "sw_power_mgmt", metric |-> "sleep_target", fail_if_not |-> Text("masked")],
  [check |-> "sw_auto_update", metric |-> "unattended_upgrades_active", fail_if |-> Text("active")]>>

RuledChecks == {GpuServerRules[r].check : r \in DOMAIN GpuServerRules}

-----------------------------------------------------------------------------
(* The criteria, said of what a script found on the server and not of what  *)
(* it printed: the table in the README, and the limits of the profile that *)
(* it leaves out.                                                          *)

CriteriaOf(script) ==
  CASE script = "sw_gpu_hw" -> {"gpu_count"}
    [] script = "sw_cpu" -> {"cpu_temp"}
    [] script = "sw_power_mgmt" -> {"sleep_target"}
    [] script = "sw_auto_update" -> {"auto_update"}
    [] script = "sw_gpu_sw" -> {"gpu_temp", "ecc"}
    [] script = "stress_gpu" -> {"load_temp", "cooling"}
    [] script = "nccl_bandwidth" -> {"bw_2gpu", "bw_4gpu"}
    [] OTHER -> {}

\* A FAIL of the criterion.
Breaks(criterion, f, specs) ==
  CASE criterion = "gpu_count" ->
         "expected_gpu_count" \in DOMAIN specs /\ Num(f.gpus) # specs.expected_gpu_count
    [] criterion = "cpu_temp" -> IsNum(f.temp) /\ f.temp.num > 100
    [] criterion = "sleep_target" -> f.sleep # "masked"
    [] criterion = "auto_update" -> f.enabled \/ (f.family = "debian" /\ f.active)
    [] criterion = "gpu_temp" -> f.smi /\ f.gpus > 0 /\ f.hot > 87
    [] criterion = "ecc" -> f.smi /\ f.gpus > 0 /\ f.ecc > 0
    [] criterion = "load_temp" -> f.burns /\ f.peak > 87
    [] criterion = "cooling" -> f.burns /\ f.gpus >= 2 /\ f.score < 60
    [] criterion = "bw_2gpu" ->
         f.smi /\ f.built /\ f.gpus >= 2 /\ IsNum(f.two) /\ f.two.num < 30 * GB
    [] criterion = "bw_4gpu" ->
         f.smi /\ f.built /\ f.gpus >= 4 /\ IsNum(f.four) /\ f.four.num < 5 * GB

\* Where the rules cannot see that a criterion is broken: another reading was no
\* number, no rule is about it, or rounding reaches the limit.
Hides(criterion, f) ==
  CASE criterion = "gpu_temp" -> ~f.tempsRead
    [] criterion = "ecc" -> ~f.eccRead
    [] criterion = "load_temp" -> TRUE
    [] criterion = "bw_2gpu" -> f.two.num >= 30 * GB - 5
    [] criterion = "bw_4gpu" -> f.four.num >= 5 * GB - 5
    [] OTHER -> FALSE

\* A WARN that is to count for the Verify Agent.
InAgentZone(criterion, f) ==
  CASE criterion = "gpu_temp" -> f.smi /\ f.gpus > 0 /\ f.tempsRead /\ f.hot > 75
    [] criterion = "cpu_temp" -> IsNum(f.temp) /\ f.temp.num > 85
    [] criterion = "cooling" -> f.burns /\ f.gpus >= 2 /\ f.score < 75
    [] OTHER -> FALSE
=============================================================================
