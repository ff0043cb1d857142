----------------------------- MODULE MCInspection -----------------------------
(* Small instances of Inspection: the rules of the shipped profile over the *)
(* scripts they name, split in profiles a run can explore with a retry.     *)
EXTENDS Inspection

Profile(pre, post, logs, limit) ==
  [preflight |-> pre, post_install |-> post, collect |-> logs,
   rules |-> GpuServerRules, threshold |-> limit]

Logs == <<"collect_all_logs">>

SomeProfiles == {
  Profile(<<"sw_cpu">>, <<"sw_gpu_sw", "stress_gpu">>, <<>>, 3),
  Profile(<<"sw_gpu_hw">>, <<"sw_power_mgmt", "nccl_bandwidth">>, <<>>, 3),
  Profile(<<"sw_auto_update", "no_such_script">>, <<"stress_gpu">>, <<>>, 1),
  Profile(<<"sw_gpu_hw">>, <<"nccl_bandwidth">>, Logs, 3),
  Profile(<<>>, <<>>, <<>>, 3)}

ZoneProfile == {Profile(<<"sw_cpu">>, <<"sw_gpu_sw", "stress_gpu">>, <<>>, 3)}

SomeSpecs == {[expected_gpu_count |-> Num(4)], [x \in {} |-> Num(0)]}
NoSpecs == {[x \in {} |-> Num(0)]}

SomeFiles == {"sw_gpu_hw", "sw_cpu", "sw_power_mgmt", "sw_auto_update", "sw_gpu_sw",
              "stress_gpu", "nccl_bandwidth", "collect_all_logs"}

Burn(peak, score, gpus) ==
  [burns |-> TRUE, peak |-> peak, throttled |-> FALSE, ecc |-> 0, weak |-> FALSE,
   died |-> FALSE, slowed |-> FALSE, score |-> score, gpus |-> gpus]

SmiAt(hot, ecc) ==
  [smi |-> TRUE, gpus |-> 4, hot |-> hot, tempsRead |-> TRUE, ecc |-> ecc, eccRead |-> TRUE,
   persistence |-> TRUE]

Nccl(gpus, two, four) ==
  [smi |-> TRUE, built |-> TRUE, gpus |-> gpus, two |-> two, four |-> four]

SomeFindings ==
  [s \in SomeFiles |->
     CASE s = "sw_gpu_hw" -> {[gpus |-> n, narrow |-> FALSE] : n \in {3, 4}}
       [] s = "sw_cpu" -> {[temp |-> t] : t \in {Num(90), Num(101), Text("unknown")}}
       [] s = "sw_power_mgmt" -> {[sleep |-> "masked", governor |-> "performance", tuned |-> TRUE],
                                  [sleep |-> "masked", governor |-> "powersave", tuned |-> TRUE],
                                  [sleep |-> "static", governor |-> "performance", tuned |-> TRUE]}
       [] s = "sw_auto_update" -> {[family |-> "debian", enabled |-> FALSE, active |-> FALSE],
                                   [family |-> "debian", enabled |-> FALSE, active |-> TRUE],
                                   [family |-> "rhel", enabled |-> TRUE, active |-> FALSE],
                                   [family |-> "rhel", enabled |-> FALSE, active |-> TRUE]}
       [] s = "sw_gpu_sw" -> {SmiAt(76, 0), SmiAt(88, 0), [SmiAt(88, 0) EXCEPT !.tempsRead = FALSE],
                              [SmiAt(60, 1) EXCEPT !.tempsRead = FALSE],
                              [SmiAt(60, 0) EXCEPT !.smi = FALSE]}
       [] s = "stress_gpu" -> {Burn(95, 74, 4), Burn(70, 74, 4), Burn(70, 59, 4), Burn(70, 59, 1),
                               [Burn(70, 90, 4) EXCEPT !.burns = FALSE]}
       [] s = "nccl_bandwidth" -> {Nccl(4, Num(30000), Num(5000)), Nccl(4, Num(29996), Num(5000)),
                                   Nccl(4, Num(29994), Num(5000)), Nccl(4, Num(29996), Num(4000)),
                                   Nccl(2, Num(24000), Num(9000)), Nccl(4, Text("N/A"), Num(5000)),
                                   [Nccl(4, Num(40000), Num(9000)) EXCEPT !.built = FALSE]}
       [] s = "collect_all_logs" -> {[noisy |-> b] : b \in BOOLEAN}]

SomeAnswers == {"pass", "reject", "none"}
=============================================================================
