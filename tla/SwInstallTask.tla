---------------------------- MODULE SwInstallTask ----------------------------
(***************************************************************************)
(* SwInstall as the message run_sw_install of module JobPipeline: what the *)
(* pipeline shows of this task as a handful of points is what the sessions *)
(* of SwInstall, with all their disconnects and retries, come down to.     *)
(***************************************************************************)
EXTENDS SwInstall

Point ==
  CASE pc = "queued" -> "queued"
    [] pc \in {"recover", "mend"} -> "saved"
    [] pc \in {"forward", "aborting", "aborted"} -> pc
    [] pc \in {"lost", "over"} -> "acking"
    [] OTHER -> IF session = 1 THEN "started" ELSE "rebooting"

TaskMessage == [kind |-> "run_sw_install", pc |-> Point, tries |-> tries, val |-> "none"]

NextMessage ==
  IF sent = "none"
  THEN [kind |-> "none", pc |-> "free", tries |-> 0, val |-> "none"]
  ELSE [kind |-> sent, pc |-> "queued", tries |-> 0, val |-> "none"]

\* A handler that raised is a lost task to the pipeline.
Losses == IF pc = "lost" THEN 1 ELSE 0

Asked == [swReq |-> TRUE, profile |-> TRUE, scripts |-> FALSE]

Pipeline == INSTANCE JobPipeline WITH
  Messages <- {1, 2}, Requests <- {Asked}, Causes <- {},
  MaxRedeliveries <- 0, MaxLosses <- 1,
  api <- "committed", request <- Asked, status <- status,
  checkRows <- (saved # {}), verdictFile <- "none", reportRow <- FALSE,
  host <- "clean", task <- <<TaskMessage, NextMessage>>, gaveUp <- FALSE,
  redeliveries <- 0, losses <- Losses

\* Every step of the installation is a step of the pipeline, or none it sees.
IsPipelineTask == [][Pipeline!Next]_Pipeline!vars
=============================================================================
