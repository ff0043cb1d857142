------------------------------ MODULE SwInstall ------------------------------
(***************************************************************************)
(* The message run_sw_install (src/workers/sw_install.py): the software a  *)
(* customer asked for is installed over SSH, in one session or, when the   *)
(* server has to be rebooted, in two, and what failed is handed to the SW  *)
(* Planner agent.  The connection may drop at any command, any other error *)
(* sends the message back, and a retry starts from nothing but the server. *)
(***************************************************************************)
EXTENDS SwItems, Naturals, Sequences

CONSTANTS
  Jobs,        \* the installations explored: records of JobType
  RetryBound,  \* bound: retries explored, at most max_retries = 3
  MaxDrops     \* bound: connections that drop

\* Rows the worker adds on its own: the standard settings, the driver check.
RowNames == Names \cup {"standard", "driver_check"}

\* agent : the items whose versions the compatibility matrix does not know;
\* ubuntu: the target runs Ubuntu; sudo: the job came with a sudo password.
JobType == [items : SUBSET Names, agent : SUBSET SwNames,
            ubuntu : BOOLEAN, sudo : BOOLEAN]

ASSUME JobsAssumption ==
  /\ Jobs \subseteq JobType
  /\ \A j \in Jobs : j.agent \in Misses(j.items)
ASSUME BoundsAssumption == RetryBound \in 0..3 /\ MaxDrops \in Nat

VARIABLES
  job,         \* what is asked of the worker; no step changes it
  pc, tries,   \* the handler's position and self.request.retries
  session,     \* 1: before a reboot is awaited, 2: after
  plan,        \* agent_plan_steps: "empty" or "steps"
  todo,        \* the items of this session that are still to come
  rows,        \* install_results by name, "none" when there is no entry
  failedDeps,  \* failed_deps
  grubUpdated, \* grub_actually_updated
  grubReboot,  \* grub_only_reboot_triggered
  agentOk,     \* pre_agent_ok, post_agent_ok
  known,       \* are os_info and cuda_version bound?
  repaired,    \* history: the recovery plan of this attempt ran through
  saved,       \* names that have a row in check_results
  status,      \* jobs.status as this worker leaves it
  sent,        \* the task that follows
  up, drops,   \* the SSH connection, and how often it dropped
  grubSet, installed, pending, \* the server: /etc/default/grub, software, and
                               \* what only a reboot will bring into effect
  reboots,     \* history: reboots given in this attempt
  misfired     \* history: one of them took no effect

flow == <<pc, session>>
record == <<saved, status, sent, repaired>>
server == <<grubSet, installed, pending, reboots, misfired>>
link == <<up, drops>>
locals == <<plan, todo, rows, failedDeps, grubUpdated, grubReboot, agentOk, known>>
vars == <<job, flow, tries, locals, record, server, link>>

Points == {"queued", "connect", "config", "tune", "reboot", "agent", "items",
           "waiting", "polling", "verify", "save", "recover", "mend", "forward",
           "aborting", "aborted", "lost", "over"}

Counters == tries \in 0..3 /\ drops \in 0..MaxDrops /\ reboots \in Nat

Flags ==
  /\ grubUpdated \in BOOLEAN /\ grubReboot \in BOOLEAN /\ agentOk \in BOOLEAN
  /\ known \in BOOLEAN /\ repaired \in BOOLEAN /\ up \in BOOLEAN
  /\ grubSet \in BOOLEAN /\ misfired \in BOOLEAN

TypeOK ==
  /\ Counters /\ Flags
  /\ job \in Jobs
  /\ pc \in Points /\ session \in {1, 2}
  /\ plan \in {"empty", "steps"}
  /\ todo \subseteq Names
  /\ rows \in [RowNames -> {"none", "pass", "fail", "warn"}]
  /\ failedDeps \subseteq SwNames
  /\ saved \subseteq RowNames
  /\ status \in {"preflight", "sw_install", "rebooting", "failed"}
  /\ sent \in {"none", "run_post_install", "run_cleanup"}
  /\ installed \subseteq Names
  /\ pending \subseteq {"grub", "nvidia_driver"}

-----------------------------------------------------------------------------
DriverAsked == "nvidia_driver" \in job.items

\* Mutant: a package of the CUDA stack is left in the first session.
PostItemsTorch == IF DriverAsked THEN job.items \cap {"torch", "cudnn"} ELSE {}

\* _split_items_by_reboot: only a requested driver moves the stack to session 2.
PostItems == IF DriverAsked THEN job.items \cap Stack ELSE {}

\* Mutant: the first session takes packages only.
PreItemsPackages == (job.items \ PostItems) \cap SwNames

PreItems == job.items \ PostItems
SessionItems == IF session = 2 /\ DriverAsked THEN PostItems ELSE PreItems

\* The test made before the reboot, after a disconnect and before the wait.
DriverReboot ==
  DriverAsked /\ PostItems # {} /\ "nvidia_driver" \notin failedDeps

\* _sort_items: software in the order of _INSTALL_ORDER, then the rest.
Before(i, j) == \E k, l \in DOMAIN InstallOrder :
                  k <= l /\ InstallOrder[k] = i /\ InstallOrder[l] = j
Coming(i) == i \in todo /\ \A j \in todo : Before(i, j)

\* The dependencies _install_sw_item knows.
Needs(i) ==
  CASE i \in Stack -> {"nvidia_driver"}
    [] i = "docker_container_toolkit" -> {"docker"}
    [] i = "tt_smi" -> {"rustup"}
    [] i = "tt_burnin" -> {"tt_kmd"}
    [] OTHER -> {}

\* Handlers that look, after the script, whether it did what it was to do, or whose
\* exit status is the installer's.  The other scripts end in an echo, so theirs
\* says nothing.
Verified == {"other", "cuda", "torch", "docker", "miniconda", "python", "tt_kmd", "tt_smi",
             "tt_burnin", "account"}

\* A new driver runs after the next boot only; to install it again changes nothing.
Adding(s) ==
  /\ installed' = installed \cup s
  /\ pending' = pending \cup ((s \ installed) \cap {"nvidia_driver"})
  /\ UNCHANGED <<grubSet, reboots, misfired>>

\* What failed, timed out or was cut off may have done its work all the same.
Leaving(i) == \E s \in SUBSET {i} : Adding(s)

Row(i, s) == rows' = [rows EXCEPT ![i] = s]

Goto(p) == pc' = p /\ UNCHANGED session

\* The worker's own error handler fails, its database or its broker being down: the
\* message is confirmed, and the job stays as it is.
HandlerRaises == pc' = "lost" /\ UNCHANGED <<tries, status>>

\* Mutant: the number of attempts is not looked at.
AgainForever ==
  /\ HandlerRaises \/ (pc' = "queued" /\ tries' = tries + 1 /\ UNCHANGED status)
  /\ UNCHANGED <<job, session, locals, saved, sent, repaired, server, link>>

\* Mutant: the last attempt ends without marking the job.
AgainSilent ==
  /\ \/ tries < RetryBound /\ pc' = "queued" /\ tries' = tries + 1
     \/ tries >= RetryBound /\ pc' = "over" /\ UNCHANGED tries
     \/ HandlerRaises
  /\ UNCHANGED <<job, session, locals, status, saved, sent, repaired, server, link>>

\* The except clauses of run_sw_install: again, or failed without a cleanup.
Again ==
  /\ \/ tries < RetryBound /\ pc' = "queued" /\ tries' = tries + 1 /\ UNCHANGED status
     \/ tries >= RetryBound /\ pc' = "over" /\ status' = "failed" /\ UNCHANGED tries
     \/ HandlerRaises
  /\ UNCHANGED <<job, session, locals, saved, sent, repaired, server, link>>

-----------------------------------------------------------------------------
Init ==
  /\ job \in Jobs
  /\ pc = "queued" /\ tries = 0 /\ session = 1
  /\ plan = "empty" /\ todo = {}
  /\ rows = [n \in RowNames |-> "none"]
  /\ failedDeps = {}
  /\ grubUpdated = FALSE /\ grubReboot = FALSE
  /\ agentOk = FALSE /\ known = FALSE /\ repaired = FALSE
  /\ saved = {}
  /\ status = "preflight" /\ sent = "none"
  /\ up = FALSE /\ drops = 0
  /\ grubSet \in BOOLEAN       \* a server may have been here before
  /\ installed = {} /\ pending = {}
  /\ reboots = 0 /\ misfired = FALSE

\* Mutant: failed_deps survives from one attempt to the next.
BeginKeeps ==
  /\ pc = "queued"
  /\ pc' = "connect" /\ session' = 1
  /\ status' = "sw_install"
  /\ \/ plan' = "empty"
     \/ plan' = "steps" /\ (job.agent # {} \/ "sys_config" \in job.items)
  /\ todo' = {}
  /\ rows' = [n \in RowNames |-> "none"]
  /\ UNCHANGED failedDeps /\ grubUpdated' = FALSE /\ grubReboot' = FALSE
  /\ agentOk' = FALSE /\ known' = FALSE /\ repaired' = FALSE
  /\ reboots' = 0 /\ misfired' = FALSE
  /\ up' = FALSE
  /\ UNCHANGED <<job, tries, saved, sent, drops, grubSet, installed, pending>>

\* The status, the plan (build_plan asks the agent when an item is delegated and
\* turns every failure of the call into no steps) and fresh local variables.
Begin ==
  /\ pc = "queued"
  /\ pc' = "connect" /\ session' = 1
  /\ status' = "sw_install"
  /\ \/ plan' = "empty"
     \/ plan' = "steps" /\ (job.agent # {} \/ "sys_config" \in job.items)
  /\ todo' = {}
  /\ rows' = [n \in RowNames |-> "none"]
  /\ failedDeps' = {} /\ grubUpdated' = FALSE /\ grubReboot' = FALSE
  /\ agentOk' = FALSE /\ known' = FALSE /\ repaired' = FALSE
  /\ reboots' = 0 /\ misfired' = FALSE
  /\ up' = FALSE
  /\ UNCHANGED <<job, tries, saved, sent, drops, grubSet, installed, pending>>

\* asyncssh.connect and the questions about the system.
Connect ==
  /\ pc = "connect"
  /\ Goto("config")
  /\ up' = TRUE
  /\ UNCHANGED <<job, tries, locals, record, server, drops>>

\* The kernel parameters, written once in the life of a server.  That they changed is
\* the last line of what update-grub printed, and the row keeps 500 characters of it.
ConfigGrub ==
  /\ pc = "config" /\ up /\ job.ubuntu
  /\ Goto("tune")
  /\ \/ ~job.sudo /\ Row("standard", "warn") /\ UNCHANGED <<grubUpdated, server>>
     \/ job.sudo /\ Row("standard", "fail") /\ UNCHANGED <<grubUpdated, server>>
     \/ /\ job.sudo /\ Row("standard", "pass")
        /\ grubSet' = TRUE
        /\ grubUpdated' = ~grubSet \/ grubUpdated' = FALSE
        /\ pending' = IF grubSet THEN pending ELSE pending \cup {"grub"}
        /\ UNCHANGED <<installed, reboots, misfired>>
  /\ UNCHANGED <<job, tries, plan, todo, failedDeps, grubReboot, agentOk, known,
                 record, link>>

\* Governor, GPU persistence, updates: they warn at most.  Then the reboot for
\* the kernel parameters if they changed and no driver was asked for.
Tune ==
  /\ pc = "tune" /\ up
  /\ IF grubUpdated /\ ~DriverAsked
     THEN Goto("reboot") /\ UNCHANGED known
     ELSE Goto("agent") /\ known' = TRUE
  /\ UNCHANGED <<job, tries, plan, todo, rows, failedDeps, grubUpdated,
                 grubReboot, agentOk, record, server, link>>

\* On another system the planner is asked for the standard settings.
ConfigOther ==
  /\ pc = "config" /\ up /\ ~job.ubuntu
  /\ Goto("agent") /\ known' = TRUE
  /\ \E s \in {"pass", "fail"} : Row("standard", s)
  /\ UNCHANGED <<job, tries, plan, todo, failedDeps, grubUpdated, grubReboot,
                 agentOk, record, server, link>>

\* _do_reboot swallows every exception and looks at no exit status: without a
\* connection nothing happens, and with one the server may stay up all the same.
Reboot ==
  /\ pc = "reboot"
  /\ Goto("waiting")
  /\ grubReboot' = ~DriverAsked
  /\ \/ up /\ pending' = {} /\ reboots' = reboots + 1 /\ UNCHANGED misfired
     \/ up /\ misfired' = TRUE /\ reboots' = reboots + 1 /\ UNCHANGED pending
     \/ ~up /\ UNCHANGED <<pending, reboots, misfired>>
  /\ up' = FALSE
  /\ UNCHANGED <<job, tries, plan, todo, rows, failedDeps, grubUpdated, agentOk,
                 known, record, grubSet, installed, drops>>

-----------------------------------------------------------------------------
(* The items of a session.                                                 *)

Delegated == job.agent \cap SessionItems

\* The steps of a plan that ran through did their work; of one that failed, some.
PlanDoes(ok, s) ==
  IF plan = "empty" THEN ok /\ s = {}
  ELSE ok => s = job.agent

\* One execution of the plan stands for all delegated items of the session.
RunAgentPlan ==
  /\ pc = "agent"
  /\ Goto("items")
  /\ todo' = SessionItems
  /\ \/ /\ Delegated = {}
        /\ agentOk' = FALSE
        /\ UNCHANGED server
     \/ /\ Delegated # {} /\ (up \/ plan = "empty")
        /\ \E s \in SUBSET job.agent :
             agentOk' \in BOOLEAN /\ PlanDoes(agentOk', s) /\ Adding(s)
  /\ UNCHANGED <<job, tries, plan, rows, failedDeps, grubUpdated, grubReboot,
                 known, record, link>>

\* The item is done, with status s; what is not a pass holds up its dependents.
Finish(i, s) ==
  /\ pc = "items" /\ Coming(i)
  /\ todo' = todo \ {i}
  /\ Row(i, s)
  /\ failedDeps' = IF s = "pass" \/ i \notin SwNames THEN failedDeps
                   ELSE failedDeps \cup {i}
  /\ UNCHANGED <<job, tries, flow, plan, grubUpdated, grubReboot, agentOk, known,
                 record, link>>

DelegatedItem(i) ==
  /\ i \in job.agent
  /\ Finish(i, IF agentOk THEN "pass" ELSE "fail")
  /\ UNCHANGED server

\* _install_sw_item is called with os_info and cuda_version, bound or not.
Direct(i) == i \in SwNames \ job.agent /\ known

SkipItem(i) ==
  /\ Direct(i)
  /\ Needs(i) \cap failedDeps # {}
  /\ Finish(i, "warn")
  /\ UNCHANGED server

InstallItem(i) ==
  /\ Direct(i) /\ up
  /\ Needs(i) \cap failedDeps = {}
  /\ \/ Finish(i, "pass") /\ Adding({i})
     \/ Finish(i, "pass") /\ i \notin Verified /\ Adding({})
     \/ Finish(i, "fail") /\ Leaving(i)

\* A lost connection is a failure of the item, not of the attempt.
InstallCutOff(i) ==
  /\ Direct(i) /\ ~up
  /\ Needs(i) \cap failedDeps = {}
  /\ Finish(i, "fail")
  /\ Leaving(i)

\* Accounts, and settings that are not standard (an empty plan fails here).
OtherItem(i) ==
  /\ i \notin SwNames /\ up
  /\ \/ Finish(i, "pass") /\ Adding({i})
     \/ Finish(i, "fail") /\ Leaving(i)

\* Mutant: the end of either session reboots for the driver.
LeaveSessionAgain ==
  /\ pc = "items" /\ todo = {}
  /\ Goto(IF DriverReboot THEN "reboot" ELSE "save")
  /\ UNCHANGED <<job, tries, locals, record, server, link>>

\* The end of the loop.
LeaveSession ==
  /\ pc = "items" /\ todo = {}
  /\ Goto(IF session = 1 /\ DriverReboot THEN "reboot" ELSE "save")
  /\ UNCHANGED <<job, tries, locals, record, server, link>>

-----------------------------------------------------------------------------
(* Reboot, reconnection, verification.                                     *)

InSession == pc \in {"config", "tune", "agent", "items", "reboot", "verify", "mend"}

\* The environment: the connection drops.
Drop ==
  /\ InSession /\ up
  /\ drops < MaxDrops
  /\ up' = FALSE /\ drops' = drops + 1
  /\ UNCHANGED <<job, flow, tries, locals, record, server>>

\* Commands whose DisconnectError nothing near them catches.
Uncaught ==
  \/ pc \in {"connect", "config", "tune", "verify", "mend"}
  \/ pc = "agent" /\ Delegated # {} /\ plan = "steps"
  \/ pc = "items" /\ \E i \in todo \ SwNames : Coming(i)

\* In session 1 a disconnect is taken for the reboot's whenever a reboot for the
\* driver is due; otherwise it ends the attempt.
ExpectedDisconnect ==
  /\ Uncaught /\ ~up
  /\ session = 1 /\ pc # "mend" /\ DriverReboot
  /\ pc = "connect" => drops < MaxDrops
  /\ drops' = IF pc = "connect" THEN drops + 1 ELSE drops
  /\ Goto("waiting")
  /\ UNCHANGED <<job, tries, locals, record, server, up>>

\* Any other error, at any point, and a disconnect that is not expected.
AnyError ==
  /\ pc \notin {"reboot", "lost", "over"}
  /\ Again

\* The status is written; from here on the connection is a second one.
Announce ==
  /\ pc = "waiting"
  /\ pc' = "polling" /\ session' = 2
  /\ status' = "rebooting"
  /\ UNCHANGED <<job, tries, locals, saved, sent, repaired, server, link>>

\* Mutant: the driver is not looked at after the reboot.
ReconnectUnverified ==
  /\ pc = "polling"
  /\ Goto("agent")
  /\ known' = (known \/ grubReboot)
  /\ up' = TRUE
  /\ UNCHANGED <<job, tries, plan, todo, rows, failedDeps, grubUpdated,
                 grubReboot, agentOk, record, server, drops>>

\* A connection within 300 s, also to a server that never went down.
Reconnect ==
  /\ pc = "polling"
  /\ Goto(IF grubReboot THEN "agent" ELSE "verify")
  /\ known' = (known \/ grubReboot)
  /\ up' = TRUE
  /\ UNCHANGED <<job, tries, plan, todo, rows, failedDeps, grubUpdated,
                 grubReboot, agentOk, record, server, drops>>

NoConnection ==
  /\ pc = "polling"
  /\ Goto("aborting")
  /\ UNCHANGED <<job, tries, locals, record, server, link>>

\* nvidia-smi answers only if there is a driver; it may before the reboot, too.
VerifyDriver ==
  /\ pc = "verify" /\ up
  /\ Goto("agent")
  /\ \/ "nvidia_driver" \in installed /\ Row("driver_check", "pass") /\ UNCHANGED failedDeps
     \/ Row("driver_check", "fail") /\ failedDeps' = failedDeps \cup {"nvidia_driver"}
  /\ UNCHANGED <<job, tries, plan, todo, grubUpdated, grubReboot, agentOk, known,
                 record, server, link>>

-----------------------------------------------------------------------------
(* Results, recovery, hand-over.                                           *)

SaveRows ==
  /\ pc = "save"
  /\ Goto("recover")
  /\ saved' = saved \cup {n \in RowNames : rows[n] # "none"}
  /\ UNCHANGED <<job, tries, locals, status, sent, repaired, server, link>>

\* Mutant: only packages can fail.
FailuresOfPackages == {n \in SwNames : rows[n] = "fail"}

Failures == {n \in RowNames : rows[n] = "fail"}

NothingToRepair ==
  /\ pc = "recover" /\ Failures = {}
  /\ Goto("forward")
  /\ UNCHANGED <<job, tries, locals, record, server, link>>

\* The agent has a plan, and the worker connects once more ...
AskForRepair ==
  /\ pc = "recover" /\ Failures # {}
  /\ Goto("mend") /\ up' = TRUE
  /\ UNCHANGED <<job, tries, locals, record, server, drops>>

\* ... or it has none.
NoRepair ==
  /\ pc = "recover" /\ Failures # {}
  /\ Goto("aborting")
  /\ UNCHANGED <<job, tries, locals, record, server, link>>

\* A plan that runs through counts as success, whatever it repaired.
Mend ==
  /\ pc = "mend" /\ up
  /\ Goto("forward")
  /\ repaired' = TRUE
  /\ \E s \in SUBSET (job.items \cap Failures) : Adding(s)
  /\ UNCHANGED <<job, tries, locals, saved, status, sent, link>>

MendFails ==
  /\ pc = "mend" /\ up
  /\ Goto("aborting")
  /\ UNCHANGED <<job, tries, locals, record, server, link>>

\* Mutant: nothing is dispatched after the failure.
MarkFailedOnly ==
  /\ pc = "aborting"
  /\ Goto("over")
  /\ status' = "failed"
  /\ UNCHANGED <<job, tries, locals, saved, sent, repaired, server, link>>

MarkFailed ==
  /\ pc = "aborting"
  /\ Goto("aborted")
  /\ status' = "failed"
  /\ UNCHANGED <<job, tries, locals, saved, sent, repaired, server, link>>

DispatchCleanup ==
  /\ pc = "aborted"
  /\ Goto("over")
  /\ sent' = "run_cleanup"
  /\ UNCHANGED <<job, tries, locals, saved, status, repaired, server, link>>

Forward ==
  /\ pc = "forward"
  /\ Goto("over")
  /\ sent' = "run_post_install"
  /\ UNCHANGED <<job, tries, locals, saved, status, repaired, server, link>>

-----------------------------------------------------------------------------
FirstSteps == Begin \/ Connect \/ ConfigGrub \/ Tune \/ ConfigOther \/ Reboot

ItemStep(i) ==
  DelegatedItem(i) \/ SkipItem(i) \/ InstallItem(i) \/ InstallCutOff(i) \/ OtherItem(i)

Items == RunAgentPlan \/ LeaveSession \/ \E i \in Names : ItemStep(i)

LinkStep ==
  \/ ExpectedDisconnect \/ AnyError \/ Announce \/ Reconnect \/ NoConnection
  \/ VerifyDriver

LastSteps ==
  \/ SaveRows \/ NothingToRepair \/ AskForRepair \/ NoRepair \/ Mend \/ MendFails
  \/ MarkFailed \/ DispatchCleanup \/ Forward

Work == FirstSteps \/ Items \/ LinkStep \/ LastSteps

Next == Work \/ Drop

Spec == Init /\ [][Next]_vars

\* A worker that holds the message goes on with it (it cannot refuse: every wait
\* has a timeout); the connection need not ever drop.
FairSpec == Spec /\ WF_vars(Work)

-----------------------------------------------------------------------------
(* Properties.                                                             *)

Forwarded == sent = "run_post_install"

\* A row that says an item was skipped names a real cause: what it depends on
\* failed in the same attempt, and a row of that attempt says so (failed_deps in
\* _install_sw_item and in the two loops).
SkipHasCause ==
  \A i \in SwNames :
    rows[i] = "warn" =>
      \E d \in Needs(i) : rows[d] = "fail" \/ (d = "nvidia_driver" /\ rows["driver_check"] = "fail")

\* A server on which something failed, or was skipped, goes on to the inspection
\* only after a recovery plan ran through in the same attempt; rows of an earlier
\* attempt do not count, and neither does an earlier repair.
FailureNeverForwarded ==
  Forwarded =>
    repaired \/ (Failures = {} /\ \A i \in Names : rows[i] \in {"none", "pass"})

\* A server that was asked for a driver and for the CUDA stack does not go on
\* unless nvidia-smi answered after the last wait, or the recovery ran through,
\* whichever way the wait was reached.
StackIsVerified ==
  Forwarded /\ PostItems # {} => repaired \/ rows["driver_check"] = "pass"

\* No attempt gives two reboots to the server, although there are two reasons to.
OneReboot == reboots <= 1

\* The inductive invariant behind the four: what an attempt has not come to yet
\* has no row, a name in failed_deps that others depend on has a row that says
\* why, and what happened to the driver is known at the end of either session.
NextItems == IF DriverAsked THEN PostItems ELSE PreItems
NoRow(items) == \A i \in items : rows[i] = "none"
Explained(d) == rows[d] = "fail" \/ (d = "nvidia_driver" /\ rows["driver_check"] = "fail")

StillToCome ==
  /\ pc \in {"connect", "config", "tune"} => session = 1
  /\ pc = "waiting" => session = 1
  /\ pc \in {"polling", "verify"} => session = 2
  /\ pc \in {"connect", "config", "tune"} \/ (pc = "agent" /\ session = 1) => NoRow(Names)
  /\ pc \in {"reboot", "waiting", "polling", "verify"} \/ (pc = "agent" /\ session = 2) =>
       NoRow(NextItems)
  /\ pc = "items" => NoRow(todo)
  /\ pc = "items" /\ session = 1 => todo \subseteq PreItems /\ (DriverAsked => NoRow(PostItems))

CausesKnown ==
  /\ \A i \in Names \ SwNames : rows[i] # "warn"
  /\ \A d \in failedDeps : Needs(d) = {} => Explained(d)

DriverKnown ==
  /\ grubReboot => ~DriverAsked
  /\ rows["driver_check"] # "warn"
  /\ session = 1 \/ pc \in {"polling", "verify"} => rows["driver_check"] = "none"
  /\ session = 2 /\ DriverAsked /\ pc \in {"agent", "items", "save"} =>
       rows["driver_check"] # "none"
  /\ pc \in {"save", "recover", "mend", "forward"} /\ PostItems # {} =>
       rows["driver_check"] = "pass" \/ Failures # {}

BootsSoFar ==
  /\ session = 1 /\ pc \in {"connect", "config", "tune", "agent", "items", "reboot"} =>
       reboots = 0
  /\ pc = "reboot" => session = 1
  /\ OneReboot

\* What the last point of the handler can rely on.
ReadyToGo ==
  /\ Forwarded => pc = "over"
  /\ pc = "forward" => repaired \/ Failures = {}
  /\ Forwarded =>
       repaired \/ (Failures = {} /\ (PostItems # {} => rows["driver_check"] = "pass"))

SwIInv ==
  /\ TypeOK /\ StillToCome /\ CausesKnown /\ SkipHasCause /\ DriverKnown /\ BootsSoFar
  /\ ReadyToGo

\* Nothing of the CUDA stack is installed directly by the worker while a new
\* driver still waits for its reboot (_POST_REBOOT_DEPS).
EarlyStack ==
  /\ pc # "mend" /\ "nvidia_driver" \in pending
  /\ \E i \in Stack \ job.agent : i \in installed' /\ i \notin installed

\* ... as long as no connection dropped and no reboot came to nothing: the command's
\* status is not looked at, and a server that never went down answers the poll.
StackAfterReboot == [][drops' = 0 /\ ~misfired' => ~EarlyStack]_vars

\* As long as no connection dropped, every item of the request, in whichever session
\* it belongs, has its row when the server goes on; a failed driver drops the second
\* session, and what belongs there is all that may be missing.
DroppedSession == IF rows["nvidia_driver"] = "fail" THEN PostItems ELSE {}

ItemsAccountedFor == Forwarded /\ drops = 0 => job.items \ saved \subseteq DroppedSession

\* The worker ends with the message: forwarded, or failed, unless its own error
\* handler raised.
Ends == <>(pc = "lost" \/ (pc = "over" /\ (Forwarded \/ status = "failed")))

\* sw_install.py: the GRUB reboot is for parameters that changed when there is
\* no reboot for the driver.
ParametersAreLive == Forwarded => "grub" \notin pending
=============================================================================
