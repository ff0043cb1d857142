# Verification of the server inspection pipeline

The system inspects servers before they are shipped. A user posts a job to a FastAPI service; seven
Celery tasks hand the job on to one another through Redis, work on the target over SSH, write check
results and a status to PostgreSQL and a verdict file to NFS, and end with a report. This directory holds
TLA+ models of that program, the TLC runs that check them and the TLAPS proofs about them.

## 1. Inventory

| component | state | operations | interacts with | hard behaviour |
|---|---|---|---|---|
| jobs API (`api/routers/jobs.py`) | table `jobs` (cascade to `check_results`, `reports`) | create, delete, two reads | sends `run_preflight`, then commits | message before commit; deletion under running tasks |
| status stream (`api/websocket.py`, `workers/notify.py`) | one socket per viewer, a Redis subscription | first status, subscription, second read, relay, close | reads `jobs`, hears pub/sub | a change between the read and the subscription; a client that goes away unseen |
| inspection tasks (`workers/inspect.py`) | status, check rows, temporary packages on the target and on NFS | preflight, post_install, collect, cleanup | dispatch the next task | retries, reboots, failures without cleanup |
| software installation (`workers/sw_install.py`) | results per item, reboot flags, failed dependencies | one or two SSH sessions, recovery by the planner agent | target, planner, `run_post_install` | disconnects that are expected and ones that are not |
| software planner (`workers/sw_planner.py`) | none | parse requirements, compatibility check | planner agent | alias and version precedence |
| validation (`workers/validate.py`) | verdict file, status | judge, save, dispatch cleanup | rule validator, Verify Agent | retry rewrites the verdict |
| rule validator (`workers/rule_validator.py`, `checks/profiles/*.json`) | none | evaluate rules over check rows | validation | missing metrics, order of rules, unreachable zones |
| agent gateway (`workers/agent_gateway.py`) | none | three calls with retries | Claude API | every failure must become a safe answer |
| report (`workers/report.py`, `report_charts.py`) | report row, PDF and XLSX | render, INSERT, final status | verdict file | failure after the INSERT |
| broker settings (`config/celeryconfig.py`) | queues | routes, acks_late, time limits | all tasks | second delivery, lost tasks |
| check scripts (`checks/base`) | none | run on the target, print a result | `_run_phase_scripts`, the rules by name | a time-out counts as a warning; a metric a rule names and no script prints |
| everything else (`api/main.py`, settings, logging, alembic, docker) | none of its own | wiring | | |

What makes the components correct, in short: a job shown as `pass` really passed and its server is no
longer touched; a verdict is never replaced once it is being acted on; every job ends; what was installed
for the inspection is removed; duplicates, retries and deletions do not corrupt a job.

## 2. Plan

Order, most important first:

1. `JobPipeline`, `JobLifecycle`, `MCJobPipeline`: the life of a job (done).
2. `JobPipelineProofs`: types, the inductive invariant of single delivery; `JobReportProofs`: the report and the
   status it leaves; `JobRefinementProofs`: the pipeline implements `JobLifecycle` and `StatusSource` (done).
3. `SwInstall`, `SwInstallTask`, `MCSwInstall`: sessions, reboots, failed dependencies, recovery, and that
   all of it is the task the pipeline knows (done).
4. `SwInstallProofs`: types and the safety of the installation, and that it is that task (done).
5. `RuleValidator`, `CheckScripts`, `Inspection`, `MCInspection`: the rules of a profile as operators, the
   scripts whose rows they judge, retries, and the Verify Agent; `InspectionProofs` (done).
6. `StatusSource`, `StatusStream`, `StatusStreamProofs`: the socket, the subscription and the job's statuses; that
   `JobPipeline` is such a source (done).
7. `TargetHost`, `TargetHostProofs`: temporary packages, their list on NFS, cleanup, a requested driver against a
   temporary one (done).
8. `SwItems`, `SwPlanner`, `MCSwPlanner`: kinds, aliases and versions, the compatibility matrix, and that the plan is
   one the installation starts from; `SwPlannerProofs` (done).
9. Open: `Inspection` and `TargetHost` as refinements of the messages of `JobPipeline`, as `SwInstallTask` is; the
   hazards PROJECT.json lists without a property.

## 3. Modules

### JobPipeline

One job. `task` is a function from message slots to records `[kind, pc, tries, val]`: which Celery task the
message is for, the point its handler has reached, how often it was retried (`self.request.retries`), and the
verdict a validating or reporting handler holds in a local variable. Points are the places where a handler has
committed something others can see; every action goes from one point to the next and does all the code does
between them. `status`, `checkRows` and `reportRow` are the database, `verdictFile` is `claude_verdict.json`,
`host` is what the inspection installed on the target (`clean`, `tooled`, `swept`, `left` when a cleanup went on
although its commands, or its session, failed). `PassIsEarned` says that a cleanup has been through with the target of
a passed job, which is not to have removed everything. `request` is what the job's row carries: has it software requirements, does its profile exist,
has the profile scripts.

`status = "absent"` stands for "no such row is visible": before the commit, after a rollback, after a delete.
`_update_job` raises then, which the model has as a disabled step (`WriteStatus`) together with the except
clause (`Retry`, `Exhaust`, ...) that is enabled at every point.

A retried message comes back 20 s later (30 s for the report). A request stays uncommitted for milliseconds, so
`Ready` lets a message with `tries > 0` start only when the request is no longer between dispatch and commit.

`VisibilityTimeout` concerns the tasks that may run for longer than the transport waits for a confirmation, one hour:
`run_preflight`, `run_sw_install` and `run_post_install`, which have 7200 s. `TaskDies` is a task that ends without a
successor, a retry or a mark: the hard time limit, or an error handler that itself raises (`_mark_failed` needs the
database and Redis). `JobLifecycle` allows for that (`GiveUp` may leave any outcome that is not a pass).

`JobLifecycle` is what the pipeline promises without tasks: a conveyor submitted -> inspecting -> cleaning ->
reporting -> over which only moves forward, a verdict that changes only while inspecting, an outcome shown only
at the end and equal to the verdict, or `error`. `Refines` maps the pipeline to it. `FeedsStream` maps it to
`StatusSource`, which is what a reader of the column `jobs.status` may rely on.

Bounds: three message slots when duplicates are explored, two otherwise (a handler holds one message when it
creates the next); `RetryBound` 1 or 3; one lost task or one duplicate. A task's own limits (3 retries, 1 for
cleanup) are in `MaxRetries`.

Fairness (`FairSpec`): a request in progress ends, and a worker goes on with the message it holds. The code
justifies it: each queue has workers of its own (`docker-compose.yml`), each SSH and script wait has a timeout,
and retries are bounded. Nothing is assumed of redelivery, losses or deletion.

### SwInstall

One message `run_sw_install`. `pc` is the position in `_async_sw_install`, `session` says which of the two SSH
sessions it is in, and the variables of `locals` are the Python locals of the same name, forgotten at each retry
(`Begin`). `todo` is the rest of the list the loop runs over; `Coming` picks its next item in the order of
`_sort_items`. A result in `rows` is a row-to-be; `saved` are the names that reached `check_results`. What the
handler does on the target is `grubSet` (the file), `installed` and `pending`, which holds what only a reboot
brings into effect; `reboots` counts the reboots the attempt issued, and `misfired` remembers one that came to nothing:
`_do_reboot` looks at no exit status, and the poll finds a server that never went down.

| code | model |
|---|---|
| load, status, `build_plan` | `Begin`; the plan of the agent is empty or has steps |
| first session, standard settings | `Connect`, `ConfigGrub` then `Tune` on Ubuntu, `ConfigOther` elsewhere |
| plan of the delegated items, loop over items | `RunAgentPlan`, then `DelegatedItem`, `SkipItem`, `InstallItem`, `InstallCutOff`, `OtherItem` |
| the two `_do_reboot`, the wait, the second session | `Tune` or `LeaveSession`, `Reboot`, `Announce`, `Reconnect` or `NoConnection`, `VerifyDriver` |
| `except DisconnectError` around the first session | `ExpectedDisconnect`; an unexpected one is `AnyError` |
| except clauses of the task | `AnyError`, `Again`; `HandlerRaises` when marking the job failed, or the retry, raises |
| rows, recovery, failure, hand-over | `SaveRows`, `NothingToRepair`, `AskForRepair`, `NoRepair`, `Mend`, `MendFails`, `MarkFailed`, `DispatchCleanup`, `Forward` |

The two second sessions of the code (after the driver's reboot, after the one for the kernel parameters) are one
sequence of actions: they differ in the items (`SessionItems`) and in the verification, which only the first
has. `os_info` and `cuda_version` are bound in the first session, so `Direct` needs `known`; without it only
`AnyError` is left, as in the code. `asyncssh.PermissionDenied` is a subclass of `DisconnectError`: the clause
for it in the task is never reached, and the model has none.

Abstracted: the packages inside a script (a handler passes or fails, and `Verified` lists the ones that look at
their work; what failed may have been installed all the same, `Leaving`); `other` stands for every package the planner has
no name for, and the disk a storage mount takes is left out; one row stands for the standard settings, since only the first of the four can fail. That the
kernel parameters changed is told by the last line of a text of which 500 characters are kept (`ConfigGrub`): it may be
missing there.

`SwInstallTask` maps the installation to the one message of `JobPipeline` (its points, its retries, the message it
sends; `pc = "lost"`, where a handler raised, is a lost task): `IsPipelineTask` says that each of its steps is a step of the pipeline or invisible to it (section 5 has the
proof). The mapping starts in the middle of the pipeline's behaviour, with the message queued, so only steps are
mapped and not the initial state.

Bounds: requests of up to three of the items that matter to each other (the driver and the stack, docker and
its toolkit, a package and the other kinds), each group with the settings of the job it can meet (`SomeJobs`). One dropped connection is
enough: a second one finds the handler in an attempt it has either ended or taken for a reboot. One retry is
enough to meet what an earlier attempt left on the server; the code has three.

Fairness: the worker goes on with the message it holds (`WF_vars(Work)`), since every command, the wait for the
reboot and the task itself have a time-out. Nothing is assumed of the connection.

### RuleValidator, CheckScripts, Inspection

`RuleValidator` is `evaluate()`. A rule is a record that has the keys its JSON has (`Has(rule, key)`); a row of
`check_results` carries its metrics as a function from names to `Num(n)` or `Text(t)`, which is what `_parse_detail`
and `_to_float` make of the detail text. `created_at` orders the rows, so their order in the sequence `rows` stands
for it.

`CheckScripts` says, for the seven scripts the shipped rules name and for the one that collects the logs, which
status and which judged metrics it prints as a function of what it finds (`Prints`); the names of the metrics are
those of the code. Two scripts do not print what they measured, and the model has both: `sw_gpu_sw` prints 0 for the
maximum of all GPUs when the reading of one is no number, and `nccl_bandwidth` prints two decimals of what it compares
(`Rounded`; a measurement just between two, which Python rounds by the binary value, is taken to go up). How a script parses the output of `nvidia-smi`, `lspci` or `systemctl`, and metrics no rule looks
at, are left out. `CriteriaOf` and `Breaks` are not code: they are the table of criteria of the repository's README and the
limits of the profile it leaves out, said of the finding itself, and what the verdicts are measured against. `Hides`
names the criteria the rules cannot see to be broken, with the condition for each: the load temperature always, a
temperature or ECC count beside one that cannot be read, and a bandwidth less than 5 MB/s under its limit.
`PassMeetsCriteria` says that a passed server breaks no other. The shipped rules (`GpuServerRules`) stand beside the scripts
they name.

`RulesAssumption` says that a profile judges by these rules (there is one profile file, `gpu_server.json`), with any
threshold, and that none of them names a script of the collection; `FindingsAssumption`, that what a script may find
has the fields of `FindingType` (a reading is a number or a text). The scripts of the
phases, the findings and the answers are free.

`Inspection` runs the scripts of a profile, phase by phase, and judges the rows.

| code | model |
|---|---|
| `_async_preflight`, `_async_post_install`, `_async_collect` | `Begin`, one step per script, `HandOver` or `Abort`; `BaselineFails` |
| `_run_phase_scripts`: no file, time-out, exit code, no JSON, result | `ScriptMissing`, `ScriptTimesOut`, `ScriptExits`, `ScriptGarbled`, `ScriptPrints` |
| `except Exception` around the session of `run_collect` | `CollectCutShort` |
| `_async_validate` | `ValidateEmpty`, `Judge`, `SaveVerdict`, `Conclude` |
| except clauses of the tasks | `Retry`, `Exhaust`, `CollectRaises` |

A row also remembers how its script ended and what it saw, and `first` where the rows of a phase's last attempt
begin: the properties speak of these, no action reads them. One job, one message at a time: `JobPipeline` says when
that is so. Software installation between the phases adds rows that no rule names and is left out here; so are the
steps between the writes of `Conclude` (status, publish, message), which `JobPipeline` has.

Bounds: one retry of any one task, since rows of two attempts show everything the newest-row rule can get wrong
(the code allows three retries). All nine shipped rules apply in every instance, but the scripts are divided over
five profiles of at most three, so that a retry remains explorable; a rule only reads the rows of its own check, so
no rule is lost, and each zone that can be reached is reached. One profile has a threshold of 1 (the agent is
asked), one an empty list of scripts (no rows at all), one a script without a file, one a collection. Findings lie
on both sides of each limit.

Fairness: `WF_vars(Work)`, because scripts, sessions and the call of the agent have time-outs. Errors are not fair.

### StatusSource, StatusStream

`StatusSource` is the column `jobs.status` for those who only read it: which status may follow which (`Follows`),
nothing after the tasks are over or the job is deleted, `pass` only of a job that is judged passed and has its report.
`JobPipeline` implements it under single delivery (`FeedsStream` in run `once`), and `StatusStream` extends it; so what
is shown of the stream holds of it beside the real tasks.

| code | model |
|---|---|
| `_update_job`, commit, then `publish_job_status` | `Write`, then `Publish` or `PublishFails`; `due` is what lies between |
| a message reaches whoever is subscribed, and nobody later | `Publish`: into `inbox`, or lost |
| accept, first read, first message | `Connect`, `ReadFirst`, `Greet` |
| subscribe, second read, its message | `Subscribe`, `Recheck`, `Settle` |
| `pubsub.listen()` | `Relay` |
| disconnect, an error of Redis or the database | `Leave` (the handler notices it in `Send`), `Break` |

One viewer stands for all, since viewers share nothing. `skipped` and `lost` are history: a status was published
between the first read and the subscription, a status was committed and never published.

Bounds: two unread messages (`MaxUnread`), enough for one message to wait behind another; the number of statuses a
job goes through is not bounded. Fairness: what is committed is published or its publication fails (`WorkersGo`), and
the handler goes on while it has something to do (`HandlerGoes`): both are an `await` on Redis or the database, which
answer or raise. Nothing is assumed of the client, of the tasks or of new statuses.

### TargetHost

The server under inspection. `packages` is what its package manager lists, apart from what answers: `driver` (absent,
installed and not running, loaded) is `nvidia-smi`, `cuda` is `nvcc`; then `tools` and `grub`. `file` is what
`temp_packages.json` lists, `temp` the local list of the task. `task`, `pc` and `tries` are the message at work,
and a retry or a redelivery starts it again at `start`, with the locals gone. `job` fixes the kind of server (Ubuntu,
with an NVIDIA card), whether the sudo password was given, and what the request asks for: packages in the versions of
the profile (`driver`, `cuda`), which the inspection would install too, or in others.

| code | model |
|---|---|
| `_async_preflight` | `Baseline`, `SysConfig`, `CheckDriver`, `InstallDriver`, `SaveDriver`, `Reboot` or `NoReboot`, `Reconnect`, `PreflightScripts` |
| `run_sw_install` | `InstallAsked`, `SwInstallReboot`, `SwInstallEnds`: what it may do to drivers and toolkits (`SwInstall` has the rest) |
| `_async_post_install` | `StressTools`, `CheckCuda`, `InstallCuda`, `SaveCuda`, `PostInstallScripts` |
| `_async_cleanup` | `LoadList`, `RemoveTools`, `Purge`, `CleanupCut`, `CleanupEnds` |
| `_save_temp_packages`, `_load_temp_packages` | `Save`, and the readings of the list in `SaveCuda` and `LoadList` |
| except clauses of the tasks | `Raise`; out of retries the server is left as it is |
| `acks_late` | `Lose` |

`run_collect` and the validation leave the server alone and are passed over. An installation that is cut off may
have been completed by the server (`CutOff`). The file is written in place, so an attempt that is lost, or raises,
while it writes may leave a torn one; and `_load_temp_packages` answers with an empty list to a torn file and to any
error of the share, after which `SaveCuda` writes a list without what was there. The history variables say who brought
what (`own`, `guest`, `delivered`), what went wrong without an error (`misfired`), and what was not noted or was lost
from the list (`forgotten`).

Taken of apt, which is outside the repository: toolkits of two versions stay beside each other, a driver replaces
the other one (`Put`) and answers at the next reboot, and a purge without autoremove removes the names it is given
(`Purge`): what they brought along, `nvidia-smi` and `nvcc` included, belongs to packages of its own.

Bounds: one retry of each message and one lost worker, which restarts a task independently of the retries (the code
allows three retries, one for the cleanup; an attempt knows of those before it only the server and the file, so a second
one meets what the first left, and the proofs are for up to three). The requests name nothing, a driver of another
version with the profile's toolkit, and the other way round.

### SwItems, SwPlanner

`SwItems` has the names both sides of a plan use. `SwPlanner` is `build_plan`: a line is its keywords, its leading
words with what separates them, and the versions found in the three places the planner looks; the longest alias
that ends at a boundary names it (`NameOf`), without one its first word does (`FirstWord`), the matrix decides what is delegated (`Unlisted`, `Delegated`), and the
agent is asked once, with up to five attempts (`Overloaded`), after which its plan is empty. `SwInstallStartsHere`
says that what comes out is what `SwInstall` takes as its input: it composes the two.

Bounds: requests of up to three lines out of sixteen, chosen so that each pair of the matrix fits, clashes and is
unknown, each place of a version is used, an alias is the beginning of another, and a line has the keywords of two kinds.

## 4. Runs

| run | instance | what it shows |
|---|---|---|
| `once` | every request, single delivery, one lost task, fairness | types, one live task, a pass is earned and over, the report shows the verdict, a deleted job stays deleted, the verdict is frozen, `JobLifecycle` and `StatusSource` are implemented, every committed job whose profile exists settles |
| `again` | one duplicate, by a lost worker or the visibility timeout | a pass has a report |
| `unswept` | violation | a job out of retries stays unswept |
| `sw_drops` | requests of three items, one drop, one retry, a reboot that misfires, fairness | a skip names its cause, failures stay, the driver is verified, one reboot, `IsPipelineTask`, an end in every case but a handler that raised; as long as nothing dropped, also: every item has its row but those a failed driver drops, the stack comes after the reboot unless that came to nothing |
| `sw_grubpending` | violation | a text cut short, or a retry, loses the reboot for the kernel parameters |
| `judged` | scripts that pass, fail, time out, exit, print nonsense or are missing; one retry; every answer of the agent | a passed job broke no criterion the rules can see in the newest measurement, a failed one has a reason in a newest row, what is judged is complete, a fail stands, the logs do not matter, the inspection ends |
| `table` | violation | a GPU above its limit under load and three values in the documented zones, and the rules alone pass the server |
| `told` | two unread messages, fairness | a viewer is behind only by messages under way or by one of the handshake, a pass that is shown was earned, the stream of a finished job closes and its viewer was told |
| `leaving` | violation | a handler whose client has left listens for ever |
| `host` | every kind of server, three requests, one retry of each task, one lost worker | the scripts find driver and CUDA, guests are listed, what worked before survives, a cleanup that went through leaves no package of the inspection it knew of |
| `requested` | violation | a requested package is purged with the temporary one |
| `plan` | three lines, with and without a matrix | exactly the packages of clashing pairs are delegated, the plan fits the installation |

`CHECK_DEADLOCK FALSE` in all of them but the two of `TargetHost`, where the end of a job is a step of its own: the
pipeline and the inspection stop when the job is over, the installation when the message is, the stream when the
socket is closed and the job is silent, the planner when the plan is built.

The exceptions in the properties are the code's own: `UpToDate` excepts a non-terminal status of the gap, because the
second read of `websocket.py` is sent only when it is terminal; `GuestsListed` and `HostRestored` except an attempt
that was cut off between installing a package and noting it, and a list that was read or written in vain;
`OwnSurvives` excepts what the request itself replaces; `ScriptsEquipped` an installation or reboot of the same attempt
that failed unseen, and the driver after a request for one; `Settles` excepts a job whose task was lost for good, and
`Ends` of the installation an error handler that raised.

What the models also show, without a run of its own:

- a duplicate made by the one-hour visibility timeout may still be inspecting a server whose job is shown as
  passed (`PassMeansOver` holds for single delivery and fails under the bounds of `again`);
- a failed report writes the status `error`, which `api/models.py` calls unused (`_mark_error`);
- a package whose script ends in an echo is recorded as passed when its installation failed (`InstallItem`);
- after a failed driver the CUDA items of the second session have no row at all (`LeaveSession`);
- a plan of the agent without steps passes every delegated package (`RunAgentPlan`, `PlanDoes`);
- a job already committed as passed becomes an error when the publication of the pass fails: the handler writes
  `error`, and each retry then fails on the UNIQUE report row (`ReportRaise`; in `StatusSource`, `error` follows `pass`);
- the message overtakes the commit: for an unknown profile the task fails at once, finds no row to mark, is not
  retried, and the job stays pending (`Settles` therefore asks for a profile);
- a lost connection, after the driver was installed and before the reboot was issued, is taken for the reboot, and
  the stack goes onto a driver no reboot has loaded (`ExpectedDisconnect`);
- so it does when the reboot command fails: its exit status is not looked at, and the poll reaches the server that
  never went down, although sw_install.py:47 wants the stack only after the reboot (`Reboot`, `misfired`);
- a cleanup whose commands or session fail logs a warning, and the job passes with the tools of the inspection on its
  target, which README.md:39 says are removed (`CleanupSweep`, `host = "left"`).

Of the stream, the server and the planner:

- `error` closes the stream (`Terminal`), yet the attempt that wrote it may be retried and end in `pass`, which that
  viewer is not told; `failed` and `rejected` never close it, so the stream of a job that ends in one of them stays open;
- neither the creation nor the deletion of a job is published, so a viewer of a deleted job waits for ever;
- parameters an earlier attempt of the preflight wrote without rebooting are taken for applied and need no reboot
  (`SysConfig`), while the driver is rebooted for all the same, because `nvidia-smi` is asked (`ScriptsEquipped`);
- an attempt cut off between the installation and the note leaves a driver nobody will remove; the next attempt finds
  it running and does not list it (`CutOff`, `forgotten`);
- an error of the share while the list is read is an empty list: the cleanup purges nothing, or the toolkit's note
  replaces the driver's (`LoadList`, `SaveCuda`);
- a requested driver of another version replaces the one that was loaded, which the inspection then finds not
  answering until a reboot (`Put`, `Replaced`); one that is requested alone is not rebooted for (sw_install.py:1206,
  `SwInstallReboot`), although README.md:318 calls the reboot mandatory, so the scripts do not find it running;
- the cleanup purges the listed names without autoremove, so a toolkit put there for the inspection is no longer
  listed and its nvcc still runs (`Purge`); the baseline packages are never removed at all;
- the cleanup removes the stress tools also where they were before the job (`RemoveTools`);
- of two lines that name the same package the matrix looks at the last, and both are installed (`Chosen`;
  `UnlistedPairsAsked` asks for requests that name nothing twice);
- `docker compose` is read as `docker`, `docker-compose` is not (`StartsWith`);
- a storage mount formats the first disk that is not mounted, so a retried installation takes the next one (not
  modelled: an item passes or fails).

Of the rules and the scripts (`RuleValidator`, `CheckScripts`):

- a script that times out leaves a warning without metrics, so its rules are skipped and the job may pass unmeasured,
  even when an earlier attempt had measured a failure (`ScriptTimesOut`; `PassMeetsCriteria` therefore speaks of
  scripts that printed their result);
- the rule on the CPU reads `cpu_max_temp_c`, the script prints `max_temp_c`; the rule on automatic updates reads
  `unattended_upgrades_active`, the script prints `unattended_active`. Their limits hold only because a missing
  metric of a failed check is a failure; the zone between 85 and 100 degrees is never looked at;
- the two NCCL zones (below 25 and 3) lie beyond the limits of their rules (30 and 5). With two zones left and a
  threshold of three, no job asks the agent, although README.md:37, 108 to 111 and context/glossary.md:37 of the
  repository say when it is asked (`table`; proved as `AgentStaysIdle`);
- an NCCL bandwidth of `N/A` is a text, which no limit applies to; one of 29.996 fails the script and passes the rule,
  which reads 30.00;
- `sw_gpu_sw` reads the temperature before the stress test loads the GPUs, and of the stress test only the cooling
  score counts (`table`);
- one GPU whose temperature (or ECC count) is no number makes `sw_gpu_sw` print 0 for all of them, so a GPU above the
  limit of README.md:108 passes beside it (`SwGpuSw`, `Hides`);
- an error after the verdict was saved asks the agent again, and its rejection may become a pass (`FailStands`
  holds for failures only).

## 5. Proofs

`JobPipelineProofs` proves, for all values of the constants that satisfy the assumptions of `JobPipeline`:

- `TypeCorrect`, one lemma per group of actions.
- `DeletedStaysDeleted`, for any number of duplicates and losses.
- under `MaxRedeliveries = 0` (what `acks_late` and the one-hour visibility timeout do not give: the theorems are of
  the jobs that see no second delivery): `Inductive` (`IInv`), and from it `OneTaskAtATime`, `PassesAreEarned`,
  `PassesAreOver`, `VerdictStaysFrozen`.

`IInv` strengthens the properties: `PassIsEarned` alone is not inductive, because the report that writes `pass`
must know that the verdict it holds is the file's, that its row exists and that a cleanup has been through. The first
needs `SingleToken` (a second validation could rewrite the file), the last `SweptSoFar`. The steps on a message
all go through one lemma (`OneMessageStep`), the hand-overs through another (`DispatchStep`).

`JobReportProofs` and `JobRefinementProofs` go on from there:

- `PassesHaveReports` (`PassHasReport`), for any number of duplicates and losses. Its invariant `RowInv` says what a
  second worker cannot take away: a verdict in hand was judged, a rendered pass was read from the file, and behind
  the INSERT the row is there unless the job is deleted.
- under `MaxRedeliveries = 0`: `ReportsDecide` (`ReportDecides`). `ReportPhase` is needed because a report that is
  retried finds the row of its first attempt: once there is a row no other task is live, and the status is the
  verdict, an error, or about to be written by the one live report.
- under `MaxRedeliveries = 0`: `PipelineFeedsStream` (`FeedsStream`), from `Watched`, a table of the statuses the job
  can show while a task stands at a point (`SeenAtTask`), so that each write follows what it replaces. Together with
  `WorkersAreTheSource` below, pipeline and stream meet in `StatusSource` as long as no message is delivered twice.
- under `MaxRedeliveries = 0`: `PipelineRefinesLifecycle` (`Refines`): the one live task is the stage (`StageBefore`,
  `StageAfter`), and its steps go on, end, or hand over (`GoesOn`, `Ends`, `HandsOver`).

`SwInstallProofs` proves, for every set of requests, any `RetryBound` up to three and any `MaxDrops`:

- `SwTypeCorrect`.
- `SwInductive` (`SwIInv`), one lemma for each of its parts, and from it `SkipsHaveCauses`, `FailuresStay`,
  `StackVerified`, `RebootsOnce`.

`SwIInv` is needed because the properties speak of the end of an attempt and the facts arise far before it:
`StillToCome` (what the attempt has not come to has no row) keeps a row from being overwritten, so that the row
that explains a name in `failed_deps` (`CausesKnown`) is still there when a later session skips for it;
`DriverKnown` carries, through reboot, disconnect and verification, that either the check of the driver passed
or there is a failure; `BootsSoFar` says that the two reboots exclude each other; `ReadyToGo` is what is left
of all that at the hand-over.

- `DropFreeInductive` (`DropFreeIInv`), and from it `ItemsAreAccountedFor` (`ItemsAccountedFor`) and `StackComesLast`
  (`StackAfterReboot`, a property of steps). Both speak of attempts in which no connection dropped, the second also of
  reboots that took place, and the first excepts the second session that a failed driver drops; so most of the invariant is conditional on `drops = 0`: then every disconnect is the reboot's, no list of items is left half way,
  and what lies behind the handler has its row (`NothingLost`). `DriverLive` says that the driver waits for no reboot
  once one was awaited, unless it misfired. `DriverDelegated` is not conditional: a driver given to the agent is installed by a plan with
  steps, or its failure is known, or its turn is still to come.
- `TaskInductive` (`TaskIInv`) and `InstallIsPipelineTask` (`IsPipelineTask`). The pipeline writes rows at one point and
  has rows from then on, while `SwInstall` may save a set of names; the two agree because at that point there is
  something to save (`SomethingToSave`), and the message the task sends is its last act (`LastIsSent`). One lemma for
  each kind of step names the pipeline's action it is (`Moves`, `Sends`, `Writes`, `GoesBack`, `GivesUp`, ...).

`InspectionProofs` proves, for all profiles whose phases are sequences of scripts (`ProfilesAssumption`), all known
scripts (`FilesAssumption`), all findings of the right type (`FindingsAssumption`), all answers, and any bound on retries up to the three of the code:

- `InspectionTypeCorrect`, with the status each script can print as a lemma (`StatusPrinted`).
- `FailIsFinal`: `FailStands`. `FailStands` speaks of one step, but that step is only safe because the rows have not
  changed since the fail was drawn from them; `InspectionIInv` says so (`FailIsDrawn`), and that the rules, not the
  agent, are where a fail comes from (`VerdictInHand`).
- `RecordInductive`, and from it `JudgementIsComplete`: `JudgedInFull`. The property speaks of the end, so the
  invariant follows each phase script by script (`RecordedSoFar`): while a phase runs, the scripts before `next` have
  a row of this attempt; of the phases past, all of them have. That later rows take nothing away and that a row of
  the script at hand adds it are the lemmas `RecordedStays` and `RecordedNext`.
- `RowsInductive` (`RowsInv`): a row that carries metrics has those its script prints for what it saw, and
  none of the rows since the collection began is of a check that a rule names.
- from all of these together (`JudgeIInv`): `PassIsEarned` (`PassMeetsCriteria`), `FailIsJustified` (`FailHasReason`),
  `LogsDoNotJudge` (`CollectIsNeutral`), and `AgentStaysIdle`, one half of what run `table` finds.

These four say what the rules make of the rows, so they need `RulesAssumption` besides the history. The lemmas tie
three tables together, once for each check: the criteria of the repository's README (`Breaks`), what the scripts print,
and the rules. `BrokenFails` says that a finding that breaks a criterion that is not hidden (`Hides`) fails a rule, `FailsBroken` that a rule
fails only on such a finding or where the script itself reports a failure, and `TwoZones` that at most two zones can
be reached, which is why a threshold of three is never met. A rule reads the newest row of its check, which exists by `GreatestExists`; that rows
of other checks do not matter is what `CollectIsNeutral` rests on.

An earlier model let a single GPU have a cooling score below 60 without a failed status; the proof of
`FailIsJustified` got stuck there. The code gives 100 where there is nothing to compare
(`compute_cooling_consistency`), and so does `CoolingScore` now.

`TargetHostProofs` proves, for every kind of server, any requests, any `RetryBound` up to three and any `MaxLosses`:

- `HostTypeCorrect`, `HostInductive` (`HostInv`), and from it `OwnIsSafe`, `GuestsAreListed`, `HostIsRestored`,
  `ScriptsAreEquipped`: every invariant of run `host`.

`HostInv` is needed because each property speaks of one moment and rests on what earlier tasks did: `OwnUnlisted` (the
file, the local list and the package being installed name nothing that worked before) carries `OwnSurvives` from the
check of the driver to the purge, `GuestsKnown` follows what was brought from the installation over the note to the
cleanup, or into `forgotten`, where `Swept` takes over, `OwnAnswers` keeps what answered before the job answering
up to where the request replaces it, and `Equipping` carries the driver from the installation over the reboot to the
scripts of a later task. `Placed` says at which points a task can stand at all.

`StatusStreamProofs` proves, for any number of unread messages:

- `StreamTypeCorrect`, `StreamInductive` (`StreamInv`), and from it `ViewersAreUpToDate` and `ShownPassIsEarned`;
- `WorkersAreTheSource`: the workers of the stream, with publications that fail, implement `StatusSource`.

`UpToDate` is not inductive because it speaks of a handler that listens: `HandshakeInv` follows what the handler has
read or received from the first read on, and `SourceInv` says that what waits to be published is the status.

`SwPlannerProofs` proves, for every set of requests and lines of any length:

- `TypeCorrect`, `PlanInductive` (`PlanIInv`), and from it `UnlistedAreTheAgents` (`UnlistedPairsAsked`) and
  `PlansFitTheInstall` (`SwInstallStartsHere`).

`PlanIInv` is needed because the properties speak of the plan after the flags were set and the flags decide whether the
agent is called: `FlagsMeanDelegated` says that the flags are those `Delegated` would set again on its own result,
since the check changes neither names nor versions (`ChosenKept`); `CallsAreNeeded`, that an answer of the agent is
there exactly when something was delegated. That a request names nothing twice makes the version the matrix looks at
the item's own (`ChosenFacts`).

Only model-checked: liveness (`Settles`, `Ends` of the installation and of the inspection, `StreamCloses`), which rests
on fairness and is out of the prover's reach. Every invariant, every other property of steps and every refinement that
a passing run checks is a theorem. The runs that expect a violation have no proof: the code does not satisfy their
property.

## 6. Not modelled

Rendering, charts, templates, logging, settings, migrations and deployment (no state that matters), and the read-only
endpoints. Of the modelled components: splitting text into lines and words, the parsing of the output of a server's
tools, the prompts and the reading of the agent's JSON, the shell text of the installation scripts, and the check
scripts no rule names. PROJECT.json names every component with its status.
