------------------------------ MODULE TargetHost ------------------------------
(***************************************************************************)
(* What one inspection does to the server it inspects.  run_preflight puts *)
(* a driver there when nvidia-smi does not answer, run_sw_install what the *)
(* customer asked for, run_post_install the stress tools and a CUDA        *)
(* toolkit when there is no nvcc; what was put there for the inspection    *)
(* only is noted in temp_packages.json, and run_cleanup purges what the    *)
(* file lists.  A task may be retried or delivered again at any point,     *)
(* and then knows of its earlier attempt only what the server and the file *)
(* tell; reading the file may fail unseen, and writing it may leave it     *)
(* torn.  One task of the job runs at a time.                              *)
(***************************************************************************)
EXTENDS Naturals

CONSTANTS
  Requests,    \* the packages a request may ask for
  RetryBound,  \* bound: retries of a message explored, at most max_retries
  MaxLosses    \* bound: workers lost, whose message is delivered again

\* "driver" and "cuda" are the packages in the versions of the profile's
\* stress_config, the others those in any other version.
Drivers == {"driver", "other_driver"}
Toolkits == {"cuda", "other_cuda"}
Packages == Drivers \cup Toolkits

ASSUME HostBounds == RetryBound \in 0..3 /\ MaxLosses \in Nat
ASSUME HostRequests == Requests \subseteq SUBSET Packages

Tasks == {"run_preflight", "run_sw_install", "run_post_install", "run_cleanup"}

VARIABLES
  job,         \* the server's kind and the job's request; no step changes it
  task, pc,    \* the task of the job that is at work, and where it stands
  tries,       \* self.request.retries of its message
  losses,
  temp,        \* the local list temp_packages
  rebootNeeded,
  file,        \* what temp_packages.json lists: nothing, when it is not there
               \* or cannot be parsed
  packages,    \* the packages the server's package manager lists as installed
  driver,      \* "absent", "installed" but nvidia-smi does not answer, "loaded"
  cuda,        \* does nvcc run?
  tools,       \* are the stress tools there?
  grub,        \* the kernel parameters: "unset", "pending" a reboot, "live"
  \* history: what worked before the job, what was put there for the inspection,
  \* what was put there because it was asked for, what an attempt failed to put
  \* there without noticing, what was not noted, or was lost from the list, when an
  \* attempt was cut off or the share failed
  own, guest, delivered, misfired, forgotten,
  swept        \* history: the commands of this cleanup that went through

progress == <<task, pc, tries, losses>>
locals == <<temp, rebootNeeded>>
host == <<packages, driver, cuda, tools, grub>>
history == <<own, guest, delivered, misfired, forgotten, swept>>
vars == <<job, progress, locals, file, host, history>>

Points == {"start", "config", "check", "install", "save", "decide", "waiting",
           "scripts", "tools", "purge", "report", "over"}

JobType == [ubuntu : BOOLEAN, nvidia : BOOLEAN, sudo : BOOLEAN, asked : Requests]

\* What answers a command, however it came there.
Answering == (IF driver = "loaded" THEN {"nvidia-smi"} ELSE {})
               \cup (IF cuda THEN {"nvcc"} ELSE {})

TypeOK ==
  /\ job \in JobType
  /\ task \in Tasks /\ pc \in Points
  /\ tries \in 0..RetryBound /\ losses \in 0..MaxLosses
  /\ temp \cup file \subseteq Packages /\ rebootNeeded \in BOOLEAN
  /\ packages \subseteq Packages
  /\ driver \in {"absent", "installed", "loaded"}
  /\ cuda \in BOOLEAN /\ tools \in BOOLEAN
  /\ grub \in {"unset", "pending", "live"}
  /\ own \subseteq Packages \cup {"nvidia-smi", "nvcc"}
  /\ guest \cup delivered \cup misfired \cup forgotten \subseteq Packages
  /\ swept \subseteq {"tools", "packages"}

\* A driver may be there without a package of either name, and so may nvcc.
Init ==
  /\ job \in JobType
  /\ task = "run_preflight" /\ pc = "start" /\ tries = 0 /\ losses = 0
  /\ temp = {} /\ rebootNeeded = FALSE
  /\ file = {}
  /\ driver \in IF job.nvidia THEN {"absent", "installed", "loaded"} ELSE {"absent"}
  /\ cuda \in BOOLEAN /\ tools \in BOOLEAN /\ grub = "unset"
  /\ packages \in SUBSET Packages
  /\ \E d \in Drivers :
       packages \cap Drivers \subseteq IF driver = "absent" THEN {} ELSE {d}
  /\ own = Answering \cup (IF driver = "loaded" THEN packages \cap Drivers ELSE {})
                     \cup (IF cuda THEN packages \cap Toolkits ELSE {})
  /\ guest = {} /\ delivered = {} /\ misfired = {} /\ forgotten = {}
  /\ swept = {}

At(t, p) == task = t /\ pc = p
Goto(p) == pc' = p /\ UNCHANGED <<task, tries, losses>>
Dispatch(t) == task' = t /\ pc' = "start" /\ tries' = 0 /\ UNCHANGED losses

\* apt-get install.  Toolkits stay beside each other.  A driver replaces the other
\* one, and one that is newer than what is loaded does not answer before a reboot.
Put(p) ==
  /\ packages' = {p} \cup (IF p \in Drivers THEN packages \ Drivers ELSE packages)
  /\ driver' \in IF p \in Toolkits THEN {driver}
                ELSE IF packages \cap Drivers \subseteq {p} /\ driver = "loaded"
                THEN {"loaded", "installed"} ELSE {"installed"}
  /\ cuda' = (cuda \/ p \in Toolkits)
  /\ UNCHANGED <<tools, grub>>

Rebooting ==
  /\ driver' = IF driver = "installed" /\ job.nvidia THEN "loaded" ELSE driver
  /\ grub' = IF grub = "pending" THEN "live" ELSE grub
  /\ UNCHANGED <<packages, cuda, tools>>

\* The commands that end in an echo succeed whether they did their work or not.
ForInspection(p) ==
  \/ Put(p) /\ guest' = guest \cup ({p} \ packages) /\ UNCHANGED misfired
  \/ UNCHANGED <<host, guest>> /\ misfired' = misfired \cup {p}

\* _save_temp_packages, when it goes through.
Save(list) == file' = list /\ forgotten' = forgotten \ list
-----------------------------------------------------------------------------
(* run_preflight.                                                          *)

\* Connect, and the baseline packages; without a password they cannot be had.
Baseline ==
  /\ At("run_preflight", "start")
  /\ \/ job.sudo /\ Goto("config")
     \/ Dispatch("run_cleanup")
  /\ temp' = {} /\ rebootNeeded' = FALSE
  /\ misfired' = misfired \ {"driver"}
  /\ UNCHANGED <<job, file, host, own, guest, delivered, forgotten, swept>>

\* Parameters that are in the file already are left alone, and no reboot is due
\* for them in this attempt; nor is it when the last line of the command's output,
\* which says that they are new, lies beyond the 500 characters that are kept.
SysConfig ==
  /\ At("run_preflight", "config")
  /\ \/ job.ubuntu /\ grub = "unset"
        /\ grub' = "pending" /\ rebootNeeded' \in BOOLEAN
     \/ UNCHANGED <<grub, rebootNeeded>>
  /\ Goto(IF job.ubuntu THEN "check" ELSE "decide")
  /\ UNCHANGED <<job, temp, file, packages, driver, cuda, tools, history>>

\* Mutant: the package is looked for instead of asking nvidia-smi.
CheckDriverPackage ==
  /\ At("run_preflight", "check")
  /\ Goto(IF job.nvidia /\ driver = "absent" THEN "install" ELSE "decide")
  /\ UNCHANGED <<job, locals, file, host, history>>

\* Mutant: the driver is installed without a look.
CheckDriverNot ==
  /\ At("run_preflight", "check")
  /\ Goto(IF job.nvidia THEN "install" ELSE "decide")
  /\ UNCHANGED <<job, locals, file, host, history>>

CheckDriver ==
  /\ At("run_preflight", "check")
  /\ Goto(IF job.nvidia /\ driver # "loaded" THEN "install" ELSE "decide")
  /\ UNCHANGED <<job, locals, file, host, history>>

InstallDriver ==
  /\ At("run_preflight", "install")
  /\ \/ ForInspection("driver") /\ Goto("save")
        /\ temp' = temp \cup {"driver"}
     \/ Goto("decide") /\ misfired' = misfired \cup {"driver"}
        /\ UNCHANGED <<host, guest, temp>>
  /\ UNCHANGED <<job, rebootNeeded, file, own, delivered, forgotten, swept>>

SaveDriver ==
  /\ At("run_preflight", "save")
  /\ Save(temp) /\ rebootNeeded' = TRUE
  /\ Goto("decide")
  /\ UNCHANGED <<job, temp, host, own, guest, delivered, misfired, swept>>

\* One reboot for both; the command's own failure is not looked at.
Reboot ==
  /\ At("run_preflight", "decide") /\ rebootNeeded
  /\ \/ Rebooting /\ UNCHANGED misfired
     \/ UNCHANGED host /\ misfired' = misfired \cup {"driver"}
  /\ Goto("waiting")
  /\ UNCHANGED <<job, locals, file, own, guest, delivered, forgotten, swept>>

NoReboot ==
  /\ At("run_preflight", "decide") /\ ~rebootNeeded
  /\ Goto("scripts")
  /\ UNCHANGED <<job, locals, file, host, history>>

\* The server answers within five minutes, or the job goes to the cleanup.
Reconnect ==
  /\ At("run_preflight", "waiting")
  /\ Goto("scripts") \/ Dispatch("run_cleanup")
  /\ UNCHANGED <<job, locals, file, host, history>>

PreflightScripts ==
  /\ At("run_preflight", "scripts")
  /\ \/ Dispatch(IF job.asked # {} THEN "run_sw_install" ELSE "run_post_install")
     \/ Dispatch("run_cleanup")
  /\ UNCHANGED <<job, locals, file, host, history>>

-----------------------------------------------------------------------------
(* run_sw_install, as far as the two packages go; module SwInstall has it  *)
(* in full.                                                                *)

\* What failed, or was cut off, may have done its work all the same.
InstallAsked ==
  /\ At("run_sw_install", "start")
  /\ \E p \in job.asked \ delivered :
       Put(p) /\ delivered' \in {delivered, delivered \cup {p}}
  /\ UNCHANGED <<job, progress, locals, file, own, guest, misfired, forgotten, swept>>

\* A driver is followed by a reboot only if something of the stack was asked for
\* with it; without one, the kernel parameters may be the reason.
SwInstallReboot ==
  /\ At("run_sw_install", "start")
  /\ job.asked \cap Drivers # {} => job.asked \cap Toolkits # {}
  /\ Rebooting
  /\ UNCHANGED <<job, progress, locals, file, history>>

SwInstallEnds ==
  /\ At("run_sw_install", "start")
  /\ \E t \in {"run_post_install", "run_cleanup"} : Dispatch(t)
  /\ UNCHANGED <<job, locals, file, host, history>>

-----------------------------------------------------------------------------
(* run_post_install, and what follows it up to the cleanup: run_collect    *)
(* and run_validate leave the server alone.                                *)

\* A failed installation of the tools is only logged.
StressTools ==
  /\ At("run_post_install", "start")
  /\ tools' \in IF job.sudo THEN {tools, TRUE} ELSE {tools}
  /\ temp' = {} /\ misfired' = misfired \ {"cuda"}
  /\ Goto("check")
  /\ UNCHANGED <<job, rebootNeeded, file, packages, driver, cuda, grub,
                 own, guest, delivered, forgotten, swept>>

CheckCuda ==
  /\ At("run_post_install", "check")
  /\ Goto(IF job.nvidia /\ job.sudo /\ ~cuda THEN "install" ELSE "scripts")
  /\ UNCHANGED <<job, locals, file, host, history>>

\* The handler looks for nvcc after the script, so it is there exactly when the
\* installation counts as a success.
InstallCuda ==
  /\ At("run_post_install", "install")
  /\ \/ /\ Put("cuda") /\ guest' = guest \cup ({"cuda"} \ packages)
        /\ Goto("save") /\ UNCHANGED misfired
     \/ /\ Goto("scripts") /\ misfired' = misfired \cup {"cuda"}
        /\ UNCHANGED <<host, guest>>
  /\ UNCHANGED <<job, locals, file, own, delivered, forgotten, swept>>

\* Mutant: the list of the preflight is not read before it is written.
SaveCudaOnly ==
  /\ At("run_post_install", "save")
  /\ temp' = {"cuda"} /\ Save(temp')
  /\ Goto("scripts")
  /\ UNCHANGED <<job, rebootNeeded, host, own, guest, delivered, misfired, swept>>

\* A list that cannot be read counts as empty (_load_temp_packages), and what is
\* written back takes its place.
SaveCuda ==
  /\ At("run_post_install", "save")
  /\ \E read \in {file, {}} :
       /\ temp' = read \cup {"cuda"} /\ file' = temp'
       /\ forgotten' = (forgotten \cup (file \ read)) \ {"cuda"}
  /\ Goto("scripts")
  /\ UNCHANGED <<job, rebootNeeded, host, own, guest, delivered, misfired, swept>>

PostInstallScripts ==
  /\ At("run_post_install", "scripts")
  /\ Dispatch("run_cleanup")
  /\ UNCHANGED <<job, locals, file, host, history>>

-----------------------------------------------------------------------------
(* run_cleanup.                                                            *)

LoadList ==
  /\ At("run_cleanup", "start")
  /\ \/ temp' = file /\ forgotten' = forgotten \ file
     \/ temp' = {} /\ forgotten' = forgotten \cup file   \* it cannot be read
  /\ swept' = {}
  /\ Goto("tools")
  /\ UNCHANGED <<job, rebootNeeded, file, host, own, guest, delivered, misfired>>

RemoveTools ==
  /\ At("run_cleanup", "tools")
  /\ \/ job.sudo /\ tools' = FALSE /\ swept' = swept \cup {"tools"}
     \/ UNCHANGED <<tools, swept>>
  /\ Goto("purge")
  /\ UNCHANGED <<job, locals, file, packages, driver, cuda, grub, own, guest,
                 delivered, misfired, forgotten>>

\* Mutant: the toolkit is purged, the driver is left.
PurgeCuda ==
  /\ At("run_cleanup", "purge")
  /\ packages' = packages \ (temp \cap Toolkits)
  /\ swept' = swept \cup {"packages"}
  /\ Goto("report")
  /\ UNCHANGED <<job, locals, file, driver, cuda, tools, grub, own, guest, delivered,
                 misfired, forgotten>>

\* apt-get purge of the names on the list: what they brought along, nvidia-smi and
\* nvcc included, belongs to packages of its own and stays.  When the command
\* fails, that is logged, and it may have removed some.
Purge ==
  /\ At("run_cleanup", "purge")
  /\ \E gone \in SUBSET (IF job.sudo THEN temp ELSE {}) :
       /\ packages' = packages \ gone
       /\ swept' \in {swept, IF gone = temp THEN swept \cup {"packages"} ELSE swept}
  /\ Goto("report")
  /\ UNCHANGED <<job, locals, file, driver, cuda, tools, grub, own, guest, delivered,
                 misfired, forgotten>>

\* Whatever happens to the connection, the report follows.
CleanupCut ==
  /\ task = "run_cleanup" /\ pc \in {"tools", "purge"}
  /\ Goto("report")
  /\ UNCHANGED <<job, locals, file, host, history>>

CleanupEnds ==
  /\ At("run_cleanup", "report")
  /\ Goto("over")
  /\ UNCHANGED <<job, locals, file, host, history>>

-----------------------------------------------------------------------------
(* Attempts that end early.                                                *)

\* What the attempt is installing, or has installed and not noted yet.
Installing ==
  IF pc \notin {"install", "save"} THEN {}
  ELSE IF task = "run_preflight" THEN {"driver"} ELSE {"cuda"}

\* An installation that is cut off may have been completed by the server, and what
\* is installed by then is not noted.  The list is written in place: it may be lost
\* with the attempt that is writing it.
CutOff ==
  /\ \/ pc = "install" /\ (\E p \in Installing : Put(p))
        /\ guest' = guest \cup (Installing \ packages)
     \/ UNCHANGED <<host, guest>>
  /\ file' \in IF pc = "save" THEN {file, {}} ELSE {file}
  /\ forgotten' = forgotten \cup Installing \cup (file \ file')

\* Mutant: the attempts are counted from the wrong end.
RaiseOneMore ==
  /\ pc # "over"
  /\ IF tries <= RetryBound
     THEN tries' = tries + 1 /\ pc' = "start"
     ELSE pc' = "over" /\ UNCHANGED tries
  /\ CutOff
  /\ UNCHANGED <<job, task, losses, locals, own, delivered, misfired, swept>>

\* An error: the message is retried, or, at last, the job is failed and its server
\* is left as it is.
Raise ==
  /\ pc # "over"
  /\ IF tries < RetryBound
     THEN tries' = tries + 1 /\ pc' = "start"
     ELSE pc' = "over" /\ UNCHANGED tries
  /\ CutOff
  /\ UNCHANGED <<job, task, losses, locals, own, delivered, misfired, swept>>

\* The container of the worker stops, and the message, which is confirmed only at
\* the end (acks_late), is delivered again once the transport has waited for it.
Lose ==
  /\ pc # "over" /\ losses < MaxLosses
  /\ losses' = losses + 1 /\ pc' = "start"
  /\ CutOff
  /\ UNCHANGED <<job, task, tries, locals, own, delivered, misfired, swept>>

Done == pc = "over" /\ UNCHANGED vars

Preflight ==
  \/ Baseline \/ SysConfig \/ CheckDriver \/ InstallDriver \/ SaveDriver
  \/ Reboot \/ NoReboot \/ Reconnect \/ PreflightScripts

Requirements == InstallAsked \/ SwInstallReboot \/ SwInstallEnds

PostInstall ==
  StressTools \/ CheckCuda \/ InstallCuda \/ SaveCuda \/ PostInstallScripts

Cleanup == LoadList \/ RemoveTools \/ Purge \/ CleanupCut \/ CleanupEnds

Next == Preflight \/ Requirements \/ PostInstall \/ Cleanup \/ Raise \/ Lose \/ Done

Spec == Init /\ [][Next]_vars
-----------------------------------------------------------------------------
(* Properties.                                                             *)

\* The scripts of a phase find the driver running and nvcc in place, however often
\* the phase was begun, unless an installation or the reboot went wrong unseen under
\* this very attempt: nvidia-smi is asked, not the package, so an attempt that died
\* before the reboot leaves a server the next one still reboots (inspect.py:482).
\* After a driver was asked for, the scripts of post_install may not find it: one
\* that is asked for alone is not rebooted for (sw_install.py:1206).
ScriptsEquipped ==
  pc = "scripts" /\ job.nvidia /\ job.ubuntu =>
    /\ \/ driver = "loaded" \/ "driver" \in misfired
       \/ task = "run_post_install" /\ job.asked \cap Drivers # {}
    /\ task = "run_post_install" => cuda \/ "cuda" \in misfired

\* What was installed for the inspection alone is in the file, the only thing that
\* survives the tasks, up to the end of the job.  It is missing only if an attempt
\* ended between installing and noting it, or the share failed while the list was
\* read or written, and no later attempt noted it again (temp_packages.json).
GuestsListed == guest \cap packages \subseteq file \cup Installing \cup forgotten

\* What the request itself replaces: the driver of another version, and nvidia-smi
\* until the next reboot.
Replaced ==
  {p \in Drivers : job.asked \cap (Drivers \ {p}) # {}}
    \cup (IF job.asked \cap Drivers # {} THEN {"nvidia-smi"} ELSE {})

\* The packages of a driver that answered and of a toolkit that ran before the job
\* are still there, and answer and run, but for what the request replaces.
OwnSurvives == own \subseteq packages \cup Answering \cup Replaced

\* After a cleanup whose commands went through, what it failed to learn of is the
\* only package of the inspection that is left, and the stress tools are gone: a
\* list read or written in vain, and an attempt cut off, are the only ways out
\* (the packages named in the list; what they brought stays, for the purge runs
\* no autoremove).
HostRestored ==
  pc = "over" /\ task = "run_cleanup" /\ swept = {"tools", "packages"} =>
    guest \cap packages \subseteq forgotten /\ ~tools

\* README.md:39: the cleanup removes the tools that served the inspection only, so
\* what the customer asked for, and was given, is still there.
RequestedSurvives == pc = "over" => delivered \subseteq packages

-----------------------------------------------------------------------------
(* What these rest on, step by step.                                       *)

Placed ==
  /\ task = "run_cleanup" => pc \notin {"install", "save", "scripts"}
  /\ task = "run_sw_install" => pc \in {"start", "over"}
  /\ \/ job.sudo \/ task = "run_cleanup"
     \/ task = "run_preflight" /\ pc \in {"start", "over"}

\* Nothing that worked before the job is listed, or about to be.
OwnUnlisted == own \cap (file \cup temp \cup Installing) = {}

\* A driver that answered answers through the preflight, which installs none beside
\* it; a toolkit that ran runs.
OwnAnswers ==
  /\ task = "run_preflight" =>
       LET ownDriver == own \cap (Drivers \cup {"nvidia-smi"}) IN
         ownDriver = {} \/ (driver = "loaded" /\ pc \notin {"install", "save"})
  /\ own \cap (Toolkits \cup {"nvcc"}) # {} => cuda

Noting == IF pc = "save" THEN Installing ELSE {}

\* The file knows the guests, or the attempt that brought them is about to note
\* them, or they are forgotten; and so does the list a cleanup has read.
GuestsKnown ==
  /\ task = "run_preflight" => guest \cup file \cup temp \subseteq {"driver"}
  /\ task = "run_preflight" /\ pc = "save" => "driver" \in temp
  /\ guest \subseteq file \cup Noting \cup forgotten
  /\ task = "run_cleanup" /\ pc \in {"tools", "purge"} =>
       guest \cap packages \subseteq temp \cup forgotten

Swept ==
  /\ task # "run_cleanup" => swept = {}
  /\ "tools" \in swept => ~tools
  /\ "packages" \in swept => guest \cap packages \subseteq forgotten

\* A driver that does not answer yet is followed by a reboot in the same attempt.
Ready == driver = "loaded" \/ "driver" \in misfired
Equipping ==
  job.nvidia /\ job.ubuntu =>
    /\ At("run_preflight", "save") => driver # "absent" \/ Ready
    /\ At("run_preflight", "decide") => (driver # "absent" /\ rebootNeeded) \/ Ready
    /\ task = "run_preflight" /\ pc \in {"waiting", "scripts"} => Ready
    /\ task \in {"run_sw_install", "run_post_install"} /\ pc # "over" =>
         Ready \/ job.asked \cap Drivers # {}
    /\ task = "run_post_install" /\ pc \in {"save", "scripts"} => cuda \/ "cuda" \in misfired

HostInv ==
  /\ TypeOK /\ Placed /\ OwnUnlisted /\ OwnAnswers /\ OwnSurvives /\ GuestsKnown
  /\ Swept /\ Equipping
=============================================================================
