--------------------------- MODULE TargetHostProofs ---------------------------
(***************************************************************************)
(* Theorems about module TargetHost: HostInv is inductive, and the four    *)
(* safety properties follow from it, for every number of retries and of    *)
(* lost workers.                                                           *)
(***************************************************************************)
EXTENDS TargetHost, TLAPS

LEMMA HostInit == Init => HostInv
<1> SUFFICES ASSUME Init PROVE HostInv
  OBVIOUS
<1>1. TypeOK
  <2>1. own \subseteq Packages \cup {"nvidia-smi", "nvcc"}
    BY DEF Init, Answering, Packages
  <2>2. tries \in 0..RetryBound /\ losses \in 0..MaxLosses
    BY HostBounds DEF Init
  <2>3. driver \in {"absent", "installed", "loaded"} /\ grub = "unset" /\ swept = {}
    BY DEF Init
  <2> QED
    BY <2>1, <2>2, <2>3 DEF Init, TypeOK, Tasks, Points
<1>2. OwnUnlisted /\ Placed /\ OwnAnswers
  BY DEF Init, OwnUnlisted, OwnAnswers, Placed, Installing, Answering, Drivers, Toolkits
<1>3. OwnSurvives
  BY DEF Init, OwnSurvives
<1>4. GuestsKnown /\ Swept /\ Equipping
  BY DEF Init, GuestsKnown, Swept, Equipping, Noting, Installing, At
<1> QED
  BY <1>1, <1>2, <1>3, <1>4 DEF HostInv

\* A package put there is one, and leaves the server in a state it can be in.
LEMMA PutTypes ==
  ASSUME TypeOK, NEW p \in Packages, Put(p)
  PROVE  /\ packages' \subseteq Packages /\ driver' \in {"absent", "installed", "loaded"}
         /\ cuda' \in BOOLEAN /\ UNCHANGED <<tools, grub>>
BY DEF TypeOK, Put, Packages, Drivers, Toolkits

\* So does a cut-off installation.
LEMMA CutOffTypes ==
  ASSUME TypeOK, CutOff
  PROVE  /\ packages' \subseteq Packages /\ driver' \in {"absent", "installed", "loaded"}
         /\ cuda' \in BOOLEAN /\ UNCHANGED <<tools, grub>>
         /\ guest' \cup forgotten' \cup file' \subseteq Packages
<1>1. Installing \subseteq Packages
  BY DEF Installing, Packages, Drivers, Toolkits
<1>2. file' \subseteq Packages /\ forgotten' \subseteq Packages
  BY <1>1 DEF TypeOK, CutOff
<1>3. CASE pc = "install" /\ (\E p \in Installing : Put(p)) /\ guest' = guest \cup (Installing \ packages)
  <2>1. PICK p \in Installing : Put(p)
    BY <1>3
  <2>2. guest' \subseteq Packages
    BY <1>1, <1>3 DEF TypeOK
  <2> QED
    BY <1>1, <1>2, <2>1, <2>2, PutTypes
<1>4. CASE UNCHANGED <<host, guest>>
  BY <1>2, <1>4 DEF TypeOK, host
<1> QED
  BY <1>3, <1>4 DEF CutOff

\* Every action keeps the variables in their sets.
LEMMA TypeStep == TypeOK /\ [Next]_vars => TypeOK'
<1> SUFFICES ASSUME TypeOK, [Next]_vars PROVE TypeOK'
  OBVIOUS
<1> USE DEF TypeOK, Tasks, Points, At, Goto, Dispatch, progress, locals, host, history
<1>0. /\ {"driver"} \subseteq Packages /\ {"cuda"} \subseteq Packages
      /\ job.asked \subseteq Packages
  BY HostRequests DEF JobType, Packages, Drivers, Toolkits
<1>1. CASE Preflight
  <2>1. CASE Baseline
    <3>1. tries' \in 0..RetryBound /\ task' \in Tasks /\ pc' \in Points
      BY <2>1, HostBounds DEF Baseline
    <3>2. misfired' \subseteq Packages
      BY <2>1 DEF Baseline
    <3> QED
      BY <2>1, <3>1, <3>2 DEF Baseline
  <2>2. CASE SysConfig
    BY <2>2 DEF SysConfig
  <2>3. CASE CheckDriver
    BY <2>3 DEF CheckDriver
  <2>4. CASE InstallDriver
    <3>1. task' \in Tasks /\ pc' \in Points /\ UNCHANGED <<tries, losses>>
      BY <2>4 DEF InstallDriver
    <3>2. /\ packages' \subseteq Packages /\ driver' \in {"absent", "installed", "loaded"}
          /\ cuda' \in BOOLEAN /\ UNCHANGED <<tools, grub>>
      BY <1>0, <2>4, PutTypes DEF InstallDriver, ForInspection
    <3>3. guest' \cup misfired' \cup temp' \subseteq Packages
      BY <1>0, <2>4 DEF InstallDriver, ForInspection
    <3>4. UNCHANGED <<job, rebootNeeded, file, own, delivered, forgotten, swept>>
      BY <2>4 DEF InstallDriver
    <3> QED
      BY <3>1, <3>2, <3>3, <3>4
  <2>5. CASE SaveDriver
    BY <2>5 DEF SaveDriver, Save
  <2>6. CASE Reboot
    BY <1>0, <2>6 DEF Reboot, Rebooting
  <2>7. CASE NoReboot
    BY <2>7 DEF NoReboot
  <2>8. CASE Reconnect
    BY <2>8, HostBounds DEF Reconnect
  <2>9. CASE PreflightScripts
    BY <2>9, HostBounds DEF PreflightScripts
  <2> QED
    BY <1>1, <2>1, <2>2, <2>3, <2>4, <2>5, <2>6, <2>7, <2>8, <2>9 DEF Preflight
<1>2. CASE Requirements
  <2>1. CASE InstallAsked
    <3>1. PICK p \in job.asked \ delivered :
            Put(p) /\ delivered' \in {delivered, delivered \cup {p}}
      BY <2>1 DEF InstallAsked
    <3>2. p \in Packages
      BY <1>0
    <3> QED
      BY <2>1, <3>1, <3>2, PutTypes DEF InstallAsked
  <2>2. CASE SwInstallReboot
    BY <2>2 DEF SwInstallReboot, Rebooting
  <2>3. CASE SwInstallEnds
    BY <2>3, HostBounds DEF SwInstallEnds
  <2> QED
    BY <1>2, <2>1, <2>2, <2>3 DEF Requirements
<1>3. CASE PostInstall
  <2>1. CASE StressTools
    BY <2>1 DEF StressTools
  <2>2. CASE CheckCuda
    BY <2>2 DEF CheckCuda
  <2>3. CASE InstallCuda
    <3>1. /\ packages' \subseteq Packages /\ driver' \in {"absent", "installed", "loaded"}
          /\ cuda' \in BOOLEAN /\ UNCHANGED <<tools, grub>>
      BY <1>0, <2>3, PutTypes DEF InstallCuda
    <3> QED
      BY <1>0, <2>3, <3>1 DEF InstallCuda
  <2>4. CASE SaveCuda
    BY <1>0, <2>4 DEF SaveCuda
  <2>5. CASE PostInstallScripts
    BY <2>5, HostBounds DEF PostInstallScripts
  <2> QED
    BY <1>3, <2>1, <2>2, <2>3, <2>4, <2>5 DEF PostInstall
<1>4. CASE Cleanup
  <2>1. CASE LoadList
    BY <2>1 DEF LoadList
  <2>2. CASE RemoveTools
    BY <2>2 DEF RemoveTools
  <2>3. CASE Purge
    BY <2>3 DEF Purge
  <2>4. CASE CleanupCut
    BY <2>4 DEF CleanupCut
  <2>5. CASE CleanupEnds
    BY <2>5 DEF CleanupEnds
  <2> QED
    BY <1>4, <2>1, <2>2, <2>3, <2>4, <2>5 DEF Cleanup
<1>5. CASE Raise
  <2>1. tries' \in 0..RetryBound /\ pc' \in Points /\ UNCHANGED <<task, losses>>
    BY <1>5, HostBounds DEF Raise
  <2>2. UNCHANGED <<job, locals, own, delivered, misfired, swept>>
    BY <1>5 DEF Raise
  <2>3. CutOff
    BY <1>5 DEF Raise
  <2> QED
    BY <2>1, <2>2, <2>3, CutOffTypes
<1>6. CASE Lose
  <2>1. losses' \in 0..MaxLosses /\ pc' \in Points /\ UNCHANGED <<task, tries>>
    BY <1>6, HostBounds DEF Lose
  <2>2. UNCHANGED <<job, locals, own, delivered, misfired, swept>>
    BY <1>6 DEF Lose
  <2>3. CutOff
    BY <1>6 DEF Lose
  <2> QED
    BY <2>1, <2>2, <2>3, CutOffTypes
<1>7. CASE UNCHANGED vars
  BY <1>7 DEF vars
<1> QED
  BY <1>1, <1>2, <1>3, <1>4, <1>5, <1>6, <1>7 DEF Next, Done

\* Where each task can stand, and the list the cleanup has read.
LEMMA PlacedStep == HostInv /\ [Next]_vars => Placed'
<1> SUFFICES ASSUME HostInv, [Next]_vars PROVE Placed'
  OBVIOUS
<1> USE DEF HostInv, TypeOK, Placed, At, Goto, Dispatch, progress, locals, host, history
<1>1. CASE Preflight
  <2>1. CASE Baseline
    BY <2>1 DEF Baseline
  <2>2. CASE SysConfig
    BY <2>2 DEF SysConfig
  <2>3. CASE CheckDriver
    BY <2>3 DEF CheckDriver
  <2>4. CASE InstallDriver
    BY <2>4 DEF InstallDriver, ForInspection, Put
  <2>5. CASE SaveDriver
    BY <2>5 DEF SaveDriver, Save
  <2>6. CASE Reboot
    BY <2>6 DEF Reboot, Rebooting
  <2>7. CASE NoReboot
    BY <2>7 DEF NoReboot
  <2>8. CASE Reconnect
    BY <2>8 DEF Reconnect
  <2>9. CASE PreflightScripts
    BY <2>9 DEF PreflightScripts
  <2> QED
    BY <1>1, <2>1, <2>2, <2>3, <2>4, <2>5, <2>6, <2>7, <2>8, <2>9 DEF Preflight
<1>2. CASE Requirements
  <2>1. CASE InstallAsked
    BY <2>1 DEF InstallAsked, Put
  <2>2. CASE SwInstallReboot
    BY <2>2 DEF SwInstallReboot, Rebooting
  <2>3. CASE SwInstallEnds
    BY <2>3 DEF SwInstallEnds
  <2> QED
    BY <1>2, <2>1, <2>2, <2>3 DEF Requirements
<1>3. CASE PostInstall
  <2>1. CASE StressTools
    BY <2>1 DEF StressTools
  <2>2. CASE CheckCuda
    BY <2>2 DEF CheckCuda
  <2>3. CASE InstallCuda
    BY <2>3 DEF InstallCuda, Put
  <2>4. CASE SaveCuda
    BY <2>4 DEF SaveCuda
  <2>5. CASE PostInstallScripts
    BY <2>5 DEF PostInstallScripts
  <2> QED
    BY <1>3, <2>1, <2>2, <2>3, <2>4, <2>5 DEF PostInstall
<1>4. CASE Cleanup
  <2>1. CASE LoadList
    BY <2>1 DEF LoadList
  <2>2. CASE RemoveTools
    BY <2>2 DEF RemoveTools
  <2>3. CASE Purge
    BY <2>3 DEF Purge
  <2>4. CASE CleanupCut
    BY <2>4 DEF CleanupCut
  <2>5. CASE CleanupEnds
    BY <2>5 DEF CleanupEnds
  <2> QED
    BY <1>4, <2>1, <2>2, <2>3, <2>4, <2>5 DEF Cleanup
<1>5. CASE Raise
  BY <1>5 DEF Raise, CutOff, Put
<1>6. CASE Lose
  BY <1>6 DEF Lose, CutOff, Put
<1>7. CASE UNCHANGED vars
  BY <1>7 DEF vars
<1> QED
  BY <1>1, <1>2, <1>3, <1>4, <1>5, <1>6, <1>7 DEF Next, Done

\* What worked before is neither listed nor lost: it is there, so nothing
\* looks for a replacement, and the purge takes what is listed only.
LEMMA OwnStep == HostInv /\ [Next]_vars => (OwnUnlisted /\ OwnAnswers /\ OwnSurvives)'
<1> SUFFICES ASSUME HostInv, [Next]_vars PROVE (OwnUnlisted /\ OwnAnswers /\ OwnSurvives)'
  OBVIOUS
<1> USE DEF HostInv, TypeOK, OwnUnlisted, OwnAnswers, OwnSurvives, Replaced, Installing, Answering, Placed, Packages, Drivers, Toolkits, At, Goto, Dispatch, progress, locals, host, history
<1>1. CASE Preflight
  <2>1. CASE Baseline
    BY <2>1 DEF Baseline
  <2>2. CASE SysConfig
    BY <2>2 DEF SysConfig
  <2>3. CASE CheckDriver
    BY <2>3 DEF CheckDriver
  <2>4. CASE InstallDriver
    BY <2>4 DEF InstallDriver, ForInspection, Put
  <2>5. CASE SaveDriver
    BY <2>5 DEF SaveDriver, Save
  <2>6. CASE Reboot
    BY <2>6 DEF Reboot, Rebooting
  <2>7. CASE NoReboot
    BY <2>7 DEF NoReboot
  <2>8. CASE Reconnect
    BY <2>8 DEF Reconnect
  <2>9. CASE PreflightScripts
    BY <2>9 DEF PreflightScripts
  <2> QED
    BY <1>1, <2>1, <2>2, <2>3, <2>4, <2>5, <2>6, <2>7, <2>8, <2>9 DEF Preflight
<1>2. CASE Requirements
  <2>1. CASE InstallAsked
    <3>1. PICK p \in job.asked : Put(p) /\ UNCHANGED <<job, task, pc, temp, file, own>>
      BY <2>1 DEF InstallAsked
    <3>2. CASE p \in Toolkits
      BY <2>1, <3>1, <3>2 DEF Put, InstallAsked
    <3>3. CASE p \in Drivers
      <4>1. UNCHANGED <<cuda, Installing>> /\ Toolkits \cap packages \subseteq packages'
        BY <3>1, <3>3 DEF Put
      <4>2. \A q \in Drivers : q \in packages => q \in packages' \cup Replaced'
        BY <3>1, <3>3 DEF Put
      <4>3. "nvidia-smi" \in Replaced' /\ Replaced' = Replaced
        BY <3>1, <3>3
      <4> QED
        BY <2>1, <3>1, <4>1, <4>2, <4>3 DEF InstallAsked
    <3> QED
      BY <2>1, <3>1, <3>2, <3>3, HostRequests DEF InstallAsked, JobType
  <2>2. CASE SwInstallReboot
    BY <2>2 DEF SwInstallReboot, Rebooting
  <2>3. CASE SwInstallEnds
    BY <2>3 DEF SwInstallEnds
  <2> QED
    BY <1>2, <2>1, <2>2, <2>3 DEF Requirements
<1>3. CASE PostInstall
  <2>1. CASE StressTools
    BY <2>1 DEF StressTools
  <2>2. CASE CheckCuda
    BY <2>2 DEF CheckCuda
  <2>3. CASE InstallCuda
    BY <2>3 DEF InstallCuda, Put
  <2>4. CASE SaveCuda
    BY <2>4 DEF SaveCuda
  <2>5. CASE PostInstallScripts
    BY <2>5 DEF PostInstallScripts
  <2> QED
    BY <1>3, <2>1, <2>2, <2>3, <2>4, <2>5 DEF PostInstall
<1>4. CASE Cleanup
  <2>1. CASE LoadList
    BY <2>1 DEF LoadList
  <2>2. CASE RemoveTools
    BY <2>2 DEF RemoveTools
  <2>3. CASE Purge
    BY <2>3 DEF Purge
  <2>4. CASE CleanupCut
    BY <2>4 DEF CleanupCut
  <2>5. CASE CleanupEnds
    BY <2>5 DEF CleanupEnds
  <2> QED
    BY <1>4, <2>1, <2>2, <2>3, <2>4, <2>5 DEF Cleanup
<1>5. CASE Raise
  BY <1>5 DEF Raise, CutOff, Put
<1>6. CASE Lose
  BY <1>6 DEF Lose, CutOff, Put
<1>7. CASE UNCHANGED vars
  BY <1>7 DEF vars
<1> QED
  BY <1>1, <1>2, <1>3, <1>4, <1>5, <1>6, <1>7 DEF Next, Done

\* Who installs, notes, or is cut off; who reads the list keeps it.
LEMMA GuestsStep == HostInv /\ [Next]_vars => GuestsKnown'
<1> SUFFICES ASSUME HostInv, [Next]_vars PROVE GuestsKnown'
  OBVIOUS
<1> USE DEF HostInv, TypeOK, GuestsKnown, Noting, Installing, Placed, Packages, Drivers, Toolkits, At, Goto, Dispatch, progress, locals, host, history
<1>1. CASE Preflight
  <2>1. CASE Baseline
    BY <2>1 DEF Baseline
  <2>2. CASE SysConfig
    BY <2>2 DEF SysConfig
  <2>3. CASE CheckDriver
    BY <2>3 DEF CheckDriver
  <2>4. CASE InstallDriver
    BY <2>4 DEF InstallDriver, ForInspection, Put
  <2>5. CASE SaveDriver
    BY <2>5 DEF SaveDriver, Save
  <2>6. CASE Reboot
    BY <2>6 DEF Reboot, Rebooting
  <2>7. CASE NoReboot
    BY <2>7 DEF NoReboot
  <2>8. CASE Reconnect
    BY <2>8 DEF Reconnect
  <2>9. CASE PreflightScripts
    BY <2>9 DEF PreflightScripts
  <2> QED
    BY <1>1, <2>1, <2>2, <2>3, <2>4, <2>5, <2>6, <2>7, <2>8, <2>9 DEF Preflight
<1>2. CASE Requirements
  <2>1. CASE InstallAsked
    BY <2>1 DEF InstallAsked, Put
  <2>2. CASE SwInstallReboot
    BY <2>2 DEF SwInstallReboot, Rebooting
  <2>3. CASE SwInstallEnds
    BY <2>3 DEF SwInstallEnds
  <2> QED
    BY <1>2, <2>1, <2>2, <2>3 DEF Requirements
<1>3. CASE PostInstall
  <2>1. CASE StressTools
    BY <2>1 DEF StressTools
  <2>2. CASE CheckCuda
    BY <2>2 DEF CheckCuda
  <2>3. CASE InstallCuda
    BY <2>3 DEF InstallCuda, Put
  <2>4. CASE SaveCuda
    BY <2>4 DEF SaveCuda
  <2>5. CASE PostInstallScripts
    BY <2>5 DEF PostInstallScripts
  <2> QED
    BY <1>3, <2>1, <2>2, <2>3, <2>4, <2>5 DEF PostInstall
<1>4. CASE Cleanup
  <2>1. CASE LoadList
    BY <2>1 DEF LoadList
  <2>2. CASE RemoveTools
    BY <2>2 DEF RemoveTools
  <2>3. CASE Purge
    BY <2>3 DEF Purge
  <2>4. CASE CleanupCut
    BY <2>4 DEF CleanupCut
  <2>5. CASE CleanupEnds
    BY <2>5 DEF CleanupEnds
  <2> QED
    BY <1>4, <2>1, <2>2, <2>3, <2>4, <2>5 DEF Cleanup
<1>5. CASE Raise
  BY <1>5 DEF Raise, CutOff, Put
<1>6. CASE Lose
  BY <1>6 DEF Lose, CutOff, Put
<1>7. CASE UNCHANGED vars
  BY <1>7 DEF vars
<1> QED
  BY <1>1, <1>2, <1>3, <1>4, <1>5, <1>6, <1>7 DEF Next, Done

\* The purge takes all that the file lists, and nothing comes after it.
LEMMA SweptStep == HostInv /\ [Next]_vars => Swept'
<1> SUFFICES ASSUME HostInv, [Next]_vars PROVE Swept'
  OBVIOUS
<1> USE DEF HostInv, TypeOK, Swept, GuestsKnown, Noting, Installing, Placed, Packages, Drivers, Toolkits, At, Goto, Dispatch, progress, locals, host, history
<1>1. CASE Preflight
  <2>1. CASE Baseline
    BY <2>1 DEF Baseline
  <2>2. CASE SysConfig
    BY <2>2 DEF SysConfig
  <2>3. CASE CheckDriver
    BY <2>3 DEF CheckDriver
  <2>4. CASE InstallDriver
    BY <2>4 DEF InstallDriver, ForInspection, Put
  <2>5. CASE SaveDriver
    BY <2>5 DEF SaveDriver, Save
  <2>6. CASE Reboot
    BY <2>6 DEF Reboot, Rebooting
  <2>7. CASE NoReboot
    BY <2>7 DEF NoReboot
  <2>8. CASE Reconnect
    BY <2>8 DEF Reconnect
  <2>9. CASE PreflightScripts
    BY <2>9 DEF PreflightScripts
  <2> QED
    BY <1>1, <2>1, <2>2, <2>3, <2>4, <2>5, <2>6, <2>7, <2>8, <2>9 DEF Preflight
<1>2. CASE Requirements
  <2>1. CASE InstallAsked
    BY <2>1 DEF InstallAsked, Put
  <2>2. CASE SwInstallReboot
    BY <2>2 DEF SwInstallReboot, Rebooting
  <2>3. CASE SwInstallEnds
    BY <2>3 DEF SwInstallEnds
  <2> QED
    BY <1>2, <2>1, <2>2, <2>3 DEF Requirements
<1>3. CASE PostInstall
  <2>1. CASE StressTools
    BY <2>1 DEF StressTools
  <2>2. CASE CheckCuda
    BY <2>2 DEF CheckCuda
  <2>3. CASE InstallCuda
    BY <2>3 DEF InstallCuda, Put
  <2>4. CASE SaveCuda
    BY <2>4 DEF SaveCuda
  <2>5. CASE PostInstallScripts
    BY <2>5 DEF PostInstallScripts
  <2> QED
    BY <1>3, <2>1, <2>2, <2>3, <2>4, <2>5 DEF PostInstall
<1>4. CASE Cleanup
  <2>1. CASE LoadList
    BY <2>1 DEF LoadList
  <2>2. CASE RemoveTools
    BY <2>2 DEF RemoveTools
  <2>3. CASE Purge
    <3>1. PICK gone \in SUBSET (IF job.sudo THEN temp ELSE {}) :
            /\ packages' = packages \ gone
            /\ swept' \in {swept, IF gone = temp THEN swept \cup {"packages"} ELSE swept}
      BY <2>3 DEF Purge
    <3>2. UNCHANGED <<task, tools, guest, forgotten>>
      BY <2>3 DEF Purge
    <3>3. task = "run_cleanup" /\ guest \cap packages \subseteq temp \cup forgotten
      BY <2>3 DEF Purge
    <3>4. "packages" \in swept' => "packages" \in swept \/ gone = temp
      BY <3>1
    <3>5. "tools" \in swept' => "tools" \in swept
      BY <3>1
    <3> QED
      BY <3>1, <3>2, <3>3, <3>4, <3>5
  <2>4. CASE CleanupCut
    BY <2>4 DEF CleanupCut
  <2>5. CASE CleanupEnds
    BY <2>5 DEF CleanupEnds
  <2> QED
    BY <1>4, <2>1, <2>2, <2>3, <2>4, <2>5 DEF Cleanup
<1>5. CASE Raise
  BY <1>5 DEF Raise, CutOff, Put
<1>6. CASE Lose
  BY <1>6 DEF Lose, CutOff, Put
<1>7. CASE UNCHANGED vars
  BY <1>7 DEF vars
<1> QED
  BY <1>1, <1>2, <1>3, <1>4, <1>5, <1>6, <1>7 DEF Next, Done

\* An attempt that ends early leaves the driver as the next one may find it.
LEMMA StartOver ==
  ASSUME HostInv, CutOff, UNCHANGED <<job, task, misfired>>, pc # "over",
         pc' \in {"start", "over"}
  PROVE  Equipping'
<1>1. CASE UNCHANGED <<host, guest>>
  BY <1>1 DEF HostInv, Equipping, Ready, At, host
<1>2. CASE pc = "install" /\ (\E p \in Installing : Put(p))
  <2>1. PICK p \in Installing : Put(p)
    BY <1>2
  <2>2. task = "run_preflight" \/ UNCHANGED driver
    BY <1>2, <2>1 DEF Put, Installing, Toolkits
  <2>3. task \in {"run_preflight", "run_post_install"}
    BY <1>2 DEF HostInv, TypeOK, Tasks, Placed
  <2> QED
    BY <2>2, <2>3, <1>2 DEF HostInv, Equipping, Ready, At
<1> QED
  BY <1>1, <1>2 DEF CutOff

\* The driver from the check to the scripts, and CUDA after it.
LEMMA EquippingStep == HostInv /\ [Next]_vars => Equipping'
<1> SUFFICES ASSUME HostInv, [Next]_vars PROVE Equipping'
  OBVIOUS
<1> USE DEF HostInv, TypeOK, Equipping, Ready, Placed, Packages, Drivers, Toolkits, At, Goto, Dispatch, progress, locals, host, history
<1>1. CASE Preflight
  <2>1. CASE Baseline
    BY <2>1 DEF Baseline
  <2>2. CASE SysConfig
    BY <2>2 DEF SysConfig
  <2>3. CASE CheckDriver
    BY <2>3 DEF CheckDriver
  <2>4. CASE InstallDriver
    BY <2>4 DEF InstallDriver, ForInspection, Put
  <2>5. CASE SaveDriver
    BY <2>5 DEF SaveDriver, Save
  <2>6. CASE Reboot
    BY <2>6 DEF Reboot, Rebooting
  <2>7. CASE NoReboot
    BY <2>7 DEF NoReboot
  <2>8. CASE Reconnect
    BY <2>8 DEF Reconnect
  <2>9. CASE PreflightScripts
    BY <2>9 DEF PreflightScripts
  <2> QED
    BY <1>1, <2>1, <2>2, <2>3, <2>4, <2>5, <2>6, <2>7, <2>8, <2>9 DEF Preflight
<1>2. CASE Requirements
  <2>1. CASE InstallAsked
    <3>1. PICK p \in job.asked : Put(p)
      BY <2>1 DEF InstallAsked
    <3>2. UNCHANGED <<job, task, pc, misfired>> /\ task = "run_sw_install" /\ pc = "start"
      BY <2>1 DEF InstallAsked
    <3>3. CASE p \in Toolkits
      <4>1. UNCHANGED driver
        BY <3>1, <3>3 DEF Put
      <4> QED
        BY <3>2, <4>1
    <3>4. CASE p \in Drivers
      BY <3>2, <3>4
    <3> QED
      BY <3>3, <3>4, HostRequests DEF JobType
  <2>2. CASE SwInstallReboot
    BY <2>2 DEF SwInstallReboot, Rebooting
  <2>3. CASE SwInstallEnds
    BY <2>3 DEF SwInstallEnds
  <2> QED
    BY <1>2, <2>1, <2>2, <2>3 DEF Requirements
<1>3. CASE PostInstall
  <2>1. CASE StressTools
    BY <2>1 DEF StressTools
  <2>2. CASE CheckCuda
    BY <2>2 DEF CheckCuda
  <2>3. CASE InstallCuda
    BY <2>3 DEF InstallCuda, Put
  <2>4. CASE SaveCuda
    BY <2>4 DEF SaveCuda
  <2>5. CASE PostInstallScripts
    BY <2>5 DEF PostInstallScripts
  <2> QED
    BY <1>3, <2>1, <2>2, <2>3, <2>4, <2>5 DEF PostInstall
<1>4. CASE Cleanup
  <2>1. CASE LoadList
    BY <2>1 DEF LoadList
  <2>2. CASE RemoveTools
    BY <2>2 DEF RemoveTools
  <2>3. CASE Purge
    BY <2>3 DEF Purge
  <2>4. CASE CleanupCut
    BY <2>4 DEF CleanupCut
  <2>5. CASE CleanupEnds
    BY <2>5 DEF CleanupEnds
  <2> QED
    BY <1>4, <2>1, <2>2, <2>3, <2>4, <2>5 DEF Cleanup
<1>5. CASE Raise
  BY <1>5, StartOver DEF Raise
<1>6. CASE Lose
  BY <1>6, StartOver DEF Lose
<1>7. CASE UNCHANGED vars
  BY <1>7 DEF vars
<1> QED
  BY <1>1, <1>2, <1>3, <1>4, <1>5, <1>6, <1>7 DEF Next, Done

\* HostInv holds of every behaviour.
THEOREM HostInductive == Spec => []HostInv
<1>1. HostInv /\ [Next]_vars => HostInv'
  <2> SUFFICES ASSUME HostInv, [Next]_vars PROVE HostInv'
    OBVIOUS
  <2> QED
    BY TypeStep, PlacedStep, OwnStep, GuestsStep, SweptStep, EquippingStep DEF HostInv
<1> QED
  BY HostInit, <1>1, PTL DEF Spec

\* The variables keep their types: TypeOK.
THEOREM HostTypeCorrect == Spec => []TypeOK
<1>1. HostInv => TypeOK
  BY DEF HostInv
<1> QED
  BY HostInductive, <1>1, PTL

\* The driver that answered and the toolkit that ran before the job, and their
\* packages, are never taken away but for what the request replaces (the checks of
\* preflight and post_install, and the purge): OwnSurvives.
THEOREM OwnIsSafe == Spec => []OwnSurvives
<1>1. HostInv => OwnSurvives
  BY DEF HostInv
<1> QED
  BY HostInductive, <1>1, PTL

\* What was installed for the inspection is in temp_packages.json, unless its attempt
\* was cut off or the share failed while the list was read or written: GuestsListed.
THEOREM GuestsAreListed == Spec => []GuestsListed
<1>1. HostInv => GuestsListed
  BY DEF HostInv, GuestsKnown, GuestsListed, Noting
<1> QED
  BY HostInductive, <1>1, PTL

\* A cleanup whose commands went through leaves no stress tools and, of the packages
\* that were put there for the inspection, only those that were not noted, or whose
\* note was lost or could not be read: HostRestored.
THEOREM HostIsRestored == Spec => []HostRestored
<1>1. HostInv => HostRestored
  BY DEF HostInv, Swept, HostRestored
<1> QED
  BY HostInductive, <1>1, PTL

\* The scripts find driver and toolkit at work, or their attempt failed to put them
\* there, or the request brought a driver of its own: ScriptsEquipped.
THEOREM ScriptsAreEquipped == Spec => []ScriptsEquipped
<1>1. HostInv => ScriptsEquipped
  BY DEF HostInv, TypeOK, Tasks, Placed, Equipping, Ready, ScriptsEquipped
<1> QED
  BY HostInductive, <1>1, PTL
=============================================================================
