--------------------------- MODULE SwInstallProofs ---------------------------
(***************************************************************************)
(* Proofs about SwInstall for every set of jobs, any number of retries and *)
(* any number of dropped connections.                                      *)
(***************************************************************************)
EXTENDS SwInstallTask, TLAPS

\* Rows the worker adds on its own are not items.
LEMMA NameFacts ==
  /\ SwNames \subseteq Names /\ Names \subseteq RowNames /\ Stack \subseteq SwNames
  /\ "standard" \in RowNames \ Names /\ "driver_check" \in RowNames \ Names
  /\ "nvidia_driver" \in SwNames
BY DEF SwNames, Names, RowNames, Stack

\* What an item depends on depends on nothing itself.
LEMMA NeedsFacts ==
  /\ Needs("nvidia_driver") = {}
  /\ \A i \in Names : \A d \in Needs(i) : d \in SwNames /\ Needs(d) = {} /\ d # i
BY DEF Needs, SwNames, Names, Stack

\* A job asks only for items the worker knows.
LEMMA ItemFacts ==
  ASSUME job \in Jobs
  PROVE  job.items \subseteq Names /\ job.agent \subseteq SwNames
BY JobsAssumption DEF JobType

-----------------------------------------------------------------------------
(* Types.                                                                  *)

\* The types hold in every initial state.
LEMMA TypeInit == Init => TypeOK
<1>1. Init => Counters
  BY BoundsAssumption DEF Init, Counters
<1>2. QED
  BY <1>1 DEF Init, TypeOK, Flags, Points

\* Every step leaves the counters within their bounds.
LEMMA CountersStep ==
  ASSUME Counters, [Next]_vars
  PROVE  Counters'
<1> USE DEF Counters, flow, record, server, link, locals
<1>1. CASE FirstSteps
  BY <1>1, BoundsAssumption
     DEF FirstSteps, Begin, Connect, ConfigGrub, Tune, ConfigOther, Reboot
<1>2. CASE Items
  <2>1. CASE RunAgentPlan
    BY <2>1, BoundsAssumption DEF RunAgentPlan, Adding, SessionItems
  <2>2. CASE LeaveSession
    BY <2>2, BoundsAssumption DEF LeaveSession, DriverReboot
  <2>3. ASSUME NEW i \in Names, ItemStep(i) PROVE Counters'
    BY <2>3, BoundsAssumption
       DEF ItemStep, Finish, DelegatedItem, SkipItem, InstallItem, Leaving, Adding,
           InstallCutOff, OtherItem
  <2>4. QED
    BY <1>2, <2>1, <2>2, <2>3 DEF Items
<1>3. CASE LinkStep \/ Drop
  BY <1>3, BoundsAssumption
     DEF LinkStep, Drop, ExpectedDisconnect, Uncaught, DriverReboot, AnyError,
         Again, HandlerRaises, Announce, Reconnect, NoConnection, VerifyDriver
<1>4. CASE LastSteps
  BY <1>4, BoundsAssumption
     DEF LastSteps, SaveRows, NothingToRepair, AskForRepair, NoRepair, Mend, Adding,
         MendFails, MarkFailed, DispatchCleanup, Forward
<1>5. CASE UNCHANGED vars
  BY <1>5 DEF vars
<1>6. QED
  BY <1>1, <1>2, <1>3, <1>4, <1>5 DEF Next, Work

\* Every step leaves the Boolean variables Boolean.
LEMMA FlagsStep ==
  ASSUME Flags, [Next]_vars
  PROVE  Flags'
<1> USE DEF Flags, flow, record, server, link, locals
<1>1. CASE FirstSteps
  BY <1>1 DEF FirstSteps, Begin, Connect, ConfigGrub, Tune, ConfigOther, Reboot
<1>2. CASE Items
  <2>1. CASE RunAgentPlan
    BY <2>1 DEF RunAgentPlan, Adding, SessionItems
  <2>2. CASE LeaveSession
    BY <2>2 DEF LeaveSession, DriverReboot
  <2>3. ASSUME NEW i \in Names, ItemStep(i) PROVE Flags'
    BY <2>3
       DEF ItemStep, Finish, DelegatedItem, SkipItem, InstallItem, Leaving, Adding,
           InstallCutOff, OtherItem
  <2>4. QED
    BY <1>2, <2>1, <2>2, <2>3 DEF Items
<1>3. CASE LinkStep \/ Drop
  BY <1>3
     DEF LinkStep, Drop, ExpectedDisconnect, Uncaught, DriverReboot, AnyError,
         Again, Announce, Reconnect, NoConnection, VerifyDriver
<1>4. CASE LastSteps
  BY <1>4
     DEF LastSteps, SaveRows, NothingToRepair, AskForRepair, NoRepair, Mend, Adding,
         MendFails, MarkFailed, DispatchCleanup, Forward
<1>5. CASE UNCHANGED vars
  BY <1>5 DEF vars
<1>6. QED
  BY <1>1, <1>2, <1>3, <1>4, <1>5 DEF Next, Work

\* Every step keeps the other types.
LEMMA TypeStep ==
  ASSUME TypeOK, Counters', Flags', [Next]_vars
  PROVE  TypeOK'
<1> USE DEF TypeOK, Points, Goto, Row, PreItems, PostItems, flow, record,
            server, link, locals
<1>1. CASE FirstSteps
  <2>1. CASE Begin
    BY <2>1, NameFacts, ItemFacts DEF Begin
  <2>2. CASE Connect
    BY <2>2, NameFacts, ItemFacts DEF Connect
  <2>3. CASE ConfigGrub
    BY <2>3, NameFacts, ItemFacts DEF ConfigGrub
  <2>4. CASE Tune
    BY <2>4, NameFacts, ItemFacts DEF Tune
  <2>5. CASE ConfigOther
    BY <2>5, NameFacts, ItemFacts DEF ConfigOther
  <2>6. CASE Reboot
    BY <2>6, NameFacts, ItemFacts DEF Reboot
  <2>7. QED
    BY <1>1, <2>1, <2>2, <2>3, <2>4, <2>5, <2>6 DEF FirstSteps
<1>2. CASE Items
  <2>1. CASE RunAgentPlan
    BY <2>1, NameFacts, ItemFacts DEF RunAgentPlan, Adding, SessionItems
  <2>2. CASE LeaveSession
    BY <2>2, NameFacts, ItemFacts DEF LeaveSession, DriverReboot
  <2>3. ASSUME NEW i \in Names, ItemStep(i) PROVE TypeOK'
    <3>1. CASE DelegatedItem(i)
      BY <3>1, NameFacts, ItemFacts DEF DelegatedItem, Finish
    <3>2. CASE SkipItem(i)
      BY <3>2, NameFacts, ItemFacts DEF SkipItem, Finish, Direct
    <3>3. CASE InstallItem(i)
      BY <3>3, NameFacts, ItemFacts DEF InstallItem, Leaving, Adding, Finish, Direct
    <3>4. CASE InstallCutOff(i)
      BY <3>4, NameFacts, ItemFacts DEF InstallCutOff, Leaving, Adding, Finish, Direct
    <3>5. CASE OtherItem(i)
      BY <3>5, NameFacts, ItemFacts DEF OtherItem, Leaving, Adding, Finish
    <3>6. QED
      BY <2>3, <3>1, <3>2, <3>3, <3>4, <3>5 DEF ItemStep
  <2>4. QED
    BY <1>2, <2>1, <2>2, <2>3 DEF Items
<1>3. CASE LinkStep \/ Drop
  <2>1. CASE Drop
    BY <2>1, NameFacts, ItemFacts DEF Drop
  <2>2. CASE ExpectedDisconnect
    BY <2>2, NameFacts, ItemFacts DEF ExpectedDisconnect, Uncaught, DriverReboot
  <2>3. CASE AnyError
    BY <2>3, NameFacts, ItemFacts DEF AnyError, Again, HandlerRaises
  <2>4. CASE Announce
    BY <2>4, NameFacts, ItemFacts DEF Announce
  <2>5. CASE Reconnect
    BY <2>5, NameFacts, ItemFacts DEF Reconnect
  <2>6. CASE NoConnection
    BY <2>6, NameFacts, ItemFacts DEF NoConnection
  <2>7. CASE VerifyDriver
    BY <2>7, NameFacts, ItemFacts DEF VerifyDriver
  <2>8. QED
    BY <1>3, <2>1, <2>2, <2>3, <2>4, <2>5, <2>6, <2>7 DEF LinkStep
<1>4. CASE LastSteps
  BY <1>4, NameFacts, ItemFacts
     DEF LastSteps, SaveRows, NothingToRepair, AskForRepair, NoRepair, Mend, Adding,
         MendFails, MarkFailed, DispatchCleanup, Forward
<1>5. CASE UNCHANGED vars
  BY <1>5 DEF vars
<1>6. QED
  BY <1>1, <1>2, <1>3, <1>4, <1>5 DEF Next, Work

\* All variables keep their types, for every constant.
THEOREM SwTypeCorrect == Spec => []TypeOK
<1>1. TypeOK /\ [Next]_vars => TypeOK'
  BY CountersStep, FlagsStep, TypeStep DEF TypeOK
<1>2. QED
  BY TypeInit, <1>1, PTL DEF Spec

-----------------------------------------------------------------------------
(* The inductive invariant, one lemma for each part.                       *)

\* The two sessions share the items of the job between them.
LEMMA NextItemFacts ==
  ASSUME TypeOK
  PROVE  /\ NextItems \subseteq Names /\ PreItems \subseteq Names /\ PostItems \subseteq Stack
         /\ PreItems \cap PostItems = {} /\ PostItems \subseteq NextItems
         /\ (~DriverAsked => PostItems = {} /\ NextItems = PreItems)
         /\ (DriverAsked => NextItems = PostItems)
BY ItemFacts, NameFacts DEF TypeOK, NextItems, PreItems, PostItems

\* The inductive invariant holds in every initial state.
LEMMA SwInit == Init => SwIInv
<1> SUFFICES ASSUME Init PROVE SwIInv
  OBVIOUS
<1>1. TypeOK
  BY TypeInit
<1>2. \A n \in RowNames : rows[n] = "none"
  BY DEF Init
<1>3. QED
  BY <1>1, <1>2, NameFacts
     DEF Init, SwIInv, StillToCome, CausesKnown, SkipHasCause, DriverKnown, BootsSoFar,
         OneReboot, ReadyToGo, Forwarded

\* No step changes what is asked of the worker.
LEMMA SameJob ==
  ASSUME [Next]_vars
  PROVE  /\ job' = job
         /\ PreItems' = PreItems /\ PostItems' = PostItems /\ NextItems' = NextItems
<1>1. Next => job' = job
  <2>1. FirstSteps => job' = job
    BY DEF FirstSteps, Begin, Connect, ConfigGrub, Tune, ConfigOther, Reboot
  <2>2. Items => job' = job
    BY DEF Items, RunAgentPlan, Adding, LeaveSession, DriverReboot, ItemStep,
           Finish, DelegatedItem, SkipItem, InstallItem, Leaving, InstallCutOff, OtherItem
  <2>3. LinkStep \/ Drop => job' = job
    BY DEF LinkStep, Drop, ExpectedDisconnect, Uncaught, DriverReboot, AnyError,
           Again, Announce, Reconnect, NoConnection, VerifyDriver
  <2>4. LastSteps => job' = job
    BY DEF LastSteps, SaveRows, NothingToRepair, AskForRepair, NoRepair, Mend,
           Adding, MendFails, MarkFailed, DispatchCleanup, Forward
  <2> QED
    BY <2>1, <2>2, <2>3, <2>4 DEF Next, Work
<1>2. job' = job
  BY <1>1 DEF vars
<1> QED
  BY <1>2 DEF PreItems, PostItems, NextItems, DriverAsked

\* What the handling of one item does to the results, whichever way it goes.
LEMMA FinishEffect ==
  ASSUME TypeOK, NEW i \in Names, NEW s \in {"pass", "fail", "warn"}, Finish(i, s)
  PROVE  /\ pc = "items" /\ pc' = "items" /\ session' = session
         /\ i \in todo /\ todo' = todo \ {i}
         /\ rows'[i] = s /\ \A n \in RowNames \ {i} : rows'[n] = rows[n]
         /\ failedDeps' \subseteq failedDeps \cup {i}
         /\ s = "pass" \/ i \notin SwNames => failedDeps' = failedDeps
         /\ grubReboot' = grubReboot /\ repaired' = repaired /\ sent' = sent
BY NameFacts DEF TypeOK, Finish, Coming, Row, flow, record, locals

\* Every way an item is handled finishes it, and a warning names its cause.
LEMMA ItemEffect ==
  ASSUME TypeOK, NEW i \in Names, ItemStep(i)
  PROVE  \E s \in {"pass", "fail", "warn"} :
           /\ Finish(i, s)
           /\ s = "warn" => i \in SwNames /\ Needs(i) \cap failedDeps # {}
<1>1. CASE DelegatedItem(i)
  BY <1>1 DEF DelegatedItem
<1>2. CASE SkipItem(i)
  BY <1>2, NameFacts DEF SkipItem, Direct
<1>3. CASE InstallItem(i)
  BY <1>3 DEF InstallItem
<1>4. CASE InstallCutOff(i)
  BY <1>4 DEF InstallCutOff
<1>5. CASE OtherItem(i)
  BY <1>5 DEF OtherItem
<1>6. QED
  BY <1>1, <1>2, <1>3, <1>4, <1>5 DEF ItemStep

\* The reboots of an attempt: none before the one the handler makes itself.
LEMMA BootsStep ==
  ASSUME SwIInv, TypeOK', [Next]_vars
  PROVE  BootsSoFar'
<1> USE DEF SwIInv, TypeOK, DriverAsked, BootsSoFar, StillToCome, OneReboot,
            Counters, Goto, flow, record, server, link, locals
<1>1. CASE FirstSteps
  <2>1. CASE Begin
    BY <2>1 DEF Begin
  <2>2. CASE Connect
    BY <2>2 DEF Connect
  <2>3. CASE ConfigGrub
    BY <2>3 DEF ConfigGrub
  <2>4. CASE Tune
    BY <2>4 DEF Tune
  <2>5. CASE ConfigOther
    BY <2>5 DEF ConfigOther
  <2>6. CASE Reboot
    BY <2>6 DEF Reboot
  <2>7. QED
    BY <1>1, <2>1, <2>2, <2>3, <2>4, <2>5, <2>6 DEF FirstSteps
<1>2. CASE Items
  <2>1. CASE RunAgentPlan
    BY <2>1 DEF RunAgentPlan, Adding, SessionItems
  <2>2. CASE LeaveSession
    BY <2>2 DEF LeaveSession, DriverReboot
  <2>3. ASSUME NEW i \in Names, ItemStep(i) PROVE BootsSoFar'
    BY <2>3
       DEF ItemStep, Finish, DelegatedItem, SkipItem, InstallItem, Leaving, Adding,
           InstallCutOff, OtherItem
  <2>4. QED
    BY <1>2, <2>1, <2>2, <2>3 DEF Items
<1>3. CASE LinkStep \/ Drop
  <2>1. CASE Drop
    BY <2>1 DEF Drop
  <2>2. CASE ExpectedDisconnect
    BY <2>2 DEF ExpectedDisconnect, Uncaught, DriverReboot
  <2>3. CASE AnyError
    BY <2>3 DEF AnyError, Again, HandlerRaises
  <2>4. CASE Announce
    BY <2>4 DEF Announce
  <2>5. CASE Reconnect
    BY <2>5 DEF Reconnect
  <2>6. CASE NoConnection
    BY <2>6 DEF NoConnection
  <2>7. CASE VerifyDriver
    BY <2>7 DEF VerifyDriver
  <2>8. QED
    BY <1>3, <2>1, <2>2, <2>3, <2>4, <2>5, <2>6, <2>7 DEF LinkStep
<1>4. CASE LastSteps
  BY <1>4
     DEF LastSteps, SaveRows, NothingToRepair, AskForRepair, NoRepair, Mend, Adding,
         MendFails, MarkFailed, DispatchCleanup, Forward
<1>5. CASE UNCHANGED vars
  BY <1>5, SameJob DEF vars
<1>6. QED
  BY <1>1, <1>2, <1>3, <1>4, <1>5 DEF Next, Work

\* What an attempt has not come to yet keeps having no row.
LEMMA StillToComeStep ==
  ASSUME SwIInv, TypeOK', [Next]_vars
  PROVE  StillToCome'
<1> USE DEF SwIInv, TypeOK, DriverAsked, StillToCome, BootsSoFar, NoRow, Goto,
            Row, flow, record, server, link, locals
<1>1. CASE FirstSteps
  <2>1. CASE Begin
    BY <2>1, NameFacts, NextItemFacts, SameJob DEF Begin
  <2>2. CASE Connect
    BY <2>2, NameFacts, NextItemFacts, SameJob DEF Connect
  <2>3. CASE ConfigGrub
    BY <2>3, NameFacts, NextItemFacts, SameJob DEF ConfigGrub
  <2>4. CASE Tune
    BY <2>4, NameFacts, NextItemFacts, SameJob DEF Tune
  <2>5. CASE ConfigOther
    BY <2>5, NameFacts, NextItemFacts, SameJob DEF ConfigOther
  <2>6. CASE Reboot
    BY <2>6, NameFacts, NextItemFacts, SameJob DEF Reboot
  <2>7. QED
    BY <1>1, <2>1, <2>2, <2>3, <2>4, <2>5, <2>6 DEF FirstSteps
<1>2. CASE Items
  <2>1. CASE RunAgentPlan
    BY <2>1, NameFacts, NextItemFacts, SameJob DEF RunAgentPlan, Adding, SessionItems
  <2>2. CASE LeaveSession
    BY <2>2, NameFacts, NextItemFacts, SameJob DEF LeaveSession, DriverReboot
  <2>3. ASSUME NEW i \in Names, ItemStep(i) PROVE StillToCome'
    <3>1. PICK s \in {"pass", "fail", "warn"} :
            Finish(i, s) /\ (s = "warn" => i \in SwNames /\ Needs(i) \cap failedDeps # {})
      BY <2>3, ItemEffect
    <3>2. QED
      BY <3>1, FinishEffect, NameFacts, NextItemFacts, SameJob
  <2>4. QED
    BY <1>2, <2>1, <2>2, <2>3 DEF Items
<1>3. CASE LinkStep \/ Drop
  <2>1. CASE Drop
    BY <2>1, NameFacts, NextItemFacts, SameJob DEF Drop
  <2>2. CASE ExpectedDisconnect
    BY <2>2, NameFacts, NextItemFacts, SameJob
       DEF ExpectedDisconnect, Uncaught, DriverReboot
  <2>3. CASE AnyError
    BY <2>3, NameFacts, NextItemFacts, SameJob DEF AnyError, Again, HandlerRaises
  <2>4. CASE Announce
    BY <2>4, NameFacts, NextItemFacts, SameJob DEF Announce
  <2>5. CASE Reconnect
    BY <2>5, NameFacts, NextItemFacts, SameJob DEF Reconnect
  <2>6. CASE NoConnection
    BY <2>6, NameFacts, NextItemFacts, SameJob DEF NoConnection
  <2>7. CASE VerifyDriver
    BY <2>7, NameFacts, NextItemFacts, SameJob DEF VerifyDriver
  <2>8. QED
    BY <1>3, <2>1, <2>2, <2>3, <2>4, <2>5, <2>6, <2>7 DEF LinkStep
<1>4. CASE LastSteps
  BY <1>4, NameFacts, NextItemFacts, SameJob
     DEF LastSteps, SaveRows, NothingToRepair, AskForRepair, NoRepair, Mend, Adding,
         MendFails, MarkFailed, DispatchCleanup, Forward
<1>5. CASE UNCHANGED vars
  BY <1>5, SameJob DEF vars
<1>6. QED
  BY <1>1, <1>2, <1>3, <1>4, <1>5 DEF Next, Work

\* A skipped item keeps the row that explains it.
LEMMA CausesStep ==
  ASSUME SwIInv, TypeOK', [Next]_vars
  PROVE  CausesKnown' /\ SkipHasCause'
<1> USE DEF SwIInv, TypeOK, DriverAsked, StillToCome, CausesKnown, SkipHasCause,
            Explained, DriverKnown, NoRow, Goto, Row, flow, record, server,
            link, locals
<1>1. CASE FirstSteps
  <2>1. CASE Begin
    BY <2>1, NameFacts, NeedsFacts DEF Begin
  <2>2. CASE Connect
    BY <2>2, NameFacts, NeedsFacts DEF Connect
  <2>3. CASE ConfigGrub
    BY <2>3, NameFacts, NeedsFacts DEF ConfigGrub
  <2>4. CASE Tune
    BY <2>4, NameFacts, NeedsFacts DEF Tune
  <2>5. CASE ConfigOther
    BY <2>5, NameFacts, NeedsFacts DEF ConfigOther
  <2>6. CASE Reboot
    BY <2>6, NameFacts, NeedsFacts DEF Reboot
  <2>7. QED
    BY <1>1, <2>1, <2>2, <2>3, <2>4, <2>5, <2>6 DEF FirstSteps
<1>2. CASE Items
  <2>1. CASE RunAgentPlan
    BY <2>1, NameFacts, NeedsFacts DEF RunAgentPlan, Adding, SessionItems
  <2>2. CASE LeaveSession
    BY <2>2, NameFacts, NeedsFacts DEF LeaveSession, DriverReboot
  <2>3. ASSUME NEW i \in Names, ItemStep(i) PROVE CausesKnown' /\ SkipHasCause'
    <3>1. PICK s \in {"pass", "fail", "warn"} :
            Finish(i, s) /\ (s = "warn" => i \in SwNames /\ Needs(i) \cap failedDeps # {})
      BY <2>3, ItemEffect
    <3>2. QED
      BY <3>1, FinishEffect, NameFacts, NeedsFacts
  <2>4. QED
    BY <1>2, <2>1, <2>2, <2>3 DEF Items
<1>3. CASE LinkStep \/ Drop
  <2>1. CASE Drop
    BY <2>1, NameFacts, NeedsFacts DEF Drop
  <2>2. CASE ExpectedDisconnect
    BY <2>2, NameFacts, NeedsFacts DEF ExpectedDisconnect, Uncaught, DriverReboot
  <2>3. CASE AnyError
    BY <2>3, NameFacts, NeedsFacts DEF AnyError, Again, HandlerRaises
  <2>4. CASE Announce
    BY <2>4, NameFacts, NeedsFacts DEF Announce
  <2>5. CASE Reconnect
    BY <2>5, NameFacts, NeedsFacts DEF Reconnect
  <2>6. CASE NoConnection
    BY <2>6, NameFacts, NeedsFacts DEF NoConnection
  <2>7. CASE VerifyDriver
    BY <2>7, NameFacts, NeedsFacts DEF VerifyDriver
  <2>8. QED
    BY <1>3, <2>1, <2>2, <2>3, <2>4, <2>5, <2>6, <2>7 DEF LinkStep
<1>4. CASE LastSteps
  BY <1>4, NameFacts, NeedsFacts
     DEF LastSteps, SaveRows, NothingToRepair, AskForRepair, NoRepair, Mend, Adding,
         MendFails, MarkFailed, DispatchCleanup, Forward
<1>5. CASE UNCHANGED vars
  BY <1>5, SameJob DEF vars
<1>6. QED
  BY <1>1, <1>2, <1>3, <1>4, <1>5 DEF Next, Work

\* What is known of the driver stays known, through reboot and verification.
LEMMA DriverStep ==
  ASSUME SwIInv, TypeOK', [Next]_vars
  PROVE  DriverKnown'
<1> USE DEF SwIInv, TypeOK, DriverAsked, StillToCome, CausesKnown, Explained,
            BootsSoFar, DriverKnown, Failures, Goto, Row, flow, record, server,
            link, locals
<1>1. CASE FirstSteps
  <2>1. CASE Begin
    BY <2>1, NameFacts, NextItemFacts, SameJob DEF Begin
  <2>2. CASE Connect
    BY <2>2, NameFacts, NextItemFacts, SameJob DEF Connect
  <2>3. CASE ConfigGrub
    BY <2>3, NameFacts, NextItemFacts, SameJob DEF ConfigGrub
  <2>4. CASE Tune
    BY <2>4, NameFacts, NextItemFacts, SameJob DEF Tune
  <2>5. CASE ConfigOther
    BY <2>5, NameFacts, NextItemFacts, SameJob DEF ConfigOther
  <2>6. CASE Reboot
    BY <2>6, NameFacts, NextItemFacts, SameJob DEF Reboot
  <2>7. QED
    BY <1>1, <2>1, <2>2, <2>3, <2>4, <2>5, <2>6 DEF FirstSteps
<1>2. CASE Items
  <2>1. CASE RunAgentPlan
    BY <2>1, NameFacts, NextItemFacts, SameJob DEF RunAgentPlan, Adding, SessionItems
  <2>2. CASE LeaveSession
    BY <2>2, NameFacts, NextItemFacts, SameJob, NeedsFacts
       DEF LeaveSession, DriverReboot
  <2>3. ASSUME NEW i \in Names, ItemStep(i) PROVE DriverKnown'
    <3>1. PICK s \in {"pass", "fail", "warn"} :
            Finish(i, s) /\ (s = "warn" => i \in SwNames /\ Needs(i) \cap failedDeps # {})
      BY <2>3, ItemEffect
    <3>2. QED
      BY <3>1, FinishEffect, NameFacts, NextItemFacts, SameJob
  <2>4. QED
    BY <1>2, <2>1, <2>2, <2>3 DEF Items
<1>3. CASE LinkStep \/ Drop
  <2>1. CASE Drop
    BY <2>1, NameFacts, NextItemFacts, SameJob DEF Drop
  <2>2. CASE ExpectedDisconnect
    BY <2>2, NameFacts, NextItemFacts, SameJob
       DEF ExpectedDisconnect, Uncaught, DriverReboot
  <2>3. CASE AnyError
    BY <2>3, NameFacts, NextItemFacts, SameJob DEF AnyError, Again, HandlerRaises
  <2>4. CASE Announce
    BY <2>4, NameFacts, NextItemFacts, SameJob DEF Announce
  <2>5. CASE Reconnect
    BY <2>5, NameFacts, NextItemFacts, SameJob DEF Reconnect
  <2>6. CASE NoConnection
    BY <2>6, NameFacts, NextItemFacts, SameJob DEF NoConnection
  <2>7. CASE VerifyDriver
    BY <2>7, NameFacts, NextItemFacts, SameJob DEF VerifyDriver
  <2>8. QED
    BY <1>3, <2>1, <2>2, <2>3, <2>4, <2>5, <2>6, <2>7 DEF LinkStep
<1>4. CASE LastSteps
  <2>1. CASE SaveRows
    BY <2>1, NameFacts, NextItemFacts, SameJob DEF SaveRows
  <2>2. CASE NothingToRepair
    BY <2>2, NameFacts, NextItemFacts, SameJob DEF NothingToRepair
  <2>3. CASE AskForRepair
    BY <2>3, NameFacts, NextItemFacts, SameJob DEF AskForRepair
  <2>4. CASE NoRepair
    BY <2>4, NameFacts, NextItemFacts, SameJob DEF NoRepair
  <2>5. CASE Mend
    BY <2>5, NameFacts, NextItemFacts, SameJob DEF Mend, Adding
  <2>6. CASE MendFails
    BY <2>6, NameFacts, NextItemFacts, SameJob DEF MendFails
  <2>7. CASE MarkFailed
    BY <2>7, NameFacts, NextItemFacts, SameJob DEF MarkFailed
  <2>8. CASE DispatchCleanup
    BY <2>8, NameFacts, NextItemFacts, SameJob DEF DispatchCleanup
  <2>9. CASE Forward
    BY <2>9, NameFacts, NextItemFacts, SameJob DEF Forward
  <2>10. QED
    BY <1>4, <2>1, <2>2, <2>3, <2>4, <2>5, <2>6, <2>7, <2>8, <2>9 DEF LastSteps
<1>5. CASE UNCHANGED vars
  BY <1>5, SameJob DEF vars
<1>6. QED
  BY <1>1, <1>2, <1>3, <1>4, <1>5 DEF Next, Work

\* Only a clean or a repaired attempt reaches the hand-over.
LEMMA ReadyStep ==
  ASSUME SwIInv, TypeOK', [Next]_vars
  PROVE  ReadyToGo'
<1> USE DEF SwIInv, TypeOK, DriverAsked, ReadyToGo, Forwarded, Failures,
            DriverKnown, Goto, Row, flow, record, server, link, locals
<1>1. CASE FirstSteps
  <2>1. CASE Begin
    BY <2>1, NameFacts, SameJob DEF Begin
  <2>2. CASE Connect
    BY <2>2, NameFacts, SameJob DEF Connect
  <2>3. CASE ConfigGrub
    BY <2>3, NameFacts, SameJob DEF ConfigGrub
  <2>4. CASE Tune
    BY <2>4, NameFacts, SameJob DEF Tune
  <2>5. CASE ConfigOther
    BY <2>5, NameFacts, SameJob DEF ConfigOther
  <2>6. CASE Reboot
    BY <2>6, NameFacts, SameJob DEF Reboot
  <2>7. QED
    BY <1>1, <2>1, <2>2, <2>3, <2>4, <2>5, <2>6 DEF FirstSteps
<1>2. CASE Items
  <2>1. CASE RunAgentPlan
    BY <2>1, NameFacts, SameJob DEF RunAgentPlan, Adding, SessionItems
  <2>2. CASE LeaveSession
    BY <2>2, NameFacts, SameJob DEF LeaveSession, DriverReboot
  <2>3. ASSUME NEW i \in Names, ItemStep(i) PROVE ReadyToGo'
    <3>1. PICK s \in {"pass", "fail", "warn"} :
            Finish(i, s) /\ (s = "warn" => i \in SwNames /\ Needs(i) \cap failedDeps # {})
      BY <2>3, ItemEffect
    <3>2. QED
      BY <3>1, FinishEffect, NameFacts, SameJob
  <2>4. QED
    BY <1>2, <2>1, <2>2, <2>3 DEF Items
<1>3. CASE LinkStep \/ Drop
  <2>1. CASE Drop
    BY <2>1, NameFacts, SameJob DEF Drop
  <2>2. CASE ExpectedDisconnect
    BY <2>2, NameFacts, SameJob DEF ExpectedDisconnect, Uncaught, DriverReboot
  <2>3. CASE AnyError
    BY <2>3, NameFacts, SameJob DEF AnyError, Again, HandlerRaises
  <2>4. CASE Announce
    BY <2>4, NameFacts, SameJob DEF Announce
  <2>5. CASE Reconnect
    BY <2>5, NameFacts, SameJob DEF Reconnect
  <2>6. CASE NoConnection
    BY <2>6, NameFacts, SameJob DEF NoConnection
  <2>7. CASE VerifyDriver
    BY <2>7, NameFacts, SameJob DEF VerifyDriver
  <2>8. QED
    BY <1>3, <2>1, <2>2, <2>3, <2>4, <2>5, <2>6, <2>7 DEF LinkStep
<1>4. CASE LastSteps
  <2>1. CASE SaveRows
    BY <2>1, NameFacts, SameJob DEF SaveRows
  <2>2. CASE NothingToRepair
    BY <2>2, NameFacts, SameJob DEF NothingToRepair
  <2>3. CASE AskForRepair
    BY <2>3, NameFacts, SameJob DEF AskForRepair
  <2>4. CASE NoRepair
    BY <2>4, NameFacts, SameJob DEF NoRepair
  <2>5. CASE Mend
    BY <2>5, NameFacts, SameJob DEF Mend, Adding
  <2>6. CASE MendFails
    BY <2>6, NameFacts, SameJob DEF MendFails
  <2>7. CASE MarkFailed
    BY <2>7, NameFacts, SameJob DEF MarkFailed
  <2>8. CASE DispatchCleanup
    BY <2>8, NameFacts, SameJob DEF DispatchCleanup
  <2>9. CASE Forward
    BY <2>9, NameFacts, SameJob DEF Forward
  <2>10. QED
    BY <1>4, <2>1, <2>2, <2>3, <2>4, <2>5, <2>6, <2>7, <2>8, <2>9 DEF LastSteps
<1>5. CASE UNCHANGED vars
  BY <1>5, SameJob DEF vars
<1>6. QED
  BY <1>1, <1>2, <1>3, <1>4, <1>5 DEF Next, Work

-----------------------------------------------------------------------------
(* Safety.                                                                 *)

\* The invariant of the run over all interleavings holds for every job, every
\* number of retries and every number of dropped connections.
THEOREM SwInductive == Spec => []SwIInv
<1>1. SwIInv /\ [Next]_vars => SwIInv'
  <2> SUFFICES ASSUME SwIInv, [Next]_vars PROVE SwIInv'
    OBVIOUS
  <2>1. TypeOK'
    BY CountersStep, FlagsStep, TypeStep DEF SwIInv, TypeOK
  <2>2. QED
    BY <2>1, StillToComeStep, CausesStep, DriverStep, BootsStep, ReadyStep DEF SwIInv
<1>2. QED
  BY SwInit, <1>1, PTL DEF Spec

\* A skipped item has a failed dependency among the rows of its attempt.
THEOREM SkipsHaveCauses == Spec => []SkipHasCause
<1>1. SwIInv => SkipHasCause
  BY DEF SwIInv
<1>2. QED
  BY SwInductive, <1>1, PTL

\* Nothing failed or skipped reaches the inspection without a recovery.
THEOREM FailuresStay == Spec => []FailureNeverForwarded
<1>1. SwIInv => FailureNeverForwarded
  <2> SUFFICES ASSUME SwIInv, Forwarded, ~repaired
               PROVE  Failures = {} /\ \A i \in Names : rows[i] \in {"none", "pass"}
    BY DEF FailureNeverForwarded
  <2>1. Failures = {}
    BY DEF SwIInv, ReadyToGo
  <2>2. \A n \in RowNames : rows[n] # "fail"
    BY <2>1 DEF Failures
  <2>3. \A i \in SwNames : rows[i] # "warn"
    BY <2>2, NameFacts, NeedsFacts DEF SwIInv, SkipHasCause
  <2>4. \A i \in Names \ SwNames : rows[i] # "warn"
    BY DEF SwIInv, CausesKnown
  <2>5. QED
    BY <2>1, <2>2, <2>3, <2>4, NameFacts DEF SwIInv, TypeOK
<1>2. QED
  BY SwInductive, <1>1, PTL

\* No stack goes on whose driver did not answer, unless the recovery ran through.
THEOREM StackVerified == Spec => []StackIsVerified
<1>1. SwIInv => StackIsVerified
  BY DEF SwIInv, ReadyToGo, StackIsVerified
<1>2. QED
  BY SwInductive, <1>1, PTL

\* No attempt gives the server two reboots.
THEOREM RebootsOnce == Spec => []OneReboot
<1>1. SwIInv => OneReboot
  BY DEF SwIInv, BootsSoFar
<1>2. QED
  BY SwInductive, <1>1, PTL

-----------------------------------------------------------------------------
(* Attempts during which no connection drops.                              *)

HaveRows(items) == \A i \in items : rows[i] # "none"

\* Past the first session of a job that asks for the driver.
PastFirst ==
  /\ DriverAsked
  /\ pc \in {"reboot", "waiting", "polling", "verify"} \/ (session = 2 /\ pc \in {"agent", "items"})

\* Every disconnect is the reboot's, and what was left behind has its row.
NothingLost ==
  /\ InSession => up
  /\ pc = "items" => HaveRows(SessionItems \ todo)
  /\ PastFirst => HaveRows(PreItems)
  /\ pc = "save" => HaveRows(job.items \ DroppedSession)
  /\ pc \in {"recover", "mend", "forward"} \/ Forwarded =>
       job.items \ saved \subseteq DroppedSession

\* A driver the agent was to install is there, or is known to have failed, when
\* its turn comes; the second execution of the plan finds it installed.
DriverDelegated ==
  /\ ~DriverAsked => "nvidia_driver" \notin pending
  /\ pc = "items" => todo \subseteq SessionItems
  /\ pc = "items" /\ session = 1 /\ "nvidia_driver" \in job.agent =>
       IF agentOk THEN plan = "steps" => "nvidia_driver" \in installed
                  ELSE "nvidia_driver" \in todo \cup failedDeps

\* After a reboot that took effect the driver no longer waits for one.
DriverLive ==
  PastFirst =>
    /\ "nvidia_driver" \in job.agent /\ plan = "steps" => "nvidia_driver" \in installed
    /\ pc # "reboot" /\ ~misfired => "nvidia_driver" \notin pending

DropFreeIInv == SwIInv /\ DriverDelegated /\ (drops = 0 => NothingLost /\ DriverLive)

\* The agent is asked for items of the request only.
LEMMA AgentFacts ==
  ASSUME TypeOK
  PROVE  /\ job.agent \subseteq job.items
         /\ DriverAsked => "nvidia_driver" \in PreItems
         /\ SessionItems \subseteq job.items
<1>1. job.agent \subseteq job.items
  BY JobsAssumption DEF TypeOK, JobType, Misses
<1> QED
  BY <1>1 DEF DriverAsked, SessionItems, PreItems, PostItems, Stack

\* The delegated driver, at every step.
LEMMA DelegatedStep ==
  ASSUME SwIInv, DriverDelegated, [Next]_vars
  PROVE  DriverDelegated'
<1> USE DEF SwIInv, TypeOK, StillToCome, DriverDelegated, DriverAsked, SessionItems, Goto,
   flow, record, server, link, locals
<1>1. CASE FirstSteps
  <2>1. CASE Begin
    BY <2>1, NameFacts, NextItemFacts, AgentFacts, SameJob DEF Begin
  <2>2. CASE Connect
    BY <2>2, NameFacts, NextItemFacts, AgentFacts, SameJob DEF Connect
  <2>3. CASE ConfigGrub
    BY <2>3, NameFacts, NextItemFacts, AgentFacts, SameJob DEF ConfigGrub
  <2>4. CASE Tune
    BY <2>4, NameFacts, NextItemFacts, AgentFacts, SameJob DEF Tune
  <2>5. CASE ConfigOther
    BY <2>5, NameFacts, NextItemFacts, AgentFacts, SameJob DEF ConfigOther
  <2>6. CASE Reboot
    BY <2>6, NameFacts, NextItemFacts, AgentFacts, SameJob DEF Reboot
  <2> QED
    BY <1>1, <2>1, <2>2, <2>3, <2>4, <2>5, <2>6 DEF FirstSteps
<1>2. CASE Items
  <2>1. CASE RunAgentPlan
    <3>1. SessionItems' = SessionItems /\ todo' = SessionItems
      BY <2>1, SameJob DEF RunAgentPlan
    <3>2. "nvidia_driver" \in pending' =>
            "nvidia_driver" \in pending \/ "nvidia_driver" \in job.agent
      BY <2>1 DEF RunAgentPlan, Adding
    <3>3. ASSUME session = 1, "nvidia_driver" \in job.agent
          PROVE  IF agentOk' THEN plan' = "steps" => "nvidia_driver" \in installed'
                             ELSE "nvidia_driver" \in todo'
      BY <2>1, <3>1, <3>3, AgentFacts DEF RunAgentPlan, Delegated, PlanDoes, Adding
    <3> QED
      BY <2>1, <3>1, <3>2, <3>3, AgentFacts, SameJob DEF RunAgentPlan
  <2>2. CASE LeaveSession
    BY <2>2, NameFacts, NextItemFacts, AgentFacts, SameJob DEF LeaveSession, DriverReboot
  <2>3. ASSUME NEW i \in Names, ItemStep(i) PROVE DriverDelegated'
    <3>1. PICK s \in {"pass", "fail", "warn"} : Finish(i, s)
      BY <2>3, ItemEffect
    <3>2. /\ agentOk' = agentOk /\ plan' = plan /\ installed \subseteq installed'
          /\ "nvidia_driver" \in pending' => "nvidia_driver" \in pending \/ i = "nvidia_driver"
      BY <2>3, <3>1 DEF Finish, ItemStep, DelegatedItem, SkipItem, InstallItem,
         InstallCutOff,
         OtherItem, Leaving, Adding
    <3>3. i \in job.agent /\ ~agentOk => failedDeps' = failedDeps \cup {i}
      BY <2>3, ItemFacts DEF ItemStep, DelegatedItem, SkipItem, InstallItem, InstallCutOff,
         OtherItem, Direct, Finish
    <3>4. /\ pc = "items" /\ pc' = "items" /\ session' = session /\ SessionItems' = SessionItems
          /\ i \in todo /\ todo' = todo \ {i}
      BY <3>1, FinishEffect, SameJob
    <3>5. failedDeps \subseteq failedDeps'
      BY <3>1 DEF Finish
    <3>6. ~DriverAsked => "nvidia_driver" \notin pending'
      BY <3>2, <3>4, AgentFacts
    <3>7. ASSUME session = 1, "nvidia_driver" \in job.agent
          PROVE  IF agentOk' THEN plan' = "steps" => "nvidia_driver" \in installed'
                             ELSE "nvidia_driver" \in todo' \cup failedDeps'
      BY <3>2, <3>3, <3>4, <3>5, <3>7
    <3> QED
      BY <3>4, <3>6, <3>7, SameJob
  <2> QED
    BY <1>2, <2>1, <2>2, <2>3 DEF Items
<1>3. CASE LinkStep \/ Drop
  <2>1. CASE Drop
    BY <2>1, NameFacts, NextItemFacts, AgentFacts, SameJob DEF Drop
  <2>2. CASE ExpectedDisconnect
    BY <2>2, NameFacts, NextItemFacts, AgentFacts, SameJob DEF ExpectedDisconnect,
       Uncaught, DriverReboot
  <2>3. CASE AnyError
    BY <2>3, NameFacts, NextItemFacts, AgentFacts, SameJob DEF AnyError, Again, HandlerRaises
  <2>4. CASE Announce
    BY <2>4, NameFacts, NextItemFacts, AgentFacts, SameJob DEF Announce
  <2>5. CASE Reconnect
    BY <2>5, NameFacts, NextItemFacts, AgentFacts, SameJob DEF Reconnect
  <2>6. CASE NoConnection
    BY <2>6, NameFacts, NextItemFacts, AgentFacts, SameJob DEF NoConnection
  <2>7. CASE VerifyDriver
    BY <2>7, NameFacts, NextItemFacts, AgentFacts, SameJob DEF VerifyDriver
  <2> QED
    BY <1>3, <2>1, <2>2, <2>3, <2>4, <2>5, <2>6, <2>7 DEF LinkStep
<1>4. CASE LastSteps
  <2>1. CASE SaveRows
    BY <2>1, NameFacts, NextItemFacts, AgentFacts, SameJob DEF SaveRows
  <2>2. CASE NothingToRepair
    BY <2>2, NameFacts, NextItemFacts, AgentFacts, SameJob DEF NothingToRepair
  <2>3. CASE AskForRepair
    BY <2>3, NameFacts, NextItemFacts, AgentFacts, SameJob DEF AskForRepair
  <2>4. CASE NoRepair
    BY <2>4, NameFacts, NextItemFacts, AgentFacts, SameJob DEF NoRepair
  <2>5. CASE Mend
    BY <2>5, NameFacts, NextItemFacts, AgentFacts, SameJob DEF Mend, Adding
  <2>6. CASE MendFails
    BY <2>6, NameFacts, NextItemFacts, AgentFacts, SameJob DEF MendFails
  <2>7. CASE MarkFailed
    BY <2>7, NameFacts, NextItemFacts, AgentFacts, SameJob DEF MarkFailed
  <2>8. CASE DispatchCleanup
    BY <2>8, NameFacts, NextItemFacts, AgentFacts, SameJob DEF DispatchCleanup
  <2>9. CASE Forward
    BY <2>9, NameFacts, NextItemFacts, AgentFacts, SameJob DEF Forward
  <2> QED
    BY <1>4, <2>1, <2>2, <2>3, <2>4, <2>5, <2>6, <2>7, <2>8, <2>9 DEF LastSteps
<1>5. CASE UNCHANGED vars
  BY <1>5, SameJob DEF vars
<1> QED
  BY <1>1, <1>2, <1>3, <1>4, <1>5 DEF Next, Work

\* A drop stays counted.
LEMMA DropsStay ==
  ASSUME TypeOK, [Next]_vars, drops' = 0
  PROVE  drops = 0
<1> USE DEF TypeOK, Counters, flow, record, server, link, locals
<1>1. CASE FirstSteps \/ LastSteps
  BY <1>1 DEF FirstSteps, Begin, Connect, ConfigGrub, Tune, ConfigOther, Reboot, LastSteps,
     SaveRows, NothingToRepair, AskForRepair, NoRepair, Mend, Adding, MendFails, MarkFailed,
     DispatchCleanup, Forward
<1>2. CASE Items
  BY <1>2 DEF Items, RunAgentPlan, Adding, LeaveSession, ItemStep, DelegatedItem, SkipItem,
     InstallItem, InstallCutOff, OtherItem, Leaving, Finish
<1>3. CASE LinkStep \/ Drop \/ UNCHANGED vars
  BY <1>3 DEF LinkStep, Drop, ExpectedDisconnect, AnyError, Again, HandlerRaises, Announce, Reconnect,
     NoConnection, VerifyDriver, vars
<1> QED
  BY <1>1, <1>2, <1>3 DEF Next, Work

\* Without a drop no item of either session is lost.
LEMMA NothingLostStep ==
  ASSUME SwIInv, DriverDelegated, NothingLost, drops = 0, drops' = 0, [Next]_vars
  PROVE  NothingLost'
<1> USE DEF SwIInv, TypeOK, Counters, StillToCome, DriverDelegated, DriverAsked,
   SessionItems, NothingLost, PastFirst,
           HaveRows, DroppedSession, InSession, ReadyToGo, Forwarded, Goto, Row, flow,
           record, server, link, locals
<1>1. CASE FirstSteps
  <2>1. CASE Begin
    BY <2>1, NameFacts, NextItemFacts, AgentFacts, SameJob DEF Begin
  <2>2. CASE Connect
    BY <2>2, NameFacts, NextItemFacts, AgentFacts, SameJob DEF Connect
  <2>3. CASE ConfigGrub
    BY <2>3, NameFacts, NextItemFacts, AgentFacts, SameJob DEF ConfigGrub
  <2>4. CASE Tune
    BY <2>4, NameFacts, NextItemFacts, AgentFacts, SameJob DEF Tune
  <2>5. CASE ConfigOther
    BY <2>5, NameFacts, NextItemFacts, AgentFacts, SameJob DEF ConfigOther
  <2>6. CASE Reboot
    BY <2>6, NameFacts, NextItemFacts, AgentFacts, SameJob DEF Reboot
  <2> QED
    BY <1>1, <2>1, <2>2, <2>3, <2>4, <2>5, <2>6 DEF FirstSteps
<1>2. CASE Items
  <2>1. CASE RunAgentPlan
    BY <2>1, NameFacts, NextItemFacts, AgentFacts, SameJob DEF RunAgentPlan, Delegated,
       PlanDoes, Adding
  <2>2. CASE LeaveSession
    <3>1. /\ pc = "items" /\ todo = {} /\ UNCHANGED <<rows, session, sent, up>>
          /\ pc' \in {"reboot", "save"}
      BY <2>2 DEF LeaveSession
    <3>2. HaveRows(SessionItems)
      BY <3>1
    <3>3. pc' = "reboot" => session = 1 /\ DriverReboot
      BY <2>2 DEF LeaveSession
    <3>4. CASE pc' = "reboot"
      BY <3>1, <3>2, <3>3, <3>4, SameJob DEF DriverReboot, ReadyToGo
    <3>5. CASE pc' = "save"
      <4>1. session = 1 => ~DriverReboot
        BY <2>2, <3>5 DEF LeaveSession
      <4>2. "nvidia_driver" \in failedDeps /\ session = 1 => rows["nvidia_driver"] = "fail"
        BY NeedsFacts DEF CausesKnown, Explained, DriverKnown
      <4>3. HaveRows(job.items \ DroppedSession)
        <5>1. CASE session = 2 /\ DriverAsked
          BY <5>1, <3>1, <3>2 DEF PreItems
        <5>2. CASE session = 1 /\ DriverAsked
          BY <5>2, <4>1, <4>2, <3>2 DEF DriverReboot, PreItems
        <5>3. CASE ~DriverAsked
          BY <5>3, <3>2 DEF PreItems, PostItems
        <5> QED
          BY <5>1, <5>2, <5>3
      <4>4. DroppedSession' = DroppedSession /\ job' = job
        BY <3>1, SameJob
      <4> QED
        BY <3>1, <3>5, <4>3, <4>4 DEF ReadyToGo
    <3> QED
      BY <3>1, <3>4, <3>5
  <2>3. ASSUME NEW i \in Names, ItemStep(i) PROVE NothingLost'
    <3>1. PICK s \in {"pass", "fail", "warn"} : Finish(i, s)
      BY <2>3, ItemEffect
    <3>2. /\ pc = "items" /\ pc' = "items" /\ session' = session /\ SessionItems' = SessionItems
          /\ todo' = todo \ {i} /\ sent' = sent /\ PreItems' = PreItems
          /\ \A n \in RowNames : rows'[n] = "none" => rows[n] = "none" /\ n # i
      BY <3>1, FinishEffect, SameJob
    <3>3. ~Forwarded /\ ~Forwarded'
      BY <3>2 DEF ReadyToGo, Forwarded
    <3>4. up'
      BY <3>1 DEF Finish, InSession
    <3> QED
      BY <3>2, <3>3, <3>4, NameFacts, NextItemFacts, SameJob
  <2> QED
    BY <1>2, <2>1, <2>2, <2>3 DEF Items
<1>3. CASE LinkStep \/ Drop
  <2>1. CASE Drop
    BY <2>1, NameFacts, NextItemFacts, AgentFacts, SameJob DEF Drop
  <2>2. CASE ExpectedDisconnect
    BY <2>2, NameFacts, NextItemFacts, AgentFacts, SameJob DEF ExpectedDisconnect,
       Uncaught, DriverReboot
  <2>3. CASE AnyError
    BY <2>3, NameFacts, NextItemFacts, AgentFacts, SameJob DEF AnyError, Again, HandlerRaises
  <2>4. CASE Announce
    BY <2>4, NameFacts, NextItemFacts, AgentFacts, SameJob DEF Announce
  <2>5. CASE Reconnect
    BY <2>5, NameFacts, NextItemFacts, AgentFacts, SameJob DEF Reconnect
  <2>6. CASE NoConnection
    BY <2>6, NameFacts, NextItemFacts, AgentFacts, SameJob DEF NoConnection
  <2>7. CASE VerifyDriver
    BY <2>7, NameFacts, NextItemFacts, AgentFacts, SameJob DEF VerifyDriver
  <2> QED
    BY <1>3, <2>1, <2>2, <2>3, <2>4, <2>5, <2>6, <2>7 DEF LinkStep
<1>4. CASE LastSteps
  <2>1. CASE SaveRows
    <3>1. saved' = saved \cup {n \in RowNames : rows[n] # "none"} /\ rows' = rows
      BY <2>1 DEF SaveRows
    <3>2. job.items \ saved' \subseteq DroppedSession /\ DroppedSession' = DroppedSession
      BY <2>1, <3>1, ItemFacts, NameFacts, SameJob DEF SaveRows
    <3> QED
      BY <2>1, <3>1, <3>2, SameJob DEF SaveRows
  <2>2. CASE NothingToRepair
    BY <2>2, NameFacts, NextItemFacts, AgentFacts, SameJob DEF NothingToRepair
  <2>3. CASE AskForRepair
    BY <2>3, NameFacts, NextItemFacts, AgentFacts, SameJob DEF AskForRepair
  <2>4. CASE NoRepair
    BY <2>4, NameFacts, NextItemFacts, AgentFacts, SameJob DEF NoRepair
  <2>5. CASE Mend
    BY <2>5, NameFacts, NextItemFacts, AgentFacts, SameJob DEF Mend, Adding
  <2>6. CASE MendFails
    BY <2>6, NameFacts, NextItemFacts, AgentFacts, SameJob DEF MendFails
  <2>7. CASE MarkFailed
    BY <2>7, NameFacts, NextItemFacts, AgentFacts, SameJob DEF MarkFailed
  <2>8. CASE DispatchCleanup
    BY <2>8, NameFacts, NextItemFacts, AgentFacts, SameJob DEF DispatchCleanup
  <2>9. CASE Forward
    BY <2>9, NameFacts, NextItemFacts, AgentFacts, SameJob DEF Forward
  <2> QED
    BY <1>4, <2>1, <2>2, <2>3, <2>4, <2>5, <2>6, <2>7, <2>8, <2>9 DEF LastSteps
<1>5. CASE UNCHANGED vars
  BY <1>5, SameJob DEF vars
<1> QED
  BY <1>1, <1>2, <1>3, <1>4, <1>5 DEF Next, Work

\* Without a drop the driver runs before the second session begins.
LEMMA DriverLiveStep ==
  ASSUME SwIInv, DriverDelegated, NothingLost, DriverLive, drops = 0, drops' = 0, [Next]_vars
  PROVE  DriverLive'
<1> USE DEF SwIInv, TypeOK, Counters, StillToCome, DriverDelegated, DriverAsked,
   SessionItems, DriverLive, PastFirst,
           NothingLost, InSession, Goto, flow, record, server, link, locals
<1>1. CASE FirstSteps
  <2>1. CASE Begin
    BY <2>1, SameJob DEF Begin
  <2>2. CASE Connect
    BY <2>2, SameJob DEF Connect
  <2>3. CASE ConfigGrub
    BY <2>3, SameJob DEF ConfigGrub
  <2>4. CASE Tune
    BY <2>4, SameJob DEF Tune
  <2>5. CASE ConfigOther
    BY <2>5, SameJob DEF ConfigOther
  <2>6. CASE Reboot
    BY <2>6, SameJob DEF Reboot
  <2> QED
    BY <1>1, <2>1, <2>2, <2>3, <2>4, <2>5, <2>6 DEF FirstSteps
<1>2. CASE Items
  <2>1. CASE RunAgentPlan
    <3>1. /\ pc = "agent" /\ session' = session /\ plan' = plan /\ installed \subseteq installed'
          /\ misfired' = misfired
      BY <2>1 DEF RunAgentPlan, Adding
    <3>2. ASSUME "nvidia_driver" \in pending' PROVE
            \/ "nvidia_driver" \in pending
            \/ "nvidia_driver" \in job.agent \ installed /\ plan = "steps"
      BY <2>1, <3>2 DEF RunAgentPlan, PlanDoes, Adding
    <3> QED
      BY <2>1, <3>1, <3>2, SameJob DEF RunAgentPlan
  <2>2. CASE LeaveSession
    <3>1. /\ pc = "items" /\ todo = {}
          /\ UNCHANGED <<session, plan, installed, pending, misfired>>
          /\ pc' = "reboot" => session = 1 /\ DriverReboot
          /\ pc' \in {"reboot", "save"}
      BY <2>2 DEF LeaveSession
    <3> QED
      BY <3>1, SameJob DEF DriverReboot
  <2>3. ASSUME NEW i \in Names, ItemStep(i) PROVE DriverLive'
    <3>1. PICK s \in {"pass", "fail", "warn"} : Finish(i, s)
      BY <2>3, ItemEffect
    <3>2. /\ pc = "items" /\ pc' = "items" /\ session' = session
          /\ i \in todo /\ plan' = plan /\ installed \subseteq installed'
          /\ misfired' = misfired
          /\ "nvidia_driver" \in pending' => "nvidia_driver" \in pending \/ i = "nvidia_driver"
      BY <2>3, <3>1, FinishEffect DEF Finish, ItemStep, DelegatedItem, SkipItem,
         InstallItem,
         InstallCutOff, OtherItem, Leaving, Adding
    <3>3. session = 2 /\ DriverAsked => i # "nvidia_driver"
      BY <3>2 DEF PostItems, Stack
    <3> QED
      BY <3>2, <3>3, SameJob
  <2> QED
    BY <1>2, <2>1, <2>2, <2>3 DEF Items
<1>3. CASE LinkStep \/ Drop
  <2>1. CASE Drop
    BY <2>1, SameJob DEF Drop
  <2>2. CASE ExpectedDisconnect
    BY <2>2, SameJob DEF ExpectedDisconnect, Uncaught, DriverReboot
  <2>3. CASE AnyError
    BY <2>3, SameJob DEF AnyError, Again, HandlerRaises
  <2>4. CASE Announce
    BY <2>4, SameJob DEF Announce
  <2>5. CASE Reconnect
    BY <2>5, SameJob DEF Reconnect
  <2>6. CASE NoConnection
    BY <2>6, SameJob DEF NoConnection
  <2>7. CASE VerifyDriver
    BY <2>7, SameJob DEF VerifyDriver
  <2> QED
    BY <1>3, <2>1, <2>2, <2>3, <2>4, <2>5, <2>6, <2>7 DEF LinkStep
<1>4. CASE LastSteps
  <2>1. CASE SaveRows
    BY <2>1, SameJob DEF SaveRows
  <2>2. CASE NothingToRepair
    BY <2>2, SameJob DEF NothingToRepair
  <2>3. CASE AskForRepair
    BY <2>3, SameJob DEF AskForRepair
  <2>4. CASE NoRepair
    BY <2>4, SameJob DEF NoRepair
  <2>5. CASE Mend
    BY <2>5, SameJob DEF Mend, Adding
  <2>6. CASE MendFails
    BY <2>6, SameJob DEF MendFails
  <2>7. CASE MarkFailed
    BY <2>7, SameJob DEF MarkFailed
  <2>8. CASE DispatchCleanup
    BY <2>8, SameJob DEF DispatchCleanup
  <2>9. CASE Forward
    BY <2>9, SameJob DEF Forward
  <2> QED
    BY <1>4, <2>1, <2>2, <2>3, <2>4, <2>5, <2>6, <2>7, <2>8, <2>9 DEF LastSteps
<1>5. CASE UNCHANGED vars
  BY <1>5, SameJob DEF vars
<1> QED
  BY <1>1, <1>2, <1>3, <1>4, <1>5 DEF Next, Work

\* The two sessions fit together, in every attempt without a drop.
THEOREM DropFreeInductive == Spec => []DropFreeIInv
<1>1. Init => DropFreeIInv
  <2> SUFFICES ASSUME Init PROVE DropFreeIInv
    OBVIOUS
  <2> QED
    BY SwInit DEF Init, DropFreeIInv, DriverDelegated, NothingLost, DroppedSession, DriverLive, PastFirst,
       InSession,
       Forwarded
<1>2. DropFreeIInv /\ SwIInv' /\ [Next]_vars => DropFreeIInv'
  <2> SUFFICES ASSUME DropFreeIInv, SwIInv', [Next]_vars PROVE DropFreeIInv'
    OBVIOUS
  <2>1. DriverDelegated'
    BY DelegatedStep DEF DropFreeIInv
  <2>2. ASSUME drops' = 0 PROVE NothingLost' /\ DriverLive'
    <3>1. drops = 0
      BY <2>2, DropsStay DEF DropFreeIInv, SwIInv
    <3> QED
      BY <2>2, <3>1, NothingLostStep, DriverLiveStep DEF DropFreeIInv
  <2> QED
    BY <2>1, <2>2 DEF DropFreeIInv
<1> QED
  BY <1>1, <1>2, SwInductive, PTL DEF Spec

\* Every item of a forwarded request has its row, whichever session it was in, but
\* for those of the session a failed driver dropped.
THEOREM ItemsAreAccountedFor == Spec => []ItemsAccountedFor
<1>1. DropFreeIInv => ItemsAccountedFor
  BY DEF DropFreeIInv, NothingLost, ItemsAccountedFor
<1> QED
  BY <1>1, DropFreeInductive, PTL

\* Of a step that installs something of the stack directly: it is the handling of
\* an item, and reboots nothing.
LEMMA StackInstalled ==
  ASSUME DropFreeIInv, Next, pc # "mend",
         NEW i \in Stack \ job.agent, i \in installed', i \notin installed
  PROVE  pc = "items" /\ i \in todo /\ i \in SwNames /\ misfired' = misfired
<1> USE DEF server, record, link, locals, flow
<1>1. CASE FirstSteps \/ LastSteps
  BY <1>1 DEF FirstSteps, Begin, Connect, ConfigGrub, Tune, ConfigOther, Reboot, LastSteps,
     SaveRows, NothingToRepair, AskForRepair, NoRepair, Mend, MendFails, MarkFailed,
     DispatchCleanup, Forward
<1>2. CASE Items
  <2>1. CASE RunAgentPlan
    BY <2>1 DEF RunAgentPlan, Adding
  <2>2. CASE LeaveSession
    BY <2>2 DEF LeaveSession
  <2>3. ASSUME NEW n \in Names, ItemStep(n)
        PROVE  pc = "items" /\ i \in todo /\ misfired' = misfired
    BY <2>3 DEF ItemStep, DelegatedItem, SkipItem, InstallItem, InstallCutOff, OtherItem,
       Finish, Coming, Leaving, Adding
  <2> QED
    BY <1>2, <2>1, <2>2, <2>3, NameFacts DEF Items
<1>3. CASE LinkStep \/ Drop
  BY <1>3 DEF LinkStep, Drop, ExpectedDisconnect, AnyError, Again, HandlerRaises, Announce, Reconnect,
     NoConnection, VerifyDriver
<1> QED
  BY <1>1, <1>2, <1>3 DEF Next, Work

\* Nothing of the stack is put on top of a driver that still waits for its reboot,
\* in any attempt of a message whose connections all held, unless the reboot of that
\* attempt took no effect.
THEOREM StackComesLast == Spec => StackAfterReboot
<1>1. DropFreeIInv /\ [Next]_vars => [drops' = 0 /\ ~misfired' => ~EarlyStack]_vars
  <2> SUFFICES ASSUME DropFreeIInv, Next, drops' = 0, ~misfired', EarlyStack PROVE FALSE
    BY DEF vars
  <2>1. PICK i \in Stack \ job.agent : i \in installed' /\ i \notin installed
    BY DEF EarlyStack
  <2>2. pc # "mend" /\ "nvidia_driver" \in pending
    BY DEF EarlyStack
  <2>3. pc = "items" /\ i \in todo /\ ~misfired
    BY <2>1, <2>2, StackInstalled
  <2>4. drops = 0
    BY DropsStay DEF DropFreeIInv, SwIInv
  <2>5. i \in SessionItems /\ DriverAsked
    BY <2>2, <2>3 DEF DropFreeIInv, DriverDelegated
  <2>6. session = 2
    BY <2>1, <2>5, NextItemFacts DEF SessionItems, PreItems, PostItems, DropFreeIInv,
       SwIInv, TypeOK
  <2> QED
    BY <2>2, <2>3, <2>4, <2>5, <2>6 DEF DropFreeIInv, DriverLive, PastFirst
<1> QED
  BY <1>1, DropFreeInductive, PTL DEF Spec, StackAfterReboot

-----------------------------------------------------------------------------
(* The installation is the task run_sw_install of the pipeline.            *)

\* The task that follows is sent at the end only.
LastIsSent == sent # "none" => pc = "over"
\* There is a row to save: the standard settings are the first thing an attempt
\* does, and where a drop lets it leave them out, the driver is looked at later.
SomethingToSave ==
  \/ pc \in {"tune", "reboot", "agent", "items", "save"} /\ session = 1
  \/ pc \in {"waiting", "polling", "verify", "agent", "items", "save"} /\ ~DriverAsked
  => rows["standard"] # "none"

\* What a step needs, beyond the invariant of the sessions, to be one of the
\* pipeline's.
TaskIInv == SwIInv /\ LastIsSent /\ SomethingToSave

\* What the pipeline does not see of the task leaves it where it is.
LEMMA Unseen ==
  ASSUME Point' = Point, UNCHANGED <<tries, status, saved, sent, Losses>>
  PROVE  UNCHANGED Pipeline!vars
BY DEF Pipeline!vars, TaskMessage, NextMessage, Asked

\* The message of the pipeline stands where the task stands, and moves with it.
LEMMA Stands ==
  ASSUME NEW p, Point = p
  PROVE  Pipeline!At(1, "run_sw_install", p)
<1>1. <<TaskMessage, NextMessage>>[1].kind = "run_sw_install"
      /\ <<TaskMessage, NextMessage>>[1].pc = p
  BY DEF TaskMessage
<1> QED
  BY <1>1 DEF Pipeline!At, Pipeline!Ready

\* A step that only moves the message.
LEMMA Moves ==
  ASSUME NEW p, Point' = p, UNCHANGED <<tries, sent>>
  PROVE  Pipeline!Goto(1, p)
<1>1. ASSUME NEW a, NEW b, NEW c, NEW d, NEW n
      PROVE  [<<[kind |-> a, pc |-> b, tries |-> c, val |-> d], n>> EXCEPT ![1].pc = p]
               = <<[kind |-> a, pc |-> p, tries |-> c, val |-> d], n>>
  OBVIOUS
<1>2. TaskMessage' = [kind |-> "run_sw_install", pc |-> p, tries |-> tries, val |-> "none"]
  BY DEF TaskMessage
<1>3. NextMessage' = NextMessage
  BY DEF NextMessage
<1> QED
  BY <1>1, <1>2, <1>3 DEF Pipeline!Goto, TaskMessage

\* The last step: the message is done and another one is in the queue.
LEMMA Sends ==
  ASSUME NEW k, Point' = "acking", sent = "none", sent' = k, k # "none", UNCHANGED tries
  PROVE  Pipeline!Dispatch(1, k)
<1>1. ASSUME NEW a, NEW b, NEW c, NEW d, NEW n, NEW m
      PROVE  [<<[kind |-> a, pc |-> b, tries |-> c, val |-> d], n>>
                EXCEPT ![1].pc = "acking", ![2] = m]
               = <<[kind |-> a, pc |-> "acking", tries |-> c, val |-> d], m>>
  OBVIOUS
<1>2. TaskMessage' = [kind |-> "run_sw_install", pc |-> "acking", tries |-> tries, val |-> "none"]
  BY DEF TaskMessage
<1>3. NextMessage' = Pipeline!Queued(k)
  BY DEF NextMessage, Pipeline!Queued
<1>4. <<TaskMessage, NextMessage>>[2].pc = "free"
  BY DEF NextMessage
<1>5. <<TaskMessage, NextMessage>>' =
        [<<TaskMessage, NextMessage>> EXCEPT ![1].pc = "acking", ![2] = Pipeline!Queued(k)]
  BY <1>1, <1>2, <1>3 DEF TaskMessage
<1> QED
  BY <1>4, <1>5 DEF Pipeline!Dispatch

\* A retry: the message is in the queue again, with its counter raised.
LEMMA GoesBack ==
  ASSUME Point' = "queued", tries' = tries + 1, UNCHANGED sent
  PROVE  Pipeline!Requeue(1)
<1>1. ASSUME NEW k
      PROVE  [<<TaskMessage, NextMessage>>
                EXCEPT ![1].pc = "queued", ![1].val = "none", ![1].tries = k]
               = <<[[[TaskMessage EXCEPT !.pc = "queued"] EXCEPT !.val = "none"]
                      EXCEPT !.tries = k], NextMessage>>
  OBVIOUS
<1>2. ASSUME NEW k
      PROVE  [[[TaskMessage EXCEPT !.pc = "queued"] EXCEPT !.val = "none"] EXCEPT !.tries = k]
               = [kind |-> "run_sw_install", pc |-> "queued", tries |-> k, val |-> "none"]
  <2>1. [TaskMessage EXCEPT !.pc = "queued"]
          = [kind |-> "run_sw_install", pc |-> "queued", tries |-> tries, val |-> "none"]
    BY DEF TaskMessage
  <2>2. [[kind |-> "run_sw_install", pc |-> "queued", tries |-> tries, val |-> "none"]
           EXCEPT !.val = "none"]
          = [kind |-> "run_sw_install", pc |-> "queued", tries |-> tries, val |-> "none"]
    OBVIOUS
  <2>3. [[kind |-> "run_sw_install", pc |-> "queued", tries |-> tries, val |-> "none"]
           EXCEPT !.tries = k]
          = [kind |-> "run_sw_install", pc |-> "queued", tries |-> k, val |-> "none"]
    OBVIOUS
  <2> QED
    BY <2>1, <2>2, <2>3
<1>3. TaskMessage' =
        [kind |-> "run_sw_install", pc |-> "queued", tries |-> tries + 1, val |-> "none"]
  BY DEF TaskMessage
<1>4. NextMessage' = NextMessage
  BY DEF NextMessage
<1>5. <<TaskMessage, NextMessage>>[1].tries = tries
  BY DEF TaskMessage
<1> DEFINE k == tries + 1
<1> HIDE DEF k
<1>6. <<TaskMessage, NextMessage>>' =
        [<<TaskMessage, NextMessage>>
           EXCEPT ![1].pc = "queued", ![1].val = "none", ![1].tries = k]
  <2>1. [<<TaskMessage, NextMessage>>
           EXCEPT ![1].pc = "queued", ![1].val = "none", ![1].tries = k]
          = <<[kind |-> "run_sw_install", pc |-> "queued", tries |-> k, val |-> "none"],
              NextMessage>>
    <3>1. [<<TaskMessage, NextMessage>>
             EXCEPT ![1].pc = "queued", ![1].val = "none", ![1].tries = k]
            = <<[[[TaskMessage EXCEPT !.pc = "queued"] EXCEPT !.val = "none"]
                   EXCEPT !.tries = k], NextMessage>>
      BY <1>1
    <3>2. [[[TaskMessage EXCEPT !.pc = "queued"] EXCEPT !.val = "none"] EXCEPT !.tries = k]
            = [kind |-> "run_sw_install", pc |-> "queued", tries |-> k, val |-> "none"]
      BY <1>2
    <3> QED
      BY <3>1, <3>2
  <2>2. TaskMessage' = [kind |-> "run_sw_install", pc |-> "queued", tries |-> k, val |-> "none"]
    BY <1>3 DEF k
  <2> QED
    BY <1>4, <2>1, <2>2
<1> QED
  BY <1>5, <1>6 DEF Pipeline!Requeue, k

\* The start of an attempt, the wait for a reboot, and the results.
LEMMA Writes ==
  ASSUME TaskIInv, Begin \/ Announce \/ SaveRows
  PROVE  Pipeline!SwInstallStep(1)
<1> USE DEF Losses, flow, record, server, link, locals, TaskIInv
<1>1. CASE Begin
  <2>1. Pipeline!At(1, "run_sw_install", "queued")
    BY <1>1, Stands DEF Begin, Point
  <2>2. Pipeline!Goto(1, "started")
    BY <1>1, Moves DEF Begin, Point
  <2> QED
    BY <1>1, <2>1, <2>2 DEF Begin, SwIInv, TypeOK, Pipeline!SwInstallStep,
       Pipeline!SwInstallStart, Pipeline!WriteStatus, Pipeline!Exists, Pipeline!faultVars, Asked
<1>2. CASE Announce
  <2>1. Pipeline!At(1, "run_sw_install", "started")
    BY <1>2, Stands DEF Announce, Point, SwIInv, StillToCome
  <2>2. Pipeline!Goto(1, "rebooting")
    BY <1>2, Moves DEF Announce, Point
  <2> QED
    BY <1>2, <2>1, <2>2 DEF Announce, SwIInv, TypeOK, Pipeline!SwInstallStep,
       Pipeline!SwInstallReboot, Pipeline!WriteStatus, Pipeline!Exists, Pipeline!faultVars, Asked
<1>3. CASE SaveRows
  <2>1. \/ Pipeline!At(1, "run_sw_install", "started")
        \/ Pipeline!At(1, "run_sw_install", "rebooting")
    BY <1>3, Stands DEF SaveRows, Point
  <2>2. Pipeline!Goto(1, "saved")
    BY <1>3, Moves DEF SaveRows, Point, Goto
  <2>3. rows["standard"] # "none" \/ rows["driver_check"] # "none"
    BY <1>3 DEF SaveRows, SomethingToSave, SwIInv, DriverKnown, TypeOK
  <2>4. saved' # {}
    BY <1>3, <2>3, NameFacts DEF SaveRows
  <2>5. UNCHANGED <<status, Losses>>
    BY <1>3 DEF SaveRows, Goto
  <2> HIDE DEF Losses
  <2>6. Pipeline!SwInstallSave(1)
    BY <2>1, <2>2, <2>4, <2>5, <1>3 DEF SaveRows, SwIInv, TypeOK, Pipeline!SwInstallSave,
       Pipeline!Exists, Pipeline!faultVars, Asked
  <2> QED
    BY <2>6 DEF Pipeline!SwInstallStep
<1> QED
  BY <1>1, <1>2, <1>3

\* What becomes of the results.
LEMMA Decides ==
  ASSUME TaskIInv, NothingToRepair \/ NoRepair \/ Mend \/ MendFails
  PROVE  Pipeline!SwInstallStep(1)
<1> USE DEF Losses, flow, record, server, link, locals, NothingToRepair, NoRepair, Mend, MendFails,
   Goto
<1>1. Pipeline!At(1, "run_sw_install", "saved")
  BY Stands DEF Point
<1>2. Point' \in {"forward", "aborting"} /\ UNCHANGED <<tries, sent, status, saved>>
  BY DEF Point
<1>3. Pipeline!Goto(1, "forward") \/ Pipeline!Goto(1, "aborting")
  BY <1>2, Moves
<1> QED
  BY <1>1, <1>2, <1>3 DEF Pipeline!SwInstallStep, Pipeline!SwInstallJudge, Pipeline!jobVars,
     Pipeline!faultVars, Asked

\* The server that does not come back, and the failure it ends in.
LEMMA GivesUp ==
  ASSUME TaskIInv, NoConnection \/ MarkFailed \/ DispatchCleanup
  PROVE  Pipeline!SharedStep(1)
<1> USE DEF Losses, flow, record, server, link, locals, TaskIInv, Goto
<1>1. CASE NoConnection
  <2>1. Pipeline!At(1, "run_sw_install", "rebooting")
    BY <1>1, Stands DEF NoConnection, Point, SwIInv, StillToCome
  <2>2. Pipeline!Goto(1, "aborting")
    BY <1>1, Moves DEF NoConnection, Point
  <2> QED
    BY <1>1, <2>1, <2>2 DEF NoConnection, Pipeline!At, Pipeline!SharedStep,
       Pipeline!RebootTimeout, Pipeline!jobVars, Pipeline!faultVars, Asked
<1>2. CASE MarkFailed
  <2>1. Pipeline!At(1, "run_sw_install", "aborting")
    BY <1>2, Stands DEF MarkFailed, Point
  <2>2. Pipeline!Goto(1, "aborted")
    BY <1>2, Moves DEF MarkFailed, Point
  <2> QED
    BY <1>2, <2>1, <2>2 DEF MarkFailed, SwIInv, TypeOK, Pipeline!At, Pipeline!SharedStep,
       Pipeline!MarkFailed, Pipeline!WriteStatus, Pipeline!Exists, Pipeline!faultVars, Asked
<1>3. CASE DispatchCleanup
  <2>1. Pipeline!At(1, "run_sw_install", "aborted")
    BY <1>3, Stands DEF DispatchCleanup, Point
  <2>2. Pipeline!Dispatch(1, "run_cleanup")
    BY <1>3, Sends DEF DispatchCleanup, Point, LastIsSent
  <2> QED
    BY <1>3, <2>1, <2>2 DEF DispatchCleanup, Pipeline!At, Pipeline!SharedStep,
       Pipeline!DispatchCleanup, Pipeline!jobVars, Pipeline!faultVars, Asked
<1> QED
  BY <1>1, <1>2, <1>3

\* The hand-over.
LEMMA HandsOver ==
  ASSUME TaskIInv, Forward
  PROVE  Pipeline!SwInstallStep(1)
<1> USE DEF Losses, flow, record, server, link, locals, TaskIInv, Goto
<1>1. Pipeline!At(1, "run_sw_install", "forward")
  BY Stands DEF Forward, Point
<1>2. Pipeline!Dispatch(1, "run_post_install")
  BY Sends DEF Forward, Point, LastIsSent
<1> QED
  BY <1>1, <1>2 DEF Forward, Pipeline!SwInstallStep, Pipeline!SwInstallForward,
     Pipeline!jobVars, Pipeline!faultVars, Asked

\* An error anywhere is one of the pipeline's errors.
LEMMA Raises ==
  ASSUME TaskIInv, AnyError
  PROVE  Pipeline!HandlerStep(1) \/ Pipeline!FaultStep(1)
<1> USE DEF Losses, flow, record, server, link, locals, TaskIInv
<1>1. /\ <<TaskMessage, NextMessage>>[1].kind = "run_sw_install"
      /\ <<TaskMessage, NextMessage>>[1].pc = Point
      /\ <<TaskMessage, NextMessage>>[1].tries = tries
  BY DEF TaskMessage
<1>2. Point \notin {"free", "acking", "report_due"}
  BY DEF AnyError, Point
<1>3. /\ Pipeline!CanRaise(1, Pipeline!Retrying)
      /\ Pipeline!CanRaise(1, Pipeline!Retrying \cup {"run_cleanup"})
      /\ Pipeline!Live(1) /\ Pipeline!Ready(1)
  BY <1>1, <1>2 DEF Pipeline!CanRaise, Pipeline!Live, Pipeline!Ready,
     Pipeline!Retrying
<1>4. CASE tries < RetryBound /\ pc' = "queued" /\ tries' = tries + 1 /\ UNCHANGED status
  <2>1. tries \in Nat /\ RetryBound \in Nat /\ RetryBound <= 3
    BY BoundsAssumption DEF SwIInv, TypeOK, Counters
  <2>2. ~Pipeline!Exhausted(1)
    BY <1>1, <1>4, <2>1 DEF Pipeline!Exhausted, Pipeline!MaxRetries
  <2>3. Pipeline!Requeue(1)
    BY <1>4, GoesBack DEF AnyError, Again, Point
  <2>4. UNCHANGED <<Losses, status, saved>>
    BY <1>4 DEF AnyError, Again
  <2> QED
    BY <1>1, <1>2, <1>3, <2>2, <2>3, <2>4 DEF Pipeline!HandlerStep, Pipeline!Retry,
       Pipeline!Retrying, Pipeline!jobVars, Pipeline!faultVars, Asked
<1>5. CASE tries >= RetryBound /\ pc' = "over" /\ status' = "failed" /\ UNCHANGED tries
  <2>1. tries \in Nat /\ RetryBound \in Nat
    BY BoundsAssumption DEF SwIInv, TypeOK, Counters
  <2>2. Pipeline!Exhausted(1)
    BY <1>1, <1>5, <2>1 DEF Pipeline!Exhausted
  <2>3. Pipeline!Goto(1, "acking")
    BY <1>5, Moves DEF AnyError, Again, Point
  <2> QED
    BY <1>3, <1>5, <2>2, <2>3 DEF AnyError, Again, SwIInv, TypeOK, Pipeline!HandlerStep,
       Pipeline!Exhaust, Pipeline!Retrying, Pipeline!Exists, Pipeline!faultVars, Asked
<1>6. CASE HandlerRaises
  <2>1. Pipeline!Goto(1, "acking")
    BY <1>6, Moves DEF AnyError, Again, HandlerRaises, Point
  <2>2. pc # "lost" /\ pc' = "lost" /\ UNCHANGED <<status, saved>>
    BY <1>6 DEF AnyError, Again, HandlerRaises
  <2> QED
    BY <1>3, <2>1, <2>2 DEF Pipeline!FaultStep, Pipeline!TaskDies, Pipeline!jobVars, Asked
<1> QED
  BY <1>4, <1>5, <1>6 DEF AnyError, Again

\* The invariant of the hand-over holds in every step.
LEMMA TaskStep ==
  ASSUME TaskIInv, [Next]_vars
  PROVE  LastIsSent' /\ SomethingToSave'
<1> USE DEF TaskIInv, LastIsSent, SomethingToSave, SwIInv, TypeOK, DriverAsked, BootsSoFar,
            StillToCome, DriverKnown, Goto, Row, flow, record, server, link, locals
<1>0. DriverAsked' = DriverAsked
  BY SameJob
<1>1. CASE FirstSteps
  <2>1. CASE Begin
    BY <2>1, SameJob DEF Begin
  <2>2. CASE Connect
    BY <2>2, SameJob DEF Connect
  <2>3. CASE ConfigGrub
    BY <2>3, SameJob, NameFacts DEF ConfigGrub
  <2>4. CASE Tune
    BY <2>4, SameJob DEF Tune
  <2>5. CASE ConfigOther
    BY <2>5, SameJob, NameFacts DEF ConfigOther
  <2>6. CASE Reboot
    BY <2>6, SameJob DEF Reboot
  <2> QED
    BY <1>1, <2>1, <2>2, <2>3, <2>4, <2>5, <2>6 DEF FirstSteps
<1>2. CASE Items
  <2>1. CASE RunAgentPlan
    BY <2>1, SameJob DEF RunAgentPlan, Adding
  <2>2. CASE LeaveSession
    BY <2>2, SameJob DEF LeaveSession, DriverReboot
  <2>3. ASSUME NEW i \in Names, ItemStep(i) PROVE LastIsSent' /\ SomethingToSave'
    <3>1. PICK r \in {"pass", "fail", "warn"} : Finish(i, r)
      BY <2>3, ItemEffect
    <3> QED
      BY <3>1, FinishEffect, NameFacts, SameJob
  <2> QED
    BY <1>2, <2>1, <2>2, <2>3 DEF Items
<1>3. CASE LinkStep \/ Drop
  <2>1. CASE Drop
    BY <2>1, SameJob DEF Drop
  <2>2. CASE ExpectedDisconnect
    BY <2>2, SameJob DEF ExpectedDisconnect, Uncaught, DriverReboot
  <2>3. CASE AnyError
    BY <2>3, SameJob DEF AnyError, Again, HandlerRaises
  <2>4. CASE Announce
    BY <2>4, SameJob DEF Announce
  <2>5. CASE Reconnect
    BY <2>5, SameJob DEF Reconnect
  <2>6. CASE NoConnection
    BY <2>6, SameJob DEF NoConnection
  <2>7. CASE VerifyDriver
    BY <2>7, SameJob, NameFacts DEF VerifyDriver
  <2> QED
    BY <1>3, <2>1, <2>2, <2>3, <2>4, <2>5, <2>6, <2>7 DEF LinkStep
<1>4. CASE LastSteps
  <2>1. CASE SaveRows \/ NothingToRepair \/ AskForRepair \/ NoRepair
    BY <2>1, SameJob DEF SaveRows, NothingToRepair, AskForRepair, NoRepair
  <2>2. CASE Mend \/ MendFails
    BY <2>2, SameJob DEF Mend, Adding, MendFails
  <2>3. CASE MarkFailed \/ DispatchCleanup \/ Forward
    BY <2>3, SameJob DEF MarkFailed, DispatchCleanup, Forward
  <2> QED
    BY <1>4, <2>1, <2>2, <2>3 DEF LastSteps
<1>5. CASE UNCHANGED vars
  BY <1>5, SameJob DEF vars
<1> QED
  BY <1>1, <1>2, <1>3, <1>4, <1>5 DEF Next, Work

\* The invariant of the hand-over, for all jobs, retries and drops.
THEOREM TaskInductive == Spec => []TaskIInv
<1>1. Init => LastIsSent /\ SomethingToSave
  BY DEF Init, LastIsSent, SomethingToSave
<1>2. SwIInv /\ LastIsSent /\ SomethingToSave /\ [Next]_vars => (LastIsSent /\ SomethingToSave)'
  BY TaskStep DEF TaskIInv
<1> QED
  BY <1>1, <1>2, SwInductive, PTL DEF Spec, TaskIInv

\* What the pipeline has no point for: the sessions, and the connection.
LEMMA WithinASession ==
  ASSUME TaskIInv,
         \/ FirstSteps /\ ~Begin
         \/ Items \/ Drop \/ ExpectedDisconnect \/ Reconnect \/ VerifyDriver \/ AskForRepair
  PROVE  UNCHANGED Pipeline!vars
<1> USE DEF TaskIInv, SwIInv, StillToCome, BootsSoFar, Point, Losses, Goto, flow, record,
   link, locals
<1>1. CASE FirstSteps /\ ~Begin
  BY <1>1, Unseen DEF FirstSteps, Connect, ConfigGrub, Tune, ConfigOther, Reboot
<1>2. CASE Items
  <2>1. CASE RunAgentPlan
    BY <2>1, Unseen DEF RunAgentPlan
  <2>2. CASE LeaveSession
    BY <2>2, Unseen DEF LeaveSession
  <2>3. ASSUME NEW i \in Names, ItemStep(i) PROVE UNCHANGED Pipeline!vars
    <3>1. PICK r \in {"pass", "fail", "warn"} : Finish(i, r)
      BY <2>3, ItemEffect
    <3> QED
      BY <3>1, Unseen DEF Finish
  <2> QED
    BY <1>2, <2>1, <2>2, <2>3 DEF Items
<1>3. CASE Drop
  BY <1>3, Unseen DEF Drop
<1>4. CASE ExpectedDisconnect
  BY <1>4, Unseen DEF ExpectedDisconnect, Uncaught
<1>5. CASE Reconnect
  BY <1>5, Unseen DEF Reconnect
<1>6. CASE VerifyDriver
  BY <1>6, Unseen DEF VerifyDriver
<1>7. CASE AskForRepair
  BY <1>7, Unseen DEF AskForRepair
<1> QED
  BY <1>1, <1>2, <1>3, <1>4, <1>5, <1>6, <1>7

\* Every step of the installation is a step of run_sw_install in the pipeline, or
\* none it sees.
THEOREM InstallIsPipelineTask == Spec => IsPipelineTask
<1>1. TaskIInv /\ [Next]_vars => [Pipeline!Next]_Pipeline!vars
  <2> SUFFICES ASSUME TaskIInv, [Next]_vars PROVE [Pipeline!Next]_Pipeline!vars
    OBVIOUS
  <2>1. CASE UNCHANGED vars
    <3>1. Point' = Point /\ UNCHANGED <<tries, status, saved, sent, Losses>>
      BY <2>1 DEF vars, flow, record, Point, Losses
    <3> QED
      BY <3>1, Unseen
  <2>2. ASSUME \/ Pipeline!SwInstallStep(1) \/ Pipeline!SharedStep(1)
               \/ Pipeline!HandlerStep(1) \/ Pipeline!FaultStep(1)
        PROVE  Pipeline!Next
    BY <2>2 DEF Pipeline!Next, Pipeline!TaskStep
  <2>3. CASE FirstSteps
    <3>1. CASE Begin
      BY <3>1, <2>2, Writes
    <3> QED
      BY <2>3, <3>1, WithinASession
  <2>4. CASE Items \/ Drop
    BY <2>4, WithinASession
  <2>5. CASE LinkStep
    BY <2>5, <2>2, WithinASession, Writes, GivesUp, Raises DEF LinkStep
  <2>6. CASE LastSteps
    BY <2>6, <2>2, WithinASession, Writes, Decides, GivesUp, HandsOver DEF LastSteps
  <2> QED
    BY <2>1, <2>3, <2>4, <2>5, <2>6 DEF Next, Work
<1> QED
  BY <1>1, TaskInductive, PTL DEF Spec, IsPipelineTask
=============================================================================
