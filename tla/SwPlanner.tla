------------------------------ MODULE SwPlanner ------------------------------
(***************************************************************************)
(* build_plan (workers/sw_planner.py): the lines of a request become the   *)
(* items of an installation, pairs of versions the matrix does not list    *)
(* are delegated, and the SW Planner agent is asked once for all of them   *)
(* (call_sw_planner_agent, workers/agent_gateway.py).  Module SwInstall    *)
(* starts from what is built here.                                         *)
(***************************************************************************)
EXTENDS SwItems, Naturals, Sequences, SequencesExt

CONSTANT Requests  \* the requests explored: sequences of lines

Versions == {"550", "560", "570", "580", "12.4", "12.5", "12.6", "12.7", "12.8", "12.9",
             "2.3", "2.4", "2.5", "2.6"}

\* A line, as far as the planner looks at it.  marks: the kinds whose keywords it
\* contains; text: its leading words with what separates them, "-" or "blank"; and
\* the versions behind an operator, between blanks, or after the last hyphen.
LineType == [marks : SUBSET {"account", "storage_mount", "sys_config"},
             text : Seq(STRING), eq : Versions \cup {"none"},
             token : Versions \cup {"none"}, tail : Versions \cup {"none"}]

ASSUME RequestsAssumption == Requests \subseteq Seq(LineType)

MaxAttempts == 5  \* stop_after_attempt(5)

VARIABLES
  request,   \* jobs.sw_requirements, without headings and empty lines
  matrix,    \* could config/sw_compat_matrix.json be read?
  pc,
  items,     \* the items of the plan
  attempts,  \* requests to the API within the call of the agent
  agentPlan  \* "none", "steps", or "empty": an answer without steps, or an error

vars == <<request, matrix, pc, items, attempts, agentPlan>>

ItemType == [name : Names, version : Versions \cup {"none"}, agent : BOOLEAN]

TypeOK ==
  /\ request \in Requests /\ matrix \in BOOLEAN
  /\ pc \in {"parse", "check", "ask", "call", "built"}
  /\ items \in Seq(ItemType)
  /\ attempts \in 0..MaxAttempts
  /\ agentPlan \in {"none", "steps", "empty"}

-----------------------------------------------------------------------------
(* Lines.                                                                  *)

\* _SW_ALIASES.
Aliases == {
  [text |-> <<"docker", "-", "container", "-", "toolkit">>, name |-> "docker_container_toolkit"],
  [text |-> <<"nvidia", "-", "container", "-", "toolkit">>, name |-> "docker_container_toolkit"],
  [text |-> <<"nvidia", "blank", "container", "blank", "toolkit">>,
   name |-> "docker_container_toolkit"],
  [text |-> <<"nvidia", "-", "driver">>, name |-> "nvidia_driver"],
  [text |-> <<"nvidia", "blank", "driver">>, name |-> "nvidia_driver"],
  [text |-> <<"cuda", "-", "toolkit">>, name |-> "cuda"],
  [text |-> <<"cuda", "blank", "toolkit">>, name |-> "cuda"],
  [text |-> <<"pytorch">>, name |-> "torch"],
  [text |-> <<"miniconda">>, name |-> "miniconda"],
  [text |-> <<"anaconda">>, name |-> "miniconda"],
  [text |-> <<"tt", "-", "burnin">>, name |-> "tt_burnin"],
  [text |-> <<"tt", "-", "smi">>, name |-> "tt_smi"],
  [text |-> <<"tt", "-", "kmd">>, name |-> "tt_kmd"]} \cup
  {[text |-> <<n>>, name |-> n] :
     n \in {"rustup", "docker", "cudnn", "torch", "python", "cuda", "gcc"}}

\* The alias starts the line and ends at a boundary; a hyphen is one only before a
\* number, and numbers are not among the words.
StartsWith(line, alias) ==
  /\ IsPrefix(alias.text, line.text)
  /\ \/ Len(alias.text) = Len(line.text)
     \/ line.text[Len(alias.text) + 1] = "blank"

\* Without an alias the first word, in lower case and with "_" for "-", is the name.
\* A name spelled with underscores is so met after all; any other word is one that
\* no handler knows.
FirstWord(line) ==
  IF /\ line.text # <<>> /\ line.text[1] \in SwNames
     /\ IF Len(line.text) = 1 THEN line.tail = "none" ELSE line.text[2] = "blank"
  THEN line.text[1] ELSE "other"

\* The longest alias that fits, in whatever order they are tried.
NameOf(line) ==
  LET fits == {a \in Aliases : StartsWith(line, a)}
  IN IF fits = {} THEN FirstWord(line)
     ELSE (CHOOSE a \in fits : \A b \in fits : Len(b.text) <= Len(a.text)).name

\* _classify_line: the first kind in this order whose keyword is there.
KindOf(line) ==
  CASE "account" \in line.marks -> "account"
    [] "storage_mount" \in line.marks -> "storage_mount"
    [] "sys_config" \in line.marks -> "sys_config"
    [] OTHER -> "sw_install"

\* _extract_version.
VersionOf(line) ==
  IF line.eq # "none" THEN line.eq
  ELSE IF line.token # "none" THEN line.token ELSE line.tail

Item(line) ==
  IF KindOf(line) = "sw_install"
  THEN [name |-> NameOf(line), version |-> VersionOf(line), agent |-> FALSE]
  ELSE [name |-> KindOf(line), version |-> "none", agent |-> KindOf(line) = "sys_config"]

-----------------------------------------------------------------------------
(* Versions.                                                               *)

\* sw_compat_matrix.json, as far as it is looked at.
Listed == {<<"570", "12.8">>, <<"560", "12.6">>, <<"560", "12.7">>,
           <<"550", "12.4">>, <<"550", "12.5">>,
           <<"12.8", "2.6">>, <<"12.6", "2.4">>, <<"12.6", "2.5">>, <<"12.4", "2.3">>}

\* sw_map: of several items with one name the last counts.
Chosen(its, n) ==
  LET at == {i \in DOMAIN its : its[i].name = n}
  IN IF at = {} THEN "none" ELSE its[CHOOSE i \in at : \A j \in at : j <= i].version

\* Mutant: a version the matrix does not know is let through.
UnlistedKnown(its, m, n) ==
  /\ "none" \notin {Chosen(its, m), Chosen(its, n)}
  /\ \E q \in Listed : q[1] = Chosen(its, m)
  /\ <<Chosen(its, m), Chosen(its, n)>> \notin Listed

Unlisted(its, m, n) ==
  /\ "none" \notin {Chosen(its, m), Chosen(its, n)}
  /\ <<Chosen(its, m), Chosen(its, n)>> \notin Listed

\* Mutant: the driver of a bad pair is installed as it was asked for.
DelegatedCudaOnly(its) ==
  (IF Unlisted(its, "nvidia_driver", "cuda") THEN {"cuda"} ELSE {})
    \cup (IF Unlisted(its, "cuda", "torch") THEN {"cuda", "torch"} ELSE {})

Delegated(its) ==
  (IF Unlisted(its, "nvidia_driver", "cuda") THEN {"nvidia_driver", "cuda"} ELSE {})
    \cup (IF Unlisted(its, "cuda", "torch") THEN {"cuda", "torch"} ELSE {})

-----------------------------------------------------------------------------
Init ==
  /\ request \in Requests /\ matrix \in BOOLEAN
  /\ pc = "parse" /\ items = <<>>
  /\ attempts = 0 /\ agentPlan = "none"

Parse ==
  /\ pc = "parse"
  /\ items' = [i \in DOMAIN request |-> Item(request[i])]
  /\ pc' = "check"
  /\ UNCHANGED <<request, matrix, attempts, agentPlan>>

\* _check_compat; without a matrix nothing is checked.
Check ==
  /\ pc = "check"
  /\ items' = [i \in DOMAIN items |->
       [items[i] EXCEPT !.agent = @ \/ (matrix /\ items[i].name \in Delegated(items))]]
  /\ pc' = "ask"
  /\ UNCHANGED <<request, matrix, attempts, agentPlan>>

NeedsAgent == \E i \in DOMAIN items : items[i].agent

Ask ==
  /\ pc = "ask"
  /\ pc' = IF NeedsAgent THEN "call" ELSE "built"
  /\ UNCHANGED <<request, matrix, items, attempts, agentPlan>>

\* An answer, with steps or of no use; or an error that is not worth a retry.
Answered ==
  /\ pc = "call"
  /\ attempts' = attempts + 1
  /\ agentPlan' \in {"steps", "empty"}
  /\ pc' = "built"
  /\ UNCHANGED <<request, matrix, items>>

\* Mutant: one attempt too many.
LastAttemptLate(n) == n > MaxAttempts

LastAttempt(n) == n = MaxAttempts

\* A rate limit or an error status: up to five attempts, then an empty plan.
Overloaded ==
  /\ pc = "call"
  /\ attempts' = attempts + 1
  /\ IF LastAttempt(attempts') THEN pc' = "built" /\ agentPlan' = "empty"
                               ELSE UNCHANGED <<pc, agentPlan>>
  /\ UNCHANGED <<request, matrix, items>>

Next == Parse \/ Check \/ Ask \/ Answered \/ Overloaded

Spec == Init /\ [][Next]_vars

-----------------------------------------------------------------------------
(* Properties.                                                             *)

NamedOnce == \A i, j \in DOMAIN items : items[i].name = items[j].name => i = j

\* i and j are a pair the matrix has to list.
Clash(i, j) ==
  /\ <<items[i].name, items[j].name>> \in {<<"nvidia_driver", "cuda">>, <<"cuda", "torch">>}
  /\ items[i].version # "none" /\ items[j].version # "none"
  /\ <<items[i].version, items[j].version>> \notin Listed

\* Of a request that names nothing twice, exactly those packages are installed as
\* they were asked for whose versions fit each other by the matrix; the rest is
\* the agent's (sw_planner.py:259).
UnlistedPairsAsked ==
  pc \notin {"parse", "check"} /\ matrix /\ NamedOnce =>
    \A i \in DOMAIN items :
      items[i].name \in SwNames =>
        (items[i].agent <=> \E j \in DOMAIN items : Clash(i, j) \/ Clash(j, i))

\* The plan is one that module SwInstall starts from: what is delegated are pairs
\* of the matrix, both packages of each, and there are steps of the agent only if
\* something was delegated to it.
SwInstallStartsHere ==
  pc = "built" =>
    LET named == {items[i].name : i \in DOMAIN items}
        agent == {items[i].name : i \in {k \in DOMAIN items : items[k].agent}}
    IN /\ agent \cap SwNames \in Misses(named)
       /\ agentPlan = "steps" => agent \cap SwNames # {} \/ "sys_config" \in named
       /\ agentPlan = "none" <=> agent = {}
=============================================================================
