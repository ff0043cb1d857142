---------------------------- MODULE MCSwInstall ----------------------------
(* Instances of SwInstall for TLC.                                         *)
EXTENDS SwInstallTask

JobsWith(universe, systems, passwords) ==
  {j \in [items : SUBSET universe, agent : SUBSET (universe \cap SwNames),
          ubuntu : systems, sudo : passwords] : j.agent \in Misses(j.items)}

\* Items whose dependencies cross the reboot, and items of the other handlers.
SomeJobs ==
  {j \in JobsWith({"nvidia_driver", "cuda", "torch"}, {TRUE}, {TRUE}) : "nvidia_driver" \in j.items} \cup
  JobsWith({"nvidia_driver", "cuda"}, {FALSE}, {TRUE}) \cup
  JobsWith({"cuda", "account"}, {TRUE}, {FALSE}) \cup
  JobsWith({"docker", "docker_container_toolkit", "other"}, {TRUE}, {TRUE}) \cup
  JobsWith({"storage_mount", "sys_config"}, {TRUE}, {TRUE})

AccountOnly == {[items |-> {"account"}, agent |-> {}, ubuntu |-> TRUE, sudo |-> TRUE]}
=============================================================================
