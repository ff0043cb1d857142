------------------------------- MODULE SwItems -------------------------------
(***************************************************************************)
(* The items of an installation, as workers/sw_planner.py names them and   *)
(* workers/sw_install.py knows them.                                       *)
(***************************************************************************)

Stack == {"cuda", "cudnn", "torch"}            \* _POST_REBOOT_DEPS

\* "other" stands for the packages the planner has no name of its own for; they
\* come after those it knows, and what is not software comes last.
InstallOrder == <<"gcc", "nvidia_driver", "cuda", "cudnn", "torch", "docker",
                  "docker_container_toolkit", "miniconda", "python", "rustup",
                  "tt_kmd", "tt_smi", "tt_burnin", "other",
                  "account", "storage_mount", "sys_config">>

SwNames == Stack \cup
  {"gcc", "nvidia_driver", "docker", "docker_container_toolkit", "miniconda",
   "python", "rustup", "tt_kmd", "tt_smi", "tt_burnin", "other"}
Names == SwNames \cup {"account", "storage_mount", "sys_config"}

\* The pairs of packages whose versions are looked up in the matrix.
Pairs == {{"nvidia_driver", "cuda"}, {"cuda", "torch"}}

\* A miss delegates both packages of the pair.
Misses(items) == {UNION p : p \in SUBSET {q \in Pairs : q \subseteq items}}
=============================================================================
