----------------------------- MODULE MCSwPlanner -----------------------------
(* Instances of SwPlanner for TLC.                                         *)
EXTENDS SwPlanner, FiniteSets

Line(text, token) ==
  [marks |-> {}, text |-> text, eq |-> "none", token |-> token, tail |-> "none"]
Hyphened(text, tail) ==
  [marks |-> {}, text |-> text, eq |-> "none", token |-> "none", tail |-> tail]
Pinned(text, eq) ==
  [marks |-> {}, text |-> text, eq |-> eq, token |-> "none", tail |-> "none"]
Marked(marks, text) ==
  [marks |-> marks, text |-> text, eq |-> "none", token |-> "none", tail |-> "none"]

\* Versions that fit, that do not, and that the matrix does not know; the three
\* places of a version; names that begin with another's; lines of two kinds.
Lines ==
  {Hyphened(<<"nvidia", "-", "driver">>, v) : v \in {"550", "560"}} \cup
  {Line(<<"nvidia", "blank", "driver">>, v) : v \in {"580", "none"}} \cup
  {Line(<<"cuda">>, v) : v \in {"12.4", "12.9", "none"}} \cup
  {Hyphened(<<"cuda", "-", "toolkit">>, "12.6"),
   Pinned(<<"torch">>, "2.3"), Pinned(<<"pytorch">>, "2.5"),
   Line(<<"docker", "blank", "compose">>, "none"), Line(<<"docker", "-", "compose">>, "none"),
   Line(<<"docker", "-", "container", "-", "toolkit">>, "none"),
   Line(<<"nvidia_driver">>, "550"),
   Marked({"sys_config"}, <<"grub">>), Marked({"storage_mount", "sys_config"}, <<"other">>)}

SomeRequests == UNION {[1..n -> Lines] : n \in 0..3}
=============================================================================
