--------------------------- MODULE MCTrustedCheck ---------------------------
(* Instances of the trusted checks for TLC. *)
EXTENDS TrustedCheck

Tool == [declared |-> "host_tool", plugins |-> FALSE, hostConfig |-> TRUE, absolute |-> TRUE]
Plugged == [Tool EXCEPT !.plugins = TRUE]
Missing == [Tool EXCEPT !.declared = "missing"]
Unbound == [Tool EXCEPT !.declared = "unbound"]
\* One of the checks runs: a tool of the host, or one that loads plugins.
AllInventories == {<<Tool, Missing>>, <<Missing, Plugged>>, <<Unbound, Unbound>>}
=============================================================================
