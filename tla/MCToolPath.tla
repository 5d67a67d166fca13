----------------------------- MODULE MCToolPath -----------------------------
(* Constants of the TLC run of ToolPath: one call, of the turn that is     *)
(* followed or of another, for a builtin tool, for a tool of an HTTP       *)
(* adapter (after an entry without tools), or for a name that is nowhere:  *)
(* the extras file has it twice, and its adapter also claims the builtin.  *)
EXTENDS ToolPath

CONSTANTS c1

OneCall  == {c1}
TwoTurns == {1, 2}
Names    == {"bash", "grep", "mail"}
Basics   == {"bash"}
Extras   == <<"grep", "grep">>
Adapters == <<{}, {"mail"}, {"grep", "bash"}>>
=============================================================================
