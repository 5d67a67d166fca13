----------------------------- MODULE MCRecovery -----------------------------
(* Constants of the TLC runs of Recovery. *)
EXTENDS Recovery, TLC

CONSTANTS s1, s2, r1, r2

OneStep  == {s1}
OneRecoverer  == {r1}
TwoRecoverers == {r1, r2}

OneToken == {1}

(* What the environment reports. *)
ToolReports == {"tool_invoked", "tool_completed"}
StepReports == ToolReports \cup {"llm_invoked", "llm_completed"}

(* What clients send: the end of a step, a turn that is started (again),   *)
(* the task that is made ready for another turn.                           *)
BatchReports == {"tool_completed", "turn_started"}
ReadyReports == {"task_ready"}

RecovererSymmetry == Permutations(TwoRecoverers)

StepFaults == {"crash", "recovery_cut", "agent_exit"}
TurnFaults == {"crash", "rejoin", "record_lost", "failure_lost"}
=============================================================================
