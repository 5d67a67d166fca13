---------------------------- MODULE MCTaskStore ----------------------------
(* Constants of the TLC runs of TaskStore. *)
EXTENDS TaskStore, TLC

CONSTANTS c1, c2

OneCall  == {c1}
TwoCalls == {c1, c2}

SharedEvents == {"task_ready", "task_canceled", "turn_started"}

SerialFaults == {"evict", "write_error"}
NoFaults     == {}
=============================================================================
