--------------------------- MODULE MCTurnDispatch ---------------------------
(* Constants of the TLC runs of TurnDispatch. *)
EXTENDS TurnDispatch, TLC

CONSTANTS t1, t2, t3

OneTask    == {t1}
TwoTasks   == {t1, t2}
ThreeTasks == {t1, t2, t3}

(* Priorities: all equal, so that tasks are interchangeable, or one urgent.  *)
EqualPrio(T) == [t \in T |-> 0]
EqualPrio1   == EqualPrio(OneTask)
EqualPrio2   == EqualPrio(TwoTasks)
EqualPrio3   == EqualPrio(ThreeTasks)
MixedPrio2   == [t \in TwoTasks |-> IF t = t2 THEN 1 ELSE 0]
MixedPrio3   == [t \in ThreeTasks |-> IF t = t3 THEN 1 ELSE 0]

LateFaults == {"timeout", "dispatch_error", "redispatch_error"}
RedoFaults == {"watchdog", "redo", "report_again"}
OnlyTimeout    == {"timeout"}
OnlyRedispatch == {"redispatch_error"}
CalmFaults == {"dispatch_error"}
=============================================================================
