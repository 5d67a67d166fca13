--------------------------- MODULE TaskLifecycle ---------------------------
(***************************************************************************)
(* What a fixus task promises: its state, the projection of its task-level *)
(* events, moves along the transitions of TaskState (src/models.rs) and    *)
(* never leaves an end state.  TaskStore is shown to implement this.       *)
(***************************************************************************)

States == {"Created", "Ready", "Claimed", "Executing", "Blocked",
           "Succeeded", "Failed", "Canceled"}

(* TaskState::is_terminal *)
Terminal == {"Succeeded", "Failed", "Canceled"}

(* TaskState::can_transition *)
CanTransition(from, to) ==
  <<from, to>> \in
    {<<"Created", "Ready">>, <<"Ready", "Claimed">>, <<"Claimed", "Executing">>,
     <<"Executing", "Blocked">>, <<"Blocked", "Ready">>,
     <<"Executing", "Succeeded">>, <<"Executing", "Failed">>}
    \cup {<<s, "Canceled">> : s \in States \ Terminal}

VARIABLE state

Init == state = "Created"

(* A task-level event. *)
Move(to) == CanTransition(state, to) /\ state' = to

(* turn_started: the claim of a task may be left out. *)
Dispatch == state \in {"Ready", "Claimed"} /\ state' = "Executing"

Next == Dispatch \/ \E to \in States : Move(to)

Spec == Init /\ [][Next]_state

=============================================================================
