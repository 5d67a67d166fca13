------------------------------ MODULE Recovery ------------------------------
(***************************************************************************)
(* Crash recovery of one task: src/recovery.rs, the requests that trigger  *)
(* it (start_turn_async, POST /recovery/apply), the background recovery    *)
(* that dispatches the redo queue, and the lifecycle consumer that turns   *)
(* the records of the topic task-end into the events recovery decides on.  *)
(*                                                                         *)
(* The fixlets and the tools bank are the environment: a dispatched        *)
(* turn is worked on by somebody who reports steps, an answer, an error or *)
(* nothing.  Dispatch is one step here (its queue, slots and interleavings *)
(* are TurnDispatch's), and so is a write with the update of the cached    *)
(* projection (TaskStore).  A restart rebuilds the same projection from    *)
(* the log; what it loses is everything in memory and the place of the     *)
(* consumer, whose group is new at each start of the process.              *)
(***************************************************************************)
EXTENDS TaskLog

CONSTANTS
  ReadSteps,     (* the steps of tools that classify_tool calls safe        *)
  ReportTypes,   (* the step events that the environment reports            *)
  Recoverers,    (* background recoveries and apply requests at work        *)
  MaxTurns,      (* bounds: turns of the state,                              *)
  MaxRequests,   (*   requests to start a turn or to recover,               *)
  MaxWorking,    (*   fixlets at work on a turn (more remain unclaimed),    *)
  MaxReports,    (*   records of task-end (an exit adds two at most),       *)
  MaxAttempts,   (*   RetryPolicy.max_attempts,                             *)
  MaxReplays,    (*   times the consumer goes back in the topic,            *)
  RecoveryFaults (* which of AllRecoveryFaults happen                       *)

(* "crash": fixus restarts.  "rejoin": the consumer joins again after lost *)
(* commits.  "record_lost": an event of the consumer is not written,       *)
(* "failure_lost": the turn_failed of fail_task_with_reason,               *)
(* "recovery_cut": an event of recover_task, which ends with it.           *)
(* "agent_exit": the agent of a fixlet exits after its answer.             *)
AllRecoveryFaults ==
  {"crash", "rejoin", "record_lost", "failure_lost", "recovery_cut", "agent_exit"}

ASSUME RecoveryAssumption ==
  /\ ReadSteps \subseteq Steps
  /\ ReportTypes \subseteq StepTypes
  /\ MaxTurns \in Nat /\ MaxRequests \in Nat /\ MaxWorking \in Nat /\ MaxReports \in Nat
  /\ MaxAttempts \in Nat /\ MaxReplays \in Nat
  /\ RecoveryFaults \subseteq AllRecoveryFaults
  /\ Recoverers \cap (1 .. MaxTurns) = {}

Turns  == 1 .. MaxTurns
Nobody == 0

VARIABLES
  state,      (* the task's state                                           *)
  ends,       (* the topic task-end                                         *)
  pos,        (* how far the consumer is in it                              *)
  working,    (* how many fixlets were handed each turn and have it still   *)
  waiter,     (* the pending turn of the task: who is told of an outcome    *)
  timed,      (* the turns with an entry in dispatch_times                  *)
  attempts,   (* retry_attempts                                             *)
  starting,   (* start requests between their check and start_turn          *)
  run,        (* where the run of each started turn is                      *)
  pc,         (* where each recovery is                                     *)
  todo,       (* the incomplete turns it has still to decide on             *)
  closing,    (* the one of them that it fails                              *)
  blocking,   (* the steps it has still to close before that                *)
  redo,       (* its redo queue: [turn, count]                              *)
  requests,   (* counters: requests,                                        *)
  replays,    (*   times the consumer went back,                            *)
  trouble,    (*   crashes and lost writes of a failure or of a recovery    *)
  lost        (* history: the steps of which the log has not what the       *)
              (* topic has                                                  *)

topic   == <<ends, pos>>
memory  == <<waiter, timed, attempts>>
recover == <<pc, todo, closing, blocking, redo>>
counts  == <<requests, replays, trouble, lost>>
recoveryVars ==
  <<log, proj, topic, state, working, memory, starting, run, recover, counts>>

Init ==
  /\ LogInit
  /\ state = "Ready"
  /\ ends = <<>> /\ pos = 0
  /\ working = [t \in Turns |-> 0]
  /\ waiter = Nobody /\ timed = {} /\ attempts = [t \in Turns |-> 0]
  /\ starting = 0 /\ run = [t \in Turns |-> "none"]
  /\ pc = [r \in Recoverers |-> "idle"]
  /\ todo = [r \in Recoverers |-> {}] /\ closing = [r \in Recoverers |-> NoTurn]
  /\ blocking = [r \in Recoverers |-> {}]
  /\ redo = [r \in Recoverers |-> <<>>]
  /\ requests = 0 /\ replays = 0 /\ trouble = 0 /\ lost = {}

Occurs(fault) == fault \in RecoveryFaults

-----------------------------------------------------------------------------
(* What recovery decides on.                                               *)

(* decide_turn_recovery: the steps of the turn among those in flight.      *)
StepsInFlight(t) ==
  {s \in IncompleteSteps(proj) : log[proj.startedAt[s]].turn = t}

(* decide_recovery_from_steps with classify_tool: a step that is not of a  *)
(* tool known to be safe blocks.  The start of an LLM step names no tool.  *)
BlockingSteps(t) ==
  {s \in StepsInFlight(t) : \/ log[proj.startedAt[s]].type = "llm_invoked"
                            \/ s \notin ReadSteps}

(* build_redo_context, for a turn with a turn_started, with the redo_count *)
(* that incomplete_turns reads from the first event of the turn, whatever  *)
(* its type.                                                               *)
RedoContext(t) ==
  LET events == {i \in 1 .. Len(log) : log[i].turn = t}
      first  == CHOOSE i \in events : \A j \in events : i <= j
  IN  [turn |-> t, count |-> 1 + IF log[first].type = "turn_started"
                                 THEN log[first].data ELSE 0]

-----------------------------------------------------------------------------
(* The state of the task.                                                  *)

EndStates  == {"Succeeded", "Failed", "Canceled"}
TaskStates == {"Created", "Ready", "Claimed", "Executing", "Blocked"} \cup EndStates

(* What TaskProjection::apply makes of the state; nothing is checked here. *)
StateAfter(type) ==
  CASE type = "turn_started"   -> IF state \in {"Ready", "Claimed"}
                                  THEN "Executing" ELSE state
    [] type = "task_created"   -> "Created"
    [] type = "task_ready"     -> "Ready"
    [] type = "task_claimed"   -> "Claimed"
    [] type = "task_blocked"   -> "Blocked"
    [] type = "task_succeeded" -> "Succeeded"
    [] type = "task_failed"    -> "Failed"
    [] type = "task_canceled"  -> "Canceled"
    [] OTHER                   -> state

-----------------------------------------------------------------------------
(* Requests.                                                               *)

SpawnRecovery(r, at) ==
  /\ pc[r] = "idle"
  /\ pc' = [pc EXCEPT ![r] = at]
  /\ UNCHANGED <<todo, closing, blocking, redo>>

(* start_turn_async reads the incomplete turns: with some, a background    *)
(* recovery is spawned and the request is over; with none it goes on.      *)
Request ==
  /\ requests < MaxRequests
  /\ requests' = requests + 1
  /\ IF IncompleteTurns(proj) # {}
     THEN /\ \E r \in Recoverers : SpawnRecovery(r, "check")
          /\ UNCHANGED starting
     ELSE starting' = starting + 1 /\ UNCHANGED recover
  /\ UNCHANGED <<log, proj, topic, state, working, memory, run, replays, trouble,
                 lost>>

(* POST /recovery/apply: recover_task, and the redo queue is only returned. *)
RequestApply ==
  /\ requests < MaxRequests
  /\ requests' = requests + 1
  /\ \E r \in Recoverers : SpawnRecovery(r, "check_only")
  /\ UNCHANGED <<log, proj, topic, state, working, memory, starting, run, replays,
                 trouble, lost>>

HandOut(t) ==
  working' = [working EXCEPT ![t] = IF @ < MaxWorking THEN @ + 1 ELSE @]

(* register_pending_turn and the dispatch: the waiter replaced is answered. *)
Dispatch(a, t) ==
  /\ HandOut(t)
  /\ waiter' = a
  /\ timed' = timed \cup {t}
  /\ UNCHANGED attempts

(* service::start_turn, which refuses an ended task, and the guard of      *)
(* write_event, which refuses turn_started in any other state.             *)
StartTurn ==
  /\ starting > 0
  /\ starting' = starting - 1
  /\ IF state \in {"Ready", "Claimed"} /\ proj.maxTurn < MaxTurns
     THEN LET t == proj.maxTurn + 1 IN
          /\ Written(Event("turn_started", t, NoStep, 0))
          /\ state' = StateAfter("turn_started")
          /\ run' = [run EXCEPT ![t] = "started"]
     ELSE UNCHANGED <<log, proj, state, run>>
  /\ UNCHANGED <<topic, working, memory, recover, counts>>

(* run_turn_to_completion registers and dispatches. *)
RunDispatch(t) ==
  /\ run[t] = "started"
  /\ Dispatch(t, t)
  /\ run' = [run EXCEPT ![t] = "waiting"]
  /\ UNCHANGED <<log, proj, topic, state, starting, recover, counts>>

(* POST /events/batch: a client writes an event of any type past every     *)
(* check, so that it may end a turn, start it again, or put the task back  *)
(* to Ready.                                                               *)
ClientBatch ==
  /\ requests < MaxRequests
  /\ requests' = requests + 1
  /\ \E type \in BatchTypes, t \in Turns, s \in Steps :
       /\ WriteBatch(Event(type, t, s, 0))
       /\ state' = StateAfter(type)
       /\ lost' = lost \cup {s}
  /\ UNCHANGED <<topic, working, memory, starting, run, recover, replays, trouble>>

(* POST /events: a client reports one step event, perhaps of no turn; the  *)
(* handler always passes a step, so that an event of a turn, of the task   *)
(* or of the session has the wrong scope.                                  *)
ClientEvent ==
  /\ requests < MaxRequests
  /\ requests' = requests + 1
  /\ \E type \in BatchTypes, t \in Turns \cup {NoTurn}, s \in Steps :
       Write(Event(type, t, s, 0)) /\ lost' = lost \cup {s}
  /\ UNCHANGED <<topic, state, working, memory, starting, run, recover, replays,
                 trouble>>

(* POST /turns/{id}/complete, fail and cancel: the end of a turn, of any   *)
(* number, is written; nobody is told, and no entry of the turn goes.      *)
ClientTurnEnd ==
  /\ requests < MaxRequests
  /\ requests' = requests + 1
  /\ \E type \in {"turn_completed", "turn_failed", "turn_canceled"}, t \in Turns :
       Write(Event(type, t, NoStep, 0))
  /\ UNCHANGED <<topic, state, working, memory, starting, run, recover, replays,
                 trouble, lost>>

(* POST /end and /ready: the task is canceled, or ready when it was not    *)
(* yet or blocked.  The turns go on.                                       *)
ClientTask ==
  /\ requests < MaxRequests
  /\ requests' = requests + 1
  /\ \/ state \notin EndStates /\ state' = "Canceled"
     \/ state \in {"Created", "Blocked"} /\ state' = "Ready"
  /\ UNCHANGED <<log, proj, topic, working, memory, starting, run, recover, replays,
                 trouble, lost>>

(* POST /summary: a client says up to where it has summarized the log. *)
ClientSummary ==
  /\ requests < MaxRequests
  /\ requests' = requests + 1
  /\ \E n \in 1 .. Len(log) : Written(Event("summary_marker", NoTurn, NoStep, n))
  /\ UNCHANGED <<topic, state, working, memory, starting, run, recover, replays,
                 trouble, lost>>

-----------------------------------------------------------------------------
(* Outcomes.                                                               *)

(* fail_task_with_reason: a write that fails is passed over, the waiter is *)
(* told all the same.                                                      *)
FailTask(t) ==
  /\ \/ /\ Written(Event("turn_failed", t, NoStep, 0))
        /\ UNCHANGED trouble
     \/ /\ Occurs("failure_lost")
        /\ trouble' = trouble + 1
        /\ UNCHANGED <<log, proj>>
  /\ state' = IF state = "Executing" THEN "Failed" ELSE state
  /\ waiter' = Nobody
  /\ timed' = timed \ {t}
  /\ attempts' = [attempts EXCEPT ![t] = 0]
  /\ UNCHANGED <<requests, replays, lost>>

(* handle_turn_execution_error: retried while the budget lasts and the     *)
(* reason allows, else the turn fails.                                     *)
ErrorHandled(t) ==
  \/ /\ attempts[t] < MaxAttempts
     /\ attempts' = [attempts EXCEPT ![t] = @ + 1]
     /\ HandOut(t)
     /\ UNCHANGED <<log, proj, state, waiter, timed, counts>>
  \/ FailTask(t) /\ UNCHANGED working

(* The run was told an outcome, or its last deadline passed. *)
RunTold(t) ==
  /\ run[t] = "waiting" /\ waiter # t
  /\ run' = [run EXCEPT ![t] = "over"]
  /\ UNCHANGED <<log, proj, topic, state, working, memory, starting, recover, counts>>

RunExhausted(t) ==
  /\ run[t] = "waiting" /\ waiter = t
  /\ FailTask(t)
  /\ run' = [run EXCEPT ![t] = "over"]
  /\ UNCHANGED <<topic, working, starting, recover>>

(* reclaim_stale_turns: the entry is past its lease. *)
Watchdog(t) ==
  /\ t \in timed
  /\ ErrorHandled(t)
  /\ UNCHANGED <<topic, starting, run, recover>>

-----------------------------------------------------------------------------
(* The environment: who works on a turn, and what it reports to task-end.  *)

Reported(type, t, s) == Append(ends, Event(type, t, s, 0))

MayReport == Len(ends) < MaxReports

Opened(s)  == \E i \in 1 .. Len(ends) : ends[i].step = s /\ ends[i].type \in StepStart
Closed(s)  == \E i \in 1 .. Len(ends) : ends[i].step = s /\ ends[i].type \in StepTerminal

(* The terminals of a step are of the kind of its start. *)
EndsOf(type) ==
  IF type = "llm_invoked" THEN {"llm_completed", "llm_failed"}
  ELSE {"tool_completed", "tool_failed"}

(* A step id is new each time (a UUID). *)
ReportOpen(t, s) ==
  /\ MayReport
  /\ working[t] > 0 /\ ~Opened(s)
  /\ \E type \in StepStart \cap ReportTypes : ends' = Reported(type, t, s)
  /\ UNCHANGED <<log, proj, pos, state, working, memory, starting, run, recover, counts>>

ReportClosed(s) ==
  /\ MayReport
  /\ Opened(s) /\ ~Closed(s)
  /\ \E i \in 1 .. Len(ends) :
       /\ ends[i].step = s
       /\ \E type \in EndsOf(ends[i].type) \cap ReportTypes :
            \E n \in IF type = "llm_completed" THEN Tokens ELSE {0} :
              ends' = Append(ends, Event(type, ends[i].turn, s, n))
  /\ UNCHANGED <<log, proj, pos, state, working, memory, starting, run, recover, counts>>

(* The agent exited after its answer, so that the topic holds the failure  *)
(* of a step that it holds the completion of as well.                      *)
ExitedAfter(s) ==
  \E i, j \in 1 .. Len(ends) :
    /\ i < j /\ ends[i].step = s /\ ends[j].step = s
    /\ ends[i].type = "llm_completed" /\ ends[j].type = "llm_failed"

(* The agent of a fixlet exits after its answer, the turn still its active *)
(* one: the step that has its llm_completed is failed too ...              *)
ReportExit(s) ==
  /\ Occurs("agent_exit")
  /\ \A j \in 1 .. Len(ends) : ends[j].step = s => ends[j].type # "llm_failed"
  /\ \E i \in 1 .. Len(ends) :
       /\ ends[i].step = s /\ ends[i].type = "llm_completed"
       /\ ends' = Reported("llm_failed", ends[i].turn, s)
  /\ UNCHANGED <<log, proj, pos, state, working, memory, starting, run, recover, counts>>

(* ... and then the turn, unless the fixlet dies in between.               *)
ReportExitedTurn(t) ==
  /\ \E i \in 1 .. Len(ends) :
       /\ ends[i].type = "llm_failed" /\ ends[i].turn = t /\ ExitedAfter(ends[i].step)
       /\ \A j \in i .. Len(ends) : ends[j].type = "turn_failed" => ends[j].turn # t
  /\ ends' = Reported("turn_failed", t, NoStep)
  /\ UNCHANGED <<log, proj, pos, state, working, memory, starting, run, recover, counts>>

(* turn_execution_done or turn_execution_error, and the fixlet is free.    *)
(* Nothing makes it report: one that died with its turn never does.        *)
ReportEnd(t) ==
  /\ MayReport
  /\ working[t] > 0
  /\ working' = [working EXCEPT ![t] = @ - 1]
  /\ \E type \in {"turn_completed", "turn_failed"} : ends' = Reported(type, t, NoStep)
  /\ UNCHANGED <<log, proj, pos, state, memory, starting, run, recover,
                 counts>>

-----------------------------------------------------------------------------
(* The lifecycle consumer.                                                 *)

StepRecordedInTurn(e) ==                       \* variant: late steps skipped
  /\ e.type \in StepTypes
  /\ IF e.turn \in IncompleteTurns(proj) THEN Written(e) ELSE UNCHANGED logVars
  /\ UNCHANGED <<state, working, memory, counts>>

LlmInvokedRecorded(e)   == e.type = "llm_invoked" /\ Written(e)
LlmCompletedRecorded(e) == e.type = "llm_completed" /\ Written(e)
LlmFailedRecorded(e)    == e.type = "llm_failed" /\ Written(e)
ToolRecorded(e) ==
  e.type \in {"tool_invoked", "tool_completed", "tool_failed"} /\ Written(e)

(* The handler of a step record writes its event and does nothing else.    *)
StepRecorded(e) ==
  /\ \/ LlmInvokedRecorded(e) \/ LlmCompletedRecorded(e) \/ LlmFailedRecorded(e)
     \/ ToolRecorded(e)
  /\ UNCHANGED <<state, working, memory, counts>>

(* handle_turn_execution_done: turn_completed, the retry counter and the   *)
(* dispatch time go, the waiter of the task is told.                       *)
DoneRecorded(e) ==
  /\ e.type = "turn_completed"
  /\ Written(e)
  /\ waiter' = Nobody
  /\ timed' = timed \ {e.turn}
  /\ attempts' = [attempts EXCEPT ![e.turn] = 0]
  /\ UNCHANGED <<state, working, counts>>

ErrorRecorded(e) == e.type = "turn_failed" /\ ErrorHandled(e.turn)

RecordLostTold(e) ==                           \* variant: the handler goes on
  /\ Occurs("record_lost")
  /\ e.type # "turn_failed"
  /\ lost' = lost \cup {e.step}
  /\ waiter' = Nobody
  /\ timed' = timed \ {e.turn}
  /\ UNCHANGED <<log, proj, state, working, attempts, requests, replays, trouble>>

(* The event could not be written: the error is dropped, the handler       *)
(* returns before anything else.                                           *)
RecordLost(e) ==
  /\ Occurs("record_lost")
  /\ e.type # "turn_failed"
  /\ lost' = lost \cup {e.step}
  /\ UNCHANGED <<log, proj, state, working, memory, requests, replays, trouble>>

ConsumeUncommitted ==                          \* variant: the commit forgotten
  /\ pos < Len(ends)
  /\ LET e == ends[pos + 1] IN
     StepRecorded(e) \/ DoneRecorded(e) \/ ErrorRecorded(e) \/ RecordLost(e)
  /\ \/ pos' = pos + 1
     \/ UNCHANGED pos
  /\ UNCHANGED <<ends, starting, run, recover>>

(* run_lifecycle_consumer commits a record whatever its handler returned. *)
Consume ==
  /\ pos < Len(ends)
  /\ pos' = pos + 1
  /\ LET e == ends[pos + 1] IN
     StepRecorded(e) \/ DoneRecorded(e) \/ ErrorRecorded(e) \/ RecordLost(e)
  /\ UNCHANGED <<ends, starting, run, recover>>

(* After consecutive errors the consumer joins its group again, where a    *)
(* commit whose error was ignored is missing.                              *)
Rejoin ==
  /\ Occurs("rejoin")
  /\ replays < MaxReplays
  /\ replays' = replays + 1
  /\ pos' \in 0 .. pos - 1
  /\ UNCHANGED <<log, proj, ends, state, working, memory, starting, run, recover,
                 requests, trouble, lost>>

(* The process dies and starts: the topic is read from its beginning. *)
Restart ==
  /\ Occurs("crash")
  /\ replays < MaxReplays
  /\ replays' = replays + 1
  /\ trouble' = trouble + 1
  /\ pos' = 0
  /\ waiter' = Nobody /\ timed' = {} /\ attempts' = [t \in Turns |-> 0]
  /\ starting' = 0
  /\ run' = [t \in Turns |-> IF run[t] = "none" THEN "none" ELSE "over"]
  /\ pc' = [r \in Recoverers |-> "idle"]
  /\ todo' = [r \in Recoverers |-> {}] /\ closing' = [r \in Recoverers |-> NoTurn]
  /\ blocking' = [r \in Recoverers |-> {}]
  /\ redo' = [r \in Recoverers |-> <<>>]
  /\ UNCHANGED <<log, proj, ends, state, working, requests, lost>>

-----------------------------------------------------------------------------
(* recover_task and spawn_background_recovery.                             *)

At(r, places) == pc[r] \in places

(* An apply request keeps to the places of recover_task. *)
Deciding == {"decide", "decide_only"}
Closing  == {"close", "close_only"}

(* check_session_recovery *)
RecoveryCheck(r) ==
  /\ At(r, {"check", "check_only"})
  /\ todo' = [todo EXCEPT ![r] = IncompleteTurns(proj)]
  /\ pc' = [pc EXCEPT ![r] = IF @ = "check" THEN "decide" ELSE "decide_only"]
  /\ UNCHANGED <<log, proj, topic, state, working, memory, starting, run, closing,
                 blocking, redo, counts>>

(* decide_turn_recovery of the next turn, in the order of a HashSet: onto  *)
(* the redo queue, or its blocking steps and then itself are to be failed. *)
RecoveryDecide(r) ==
  /\ At(r, Deciding)
  /\ \E t \in todo[r] :
       LET steps == BlockingSteps(t)
       IN  IF steps = {}
           THEN /\ redo' = [redo EXCEPT ![r] = Append(@, RedoContext(t))]
                /\ todo' = [todo EXCEPT ![r] = @ \ {t}]
                /\ UNCHANGED <<pc, closing, blocking>>
           ELSE /\ closing' = [closing EXCEPT ![r] = t]
                /\ blocking' = [blocking EXCEPT ![r] = steps]
                /\ pc' = [pc EXCEPT ![r] = IF @ = "decide" THEN "close" ELSE "close_only"]
                /\ UNCHANGED <<redo, todo>>
  /\ UNCHANGED <<log, proj, topic, state, working, memory, starting, run, counts>>

(* The data of a tool_failed with recovery_skipped_non_idempotent. *)
Skipped == 1

(* skip_non_idempotent_step *)
RecoveryCloseStep(r) ==
  /\ At(r, Closing)
  /\ \E s \in blocking[r] :
       /\ Written(Event("tool_failed", closing[r], s, Skipped))
       /\ blocking' = [blocking EXCEPT ![r] = @ \ {s}]
  /\ UNCHANGED <<topic, state, working, memory, starting, run, pc, todo, closing, redo,
                 counts>>

RecoveryForgetTurn(r) ==                       \* variant: no turn_failed
  /\ At(r, Closing) /\ blocking[r] = {}
  /\ todo' = [todo EXCEPT ![r] = @ \ {closing[r]}]
  /\ closing' = [closing EXCEPT ![r] = NoTurn]
  /\ pc' = [pc EXCEPT ![r] = IF @ = "close" THEN "decide" ELSE "decide_only"]
  /\ UNCHANGED <<log, proj, topic, state, working, memory, starting, run, blocking,
                 redo, counts>>

(* fail_turn_with_non_idempotent_block, once its steps are closed: only    *)
(* the turn is failed, not the state, and no waiter is told.                *)
RecoveryFailTurn(r) ==
  /\ At(r, Closing) /\ blocking[r] = {}
  /\ Written(Event("turn_failed", closing[r], NoStep, 0))
  /\ todo' = [todo EXCEPT ![r] = @ \ {closing[r]}]
  /\ closing' = [closing EXCEPT ![r] = NoTurn]
  /\ pc' = [pc EXCEPT ![r] = IF @ = "close" THEN "decide" ELSE "decide_only"]
  /\ UNCHANGED <<topic, state, working, memory, starting, run, blocking, redo, counts>>

Forget(r) ==
  /\ pc' = [pc EXCEPT ![r] = "idle"]
  /\ todo' = [todo EXCEPT ![r] = {}]
  /\ closing' = [closing EXCEPT ![r] = NoTurn]
  /\ blocking' = [blocking EXCEPT ![r] = {}]
  /\ redo' = [redo EXCEPT ![r] = <<>>]

(* A write that fails ends recover_task with the redo queue it had. *)
RecoveryAborts(r) ==
  /\ Occurs("recovery_cut")
  /\ At(r, Closing)
  /\ Forget(r)
  /\ trouble' = trouble + 1
  /\ UNCHANGED <<log, proj, topic, state, working, memory, starting, run, requests,
                 replays, lost>>

(* The answer to an apply request carries the queue; nobody dispatches it. *)
ApplyReturns(r) ==
  /\ pc[r] = "decide_only" /\ todo[r] = {}
  /\ Forget(r)
  /\ UNCHANGED <<log, proj, topic, state, working, memory, starting, run, counts>>

RecoveryRestartsTurn(r) ==                     \* variant: start_turn_redo
  /\ pc[r] = "decide" /\ todo[r] = {} /\ redo[r] # <<>>
  /\ LET next == Head(redo[r]) IN
     /\ Written(Event("turn_started", next.turn, NoStep, next.count))
     /\ Dispatch(r, next.turn)
  /\ pc' = [pc EXCEPT ![r] = "waiting"]
  /\ UNCHANGED <<topic, state, starting, run, todo, closing,
                 blocking, redo, counts>>

(* The loop over the redo queue: the next turn, or the recovery is over. *)
RecoveryRedo(r) ==
  /\ pc[r] = "decide" /\ todo[r] = {} /\ redo[r] # <<>>
  /\ Dispatch(r, Head(redo[r]).turn)
  /\ pc' = [pc EXCEPT ![r] = "waiting"]
  /\ UNCHANGED <<log, proj, topic, state, starting, run, todo, closing,
                 blocking, redo, counts>>

RecoveryEnds(r) ==
  /\ pc[r] = "decide" /\ todo[r] = {} /\ redo[r] = <<>>
  /\ Forget(r)
  /\ UNCHANGED <<log, proj, topic, state, working, memory, starting, run, counts>>

NextRedo(r) ==
  /\ pc' = [pc EXCEPT ![r] = "decide"]
  /\ redo' = [redo EXCEPT ![r] = Tail(@)]
  /\ UNCHANGED <<todo, closing, blocking>>

RedoTold(r) ==
  /\ pc[r] = "waiting" /\ waiter # r
  /\ NextRedo(r)
  /\ UNCHANGED <<log, proj, topic, state, working, memory, starting, run, counts>>

(* The last deadline of the redo passed: fail_turn_and_respond. *)
RedoExhausted(r) ==
  /\ pc[r] = "waiting" /\ waiter = r
  /\ FailTask(Head(redo[r]).turn)
  /\ NextRedo(r)
  /\ UNCHANGED <<topic, working, starting, run>>

-----------------------------------------------------------------------------
RunStep(t) == RunDispatch(t) \/ RunTold(t) \/ RunExhausted(t)

RecoveryStep(r) ==
  \/ RecoveryCheck(r) \/ RecoveryDecide(r)
  \/ RecoveryCloseStep(r) \/ RecoveryFailTurn(r) \/ RecoveryAborts(r)
  \/ ApplyReturns(r) \/ RecoveryRedo(r) \/ RecoveryEnds(r)
  \/ RedoTold(r) \/ RedoExhausted(r)

Environment ==
  \/ \E t \in Turns :
       ReportEnd(t) \/ ReportExitedTurn(t) \/ \E s \in Steps : ReportOpen(t, s)
  \/ \E s \in Steps : ReportClosed(s) \/ ReportExit(s)

Next ==
  \/ Request \/ RequestApply \/ StartTurn
  \/ ClientBatch \/ ClientEvent \/ ClientTurnEnd \/ ClientTask \/ ClientSummary
  \/ \E t \in Turns : RunStep(t) \/ Watchdog(t)
  \/ Environment
  \/ Consume \/ Rejoin \/ Restart
  \/ \E r \in Recoverers : RecoveryStep(r)

Spec == Init /\ [][Next]_recoveryVars

(* A task of tokio that can go on does, a deadline and a lease pass, and   *)
(* what is in the topic is delivered.  Nothing is asked of clients and     *)
(* fixlets.                                                                *)
Fairness ==
  /\ WF_recoveryVars(StartTurn)
  /\ \A t \in Turns :
       WF_recoveryVars(RunStep(t)) /\ WF_recoveryVars(Watchdog(t))
  /\ WF_recoveryVars(Consume)
  /\ \A r \in Recoverers : WF_recoveryVars(RecoveryStep(r))

FairSpec == Spec /\ Fairness

-----------------------------------------------------------------------------
(* Properties.                                                             *)

TypeOK ==
  /\ LogTypeOK
  /\ state \in TaskStates
  /\ ends \in Seq(Events) /\ pos \in 0 .. Len(ends)
  /\ working \in [Turns -> 0 .. MaxWorking]
  /\ waiter \in {Nobody} \cup Turns \cup Recoverers
  /\ timed \subseteq Turns
  /\ attempts \in [Turns -> 0 .. MaxAttempts]
  /\ starting \in Nat
  /\ run \in [Turns -> {"none", "started", "waiting", "over"}]
  /\ pc \in [Recoverers -> {"idle", "check", "check_only", "waiting"}
                             \cup Deciding \cup Closing]
  /\ todo \in [Recoverers -> SUBSET Turns]
  /\ closing \in [Recoverers -> Turns \cup {NoTurn}]
  /\ blocking \in [Recoverers -> SUBSET Steps]
  /\ \A r \in Recoverers : redo[r] \in Seq([turn : Turns, count : Nat])
  /\ requests \in Nat /\ replays \in Nat /\ trouble \in Nat
  /\ lost \subseteq Steps \cup {NoStep}

(* Recovery implements TaskLog: consumer, runs and recoveries only add     *)
(* events of the right scope, and every turn_started that no batch brings  *)
(* is a turn of its own, whatever was replayed, redone or restarted.       *)
WritesAllowed ==
  [][LET e == log'[Len(log')]
     IN  Len(log') = Len(log) + 1 /\ (Write(e) \/ WriteBatch(e))]_logVars

(* A caught-up consumer leaves recovery with the truth: after any restart, *)
(* rejoin and replay, a step in flight by the projection is one whose end  *)
(* nobody reported, and a step that was reported open and is not in flight *)
(* was closed by a recovery.  The steps production lists as ended in a     *)
(* turn are those for which the reference finds a start and an end in it.  *)
StepsCaughtUp ==
  pos = Len(ends) =>
    \A s \in Steps \ lost :
      /\ s \in IncompleteSteps(proj) => Opened(s) /\ ~Closed(s)
      /\ Opened(s) /\ ~Closed(s) /\ s \notin IncompleteSteps(proj) =>
           \E i \in OfType(log, {"tool_failed"}) : log[i].step = s
      /\ \A t \in Turns : [step |-> s, ended |-> TRUE] \in ProjTurnSteps(log, proj, t)
                           <=> s \in RefTurnSteps(log, t)

(* check_terminal_uniqueness, which the reference store has and production *)
(* has not: production writes a second end of a step only when the         *)
(* consumer has gone back in the topic, a client reported the step past    *)
(* it, a recovery closed the step that its tool had ended or then ends, or *)
(* the fixlet itself reported two ends, since its agent exited after the   *)
(* answer; and then the second is llm_failed.                              *)
StepEndsOnce ==
  [][LET e == log'[Len(log')]
     IN  Len(log') > Len(log) /\ e.type \in StepTerminal /\ TerminalTaken(log, e) =>
           \/ replays > 0
           \/ e.step \in lost'
           \/ e.data = Skipped /\ e.type = "tool_failed"
           \/ \E i \in OfType(log, {"tool_failed"}) :
                log[i].step = e.step /\ log[i].data = Skipped
           \/ e.type = "llm_failed" /\ ExitedAfter(e.step)]_recoveryVars

(* ... and what is promised of the store without the exceptions: a step    *)
(* has one end (src/docs/security-whitepaper.md, event store integrity).   *)
OneEndPerStep ==
  [][LET e == log'[Len(log')]
     IN  Len(log') > Len(log) /\ e.type \in StepTerminal =>
           ~TerminalTaken(log, e)]_recoveryVars

(* Tokens are counted once for each time the consumer reads their record:  *)
(* exactly once while it never goes back, at most once more per replay.    *)
TokensPerReplay ==
  /\ proj.tokens <= (replays + 1) * RefTokensAfter(ends, 0)
  /\ pos = Len(ends) /\ lost = {} => proj.tokens >= RefTokensAfter(ends, 0)

SkippedIn(t) ==
  {i \in OfType(log, {"tool_failed"}) : log[i].turn = t /\ log[i].data = Skipped}

Redoes(r, t) ==
  pc[r] = "decide" /\ pc'[r] = "waiting" /\ t = Head(redo[r]).turn

(* A turn whose non-idempotent step was handed to a human is not redone    *)
(* while it is incomplete, unless a recovery was cut short between         *)
(* tool_failed and turn_failed, or is there at that moment, or a client's  *)
(* batch started the turn again.                                           *)
RedoClean ==
  [][\A r \in Recoverers, t \in Turns :
       Redoes(r, t) /\ t \in IncompleteTurns(proj) =>
         \/ SkippedIn(t) = {}
         \/ trouble > 0
         \/ t \in Restarted(log)
         \/ \E q \in Recoverers : At(q, Closing) /\ t = closing[q]]_recoveryVars

(* ... and what the comments promise without the exceptions (a step that   *)
(* is not idempotent gets tool_failed and goes to a human).                *)
SkippedNotRedone ==
  [][\A r \in Recoverers, t \in Turns :
       Redoes(r, t) /\ t \in IncompleteTurns(proj) => SkippedIn(t) = {}]_recoveryVars

(* Somebody is to bring turn t to its end: it is about to be dispatched or *)
(* decided on, or it was dispatched and has no outcome.                    *)
InHand(t) ==
  \/ run[t] = "started"
  \/ t \in timed
  \/ \E r \in Recoverers :
       /\ At(r, {"decide", "close", "waiting"})
       /\ \/ t \in todo[r]
          \/ \E i \in 1 .. Len(redo[r]) :
               redo[r][i].turn = t /\ (pc[r] = "waiting" => i > 1)

(* A turn that a run or a background recovery has in hand gets its end,    *)
(* although fixlets die, records are lost, requests overlap and a waiter   *)
(* may be told the outcome of another turn: deadlines and the watchdog see *)
(* to it.  Only a crash or a lost write of the failure itself leaves it    *)
(* for the next request.                                                   *)
TurnsEnd ==
  \A t \in Turns, n \in 0 .. MaxReplays :
    (InHand(t) /\ trouble = n) ~> (t \notin IncompleteTurns(proj) \/ trouble # n)
=============================================================================
