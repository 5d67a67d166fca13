---------------------------- MODULE TurnDispatch ----------------------------
(***************************************************************************)
(* The turn orchestrator of fixus: the per-type dispatcher with its        *)
(* capacity gate, the HTTP-started runs that wait for a turn, the consumer *)
(* of the task-end stream, the failure-retry budget and the watchdog, all  *)
(* sharing one process's memory (src/orchestrator.rs, src/dispatcher.rs,   *)
(* src/task_registry.rs, src/retry.rs).                                    *)
(*                                                                         *)
(* One task type, hence one dispatcher queue.  A task has one turn: only   *)
(* a Ready or Claimed task accepts turn_started, and nothing in the        *)
(* orchestrator brings a task back from Executing to Ready.  A turn is     *)
(* therefore named by its task.                                            *)
(*                                                                         *)
(* Control is cut at the awaits where another actor can see a difference.  *)
(* The fixlets are the environment: a published turn.begin is one more     *)
(* delivery outstanding, and each outstanding delivery may come back on    *)
(* task-end as done or as an error, at any time, more than once (a fixlet  *)
(* reports the exit of its agent after done, the consumer commits a record *)
(* after it was handled), or never.                                        *)
(***************************************************************************)
EXTENDS Integers, Sequences, SequencesExt, FiniteSets

CONSTANTS
  Tasks,         (* the tasks, all of one task_type                         *)
  Prio,          (* Prio[t]: the priority the task was created with         *)
  MaxConcurrent, (* Dispatcher.max_concurrent                               *)
  MaxAttempts,   (* RetryPolicy.max_attempts                                *)
  MaxRuns,       (* bound: runs (start request + redo requests) per task    *)
  MaxTerminals,  (* bound: no answer or lease expiry is handled for a turn  *)
                 (* that has this many terminal events                      *)
  Faults         (* which of AllFaults the environment commits              *)

AllFaults ==
  {"timeout", "watchdog", "redo", "dispatch_error", "redispatch_error",
   "report_again"}

ASSUME DispatchAssumption ==
  /\ Prio \in [Tasks -> Int]
  /\ MaxConcurrent \in Nat \ {0}  \* Dispatcher::new takes max(1)
  /\ MaxAttempts \in Nat
  /\ MaxRuns \in Nat \ {0}
  /\ MaxTerminals \in Nat
  /\ Faults \subseteq AllFaults

-----------------------------------------------------------------------------
(* Actors: a run is a tokio task spawned by start_turn_async (run 1) or by *)
(* spawn_background_recovery (the later ones).                             *)

Runs     == Tasks \X (1 .. MaxRuns)
Consumer == <<"lifecycle_consumer", 0>>
Watchdog == <<"turn_watchdog", 0>>
Actors   == Runs \cup {Consumer, Watchdog}

NoTask   == "no_task"
NoRun    == 0

(* Where an actor can be.  "pump" is the head of dispatch_pending's loop,  *)
(* "publish" its dispatch_with_retry; "clear", "record", "respond" are     *)
(* fail_task_with_reason; "release" is release_slot_and_redispatch.        *)
Locations ==
  {"absent", "register", "enqueue", "wait", "ended",     \* a run
   "idle", "answer",                                     \* the consumer
   "decide", "redispatch",                               \* an error handler
   "pump", "publish", "clear", "record", "respond", "release"}

Answers == {"none", "completed", "failed", "replaced"}

VARIABLES
  taskState,    (* state of the task, as the projection holds it            *)
  terminals,    (* the terminal turn events of the task's turn, in order    *)
  queue,        (* Dispatcher: the pending turns, in order of arrival       *)
  inFlight,     (* Dispatcher: TypeQueue.in_flight                          *)
  attempts,     (* retry_attempts, 0 when the key is absent                 *)
  timed,        (* the keys of dispatch_times                               *)
  registered,   (* TaskRegistry.active_turns: the run a task's turn answers *)
  answer,       (* what each run's oneshot channel holds                    *)
  outstanding,  (* published turn.begin messages not yet answered           *)
  stale,        (* the watchdog's snapshot of keys still to be reclaimed    *)
  pc,           (* where each actor is                                      *)
  job,          (* the task each actor works for                            *)
  held,         (* the task whose turn it is publishing or failing          *)
  afterFail,    (* where it goes once fail_task_with_reason returns         *)
  afterPump,    (* where it goes once dispatch_pending returns              *)
  closing,      (* history: some actor began to close the task's turn       *)
  redispatched  (* history: re-dispatches of the turn before that           *)

store      == <<taskState, terminals>>
dispatcher == <<queue, inFlight>>
memory     == <<attempts, timed>>
channels   == <<registered, answer>>
control    == <<pc, job, held, afterFail, afterPump, stale>>
history    == <<closing, redispatched>>
vars == <<store, dispatcher, memory, channels, outstanding, control, history>>

-----------------------------------------------------------------------------
Init ==
  /\ taskState    = [t \in Tasks |-> "Ready"]
  /\ terminals    = [t \in Tasks |-> <<>>]
  /\ queue        = <<>>
  /\ inFlight     = 0
  /\ attempts     = [t \in Tasks |-> 0]
  /\ timed        = {}
  /\ registered   = [t \in Tasks |-> NoRun]
  /\ answer       = [r \in Runs |-> "none"]
  /\ outstanding  = [t \in Tasks |-> 0]
  /\ stale        = {}
  /\ pc           = [a \in Actors |-> IF a \in Runs THEN "absent" ELSE "idle"]
  /\ job          = [a \in Actors |-> IF a \in Runs THEN a[1] ELSE NoTask]
  /\ held         = [a \in Actors |-> NoTask]
  /\ afterFail    = [a \in Actors |-> "ended"]
  /\ afterPump    = [a \in Actors |-> "ended"]
  /\ closing      = [t \in Tasks |-> FALSE]
  /\ redispatched = [t \in Tasks |-> 0]

(* Where an actor rests when a handler of its returns. *)
Home(a) == IF a \in Runs THEN "ended" ELSE "idle"

GoTo(a, l) == pc' = [pc EXCEPT ![a] = l]

(* A handler that returns to its loop forgets its task. *)
ReturnTo(a, l) ==
  /\ GoTo(a, l)
  /\ job' = [job EXCEPT ![a] = IF l = "idle" THEN NoTask ELSE @]

Started(t) == \E n \in 1 .. MaxRuns : pc[<<t, n>>] # "absent"

(* get_incomplete_turns: the turn has a turn_started and no terminal. *)
Incomplete(t) == Started(t) /\ terminals[t] = <<>>

(* The bound on what the environment reports of a turn. *)
MayReport(t) == Len(terminals[t]) < MaxTerminals

-----------------------------------------------------------------------------
(* Runs: start_turn_async, run_turn_to_completion, background recovery.    *)

(* service::start_turn writes turn_started (Ready => Executing) and the    *)
(* run is spawned.  A task that is already ended is refused.               *)
StartTurn(t) ==
  /\ pc[<<t, 1>>] = "absent"
  /\ taskState[t] = "Ready"
  /\ taskState' = [taskState EXCEPT ![t] = "Executing"]
  /\ GoTo(<<t, 1>>, "register")
  /\ UNCHANGED <<terminals, dispatcher, memory, channels, outstanding, job,
                 held, afterFail, afterPump, stale, history>>

(* A start request that finds the turn incomplete: recover_task decides it *)
(* is safe to redo and a recovery run is spawned.                          *)
RedoTurn(t, n) ==
  /\ "redo" \in Faults
  /\ n > 1 /\ pc[<<t, n - 1>>] # "absent" /\ pc[<<t, n>>] = "absent"
  /\ Incomplete(t)
  /\ GoTo(<<t, n>>, "register")
  /\ UNCHANGED <<store, dispatcher, memory, channels, outstanding, job, held,
                 afterFail, afterPump, stale, history>>

(* ... or recover_task finds a non-idempotent step and only records        *)
(* turn_failed (fail_turn_with_non_idempotent_block).                      *)
BlockRedo(t) ==
  /\ "redo" \in Faults
  /\ Incomplete(t)
  /\ terminals' = [terminals EXCEPT ![t] = Append(@, "failed")]
  /\ closing' = [closing EXCEPT ![t] = TRUE]
  /\ UNCHANGED <<taskState, dispatcher, memory, channels, outstanding, control,
                 redispatched>>

(* register_pending_turn: the run it replaces is answered "replaced". *)
ReplacedSilently(t) == answer                  \* variant: the old run is not told

ReplacedTold(t) ==
  IF registered[t] = NoRun THEN answer
  ELSE [answer EXCEPT ![<<t, registered[t]>>] = "replaced"]

Register(r) ==
  /\ pc[r] = "register"
  /\ registered' = [registered EXCEPT ![r[1]] = r[2]]
  /\ answer' = ReplacedTold(r[1])
  /\ GoTo(r, "enqueue")
  /\ UNCHANGED <<store, dispatcher, memory, outstanding, job, held, afterFail,
                 afterPump, stale, history>>

(* enqueue_and_dispatch: enqueue, then dispatch_pending. *)
Enqueue(r) ==
  /\ pc[r] = "enqueue"
  /\ queue' = Append(queue, r[1])
  /\ GoTo(r, "pump")
  /\ afterPump' = [afterPump EXCEPT ![r] = "wait"]
  /\ UNCHANGED <<store, inFlight, memory, channels, outstanding, job, held,
                 afterFail, stale, history>>

(* The oneshot delivered an outcome. *)
WaitAnswered(r) ==
  /\ pc[r] = "wait"
  /\ answer[r] # "none"
  /\ GoTo(r, "ended")
  /\ UNCHANGED <<store, dispatcher, memory, channels, outstanding, job, held,
                 afterFail, afterPump, stale, history>>

DeadlineRenewed(r) ==                          \* variant: while it is pending
  "timeout" \in Faults /\ registered[r[1]] # r[2]

(* next_remaining has no deadline left: the extensions are finite and      *)
(* nothing renews them.                                                    *)
DeadlinePassed(r) == "timeout" \in Faults

(* The last extended deadline passed with no outcome (timeout() polls the  *)
(* channel first): fail_turn_and_respond.                                  *)
WaitExhausted(r) ==
  /\ DeadlinePassed(r)
  /\ pc[r] = "wait"
  /\ answer[r] = "none"
  /\ GoTo(r, "clear")
  /\ held' = [held EXCEPT ![r] = r[1]]
  /\ afterFail' = [afterFail EXCEPT ![r] = "release"]
  /\ afterPump' = [afterPump EXCEPT ![r] = "ended"]
  /\ UNCHANGED <<store, dispatcher, memory, channels, outstanding, job, stale,
                 history>>

-----------------------------------------------------------------------------
(* Dispatcher operations, each under the queues mutex.                     *)

HasCapacityOrOneOver(n) == n <= MaxConcurrent  \* variant: off by one

HasCapacity(n) == n < MaxConcurrent

SlotKept(n) == n                               \* variant: slot never returned

SlotUnderflow(n) == n - 1                      \* variant: unchecked decrement

SlotReleased(n) == IF n > 0 THEN n - 1 ELSE n

(* Higher priority first, first come first served among equals. *)
IsNext(i) ==
  \A j \in DOMAIN queue :
     \/ Prio[queue[j]] < Prio[queue[i]]
     \/ Prio[queue[j]] = Prio[queue[i]] /\ i <= j

(* dispatch_pending: try_pop took a turn; the time of dispatch is noted. *)
PopNext(a) ==
  /\ pc[a] = "pump"
  /\ HasCapacity(inFlight)
  /\ \E i \in DOMAIN queue :
       /\ IsNext(i)
       /\ held' = [held EXCEPT ![a] = queue[i]]
       /\ timed' = timed \cup {queue[i]}
       /\ queue' = RemoveAt(queue, i)
  /\ inFlight' = inFlight + 1
  /\ GoTo(a, "publish")
  /\ UNCHANGED <<store, attempts, channels, outstanding, job, afterFail,
                 afterPump, stale, history>>

(* dispatch_pending: try_pop returned None. *)
PumpDone(a) ==
  /\ pc[a] = "pump"
  /\ queue = <<>> \/ ~HasCapacity(inFlight)
  /\ ReturnTo(a, afterPump[a])
  /\ afterPump' = [afterPump EXCEPT ![a] = "ended"]
  /\ UNCHANGED <<store, dispatcher, memory, channels, outstanding, held,
                 afterFail, stale, history>>

(* dispatch_with_retry published the popped turn's turn.begin. *)
Publish(a) ==
  /\ pc[a] = "publish"
  /\ outstanding' = [outstanding EXCEPT ![held[a]] = @ + 1]
  /\ held' = [held EXCEPT ![a] = NoTask]
  /\ GoTo(a, "pump")
  /\ UNCHANGED <<store, dispatcher, memory, channels, job, afterFail, afterPump,
                 stale, history>>

(* Every attempt of dispatch_with_retry failed: the slot is returned here, *)
(* then the turn is failed, then the loop goes on.                         *)
PublishFailed(a) ==
  /\ "dispatch_error" \in Faults
  /\ pc[a] = "publish"
  /\ inFlight' = SlotReleased(inFlight)
  /\ GoTo(a, "clear")
  /\ afterFail' = [afterFail EXCEPT ![a] = "pump"]
  /\ UNCHANGED <<store, queue, memory, channels, outstanding, job, held,
                 afterPump, stale, history>>

(* release_slot_and_redispatch: on_turn_terminal, then dispatch_pending. *)
AfterReleaseReturn(a) == afterPump[a]          \* variant: no dispatch_pending

AfterRelease(a) == "pump"

ReleaseSlot(a) ==
  /\ pc[a] = "release"
  /\ inFlight' = SlotReleased(inFlight)
  /\ GoTo(a, AfterRelease(a))
  /\ UNCHANGED <<store, queue, memory, channels, outstanding, job, held,
                 afterFail, afterPump, stale, history>>

-----------------------------------------------------------------------------
(* fail_task_with_reason, for the turn in held[a].                         *)

(* The retry counter and the dispatch time of the turn go first. *)
FailClear(a) ==
  LET t == held[a] IN
  /\ pc[a] = "clear"
  /\ attempts' = [attempts EXCEPT ![t] = 0]
  /\ timed' = timed \ {t}
  /\ closing' = [closing EXCEPT ![t] = TRUE]
  /\ GoTo(a, "record")
  /\ UNCHANGED <<store, dispatcher, channels, outstanding, job, held, afterFail,
                 afterPump, stale, redispatched>>

(* turn_failed is appended unconditionally, task_failed only from          *)
(* Executing (can_transition); a refusal is logged and passed over.        *)
FailRecord(a) ==
  LET t == held[a] IN
  /\ pc[a] = "record"
  /\ terminals' = [terminals EXCEPT ![t] = Append(@, "failed")]
  /\ taskState' = [taskState EXCEPT ![t] = IF @ = "Executing" THEN "Failed" ELSE @]
  /\ GoTo(a, "respond")
  /\ UNCHANGED <<dispatcher, memory, channels, outstanding, job, held, afterFail,
                 afterPump, stale, history>>

(* complete_pending_turn: by task, whichever run is registered. *)
CompletePending(t, outcome) ==
  IF registered[t] = NoRun THEN UNCHANGED channels
  ELSE /\ registered' = [registered EXCEPT ![t] = NoRun]
       /\ answer' = [answer EXCEPT ![<<t, registered[t]>>] = outcome]

FailRespond(a) ==
  /\ pc[a] = "respond"
  /\ CompletePending(held[a], "failed")
  /\ ReturnTo(a, afterFail[a])
  /\ held' = [held EXCEPT ![a] = NoTask]
  /\ afterFail' = [afterFail EXCEPT ![a] = "ended"]
  /\ UNCHANGED <<store, dispatcher, memory, outstanding, afterPump, stale,
                 history>>

-----------------------------------------------------------------------------
(* The lifecycle consumer: one record of task-end at a time.               *)

(* A report of a published turn; it may not be the last one of it.         *)
Reported(t) ==
  /\ outstanding[t] > 0 /\ MayReport(t)
  /\ \/ outstanding' = [outstanding EXCEPT ![t] = @ - 1]
     \/ "report_again" \in Faults /\ UNCHANGED outstanding

(* handle_turn_execution_done: turn_completed is appended unconditionally, *)
(* the counters go, then the slot, then the answer.                        *)
CompletionLost(t) == terminals                 \* variant: write error ignored

CompletionRecorded(t) == [terminals EXCEPT ![t] = Append(@, "completed")]

ConsumeDone(t) ==
  /\ pc[Consumer] = "idle"
  /\ Reported(t)
  /\ terminals' = CompletionRecorded(t)
  /\ attempts' = [attempts EXCEPT ![t] = 0]
  /\ timed' = timed \ {t}
  /\ closing' = [closing EXCEPT ![t] = TRUE]
  /\ job' = [job EXCEPT ![Consumer] = t]
  /\ afterPump' = [afterPump EXCEPT ![Consumer] = "answer"]
  /\ GoTo(Consumer, "release")
  /\ UNCHANGED <<taskState, dispatcher, channels, held, afterFail, stale,
                 redispatched>>

AnswerDone ==
  /\ pc[Consumer] = "answer"
  /\ CompletePending(job[Consumer], "completed")
  /\ ReturnTo(Consumer, "idle")
  /\ UNCHANGED <<store, dispatcher, memory, outstanding, held, afterFail,
                 afterPump, stale, history>>

(* RetryPolicy::decide, under the retry_attempts lock: a retryable reason  *)
(* within the budget is dispatched again, anything else fails the task and *)
(* releases the slot.                                                      *)
RetryAllowedOnceMore(n, retryable) == retryable /\ n <= MaxAttempts \* variant

RetryAllowed(n, retryable) == retryable /\ n < MaxAttempts

Decide(a, t, retryable) ==
  /\ job' = [job EXCEPT ![a] = t]
  /\ IF RetryAllowed(attempts[t], retryable)
     THEN /\ attempts' = [attempts EXCEPT ![t] = @ + 1]
          /\ redispatched' = [redispatched EXCEPT ![t] = IF closing[t] THEN @ ELSE @ + 1]
          /\ GoTo(a, "redispatch")
          /\ UNCHANGED <<held, afterFail, afterPump, closing>>
     ELSE /\ attempts' = [attempts EXCEPT ![t] = 0]
          /\ held' = [held EXCEPT ![a] = t]
          /\ afterFail' = [afterFail EXCEPT ![a] = "release"]
          /\ afterPump' = [afterPump EXCEPT ![a] = Home(a)]
          /\ GoTo(a, "clear")
          /\ closing' = [closing EXCEPT ![t] = TRUE]
          /\ UNCHANGED redispatched

(* handle_turn_execution_error, up to its decision. *)
ConsumeError(t, retryable) ==
  /\ pc[Consumer] = "idle"
  /\ Reported(t)
  /\ Decide(Consumer, t, retryable)
  /\ UNCHANGED <<store, dispatcher, timed, channels, stale>>

(* The retry keeps its slot and goes straight to dispatch_with_retry. *)
Redispatch(a) ==
  /\ pc[a] = "redispatch"
  /\ outstanding' = [outstanding EXCEPT ![job[a]] = @ + 1]
  /\ ReturnTo(a, Home(a))
  /\ UNCHANGED <<store, dispatcher, memory, channels, held, afterFail, afterPump,
                 stale, history>>

(* Every attempt failed: fail_task_with_reason, and nothing else. *)
RedispatchFailed(a) ==
  /\ "redispatch_error" \in Faults
  /\ pc[a] = "redispatch"
  /\ held' = [held EXCEPT ![a] = job[a]]
  /\ afterFail' = [afterFail EXCEPT ![a] = Home(a)]
  /\ GoTo(a, "clear")
  /\ UNCHANGED <<store, dispatcher, memory, channels, outstanding, job,
                 afterPump, stale, history>>

-----------------------------------------------------------------------------
(* The watchdog: reclaim_stale_turns.                                      *)

(* The keys older than the lease are copied out of dispatch_times. *)
WatchdogScan ==
  /\ "watchdog" \in Faults
  /\ pc[Watchdog] = "idle" /\ stale = {}
  /\ stale' \in {S \in SUBSET timed :
                   S # {} /\ \A t \in S : MayReport(t)}
  /\ UNCHANGED <<store, dispatcher, memory, channels, outstanding, pc, job, held,
                 afterFail, afterPump, history>>

(* One of them: its time is written again, whether or not it is still      *)
(* there, and agent_unresponsive is handled as an error of the turn.       *)
ReclaimStale(t) ==
  /\ pc[Watchdog] = "idle" /\ t \in stale
  /\ stale' = stale \ {t}
  /\ timed' = timed \cup {t}
  /\ job' = [job EXCEPT ![Watchdog] = t]
  /\ GoTo(Watchdog, "decide")
  /\ UNCHANGED <<store, dispatcher, attempts, channels, outstanding, held,
                 afterFail, afterPump, history>>

DecideStale ==
  /\ pc[Watchdog] = "decide"
  /\ Decide(Watchdog, job[Watchdog], TRUE)
  /\ UNCHANGED <<store, dispatcher, timed, channels, outstanding, stale>>

-----------------------------------------------------------------------------
RunStep(r) ==
  Register(r) \/ Enqueue(r) \/ WaitAnswered(r) \/ WaitExhausted(r)

(* The steps any actor may be at. *)
SharedStep(a) ==
  \/ PopNext(a) \/ PumpDone(a) \/ Publish(a) \/ PublishFailed(a)
  \/ FailClear(a) \/ FailRecord(a) \/ FailRespond(a)
  \/ ReleaseSlot(a) \/ Redispatch(a) \/ RedispatchFailed(a)

ConsumerStep ==
  \/ \E t \in Tasks :
       ConsumeDone(t) \/ \E retryable \in BOOLEAN : ConsumeError(t, retryable)
  \/ AnswerDone

WatchdogStep ==
  WatchdogScan \/ (\E t \in Tasks : ReclaimStale(t)) \/ DecideStale

Request(t) ==
  \/ StartTurn(t) \/ BlockRedo(t)
  \/ \E n \in 1 .. MaxRuns : RedoTurn(t, n)

Next ==
  \/ \E t \in Tasks : Request(t)
  \/ \E r \in Runs : RunStep(r)
  \/ \E a \in Actors : SharedStep(a)
  \/ ConsumerStep
  \/ WatchdogStep

Spec == Init /\ [][Next]_vars

-----------------------------------------------------------------------------
TypeOK ==
  /\ taskState \in [Tasks -> {"Ready", "Executing", "Failed"}]
  /\ terminals \in [Tasks -> Seq({"completed", "failed"})]
  /\ queue \in Seq(Tasks)
  /\ inFlight \in 0 .. MaxConcurrent
  /\ attempts \in [Tasks -> 0 .. MaxAttempts]
  /\ timed \subseteq Tasks
  /\ registered \in [Tasks -> NoRun .. MaxRuns]
  /\ answer \in [Runs -> Answers]
  /\ outstanding \in [Tasks -> Nat]
  /\ stale \subseteq Tasks
  /\ pc \in [Actors -> Locations]
  /\ job \in [Actors -> Tasks \cup {NoTask}]
  /\ held \in [Actors -> Tasks \cup {NoTask}]
  /\ afterFail \in [Actors -> {"pump", "release", "ended", "idle"}]
  /\ afterPump \in [Actors -> {"wait", "answer", "ended", "idle"}]
  /\ closing \in [Tasks -> BOOLEAN]
  /\ redispatched \in [Tasks -> Nat]

(* An actor that is in dispatch_pending, or is failing a turn from within  *)
(* it, looks at the queue again before it leaves.                          *)
Pumping(a) ==
  \/ pc[a] \in {"pump", "publish"}
  \/ pc[a] \in {"clear", "record", "respond"} /\ afterFail[a] = "pump"

(* No turn is stranded in the queue beside a free slot: whenever one is    *)
(* pending and in_flight is below the limit, some actor is still inside    *)
(* dispatch_pending.  There is no background dispatcher, so a slot that is *)
(* freed by whoever leaves last without looking again would never be used. *)
NoStrandedTurn ==
  queue # <<>> /\ HasCapacity(inFlight) => \E a \in Actors : Pumping(a)

(* A run that registered itself and has not been answered is the one its   *)
(* task's turn will answer, and a run that was answered is not: no waiting *)
(* run is ever left with a dead channel, none is answered twice, however   *)
(* completions, failures, timeouts and replacing redo runs interleave      *)
(* (register_pending_turn, complete_pending_turn).                         *)
OneSender ==
  \A t \in Tasks, n \in 1 .. MaxRuns :
     pc[<<t, n>>] \notin {"absent", "register"} =>
       (answer[<<t, n>>] = "none" <=> registered[t] = n)

(* What a caller is told is on record: a run is answered "completed" only  *)
(* once a turn_completed of its turn is in the store, although the answer  *)
(* is addressed by task, after a release and a whole dispatch_pending.     *)
CompletedIsRecorded ==
  \A t \in Tasks, n \in 1 .. MaxRuns :
     answer[<<t, n>>] = "completed" =>
       \E i \in DOMAIN terminals[t] : terminals[t][i] = "completed"

(* The retry budget holds across the two error handlers (consumer and      *)
(* watchdog): until some path starts to close the turn, it has been        *)
(* dispatched again at most max_attempts times.                            *)
RetryBudget ==
  \A t \in Tasks : redispatched[t] <= MaxAttempts

(* A turn that occupies a slot: published and unanswered, being published, *)
(* or in the hands of the consumer until release_slot_and_redispatch.      *)
HoldsSlot(t) ==
  \/ outstanding[t] > 0
  \/ \E a \in Actors : pc[a] = "publish" /\ held[a] = t
  \/ /\ job[Consumer] = t
     /\ \/ pc[Consumer] \in {"redispatch", "release"}
        \/ /\ pc[Consumer] \in {"clear", "record", "respond"}
           /\ afterFail[Consumer] = "release"

(* While each published turn is answered once, before any deadline, the    *)
(* in_flight counter is exactly the number of turns that occupy a slot,    *)
(* through retries (which keep the slot), failed first dispatches (which   *)
(* return it) and both kinds of ending.                                    *)
SlotAccounting == inFlight = Cardinality({t \in Tasks : HoldsSlot(t)})

(* A turn that has been dispatched and has no terminal event yet.  The     *)
(* comment on Dispatcher.max_concurrent promises that at most that many    *)
(* turns of a type are out at once.                                        *)
Out(t) == outstanding[t] > 0 /\ terminals[t] = <<>>

ConcurrencyLimit == Cardinality({t \in Tasks : Out(t)}) <= MaxConcurrent

(* The comments on dispatch_times and record_turn_terminal_metric rely on  *)
(* a turn having one terminal event.                                       *)
TerminalOnce == \A t \in Tasks : Len(terminals[t]) <= 1

(* on_turn_terminal is documented as the callback of every terminal turn:  *)
(* once every started turn is over and nobody is at work, all slots must   *)
(* be free again.                                                          *)
AtRest ==
  /\ \A a \in Actors : pc[a] \in {"absent", "ended", "idle"}
  /\ \A t \in Tasks : /\ Started(t) => terminals[t] # <<>>
                      /\ outstanding[t] = 0
  /\ queue = <<>> /\ stale = {}

NoSlotLeak == AtRest => inFlight = 0

-----------------------------------------------------------------------------
(* Fairness.  Every spawned tokio task and every handler that was entered  *)
(* goes on; deadlines expire.  Nothing is assumed of clients or fixlets.   *)
HandlerFairness ==
  /\ \A r \in Runs : WF_vars(RunStep(r) \/ SharedStep(r))
  /\ WF_vars(SharedStep(Consumer) \/ AnswerDone)
  /\ WF_vars(SharedStep(Watchdog) \/ DecideStale
             \/ \E t \in Tasks : ReclaimStale(t))

(* In addition every published turn is answered, in the end for good. *)
AgentFairness == WF_vars(SharedStep(Consumer) \/ ConsumerStep)

FairSpec == Spec /\ HandlerFairness
CalmSpec == FairSpec /\ AgentFairness

(* Whatever is lost on the way to a fixlet or back, and whichever path     *)
(* fails the turn first, every run that was spawned comes to its end.      *)
RunsEnd ==
  \A r \in Runs : (pc[r] # "absent") ~> (pc[r] = "ended")

(* With fixlets that answer, no started turn waits in the queue for ever:  *)
(* slots come back and each one that does is used.                         *)
TurnsAnswered ==
  \A t \in Tasks : Started(t) ~> (terminals[t] # <<>> /\ registered[t] = NoRun)

=============================================================================
