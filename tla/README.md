# A verification development of fixus

fixus runs agent tasks. A task is a state machine kept as a stream of events at
a broker; a turn is one unit of work of a task, executed outside the process by
a fixlet (an agent host). The server process checks what may be written, keeps
projections of the streams in memory, queues turns per task type behind a
capacity gate, publishes them, waits for their ends, and retries or fails them.

This directory holds TLA+ models of that program, the TLC configurations that
check them on small instances, and TLAPS proofs about them for every instance.
Paths such as `orchestrator.rs:1381` are relative to `src/src/` of the
repository checkout.

## 1. Inventory

| Component | State it keeps | Operations | What makes it correct |
|---|---|---|---|
| Task state machine (`models.rs`) | none (pure) | `can_transition`, `is_terminal`, `validate_task_event_transition`, `classify_failure` | a task moves along the table and never leaves an end state |
| Task projection (`projection.rs`) | state, largest turn, turns, steps, last sequence number, token sums of a task | `apply`, `incomplete_turns`, `incomplete_steps`, ... | equals the fold of the task's whole stream |
| Projection cache (`projection.rs`) | map task -> projection, LRU order | `get`, `catch_up`, `invalidate`, eviction | an entry that no load is filling agrees with the stream |
| Broker event store (`broker_store.rs`) | the cache, a writer behind a mutex | `ensure_projection`, `with_projection`, `write_event`, `write_events_batch`, queries, policy streams, `dispatch_tool` | each event is legal where it is appended; each call returns |
| Task service (`service.rs`) | none | `transition_task` and its wrappers, `start_turn`, turn endings, step records, summaries | check-then-write keeps the life cycle; turn numbers are new; the summary trigger reads the same numbers from either store |
| Orchestrator (`orchestrator.rs`) | retry counters, dispatch times, handles to all the others | `start_turn_async`, `run_turn_to_completion`, redo, `dispatch_pending`, failure funnel, consumers of task-end and task-result, watchdog, health probe | no queued turn beside a free slot; each run answered by its own turn; retries within budget; every run ends; slots neither lost nor doubled |
| Dispatcher (`dispatcher.rs`) | per type a heap of turns and `in_flight` | `enqueue`, `try_pop`, `on_turn_terminal` | `in_flight` within the limit; priority then arrival order |
| Task registry (`task_registry.rs`) | task -> sender of the run that waits | `register_pending_turn`, `take`, `complete_pending_turn` | one sender per waiting run, each run answered once |
| Retry policy (`retry.rs`) | none (pure) | `decide` | at most `max_attempts` re-dispatches |
| Recovery (`recovery.rs`) | none | `recover_task`, `decide_turn_recovery`, `build_redo_context` | a turn is redone only if no step in flight can do harm twice |
| Context builder (`context.rs`) | none (pure) | fold of events to LLM messages | formatting |
| Test store (`storage.rs`) | the log alone | the same queries, each a scan of the log | it answers what the projection of production answers |
| Policy (`policy.rs`, tenant stream, turn and call headers) | the operator's policy; the tenant's and the task's in their streams | intersection, subset test, role narrowing; on with each turn and call | a call carries no more than was asked, granted and allowed; nothing all three allow is lost |
| HTTP server (`server.rs`) | none | routes to service and orchestrator; events, batches, turn ends, end and ready of a task, summaries from clients | what it lets clients write leaves the log fit for recovery, with named exceptions |
| Fixlet (`bin/fixlet`) | the one active turn, the agent process, idempotency cache | claim, commit, forward, report done or error, restart of the agent | a claimed turn is reported; reports belong to the turn that ran |
| Tools bank (`bin/tools-bank`) and tool catalog (`crates/tool-catalog`) | registry of adapters; pending calls by step id | load of extras, registration, dispatch to a sandbox or an HTTP adapter, timeout, result | a listed tool is routed where it is listed; a call is answered with its first result, a timed-out one not again; its step records come in pairs |
| Stream gateway (`bin/fixus-stream`) | last sequence number shown | replay of history, live tail | each event shown once, in order, up to the first terminal one |
| Metrics, token publisher, benches, examples | counters; none | - | observation, best effort |

How they interact: an HTTP handler calls `service` (guarded writes through the
broker store) and then spawns a *run* in the orchestrator, a tokio task that
registers a oneshot sender, queues its turn, pumps the dispatcher and waits.
A fixlet claims the published `turn.begin`, and reports on the broker stream
task-end. One consumer task reads task-end, writes the terminal event, gives
back the slot, pumps the dispatcher and answers the waiting run. A watchdog
task reclaims turns that are out too long. An agent calls tools at the tools
bank, which reports each step on task-end too; the consumer writes these into
the stream of the task, from which the stream gateway serves the clients that
follow a turn, and recovery decides after a crash what may be done again. All
parts of the server share the process's
memory through mutexes that are released between any two awaits.

What is hard in it: check-then-act across an await (the write guard, the turn
number, the task whose sender is answered); a deadline or the watchdog racing a
late answer; the slot counter changed from six call sites; loads of a
projection that others can see half-way; failures in the middle of a handler;
at-least-once delivery into handlers that append unconditionally; a start
request for a turn that is running, taken for a crash. `PROJECT.json` lists
each hazard at its line with the properties that cover it.

## 2. Modules

| Module | Models | Role |
|---|---|---|
| `TurnDispatch` | orchestrator + dispatcher + registry + retry policy + watchdog | the core: all actors of one process around one task type |
| `TaskLog` | the event types, the log of turns and steps, the projection of production and the queries of both stores | abstract specification of what may be added to a log |
| `Recovery` | recovery, the consumer of task-end with commits, rejoins and replays, start and recovery requests, clients' own events | implements `TaskLog`; crashes and lost writes |
| `ToolsBank` | catalog, registry, one call of a tool from request to answer, the result consumer | what reports the tool steps |
| `StreamGateway` | the follower of one turn: subscription, replay, live tail | what reads the log |
| `ToolPath` | lifecycle consumer between the two | composes `ToolsBank` and `StreamGateway` |
| `Policy` | the resolver, the policy of the tenant, its way to the sandbox | pure operators and the protocol that applies them |
| `TurnDispatch_proofs` | - | theorems about `TurnDispatch` |
| `TaskLifecycle` | the task state machine | abstract specification of a task |
| `TaskStore` | service transitions, write guard, writer mutex, projection, cache | implements `TaskLifecycle` as long as calls do not overlap |
| `TaskStore_proofs` | - | theorems about `TaskStore`, this refinement among them |
| `Fixlet` | a fixlet's claim loop, its one active turn, its agent process | what the environment of `TurnDispatch` does with a published turn |
| `Fixlet_proofs` | - | theorems about `Fixlet` |
| `TaskLog_proofs`, `Recovery_proofs`, `Policy_proofs` | - | theorems about these |
| `ToolPath_proofs` | - | theorems about `ToolsBank`, `StreamGateway` and their composition |
| `FoldLemmas` | - | induction over numbers, least elements, recursion and sums, for the other proof modules |
| `MCTurnDispatch`, `MCTaskStore`, `MCFixlet`, `MCRecovery`, `MCToolPath`, `MCPolicy` | - | values of the constants for TLC |

### TurnDispatch

*State.* `queue`, `inFlight` are the dispatcher's `TypeQueue`; `attempts`,
`timed` the maps `retry_attempts` and `dispatch_times`; `registered` is
`TaskRegistry.active_turns` and `answer` the contents of the oneshot channels;
`taskState`, `terminals` are what the store holds of a task and its turn;
`outstanding` counts published `turn.begin` messages whose report is not yet
handled. `stale` is the vector of keys `reclaim_stale_turns` copied. `pc`,
`job`, `held`, `afterFail`, `afterPump` are the control state of each actor:
where it is, for which task it works, which turn it is publishing or failing,
and where the two shared subroutines (`fail_task_with_reason`,
`dispatch_pending`) return to. `closing` and `redispatched` are history
variables: they guard nothing and serve only `RetryBudget`.

*Actors.* A run per start or redo request (`start_turn_async`,
`spawn_background_recovery`), the consumer of task-end, the watchdog.

*Actions.* Control is cut where another actor can see the difference, that is
at the awaits between two accesses to shared memory or the store:
`Register`, `Enqueue`, `WaitAnswered`, `WaitExhausted` are
`run_turn_to_completion`; `PopNext`, `PumpDone`, `Publish`, `PublishFailed` the
loop of `dispatch_pending`; `FailClear`, `FailRecord`, `FailRespond` are
`fail_task_with_reason` and the answer that follows it; `ReleaseSlot` is
`release_slot_and_redispatch`; `ConsumeDone`, `AnswerDone` are
`handle_turn_execution_done`; `ConsumeError`, `Decide`, `Redispatch`,
`RedispatchFailed` are `handle_turn_execution_error`; `WatchdogScan`,
`ReclaimStale`, `DecideStale` are `reclaim_stale_turns`.

*Environment.* `Faults` selects what may go wrong: `timeout` (the last extended
deadline of a run passes), `watchdog` (a dispatched turn is older than the
lease), `redo` (a start request finds its turn incomplete, and recovery either
redoes or fails it), `dispatch_error` and `redispatch_error` (all attempts of
`dispatch_with_retry` fail), `report_again` (a delivery comes back more than
once: task-end records are committed only after they were handled, and a fixlet
reports its agent's exit after it reported done). A published turn may always
stay unanswered.

*Abstractions.* One task type: types share nothing in the dispatcher but a
counter that breaks ties. A turn is named by its task, because nothing in the
orchestrator brings a task back from Executing to Ready. Failure reasons are
retryable or not. `resolve_task_type` and writes to the store succeed (the
failing write of a turn's end is in `Recovery`). Waiting is one step: the
deadlines of a run are a finite list, so their end is what matters.

### TaskLifecycle and TaskStore

`TaskLifecycle` is `TaskState::can_transition` as a specification, with
`turn_started` allowed from Ready or Claimed. `TaskStore` is one task's stream,
the objects its projections live in, the cache entry, and any number of
concurrent calls: a transition (ask for the state, write), `start_turn` (does
the task exist, is it over, largest turn, write), a turn ending (write without
asking) and a query. A load follows `catch_up`: join the stream, publish an
empty projection, apply record after record, stop at CaughtUp. The broker is
the environment; `Faults` has `evict` (other tasks use up the LRU, or
`invalidate`), `short_load` (a second join takes the session over, the 15 s
deadline, CaughtUp overtaking a record), `load_error`, `write_error` and
`lost_ack` (appended, but the producer saw an error). `truth` and `tainted` are
history: the projection of the whole stream, and the objects whose load was cut
short, failed, or ran during a write. `RefState` and its helpers are the test
store's `derive_task_state` over the same stream, which `StatesAgree` compares
with the projection.

### Fixlet

*State.* `claimed` are the `turn.begin` records that were committed, `inbox` the
channel from `claim_turns` to the main loop; `active` and `step` are
`active_turn` and whether its `step_id` is set, `acc` whose chunks are in the
`MessageAccumulator`; `pc` says whether the main loop is in its `select!` or
inside `handle_execute_turn_from_broker`, waiting for session/new. `child` and
`stdout` are the agent process and its pipe, `asked` and `prompts` what the
agent has to answer; `taskEnd` is what was produced to task-end. `lost` is
history: deliveries that can no longer be reported, because the agent ended
their prompt otherwise or the fixlet was restarted; so is `overlapped`.

*Actions.* Those of the main loop, one per branch of its `select!` and per end
of a handler: `TakeTurn`, `SpawnFailed`, then `LineSkipped` (the session/new
loop reads and forgets all other lines), `SessionReady`, `SessionEof`; `Chunk`,
`FinalMessage`, `AgentError`, `Ignored` are `handle_agent_message`; `ExitSeen`
is the exit branch. `Claim` is the subscriber task. The agent is external: it
opens or refuses a session, streams, answers, gives up, exits. A line knows its
turn in the model so that properties can ask about it; no action of the main
loop acts on it, just as the code compares no line with the active turn.

*Environment.* `Faults` as above. A delivery may come at any time, also while an
earlier one is neither reported nor given up: the orchestrator allows it (six
turns of a type are out at once by default), and `claim_turns` does not look
whether the main loop has a turn. `overlapped` is history: it says that this has
happened. Where `FIXUS_MAX_CONCURRENT_PER_TYPE` is 1 and nothing is redone, it never
does. What the code keeps in any case (`NoLaterAnswer`, `DonePaired`) does not
mention it; what it keeps only until then (`OwnAnswer`, `TurnsReported`) does. A
delivery is one `turn.begin` record: a redo or a retry is another delivery.

*Abstractions.* Thoughts and tool calls of the agent are not shown (they are
logged); texts are the set of turns they come from; produces and the commit of a
claim succeed, and a claim stream that joins again and delivers a turn twice is
left out (two deliveries of a turn are two elements of `Deliveries`); the answer
to `initialize` is a line nobody waits for and is left out.

### TaskLog and Recovery

*State.* `log` is the stream of one task without the task events that the
service writes (those are `TaskStore`'s), a sequence number the index in it;
`proj` is the projection of production: the active turns, where each open step
started, which steps have ended, the largest turn, the token sum, the last
summary. `IncompleteTurns`, `ProjTurnSteps`, `ProjTrigger`, ... are the queries
`BrokerEventStore` answers from it, `RefIncompleteTurns`, `RefTurnSteps`,
`RefTrigger`, ... those `LogdbdEventStore` answers from the log. `Write` is
`write_event` with its scope check, `WriteBatch` is `write_events_batch`, which
checks nothing: `BatchTypes` may be all event types, those of turns, task and
session included, each with a turn and a step, since the handler always passes
both. `LogSpec` is the abstract specification: new turns, turn ends, step
events, batches and summary markers in any order. `Restarted` names the one
thing a batch can do that the two stores read differently: a turn that has ended
is started again. The projection lists it as incomplete, a scan for a start
without an end does not.

`Recovery` puts the actors around it. `ends` is the topic task-end and `pos` the
place of the consumer; `state` is the task's state as the projection derives it;
`working` counts the fixlets that were handed a turn;
`waiter`, `timed`, `attempts` are the registry's entry, `dispatch_times` and
`retry_attempts`; `run`, `starting` are runs and start requests under way; `pc`,
`todo`, `closing`, `blocking`, `redo` the control state of each recovery: a recovery
takes the incomplete turns in any order, since production iterates a `HashSet`, and
`closing` is the one it is failing. `lost` (the steps that a client wrote or whose
record was lost) and the counters are history.

*Actions.* `Request` and `RequestApply` are the two ways into recovery,
`StartTurn`, `RunDispatch`, `RunTold`, `RunExhausted` a run, `Watchdog` the
lease. `Consume` is one record of `run_lifecycle_consumer` with its handler and
its commit: `StepRecorded`, `DoneRecorded`, `ErrorRecorded`, or `RecordLost`, in
which the write fails, the handler returns and the record is committed all the
same. `RecoveryCheck`, `RecoveryDecide`, `RecoveryCloseStep`,
`RecoveryFailTurn`, `RecoveryAborts` are `recover_task`, one step per write;
`RecoveryRedo`, `RedoTold`, `RedoExhausted`, `RecoveryEnds` the loop of
`spawn_background_recovery`, `ApplyReturns` the handler that only returns the
queue. What clients may write past the consumer: `ClientEvent` (`/events`, a
step event: the handler always passes a step, so that other types fail the scope
check), `ClientBatch` (`/events/batch`, any type), `ClientTurnEnd`
(`turns/{id}/complete`, `fail`, `cancel`, for a turn of any number),
`ClientTask` (`/end` and `/ready`) and `ClientSummary`. No route reaches
`block_task`. `Restart` empties memory and puts the consumer back to the start
of the topic, since its group is new at each start; `Rejoin` puts it back to its
last commit.

*Environment.* Fixlets and tools bank report steps and ends of the turns they
were handed, or nothing. When an agent exits after its answer, the fixlet, whose
active turn it still is, reports `llm_failed` for the completed step (`ReportExit`)
and then an error for the turn (`ReportExitedTurn`). `RecoveryFaults`: `crash`,
`rejoin` (the consumer goes back to its last commit), `record_lost` (an event of the
consumer is not written), `failure_lost` (the `turn_failed` of
`fail_task_with_reason` is not), `recovery_cut` (a write of `recover_task` fails, which
ends it), `agent_exit`.

*Abstractions.* The dispatcher is one step (its interleavings are
`TurnDispatch`'s), and so is a write with the update of the projection
(`TaskStore`'s). Clients' events carry no tokens.

### ToolsBank, StreamGateway and ToolPath

`ToolsBank`: `registry` and `unread` are `build_registry` on its way through the
configured adapters; `SandboxTools` is what the operator's extras file comes to
(one malformed or repeated entry and the file counts for nothing, an extra that
has the name of a builtin is dropped). `pc`, `tool`, `opened`, `outcome`, `answer`
are the control state and locals of `tools_call`; `pending` and `channel` the
pending map and the oneshot channels in it; `taskEnd`, `invokes`, `results` the
three streams, `rpos` the result consumer. A call is `Open` (the `tool_invoked`
record), one of the three `Route` actions, for the sandbox `Produce` or
`ProduceFails`, then `ResultReceived` or `Timeout`, then `Close` (the second
record, unless the first is missing) and `Reply`. `BankFaults`: produces that
fail, that fail although the broker appended, deadlines, clients that go away and
take their handler with them, a result consumer that joins again. The sandbox is
external: it runs a call late, repeatedly or never.

`StreamGateway`: `stream` is the task's stream, `place` where `stream_handler` is,
`replay` the positions of its plan that are still to be sent, `lastSeq` its
`last_history_seq`, `tail` what the subscription has delivered; `shown` and `done`
what the client was sent. `Subscribe`, `Scan`, `Replay`, `ReplayEnds`, `Live` are
its steps, the others its ways to fail.

`ToolPath` conjoins them: the lifecycle consumer (`StepWritten`, or `StepLost` when
its write fails) takes each record of the bank's `taskEnd` to the gateway's
`stream`. Its next-state relation interleaves the two modules' own.

### Policy

A path is a sequence of components, a scope a path with its trust, a policy
lists of readable and writable scopes and a set of egress rules (rules are only
compared, as a whole). `PolicyAssumption` says that all the constants are such
policies. The operators with the names of `policy.rs` are its functions. The rest
is the way of a policy: `SetTenantPolicy` and `Restart` (the operator's file is
read again) change what later creations see; `ReadTenantPolicy` and `CreateTask`
are `create_session_handler` around its await; `BeginTurn`, `OpenSession`, `CallTool`
carry the effective policy with a turn to the fixlet, into the agent's session and
to the sandbox. A read of the tenant's stream may be stale or come to nothing,
a projection may not have the policy, an agent may drop the header: each of
these is a choice in the action.

Operators marked *variant* are plausible mistakes in the code (a dropped guard,
a missing reset, an off-by-one). The specifications do not use them; each one
stands for the change that the property named with it in `PROJECT.json` must
catch.

## 3. Runs

| Run | Instance | Shows |
|---|---|---|
| `dispatch_race` | 2 tasks, 1 slot, 1 retry, timeout + both dispatch errors | `NoStrandedTurn`, `CompletedIsRecorded`, `RunsEnd` |
| `dispatch_redo` | 1 task, 2 runs (start + redo), 2 retries, watchdog + redo + double reports | `TypeOK`, `OneSender`, `RetryBudget` |
| `dispatch_live` | 3 tasks of two priorities, 2 slots, fixlets answer, first dispatches fail | `SlotAccounting`, `TurnsAnswered` |
| `dispatch_limit` | 3 tasks, 1 slot, timeout | violates `ConcurrencyLimit` |
| `store_serial` | 1 call at a time, all events, evictions and failed writes | `StatesAgree`, `ImplementsLifecycle`, `LegalWrites` |
| `store_shared` | 2 calls, three kinds of event, all faults | `TypeOK`, `CacheAgrees`, `CallsReturn` |
| `fixlet` | 3 deliveries that overlap or not, all faults | `OwnAnswer`, `NoLaterAnswer`, `DonePaired`, `TurnsReported` |
| `recovery` | 1 turn, 1 step of either kind, 2 recoveries, 3 requests (batches that start the turn again among them), 2 reports and those of an agent that exits, 1 crash, recoveries cut short | `TurnsAgree`, `StepsCovered`, `TotalsAgree`, `SummaryInTime`, `StepsCaughtUp`, `TokensPerReplay`, `WritesAllowed`, `RedoClean`, `StepEndsOnce` |
| `recovery_live` | 2 turns, no steps, 1 recovery, 3 requests (batches that make the task ready again among them), 1 report, 1 retry, crash, rejoin, lost records and failures | `TurnsEnd` |
| `recovery_skipped` | 1 turn, 1 tool step, 1 recovery, recoveries cut short | violates `SkippedNotRedone` |
| `toolpath` | 1 call, 3 names, an extras file and three adapters, 2 results, 2 turns, all faults | the ten properties of `ToolsBank`, `StreamGateway` and `ToolPath` below |
| `policy` | 1 task, 2 operator, 3 tenant and 4 task policies over two directory trees, 3 puts, 2 restarts | `CallsWithin`, `AcceptedIsGranted` |

The properties:

- `NoStrandedTurn`: nothing dispatches in the background, so whenever a turn is
  queued and a slot is free some actor is still inside `dispatch_pending`.
- `OneSender`: a run that registered is unanswered exactly as long as its task's
  sender is its own.
- `CompletedIsRecorded`: a caller told "completed" finds `turn_completed` in the
  store.
- `RetryBudget`: two handlers retry from one counter, and never beyond the
  budget while the turn is open.
- `SlotAccounting`: without deadlines and failing re-dispatches, `in_flight` is
  the number of turns that occupy a slot.
- `RunsEnd`, `TurnsAnswered`: every run ends; with fixlets that answer every
  started turn is dispatched, ended and answered.
- `LegalWrites`, `ImplementsLifecycle`: serial calls keep the
  life cycle, although the projection they checked may be evicted and rebuilt
  between the check and the write.
- `StatesAgree`: production and the test store read one state out of a stream,
  with one exception the code has: a turn started from Ready makes the task
  Executing for production and leaves it Ready for `derive_task_state`, which knows
  `turn_started` only after a claim.
- `CacheAgrees`: an undisturbed projection equals the fold of the stream.
- `CallsReturn`: no eviction, failed load or failed write leaves a call waiting.
- `OwnAnswer`: a done record is caused by the end of its own turn's prompt and
  carries no other turn's text, as long as no claims have overlapped.
- `NoLaterAnswer`: what remains of it when they do: a turn may be reported with
  the end and the text of another one, but only of one announced before it.
- `DonePaired`: a done record directly follows an `llm_completed` of an announced
  step of the same turn.
- `TurnsReported`: a claimed turn is reported, or the agent gave it up (an error
  or another stop reason ends a prompt without a report), or a crash after the
  commit lost it, or the fixlet went deaf: an agent that refuses session/new and
  lives is waited for without a deadline, or claims overlapped and the next turn
  took its place. The exceptions are what the code leaves to the orchestrator's
  deadlines.
- `TurnsAgree`, `StepsCovered`, `TotalsAgree`: what recovery and the summary work
  on is the same by projection and by log, whatever clients write: the turns that
  are not over, but for those that a batch started again after their end
  (`Restarted`), which only production lists; no step in flight is hidden (a step
  whose start is repeated after its end counts as in flight only for the
  projection); turn numbers, tokens and summary boundary.
- `SummaryInTime`: production asks for a summary no later than the reference,
  unless a batch has started a turn since the last one (production dates a turn by
  its first event, which may be older than the summary).
- `WritesAllowed`: the refinement of the log's specification; a `turn_started` that
  no batch brings is a turn of its own.
- `StepsCaughtUp`: once the consumer has read the topic, a step in flight by the
  projection is one whose end nobody reported, after any crash and replay.
- `TokensPerReplay`: tokens are counted once per reading of their record, so at
  most once more for each time the consumer goes back.
- `StepEndsOnce`: production has no `check_terminal_uniqueness`; it writes a
  second end of a step only after a replay, for a step that a client wrote, when
  recovery closes a step that its tool ends as well, or as the `llm_failed` of an
  agent that exited after its answer. `OneEndPerStep` is the same without the
  exceptions, as `docs/security-whitepaper.md:49` has it.
- `RedoClean`: a turn whose step was handed to a human is not redone, unless a
  recovery was cut short or is at it in that moment, or a batch started the turn
  again.
- `TurnsEnd`: a turn somebody has in hand ends; only a crash or the lost write of
  its failure leaves it for the next request.
- `ListedIsRouted`, `StepsPaired`, `PendingIsAwaited`, `FirstResultWins`,
  `CallsAnswered`: the registry agrees with its list; one opening and one closing
  record per step, in order; no sender is left in the pending map but those of
  dropped handlers; the answer is the first result reported; every call whose
  client stays is answered.
- `ShownIsStream`, `DoneIsEnd`, `EndIsShown`: a follower sees the turn's events
  once and in order, without a gap from the first; it is told "done" at the
  turn's end; and it sees the end.
- `ShownIsReported`: no timeout, lost answer or client that went away turns into
  the shown completion of a step nobody ran, and none into another turn's.
- `CallsWithin`, `AcceptedIsGranted`: policies only narrow, over all changes
  between the creation of a task and its calls; a reader's call has no egress and
  writes only where a scope is labelled `work_dir` (the label, which comes from the
  task's own scope at `policy.rs:123` and which `role_narrow` filters on at 147-154;
  the code bounds no path by it, and neither does the property); and they do not narrow by more
  than was meant, except where a scope overlaps several of the next policy:
  `intersect_set` keeps the first overlapping one, although the comment at
  `policy.rs:111` speaks of each overlapping pair (the exception is `Crowded`).

*Bounds, and why they are enough.* `MaxRuns` bounds the redo requests: two runs
per task are what replacing a sender takes. `MaxTerminals` bounds how often the
environment reports a turn that has already ended: one report after the end is
what a race of answer and deadline takes. `MaxAttempts` is 1, and 2 in
`dispatch_redo`: the budget is reached and refused. That run leaves out
deadlines, which multiply its states; deadlines that race redo runs are covered
by `EachRunHasItsSender` and `RetriesWithinBudget`, proved for all faults
together. One slot and two tasks make a turn wait; a third task is
needed for a slot to be given away twice. In `TaskStore`, `MaxEvents` is the
length of the stream (7 events reach every end state through Blocked) and
`MaxLoads` the number of projections ever created (each eviction needs one
more). In `Fixlet`, three deliveries let an agent be replaced between a turn that
failed and one that did not, with a turn before them.

In `Recovery`, `MaxReports` = 2 is a step with its end, or a step and the end of
its turn; an exit adds the failure of a step that has its answer and that of the
turn. `MaxRequests` = 3 is a start and two recoveries, or a start, a turn's end
by a client and a batch that starts it again; two recoveries at once are what
closing a step twice takes; one replay (`MaxReplays`) delivers every record
twice. `MaxWorking` is how many fixlets have one turn at once; more claims of it
change nothing that is read. Recoveries are interchangeable, hence the symmetry,
which `recovery_live` does without. That run has no steps: what blocks is
decided by `recovery`; what ends needs two turns, so that a waiter can be told
of the wrong one. The safety properties are all proved for every bound and all
faults, rejoins and lost records among them, which are left to `recovery_live`
here. In `toolpath`, one call is enough because calls share only the maps, whose
keys are theirs alone (the theorems of `ToolPath_proofs` are for any number);
two results are a first and a repeated or late one; the two turns are the one
followed and another. In `policy`, two directory trees, a part of one and a path
with `..` give every relation two scopes can have; two restarts let the
operator's policy narrow and widen again.

The deadlock check is off: all tasks may be over and all bounds used up.

*Fairness.* `HandlerFairness` is weak fairness of each spawned run, of the
consumer and of the watchdog once it has entered a handler, and of the expiry of
deadlines where `timeout` is on: tokio polls every task that is ready, all locks
are released before the next await that can block, and deadlines are timers.
Nothing is assumed of clients or fixlets. `AgentFairness`, used by
`dispatch_live` only, adds that reports keep coming in. In `TaskStore` each
call goes on (`CallStep`); neither arrival of calls nor any fault is fair. In
`Fixlet` the main loop goes on (it is one tokio task that holds no lock while it
waits), and the agent, which the code waits for without a deadline, answers what
it was asked unless it exits; refusals, exits and crashes are not fair. In
`Recovery` runs, recoveries, the consumer and the watchdog go on, deadlines
included; nothing is asked of fixlets, clients or faults. In `ToolPath` a call goes
on, its deadline included (`tools_call` waits under `timeout`), and the gateway's
handler does (a subscription delivers); not the sandbox, not the client, not
the writer of the turn's end.

*What the violations show.* `dispatch_limit`: `fail_turn_and_respond` releases a
slot also for a turn that is still queued, so the limit is exceeded.
`recovery_skipped`: `tool_failed` and `turn_failed` are two writes; if the second is
lost, the turn has no step in flight any more, and the next recovery redoes it
although it was to go to a human. `PROJECT.json` quotes the lines they contradict.

Five more disagreements have no run of their own. Each shows with another
configuration of the same modules, in which the property named is checked:

| Property | Configuration | What happens |
|---|---|---|
| `TurnDispatch!TerminalOnce` | `dispatch_limit.cfg` with `TwoTasks`, `EqualPrio2` | a late answer adds a second terminal event to a turn that timed out (`orchestrator.rs:1089`; `docs/security-whitepaper.md:49` promises one) |
| `TurnDispatch!NoSlotLeak` | `dispatch_limit.cfg` with `OneTask`, `EqualPrio1`, `OnlyRedispatch` | a retry whose re-dispatch fails ends the turn and keeps its slot (`orchestrator.rs:1243`; `dispatcher.rs:115` promises a release per terminal turn) |
| `TaskStore!EndsOnce` | `store_shared.cfg` with `Spec`, `AllEventTypes`, `MaxEvents = 5`, `NoFaults` | two calls pass the write guard before either writes: a task ends twice (`broker_store.rs:269`; line 267 promises uniqueness) |
| `Recovery!OneEndPerStep` | `recovery.cfg` with `OneRecoverer`, without symmetry, `RecoveryFaults = {"agent_exit"}` | the agent exits after its answer, the fixlet, whose active turn it still is, reports the failure of the completed step, and the store, which does not check, takes both (`bin/fixlet/router.rs:330`; `docs/security-whitepaper.md:49` promises one terminal event per step). `StepEndsOnce` says what the code does keep |
| `Fixlet!NoCrossedAnswer` | `fixlet.cfg` | a turn is claimed while another is running: the end of the first is reported as that of the second, and the first is never reported (`bin/fixlet/router.rs:456`; line 502 speaks of many tasks in one process, a session per turn). `OwnAnswer` says what the code does keep |

## 4. Proofs

The theorems of `TurnDispatch_proofs` hold for every set of tasks, every
priority function, every limit, budget and bound satisfying
`DispatchAssumption`, and every set of faults but where a theorem says which;
those of `Fixlet_proofs` for every set of deliveries and of faults, overlapping or
not (`FixletAssumption`); those of `TaskStore_proofs` for every finite set of calls,
every set of events and every bound (`StoreAssumption`, which also keeps the
marker `NoCall` of a free mutex apart from the calls), the ones under `Serial`
for one call at a time and no faults but evictions and writes that fail. Those
of `ToolPath_proofs` hold for every set of calls, tools, adapters, results, turns
and faults (`BankAssumption`, `GatewayAssumption`, `PathAssumption`: the turn
followed is a turn), those of `TaskLog_proofs` for every set of steps and all
thresholds (`LogAssumption`, `StepAssumption`), those of `Recovery_proofs` for all
turns, recoveries, reports and faults (`RecoveryAssumption`), those of
`Policy_proofs` for all sets of policies (`PolicyAssumption`).

| Theorem | States | Inductive invariant |
|---|---|---|
| `TypeCorrect` | `Spec => []TypeOK` | `TypeOK` itself: that `in_flight` stays within the limit and each counter within the budget needs `HasCapacity`, `SlotReleased` and `RetryAllowed` |
| `NothingStranded` | `Spec => []NoStrandedTurn` | `NoStrandedTurn` with `TypeOK`: an actor leaves the pump only when the queue is empty or the gate closed, and whoever opens the gate or fills the queue enters the pump in the same step |
| `EachRunHasItsSender` | `Spec => []OneSender` | `SenderInv`: `OneSender`, plus a run that has not registered is neither registered nor answered |
| `RetriesWithinBudget` | `Spec => []RetryBudget` | `BudgetInv`: until a turn is being closed, its counter equals the number of its re-dispatches; every reset closes the turn in the same step |
| `CompletionsAreRecorded` | `Spec => []CompletedIsRecorded` | `AnswerInv`: while the consumer is on its way to the answer, through releases, publishes and failures of other turns, it works for a task whose completion is on record |
| `SlotsAreAccounted`, `SlotsComeBack` | `Faults` within `dispatch_error` implies `Spec => []SlotAccounting`, `[]NoSlotLeak` | `SlotInv`: a turn is in one place only, in the queue, in the hands of one actor, or out once (`OnePlace`); `inFlight` is the cardinality of the turns past the queue (`SlotsCounted`) |
| `FixletTypes` | `Spec => []TypeOK` | `BaseInv`: `TypeOK` with `OneSession`; that the active turn is one wherever it is used needs that session/new is asked and answered once |
| `DonesArePaired` | `Spec => []DonePaired` | `PairInv`: with an agent at hand, the select has an active turn whose step was announced |
| `AnswersAreOwn` | `Spec => []OwnAnswer` | `PairInv`, and `SerialInv` until claims overlap: at most one delivery is pending, in the channel or active; only its prompt is worked at; what the select reads is about the active turn because older lines precede the answer to session/new. `OverlapStays` says that the history never forgets an overlap |
| `AnswersAreNotLater` | `Spec => []NoLaterAnswer` | `EarlierInv`: `PairInv`; all the agent is asked, all lines of the pipe and all text in the accumulator are of announced turns, and the active turn with a step is the one announced last (`OfAnnounced`) |
| `StoreTypeCorrect` | `Spec => []TypeOK` | `StoreInv`, for any number of concurrent calls and all faults: a cold cache leaves an object to create (`ObjectsInv`); the log has room for each call under way, counted with `Cardinality` (`RoomInv`); no projection and no call knows of a turn beyond the log's largest, which is less than its length (`TurnsInv`); a call that asks for a turn is one that starts it (`AskedInv`) |
| `WritesAreLegal`, `StoreImplementsLifecycle` | `Serial` implies `Spec => LegalWrites` and `Spec => Lifecycle!Spec` | `SerialInv`: there is a function that gives the projection of each prefix of the log, a load has applied the prefix it read (`PrefixInv`), the cached projection is that of the whole log outside loads and writes (`CacheInv`), and the rows below; `WrittenIsLegal` says that the call at the mutex writes what is legal in the state of the log, which is a `Move` or the `Dispatch` of the life cycle |
| `CacheIsTheLog` | `Spec => []CacheAgrees` | `SharedInv`, for any number of concurrent calls and all faults, explained below |
| `TurnsAreDistinct` | `Serial` implies `Spec => []TurnsDistinct` | `WriteInv`: from the query to the mutex the turn stays one more than the log's largest |
| `StoresAgree` | `Serial` implies `Spec => []StatesAgree` | `StatesInv`: the log has a latest task event, and the state derived from it is that of the projection; `LatestDecides` relates the two |
| `RegistryIsConsistent` | `BankSpec => []ListedIsRouted` | `RegistryInv`: index and list agree, and the adapters still to come fit; `RegisterKeeps` is the step |
| `BankTypeCorrect` | `BankSpec => []BankTypeOK` | `BankTypeOK` with `RegistryInv`, which bounds the index |
| `EveryStepIsPaired` | `BankSpec => []StepsPaired` | `StepInv`: a call not yet open has left nothing, one not yet past `Close` has closed nothing, one that believes its opening is there is right |
| `PendingIsWaitedFor`, `FirstResultIsTheAnswer` | `BankSpec => []PendingIsAwaited`, `[]FirstResultWins` | `ResultInv`: a call in the pending map has had no result among those read so far; what a channel holds is the first of its step. A rejoin only shortens what was read |
| `LogTypeCorrect`, `IncompleteTurnsAgree`, `NoStepIsHidden` | `LogSpec => []LogTypeOK`, `[]TurnsAgree`, `[]StepsCovered`, for batches of events of any type | `LogInv`: types, `StepsCovered`, and `TurnInv`: no event of a turn is beyond `maxTurn`, so that a turn started outside a batch is later than every turn before it, and the active turns are those whose last start is after all their ends. `TurnsAgree` follows: such a start is either the first of the turn or of a batch |
| `NumbersAreTheLogs`, `SummaryIsInTime` | `LogSpec => []TotalsAgree`, `[]SummaryInTime` | `NumberedInv`: `LogInv`, and turn number, tokens and summary boundary are those of the log; that the sum over a longer log is the sum so far and the new event's is `SumExists` with the two induction lemmas |
| `RecoveryImplementsLog` | `Spec => LogSpec` | `RecoveryInv` below: each action that writes is an action of the log, all others stutter |
| `WritesAreAllowed` | `Spec => WritesAllowed` | from the same step lemma |
| `RecoveryTypeCorrect`, `RecoveryTurnsAgree`, `RecoveryStepsCovered` | `Spec => []TypeOK`, `[]TurnsAgree`, `[]StepsCovered` | `RecoveryInv`: `LogInv`, the types of all variables, and that the turns a recovery has to decide on have started, the turn it is closing is among them, and one it waits for is at the head of its queue. The least event of a turn, which `RedoContext` reads, exists by `LeastElement` |
| `RecoveryTotalsAgree`, `RecoverySummaryInTime` | `Spec => []TotalsAgree`, `[]SummaryInTime` | the refinement, with the theorems of the log |
| `TokensCountedPerReplay` | `Spec => []TokensPerReplay` | `TokenInv`: the tokens counted and those still to be read are together at most one more reading of the topic than the consumer went back, and at least one if no write was lost |
| `RecoveryCatchesUp` | `Spec => []StepsCaughtUp` | `StepInv`: the records of a step on the topic come in order and are of one turn, with one end but for an `llm_failed` after an `llm_completed` (`TopicInv`), what was read of them is in the projection (`ReadInv`), and each event of a step in the log comes from a record, a client or a recovery (`SourceInv`, `StartInv`, `EndedInv`, `BlockingInv`) |
| `StepsEndOnce`, `SkippedTurnsAreNotRedone` | `Spec => StepEndsOnce`, `Spec => RedoClean` | `StepInv`; for the second also `SkipInv`: a skipped step is of a turn that was started, and as long as nothing went wrong, an incomplete turn with a skipped step was restarted by a batch or has a recovery that is closing it |
| `ResolverOnlyNarrows` | the result of `resolve_effective` is a policy and passes `validate_subset` under all three it comes from; a reader's has no egress and no writable scope without the label `work_dir` | a statement about the resolver, by induction over the lists it folds |
| `CallsCarryNoMore`, `AcceptedGetAll` | `Spec => []CallsWithin`, `[]AcceptedIsGranted` | `PolicyInv`: what a creation read was in the tenant's stream or is the default, `effective` of a created task is the result of the resolver, and all that travels belongs to a created task and is its `effective` or nothing |
| `PathImplementsBank` | `PathSpec => BankSpec` | none: consumer and gateway leave the bank alone. So the theorems of the bank hold in the composition |
| `PathTypeCorrect`, `ReplayMeetsTail`, `DoneMeansEnd`, `NothingInvented` | `PathSpec => []PathTypeOK`, `[]ShownIsStream`, `[]DoneIsEnd`, `[]ShownIsReported` | `PathInv`: the bank's invariants, each completed record has a result behind it (`CompletedInv`), each step event of the stream comes from a record of the bank (`StreamInv`), and `GatewayInv`: what is missing of the turn up to the last event shown or scanned is in `replay`, what comes after it is beyond `lastSeq` and `tail` |

*The cache under concurrent calls.* Two loads may fill one object while a third
call's write is still to be applied to it, so that its events are applied twice
and out of order, and a projection is in general that of no prefix of the log.
`SharedInv` therefore speaks of the suffix still to come: `Ahead(j)` says that
every load of the cached projection and the unapplied write, if there is one,
still have to apply all events after `j`, and `Right(p, j)` that a projection will
be that of the whole log once the events after `j` are applied to it, whatever of
them was applied before: the state is right or a task event is to come (a turn's
start may be missing on top of it), each turn is right or an event of it is to
come, the largest number is there or to come. `CachedIsRight` says that the one
implies the other. `TruthInv` says what of the log decides each field, which is
why an event can be applied early (`AppliedEarly`) and in its turn
(`AppliedNext`). With nobody loading and nothing to apply `Ahead` holds of the
length of the log, and `Right` of that is equality.

*What the hypotheses are for.* The theorems of `Fixlet_proofs` have none; that
`OwnAnswer` needs its exception shows with `NoCrossedAnswer` (section 3). The
theorems under `Serial` do not hold without it: of two calls that overlap both may
end a task (`EndsOnce`). `SlotAccounting` is false with other faults: a turn that timed
out gives its slot back while its fixlet still works, and its late report gives
back a second one; a retry that cannot be dispatched keeps its slot (`NoSlotLeak`
in section 3).

*Induction.* The theorems of the library take an operator as a parameter, which
the provers cannot instantiate. `FoldLemmas` states induction with a set, and
recursion with functions for the starting value and the step, from well-founded
induction on sets; the sums over a log and the folds of the resolver rest on it,
its least and greatest elements of a set on finiteness. No recursive operator is
involved.

Each step lemma (`TypeNext`, `NoStrandedNext`, ...) has one step per action. The
helper lemmas say what one subroutine preserves (`DecideType`,
`CompletePendingType`, `FailStep`, `AnswerFrame`).

*Only model-checked*: the liveness properties (`RunsEnd`, `TurnsAnswered`,
`CallsReturn`, `TurnsReported`, `TurnsEnd`, `CallsAnswered`, `EndIsShown`), which
are beyond the prover. Every safety property of a passing run is the property of
a theorem: those of `store_serial` for calls one after the other, `SlotAccounting` for the
faults of its run, all others for all faults. The properties of the two violation
runs are false as they stand there.

## 5. Not modelled, and why

- Metrics, token publishing, context formatting, benches: no state or control
  that a property would be about.
- `execute_turn` and `start_turn_redo`: no caller in the program (the latter is a
  variant in `Recovery`).
- The consumer of task-result and the health probe of the orchestrator; reads and
  request parsing of the HTTP server; `dispatch_tool` and raw queries of the broker
  store.
- `resolve_task_type` failing inside `release_slot_and_redispatch`: it needs
  `TaskStore` composed with `TurnDispatch`, which TLC cannot check.
- The durations of deadlines: a product of floating-point factors; the models
  have a finite list of deadlines, of which only the end matters.
- The storage engine of `LogdbdEventStore`, which is compiled for tests only; its
  queries are the reference in `TaskLog` and `TaskStore`.
- Of the fixlet: produces and commits that fail, a rejoin of the claim stream that delivers a
  turn again, tokens to Redis.
- Of the gateway: the token channel. Of the catalog: argument templates and
  rendering.

## 6. Plan

Done: `TurnDispatch`, `TaskLifecycle` and `TaskStore` with the refinement proved
for serial calls, `Fixlet`, `TaskLog` and `Recovery` with the refinement proved,
`ToolsBank`, `StreamGateway`, their composition, `Policy`; a theorem for every
safety property that a passing run checks, 46 in all.

Open, in order:

1. `TaskStore_proofs`: what overlapping calls still guarantee about the log: which
   of the theorems under `Serial` hold for calls that overlap only in reads and
   transitions of different kinds.
2. `StepsPaired` of the bank as an assumption of `Recovery` made explicit: a
   refinement of its environment by `ToolsBank` and `Fixlet`.
3. `TurnDispatch_proofs`: how far `in_flight` can be from the slots in use under
   the other faults, in terms of the timeouts and failed retries so far.
