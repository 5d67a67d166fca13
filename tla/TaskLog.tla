------------------------------ MODULE TaskLog ------------------------------
(***************************************************************************)
(* The event log of one task and what is asked of it.                      *)
(*                                                                         *)
(* Two implementations of the trait EventStore answer the same queries:    *)
(* LogdbdEventStore (src/storage.rs) asks the log itself, and is what the  *)
(* tests run on; BrokerEventStore (src/broker_store.rs) keeps a projection *)
(* of the log (src/projection.rs), and is what production runs on.  Here   *)
(* the first is the reference, operators over the log, and the second a    *)
(* record kept up to date event by event.                                  *)
(*                                                                         *)
(* A sequence number is the index in the log.  The task events that the    *)
(* service writes change neither turns nor steps and are left to           *)
(* TaskStore, as are the loading and eviction of the projection; those     *)
(* that come in a batch carry a turn and a step, and are here.             *)
(***************************************************************************)
EXTENDS Integers, Sequences, FiniteSets

CONSTANTS
  Steps,           (* step ids                                              *)
  BatchTypes,      (* the types of what clients send to /events and         *)
                   (* /events/batch: any, as far as the code goes           *)
  Tokens,          (* token counts of llm_completed                         *)
  SummaryTurns,    (* thresholds of should_summarize                        *)
  SummaryTokens,
  SummaryEvents

-----------------------------------------------------------------------------
(* Event types.                                                            *)

TurnTerminal == {"turn_completed", "turn_failed", "turn_canceled", "turn_blocked"}
StepStart    == {"llm_invoked", "tool_invoked"}
StepTerminal == {"llm_completed", "llm_failed", "tool_completed", "tool_failed"}

SessionTypes == {"session_started", "session_ended", "summary_marker"}
TaskTypes    == {"task_created", "task_ready", "task_claimed", "task_blocked",
                 "task_succeeded", "task_failed", "task_canceled"}
TurnTypes    == {"turn_pending", "turn_started"} \cup TurnTerminal
StepTypes    == StepStart \cup StepTerminal
Types        == SessionTypes \cup TaskTypes \cup TurnTypes \cup StepTypes

ASSUME LogAssumption ==
  /\ BatchTypes \subseteq Types
  /\ Tokens \subseteq Nat
  /\ SummaryTurns \in Nat /\ SummaryTokens \in Nat /\ SummaryEvents \in Nat

NoTurn == 0
NoStep == "no_step"

ASSUME StepAssumption == NoStep \notin Steps

(* data: the redo_count of turn_started, the tokens of llm_completed, the  *)
(* summarized_up_to_seq of summary_marker.                                 *)
Event(type, turn, step, data) ==
  [type |-> type, turn |-> turn, step |-> step, data |-> data]

Events == [type : Types, turn : Nat, step : Steps \cup {NoStep}, data : Nat]

(* AgentEvent::validate_scope *)
ValidScope(e) ==
  CASE e.type \in SessionTypes \cup TaskTypes -> e.turn = NoTurn /\ e.step = NoStep
    [] e.type \in TurnTypes                   -> e.turn # NoTurn /\ e.step = NoStep
    [] OTHER                                  -> e.step # NoStep

-----------------------------------------------------------------------------
(* The projection, and the queries of BrokerEventStore over it.            *)

(* TaskProjection::new.  by_seq and by_turn_id hold the events themselves: *)
(* the queries below take those from the log.  startedAt[s] is the event   *)
(* that opened the active step s, 0 when it is not active; ended holds the *)
(* completed_steps.                                                        *)
EmptyLogProjection ==
  [maxSeq      |-> 0,
   maxTurn     |-> 0,
   activeTurns |-> {},
   startedAt   |-> [s \in Steps |-> 0],
   ended       |-> {},
   summaryAt   |-> 0,
   tokens      |-> 0]

ActiveTurnsKept(p, e) ==                       \* variant: only completed ends
  CASE e.type = "turn_started"   -> p.activeTurns \cup {e.turn}
    [] e.type = "turn_completed" -> p.activeTurns \ {e.turn}
    [] OTHER                     -> p.activeTurns

ActiveTurns(p, e) ==
  CASE e.type = "turn_started"   -> p.activeTurns \cup {e.turn}
    [] e.type \in TurnTerminal   -> p.activeTurns \ {e.turn}
    [] OTHER                     -> p.activeTurns

StartKept(p, seq, e) ==                        \* variant: active_steps not
  CASE e.type \in StepStart ->                 \* reset by an end
         [p.startedAt EXCEPT ![e.step] = seq]
    [] OTHER -> p.startedAt

StartCleared(p, seq, e) ==                     \* variant: a turn ends its steps
  CASE e.type \in StepStart    -> [p.startedAt EXCEPT ![e.step] = seq]
    [] e.type \in StepTerminal -> [p.startedAt EXCEPT ![e.step] = 0]
    [] e.type \in TurnTerminal -> [s \in Steps |-> 0]
    [] OTHER -> p.startedAt

StartedAt(p, seq, e) ==
  CASE e.type \in StepStart    -> [p.startedAt EXCEPT ![e.step] = seq]
    [] e.type \in StepTerminal -> [p.startedAt EXCEPT ![e.step] = 0]
    [] OTHER                   -> p.startedAt

TokensLast(p, e) ==                            \* variant: not added up
  IF e.type = "llm_completed" THEN e.data ELSE p.tokens

TokensAdded(p, e) ==
  IF e.type = "llm_completed" THEN p.tokens + e.data ELSE p.tokens

SeqFrozen(p, seq) == p.maxSeq                  \* variant: max_seq not kept

MaxSeq(p, seq) == IF seq > p.maxSeq THEN seq ELSE p.maxSeq

(* TaskProjection::apply, for the event with number seq. *)
LogApplied(p, seq, e) ==
  [maxSeq      |-> MaxSeq(p, seq),
   maxTurn     |-> IF e.turn > p.maxTurn THEN e.turn ELSE p.maxTurn,
   activeTurns |-> ActiveTurns(p, e),
   startedAt   |-> StartedAt(p, seq, e),
   ended       |-> IF e.type \in StepTerminal /\ p.startedAt[e.step] # 0
                   THEN p.ended \cup {e.step} ELSE p.ended,
   summaryAt   |-> IF e.type = "summary_marker" THEN e.data ELSE p.summaryAt,
   tokens      |-> TokensAdded(p, e)]

(* TaskProjection::incomplete_turns and incomplete_steps *)
IncompleteTurns(p) == p.activeTurns
IncompleteSteps(p) == {s \in Steps : p.startedAt[s] # 0}

(* turn_steps: what was opened in the turn; it has an end (ended_at) when  *)
(* it is in completed_steps, wherever that end was reported.               *)
ProjTurnSteps(L, p, t) ==
  {[step |-> L[i].step, ended |-> L[i].step \in p.ended] :
     i \in {i \in 1 .. Len(L) : L[i].type \in StepStart /\ L[i].turn = t}}

(* count_turns_after_seq: recent_turn_ids has an entry per event of a      *)
(* turn, all of which count when the first event of the turn is later.     *)
ProjTurnsAfter(L, n) ==
  Cardinality({i \in 1 .. Len(L) :
                 /\ L[i].turn # NoTurn
                 /\ \A k \in 1 .. n : k <= Len(L) => L[k].turn # L[i].turn})

EventsFromNext(p, n) ==                        \* variant: off by one
  IF p.maxSeq > n THEN p.maxSeq - n - 1 ELSE 0

(* count_events_after_seq *)
ProjEventsAfter(p, n) == IF p.maxSeq > n THEN p.maxSeq - n ELSE 0

-----------------------------------------------------------------------------
(* The reference: the queries of LogdbdEventStore, over the log itself.    *)

OfType(L, types) == {i \in 1 .. Len(L) : L[i].type \in types}

(* get_incomplete_turns: turn_started without a terminal event of the turn *)
RefIncompleteTurns(L) ==
  {L[i].turn : i \in {i \in OfType(L, {"turn_started"}) :
                        \A j \in OfType(L, TurnTerminal) : L[j].turn # L[i].turn}}

(* get_incomplete_steps: a start without an end of the step *)
RefIncompleteSteps(L) ==
  {L[i].step : i \in {i \in OfType(L, StepStart) :
                        \A j \in OfType(L, StepTerminal) : L[j].step # L[i].step}}

(* get_turn_steps: the steps of a turn that have a start and an end in it *)
RefTurnSteps(L, t) ==
  {L[i].step : i \in {i \in OfType(L, StepStart) :
     L[i].turn = t /\ \E j \in OfType(L, StepTerminal) :
                         L[j].turn = t /\ L[j].step = L[i].step}}

(* get_max_turn_id *)
RefMaxTurn(L) ==
  LET turns == {0} \cup {L[i].turn : i \in 1 .. Len(L)}
  IN  CHOOSE t \in turns : \A u \in turns : u <= t

(* get_latest_summary: what its summarized_up_to_seq says, 0 for none *)
RefSummaryAt(L) ==
  LET marks == OfType(L, {"summary_marker"})
  IN  IF marks = {} THEN 0
      ELSE L[CHOOSE i \in marks : \A j \in marks : j <= i].data

(* get_token_usage_stats, get_llm_payloads_after_seq *)
RefTokensAfter(L, n) ==
  LET sum[i \in 0 .. Len(L)] ==
        IF i = 0 THEN 0
        ELSE sum[i - 1] + (IF i > n /\ L[i].type = "llm_completed"
                           THEN L[i].data ELSE 0)
  IN  sum[Len(L)]

(* count_turns_after_seq: distinct turns started later *)
RefTurnsAfter(L, n) ==
  Cardinality({L[i].turn : i \in {i \in OfType(L, {"turn_started"}) : i > n}})

(* count_events_after_seq *)
RefEventsAfter(L, n) ==
  Cardinality({i \in OfType(L, TurnTypes \cup StepTypes) : i > n})

(* check_terminal_uniqueness, which BrokerEventStore does not have *)
TerminalTaken(L, e) ==
  \E i \in 1 .. Len(L) :
    \/ {L[i].type, e.type} \subseteq TurnTerminal /\ L[i].turn = e.turn
    \/ \E kind \in {{"llm_completed", "llm_failed"}, {"tool_completed", "tool_failed"}} :
         {L[i].type, e.type} \subseteq kind /\ L[i].step = e.step

(* SummaryTrigger::should_summarize *)
ShouldSummarize(turns, tokens, events) ==
  turns >= SummaryTurns \/ tokens >= SummaryTokens \/ events >= SummaryEvents

(* check_summary_trigger, on either store *)
RefTrigger(L) ==
  LET n == RefSummaryAt(L)
  IN  ShouldSummarize(RefTurnsAfter(L, n), RefTokensAfter(L, n), RefEventsAfter(L, n))

ProjTrigger(L, p) ==
  LET n == p.summaryAt
  IN  ShouldSummarize(ProjTurnsAfter(L, n), RefTokensAfter(L, n), ProjEventsAfter(p, n))

-----------------------------------------------------------------------------
VARIABLES
  log,     (* the task's stream at the broker                               *)
  proj     (* the projection of it that production reads                    *)

logVars == <<log, proj>>

LogInit == log = <<>> /\ proj = EmptyLogProjection

(* What write_event and the handlers before it accept.  start_turn takes   *)
(* MAX(turn_id) + 1; the writers of any other event pass on the turn and   *)
(* the step they were given.                                               *)
Accepted(e) ==
  /\ ValidScope(e)
  /\ e.type = "turn_started" => e.turn = proj.maxTurn + 1

(* The event is added and the cached projection follows (write_event). *)
Written(e) ==
  /\ log' = Append(log, e)
  /\ proj' = LogApplied(proj, Len(log) + 1, e)

Write(e) == Accepted(e) /\ Written(e)

(* write_events_batch checks nothing: a batch adds one event after the     *)
(* other, of any type and for any turn.  The handler gives each of them a  *)
(* turn and a step, those that should have none included.                  *)
WriteBatch(e) ==
  /\ e.type \in BatchTypes /\ e.turn # NoTurn /\ e.step # NoStep
  /\ Written(e)

LogNext == \E e \in Events : Write(e) \/ WriteBatch(e)

LogSpec == LogInit /\ [][LogNext]_logVars

-----------------------------------------------------------------------------
(* Properties.                                                             *)

LogTypeOK ==
  /\ log \in Seq(Events)
  /\ proj.maxSeq = Len(log)
  /\ proj.maxTurn \in Nat
  /\ proj.activeTurns \subseteq Nat
  /\ proj.startedAt \in [Steps -> Nat]
  /\ proj.ended \subseteq Steps

(* A turn was started again by a batch after its end, and not ended since. *)
Restarted(L) ==
  {L[j].turn : j \in {j \in OfType(L, {"turn_started"}) :
     /\ L[j].step # NoStep
     /\ \E i \in OfType(L, TurnTerminal) : i < j /\ L[i].turn = L[j].turn
     /\ \A k \in OfType(L, TurnTerminal) : k > j => L[k].turn # L[j].turn}}

(* The turns that are not over, what recovery works on                     *)
(* (BrokerEventStore::get_incomplete_turns against that of                 *)
(* LogdbdEventStore): production finds every one that the reference finds, *)
(* and beyond them only a turn that a client's batch started again after   *)
(* its end.  No run, consumer, recovery, lone event of a client or end by  *)
(* a client makes the two differ.                                          *)
TurnsAgree == IncompleteTurns(proj) = RefIncompleteTurns(log) \cup Restarted(log)

(* A step that is open by the reference is open by the projection: no      *)
(* order of starts, ends and repeated reports hides a step in flight from  *)
(* decide_turn_recovery.  The converse fails while a start is repeated.    *)
StepsCovered == RefIncompleteSteps(log) \subseteq IncompleteSteps(proj)

(* The numbers production derives event by event are those of the log: the *)
(* next turn id, the tokens, the boundary of the last summary.             *)
TotalsAgree ==
  /\ proj.maxTurn = RefMaxTurn(log)
  /\ proj.tokens = RefTokensAfter(log, 0)
  /\ proj.summaryAt = RefSummaryAt(log)

(* A turn started in a batch after the last summary: its first event may   *)
(* be older, and then count_turns_after_seq of production passes over it.  *)
BatchStarted(L, n) ==
  \E j \in OfType(L, {"turn_started"}) : j > n /\ L[j].step # NoStep

(* Production counts a turn once per event and counts every kind of event, *)
(* so it may ask for a summary early, but never later than the reference   *)
(* (check_summary_trigger on either store), unless a batch started a turn. *)
SummaryInTime ==
  RefTrigger(log) => ProjTrigger(log, proj) \/ BatchStarted(log, RefSummaryAt(log))

=============================================================================
