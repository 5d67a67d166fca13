-------------------------- MODULE Recovery_proofs --------------------------
(* Theorems about Recovery, for every set of steps and recoveries, every   *)
(* bound and every combination of faults.                                  *)
EXTENDS Recovery, TaskLog_proofs

-----------------------------------------------------------------------------
(* Types, by the part of the state.                                        *)

(* The records of the topic: about a step of a turn, or about its end. *)
EndRecords ==
  {e \in Events : /\ e.turn \in Turns
                  /\ \/ e.type \in StepTypes /\ e.step \in Steps
                     \/ e.type \in {"turn_completed", "turn_failed"} /\ e.step = NoStep}

TaskStateType == state \in TaskStates

TopicTypes == ends \in Seq(EndRecords) /\ pos \in 0 .. Len(ends)

DispatchTypes ==
  /\ working \in [Turns -> 0 .. MaxWorking]
  /\ waiter \in {Nobody} \cup Turns \cup Recoverers
  /\ timed \subseteq Turns
  /\ attempts \in [Turns -> 0 .. MaxAttempts]

RunTypes ==
  /\ starting \in Nat
  /\ run \in [Turns -> {"none", "started", "waiting", "over"}]

RedoQueues == Seq([turn : Turns, count : Nat])

PlacesOfRecovery ==
  {"idle", "check", "check_only", "waiting"} \cup Deciding \cup Closing

RecoverTypes ==
  /\ pc \in [Recoverers -> PlacesOfRecovery]
  /\ todo \in [Recoverers -> SUBSET Turns]
  /\ closing \in [Recoverers -> Turns \cup {NoTurn}]
  /\ blocking \in [Recoverers -> SUBSET Steps]
  /\ redo \in [Recoverers -> RedoQueues]

CountTypes ==
  /\ requests \in Nat /\ replays \in Nat /\ trouble \in Nat
  /\ lost \subseteq Steps \cup {NoStep}

StateTypes == TaskStateType /\ TopicTypes /\ DispatchTypes /\ RunTypes
              /\ RecoverTypes /\ CountTypes

-----------------------------------------------------------------------------
(* What recovery writes.                                                   *)

(* The turns with a turn_started in the log: those a recovery may find. *)
Started == {t \in Turns : \E i \in OfType(log, {"turn_started"}) : log[i].turn = t}

PlaceInv(r) ==
  /\ todo[r] \subseteq Started
  /\ At(r, Closing) => closing[r] \in todo[r]
  /\ pc[r] = "waiting" => redo[r] # <<>>

(* What the writes of recovery rest on, and what they are. *)
ScopeInv ==
  /\ IncompleteTurns(proj) \subseteq Turns
  /\ \A r \in Recoverers : PlaceInv(r)

RecoveryInv == LogInv /\ StateTypes /\ ScopeInv

TurnNext ==
  \E e \in Events : e.turn \in Turns \cup {NoTurn} /\ (Write(e) \/ WriteBatch(e))

LEMMA HeadAndTail ==
  ASSUME NEW S, NEW q \in Seq(S), q # <<>>
  PROVE  Head(q) \in S /\ Tail(q) \in Seq(S)
OBVIOUS

LEMMA TurnsAreNat == \A t \in Turns : t \in Nat /\ t # NoTurn
BY RecoveryAssumption DEF Turns, NoTurn

LEMMA StepEventAccepted ==
  ASSUME NEW e \in Events, e.type \in StepTypes, e.step \in Steps
  PROVE  Accepted(e)
<1>1. /\ e.type \notin SessionTypes \cup TaskTypes /\ e.type \notin TurnTypes
      /\ e.type # "turn_started"
  BY TypesDistinct
<1>2. e.step # NoStep
  BY StepAssumption
<1>3. QED
  BY <1>1, <1>2 DEF Accepted, ValidScope

LEMMA TurnEndAccepted ==
  ASSUME NEW e \in Events, e.type \in TurnTerminal, e.turn \in Turns, e.step = NoStep
  PROVE  Accepted(e)
<1>1. /\ e.type \in TurnTypes /\ e.type # "turn_started"
      /\ e.type \notin SessionTypes \cup TaskTypes
  BY DEF TurnTypes, TurnTerminal, SessionTypes, TaskTypes
<1>2. e.turn # NoTurn
  BY TurnsAreNat
<1>3. QED
  BY <1>1, <1>2 DEF Accepted, ValidScope

LEMMA EventType ==
  ASSUME NEW type \in Types, NEW turn \in Nat, NEW step \in Steps \cup {NoStep},
         NEW data \in Nat
  PROVE  /\ Event(type, turn, step, data) \in Events
         /\ Event(type, turn, step, data).type = type
         /\ Event(type, turn, step, data).turn = turn
         /\ Event(type, turn, step, data).step = step
         /\ Event(type, turn, step, data).data = data
BY DEF Event, Events

LEMMA TypesAre ==
  /\ StepTypes \subseteq Types
  /\ TurnTerminal \cup {"turn_started", "summary_marker"} \subseteq Types
  /\ {"turn_completed", "turn_failed", "turn_canceled"} \subseteq TurnTerminal
BY DEF Types, TurnTypes, TurnTerminal, SessionTypes

(* fail_task_with_reason writes turn_failed or nothing. *)
LEMMA FailTaskWrites ==
  ASSUME NEW t \in Turns, FailTask(t)
  PROVE  [TurnNext]_logVars
<1>1. CASE Written(Event("turn_failed", t, NoStep, 0))
  <2> DEFINE e == Event("turn_failed", t, NoStep, 0)
  <2>1. /\ e \in Events /\ e.type = "turn_failed" /\ e.turn \in Turns
        /\ e.step = NoStep
    BY TurnsAreNat, TypesAre, EventType
  <2> HIDE DEF e
  <2>2. Accepted(e)
    BY <2>1, TypesAre, TurnEndAccepted
  <2>3. Written(e)
    BY <1>1 DEF e
  <2>4. QED
    BY <2>1, <2>2, <2>3 DEF TurnNext, Write
<1>2. CASE UNCHANGED <<log, proj>>
  BY <1>2 DEF logVars
<1>3. QED
  BY <1>1, <1>2 DEF FailTask

LEMMA ErrorWrites ==
  ASSUME NEW t \in Turns, ErrorHandled(t)
  PROVE  [TurnNext]_logVars
BY FailTaskWrites DEF ErrorHandled, logVars

LEMMA StepIsWritten ==
  ASSUME NEW e, StepRecorded(e)
  PROVE  /\ e.type \in StepTypes /\ Written(e)
         /\ UNCHANGED <<state, working, memory, counts>>
BY DEF StepRecorded, LlmInvokedRecorded, LlmCompletedRecorded, LlmFailedRecorded,
   ToolRecorded, StepTypes, StepStart, StepTerminal

LEMMA ConsumeWrites ==
  ASSUME RecoveryInv, Consume
  PROVE  [TurnNext]_logVars
<1> DEFINE e == ends[pos + 1]
<1>1. e \in EndRecords
  <2>1. ends \in Seq(EndRecords) /\ pos \in 0 .. Len(ends) /\ pos < Len(ends)
    BY DEF RecoveryInv, StateTypes, TopicTypes, Consume
  <2>2. Len(ends) \in Nat
    BY <2>1
  <2>3. pos + 1 \in 1 .. Len(ends)
    BY <2>1, <2>2
  <2>4. QED
    BY <2>1, <2>3
<1>2. StepRecorded(e) \/ DoneRecorded(e) \/ ErrorRecorded(e) \/ RecordLost(e)
  BY DEF Consume
<1> HIDE DEF e
<1>3. CASE StepRecorded(e)
  <2>1. e.type \in StepTypes /\ Written(e)
    BY <1>3, StepIsWritten
  <2>2. e \in Events /\ e.step \in Steps /\ e.turn \in Turns
    BY <1>1, <2>1, TypesDistinct DEF EndRecords, TurnTerminal
  <2>3. QED
    BY <2>1, <2>2, StepEventAccepted DEF TurnNext, Write
<1>4. CASE DoneRecorded(e)
  <2>1. e.type = "turn_completed" /\ Written(e)
    BY <1>4 DEF DoneRecorded
  <2>2. e \in Events /\ e.turn \in Turns /\ e.step = NoStep
    BY <1>1, <2>1, TypesDistinct DEF EndRecords, TurnTerminal
  <2>3. QED
    BY <2>1, <2>2, TypesAre, TurnEndAccepted DEF TurnNext, Write
<1>5. CASE ErrorRecorded(e)
  BY <1>1, <1>5, ErrorWrites DEF ErrorRecorded, EndRecords
<1>6. CASE RecordLost(e)
  BY <1>6 DEF RecordLost, logVars
<1>7. QED
  BY <1>2, <1>3, <1>4, <1>5, <1>6

LEMMA RequestWrites ==
  ASSUME RecoveryInv, \/ StartTurn \/ ClientBatch \/ ClientEvent \/ ClientTurnEnd
                      \/ ClientTask \/ ClientSummary
  PROVE  [TurnNext]_logVars
<1>1. CASE StartTurn
  <2>1. CASE UNCHANGED <<log, proj>>
    BY <2>1 DEF logVars
  <2>2. CASE Written(Event("turn_started", proj.maxTurn + 1, NoStep, 0))
    <3> DEFINE e == Event("turn_started", proj.maxTurn + 1, NoStep, 0)
    <3>1. proj.maxTurn \in Nat /\ proj.maxTurn + 1 \in Nat /\ proj.maxTurn + 1 # 0
      BY DEF RecoveryInv, LogInv, LogTypeOK
    <3>2. /\ e \in Events /\ e.type = "turn_started" /\ e.turn = proj.maxTurn + 1
          /\ e.step = NoStep
      BY <3>1 DEF Event, Events, Types, TurnTypes
    <3> HIDE DEF e
    <3>3. e.type \in TurnTypes /\ e.type \notin SessionTypes \cup TaskTypes
      BY <3>2 DEF TurnTypes, SessionTypes, TaskTypes
    <3>4. Accepted(e)
      BY <3>1, <3>2, <3>3 DEF Accepted, ValidScope, NoTurn
    <3>5. CASE UNCHANGED <<log, proj>>
      BY <3>5 DEF logVars
    <3>6. CASE proj.maxTurn < MaxTurns
      <4>1. e.turn \in Turns
        BY <3>1, <3>2, <3>6, RecoveryAssumption DEF Turns
      <4>2. QED
        BY <2>2, <3>2, <3>4, <4>1 DEF TurnNext, Write, e
    <3>7. QED
      BY <1>1, <3>5, <3>6 DEF StartTurn
  <2>3. QED
    BY <1>1, <2>1, <2>2 DEF StartTurn
<1>2. CASE ClientBatch
  <2>1. PICK type \in BatchTypes, t \in Turns, s \in Steps :
          WriteBatch(Event(type, t, s, 0))
    BY <1>2 DEF ClientBatch
  <2>2. Event(type, t, s, 0) \in Events /\ Event(type, t, s, 0).turn \in Turns
    BY LogAssumption, TurnsAreNat, EventType
  <2>3. QED
    BY <2>1, <2>2 DEF TurnNext
<1>3. CASE ClientSummary
  <2>1. PICK n \in 1 .. Len(log) :
          Written(Event("summary_marker", NoTurn, NoStep, n))
    BY <1>3 DEF ClientSummary
  <2> DEFINE e == Event("summary_marker", NoTurn, NoStep, n)
  <2>2. /\ e \in Events /\ e.type = "summary_marker" /\ e.turn = NoTurn
        /\ e.step = NoStep
    <3>1. n \in Nat
      BY DEF RecoveryInv, LogInv, LogTypeOK
    <3>2. QED
      BY <3>1 DEF Event, Events, Types, SessionTypes, NoTurn
  <2> HIDE DEF e
  <2>3. e.type \in SessionTypes
    BY <2>2 DEF SessionTypes
  <2>4. e.type \notin TurnTypes /\ e.type # "turn_started"
    BY <2>2 DEF TurnTypes, TurnTerminal
  <2>5. Accepted(e)
    BY <2>2, <2>3, <2>4 DEF Accepted, ValidScope
  <2>6. QED
    BY <2>1, <2>2, <2>5 DEF TurnNext, Write, e
<1>4. CASE ClientEvent
  <2>1. PICK type \in BatchTypes, t \in Turns \cup {NoTurn}, s \in Steps :
          Write(Event(type, t, s, 0))
    BY <1>4 DEF ClientEvent
  <2>2. /\ Event(type, t, s, 0) \in Events
        /\ Event(type, t, s, 0).turn \in Turns \cup {NoTurn}
    BY LogAssumption, TurnsAreNat, EventType DEF NoTurn
  <2>3. QED
    BY <2>1, <2>2 DEF TurnNext
<1>5. CASE ClientTurnEnd
  <2>1. PICK type \in {"turn_completed", "turn_failed", "turn_canceled"}, t \in Turns :
          Write(Event(type, t, NoStep, 0))
    BY <1>5 DEF ClientTurnEnd
  <2>2. Event(type, t, NoStep, 0) \in Events /\ Event(type, t, NoStep, 0).turn = t
    BY TypesAre, TurnsAreNat, EventType
  <2>3. QED
    BY <2>1, <2>2 DEF TurnNext
<1>6. CASE ClientTask
  BY <1>6 DEF ClientTask, logVars
<1>7. QED
  BY <1>1, <1>2, <1>3, <1>4, <1>5, <1>6

LEMMA RecoveryWrites ==
  ASSUME RecoveryInv, NEW r \in Recoverers, RecoveryStep(r)
  PROVE  [TurnNext]_logVars
<1>1. todo[r] \in SUBSET Turns /\ blocking[r] \in SUBSET Steps
  BY DEF RecoveryInv, StateTypes, RecoverTypes
<1>2. ASSUME At(r, Closing) PROVE closing[r] \in Turns
  BY <1>1, <1>2 DEF RecoveryInv, ScopeInv, PlaceInv
<1>3. CASE RecoveryCloseStep(r)
  <2>1. PICK s \in blocking[r] :
          Written(Event("tool_failed", closing[r], s, Skipped))
    BY <1>3 DEF RecoveryCloseStep
  <2> DEFINE e == Event("tool_failed", closing[r], s, Skipped)
  <2>2. closing[r] \in Nat /\ closing[r] \in Turns
    BY <1>2, <1>3, TurnsAreNat DEF RecoveryCloseStep
  <2>3. "tool_failed" \in StepTypes
    BY DEF StepTypes, StepTerminal
  <2>4. /\ e \in Events /\ e.type \in StepTypes /\ e.step \in Steps
        /\ e.turn \in Turns
    BY <1>1, <2>2, <2>3, TypesAre, EventType DEF Skipped
  <2>5. QED
    BY <2>1, <2>4, StepEventAccepted DEF TurnNext, Write
<1>4. CASE RecoveryFailTurn(r)
  <2> DEFINE e == Event("turn_failed", closing[r], NoStep, 0)
  <2>1. Written(e) /\ closing[r] \in Turns
    BY <1>2, <1>4 DEF RecoveryFailTurn
  <2>2. /\ e \in Events /\ e.type = "turn_failed" /\ e.turn \in Turns
        /\ e.step = NoStep
    BY <2>1, TurnsAreNat, TypesAre, EventType
  <2>3. QED
    BY <2>1, <2>2, TypesAre, TurnEndAccepted DEF TurnNext, Write
<1>5. CASE RedoExhausted(r)
  <2>1. redo[r] \in Seq([turn : Turns, count : Nat]) /\ redo[r] # <<>>
    BY <1>5 DEF RecoveryInv, StateTypes, RecoverTypes, RedoQueues, ScopeInv, PlaceInv,
       RedoExhausted
  <2>2. Head(redo[r]) \in [turn : Turns, count : Nat]
    BY <2>1, HeadAndTail
  <2>2a. Head(redo[r]).turn \in Turns
    BY <2>2
  <2>3. QED
    BY <1>5, <2>2a, FailTaskWrites DEF RedoExhausted
<1>6. CASE UNCHANGED logVars
  BY <1>6
<1>7. QED
  BY <1>3, <1>4, <1>5, <1>6 DEF RecoveryStep, RecoveryCheck, RecoveryDecide,
     RecoveryAborts, ApplyReturns, RecoveryRedo, RecoveryEnds, RedoTold, logVars

(* Every step of Recovery is a step of TaskLog or none, and of a turn within *)
(* the bound.                                                              *)
LEMMA NextWrites == RecoveryInv /\ [Next]_recoveryVars => [TurnNext]_logVars
<1> SUFFICES ASSUME RecoveryInv, [Next]_recoveryVars PROVE [TurnNext]_logVars
  OBVIOUS
<1>1. ASSUME NEW t \in Turns, RunStep(t) \/ Watchdog(t) PROVE [TurnNext]_logVars
  <2>1. CASE RunExhausted(t)
    BY <2>1, FailTaskWrites DEF RunExhausted
  <2>2. CASE Watchdog(t)
    BY <2>2, ErrorWrites DEF Watchdog
  <2>3. CASE RunDispatch(t) \/ RunTold(t)
    BY <2>3 DEF RunDispatch, RunTold, logVars
  <2>4. QED
    BY <1>1, <2>1, <2>2, <2>3 DEF RunStep
<1>2. CASE UNCHANGED logVars
  BY <1>2
<1>3. QED
  BY <1>1, <1>2, RequestWrites, ConsumeWrites, RecoveryWrites DEF Next, Request,
     RequestApply, Environment, ReportEnd, ReportOpen, ReportClosed, ReportExit,
     ReportExitedTurn, Rejoin, Restart, recoveryVars, logVars

-----------------------------------------------------------------------------
(* The invariant is kept.                                                  *)

LEMMA LogKept ==
  ASSUME RecoveryInv, [TurnNext]_logVars
  PROVE  /\ LogInv' /\ [LogNext]_logVars
         /\ Started \subseteq Started'
         /\ IncompleteTurns(proj)' \subseteq Turns
<1>1. [LogNext]_logVars
  BY DEF TurnNext, LogNext
<1>2. LogInv'
  BY <1>1, LogStepKeeps DEF RecoveryInv
<1>3. CASE UNCHANGED logVars
  BY <1>1, <1>2, <1>3 DEF logVars, Started, OfType, IncompleteTurns, RecoveryInv,
     ScopeInv
<1>4. CASE TurnNext
  <2>1. PICK e \in Events : /\ e.turn \in Turns \cup {NoTurn}
                            /\ Write(e) \/ WriteBatch(e)
    BY <1>4 DEF TurnNext
  <2>2. Written(e) /\ NewStart(e)
    BY <2>1, AddedIsProper
  <2>3. /\ log \in Seq(Events) /\ proj.activeTurns \subseteq Turns /\ proj.maxTurn \in Nat
    BY DEF RecoveryInv, LogInv, LogTypeOK, ScopeInv, IncompleteTurns
  <2>4. Started \subseteq Started'
    <3>1. /\ \A i \in 1 .. Len(log) : i \in 1 .. Len(log') /\ log'[i] = log[i]
      BY <2>2, <2>3, Appended
    <3>2. QED
      BY <3>1 DEF Started, OfType
  <2>5. proj'.activeTurns = ActiveTurns(proj, e)
    BY <2>2, Projected
  <2>6. e.type = "turn_started" => e.turn \in Turns
    <3>1. CASE WriteBatch(e)
      BY <2>1, <3>1 DEF WriteBatch
    <3>2. CASE Write(e)
      <4>1. e.type = "turn_started" => e.turn = proj.maxTurn + 1
        BY <3>2 DEF Write, Accepted
      <4>2. proj.maxTurn + 1 # NoTurn
        BY <2>3 DEF NoTurn
      <4>3. QED
        BY <4>1, <4>2, <2>1
    <3>3. QED
      BY <3>1, <3>2, <2>1
  <2>7. ActiveTurns(proj, e) \subseteq Turns
    BY <2>3, <2>6, ActiveTurnsCases
  <2>8. QED
    BY <1>1, <1>2, <2>4, <2>5, <2>7 DEF IncompleteTurns
<1>5. QED
  BY <1>3, <1>4

LEMMA PlacesKept ==
  ASSUME ScopeInv, Started \subseteq Started', UNCHANGED recover, NEW r \in Recoverers
  PROVE  PlaceInv(r)'
BY DEF ScopeInv, PlaceInv, recover, At

LEMMA HandOutTypes ==
  ASSUME DispatchTypes, NEW t \in Turns, HandOut(t)
  PROVE  working' \in [Turns -> 0 .. MaxWorking]
<1>1. working[t] \in 0 .. MaxWorking /\ MaxWorking \in Nat
  BY RecoveryAssumption DEF DispatchTypes
<1>2. (IF working[t] < MaxWorking THEN working[t] + 1 ELSE working[t]) \in 0 .. MaxWorking
  BY <1>1
<1>3. QED
  BY <1>2 DEF HandOut, DispatchTypes

LEMMA FailTaskStateType ==
  ASSUME TaskStateType, DispatchTypes, CountTypes, NEW t \in Turns, FailTask(t),
         working' \in [Turns -> 0 .. MaxWorking]
  PROVE  TaskStateType' /\ DispatchTypes' /\ CountTypes'
<1>1. TaskStateType'
  BY DEF FailTask, TaskStateType, TaskStates, EndStates
<1>2. CountTypes'
  BY DEF FailTask, CountTypes
<1>3. DispatchTypes'
  <2>1. waiter' = Nobody /\ timed' = timed \ {t} /\ attempts' = [attempts EXCEPT ![t] = 0]
    BY DEF FailTask
  <2>2. attempts' \in [Turns -> 0 .. MaxAttempts]
    BY <2>1, RecoveryAssumption DEF DispatchTypes
  <2>3. QED
    BY <2>1, <2>2 DEF DispatchTypes
<1>4. QED
  BY <1>1, <1>2, <1>3

LEMMA ErrorTypes ==
  ASSUME TaskStateType, DispatchTypes, CountTypes, NEW t \in Turns, ErrorHandled(t)
  PROVE  TaskStateType' /\ DispatchTypes' /\ CountTypes'
<1>1. CASE FailTask(t) /\ UNCHANGED working
  <2>1. working' \in [Turns -> 0 .. MaxWorking]
    BY <1>1 DEF DispatchTypes
  <2>2. QED
    BY <1>1, <2>1, FailTaskStateType
<1>2. CASE /\ attempts[t] < MaxAttempts
           /\ attempts' = [attempts EXCEPT ![t] = @ + 1]
           /\ HandOut(t)
           /\ UNCHANGED <<log, proj, state, waiter, timed, counts>>
  <2>1. TaskStateType' /\ CountTypes'
    BY <1>2 DEF TaskStateType, CountTypes, counts
  <2>2. attempts[t] \in 0 .. MaxAttempts /\ MaxAttempts \in Nat
    BY RecoveryAssumption DEF DispatchTypes
  <2>3. attempts[t] + 1 \in 0 .. MaxAttempts
    BY <1>2, <2>2
  <2>4. attempts' \in [Turns -> 0 .. MaxAttempts]
    BY <1>2, <2>3 DEF DispatchTypes
  <2>5. DispatchTypes'
    BY <1>2, <2>4, HandOutTypes DEF DispatchTypes
  <2>6. QED
    BY <2>1, <2>5
<1>3. QED
  BY <1>1, <1>2 DEF ErrorHandled

LEMMA StatesAfter ==
  ASSUME TaskStateType, NEW type
  PROVE  StateAfter(type) \in TaskStates
BY DEF StateAfter, TaskStateType, TaskStates, EndStates

(* The steps outside the recoveries. *)
LEMMA RequestTypes ==
  ASSUME StateTypes, \/ StartTurn \/ ClientBatch \/ ClientEvent \/ ClientTurnEnd
                     \/ ClientTask \/ ClientSummary
  PROVE  StateTypes'
<1> USE DEF StateTypes
<1>1. CASE StartTurn
  <2>1. starting' \in Nat
    BY <1>1 DEF StartTurn, RunTypes
  <2>2. run' \in [Turns -> {"none", "started", "waiting", "over"}]
    BY <1>1 DEF StartTurn, RunTypes
  <2>3. TaskStateType'
    BY <1>1, StatesAfter DEF StartTurn, TaskStateType
  <2>4. QED
    BY <1>1, <2>1, <2>2, <2>3 DEF StartTurn, TopicTypes, DispatchTypes, RunTypes,
       RecoverTypes, CountTypes, topic, memory, recover, counts
<1>2. CASE ClientTurnEnd \/ ClientTask
  BY <1>2 DEF ClientTurnEnd, ClientTask, TaskStateType, TaskStates, EndStates, TopicTypes,
     DispatchTypes, RunTypes, RecoverTypes, CountTypes, topic, memory, recover
<1>3. CASE ClientBatch \/ ClientEvent
  <2>1. CountTypes'
    <3>1. \E s \in Steps : lost' = lost \cup {s}
      BY <1>3 DEF ClientBatch, ClientEvent
    <3>2. QED
      BY <1>3, <3>1 DEF ClientBatch, ClientEvent, CountTypes
  <2>2. TaskStateType'
    BY <1>3, StatesAfter DEF ClientBatch, ClientEvent, TaskStateType
  <2>3. QED
    BY <1>3, <2>1, <2>2 DEF ClientBatch, ClientEvent, TopicTypes, DispatchTypes, RunTypes,
       RecoverTypes, topic, memory, recover
<1>4. CASE ClientSummary
  BY <1>4 DEF ClientSummary, TaskStateType, TopicTypes, DispatchTypes, RunTypes,
     RecoverTypes, CountTypes, topic, memory, recover
<1>5. QED
  BY <1>1, <1>2, <1>3, <1>4

LEMMA RunTypesKept ==
  ASSUME StateTypes, NEW t \in Turns, RunStep(t) \/ Watchdog(t)
  PROVE  StateTypes'
<1> USE DEF StateTypes
<1>1. CASE RunDispatch(t)
  <2>1. DispatchTypes'
    BY <1>1, HandOutTypes DEF RunDispatch, Dispatch, DispatchTypes
  <2>2. QED
    BY <1>1, <2>1 DEF RunDispatch, TaskStateType, TopicTypes, RunTypes, RecoverTypes,
       CountTypes, topic, recover, counts
<1>2. CASE RunTold(t)
  BY <1>2 DEF RunTold, TaskStateType, TopicTypes, DispatchTypes, RunTypes, RecoverTypes,
     CountTypes, topic, memory, recover, counts
<1>3. CASE RunExhausted(t)
  <2>1. working' \in [Turns -> 0 .. MaxWorking]
    BY <1>3 DEF RunExhausted, DispatchTypes
  <2>2. TaskStateType' /\ DispatchTypes' /\ CountTypes'
    BY <1>3, <2>1, FailTaskStateType DEF RunExhausted
  <2>3. QED
    BY <1>3, <2>2 DEF RunExhausted, TopicTypes, RunTypes, RecoverTypes, topic, recover
<1>4. CASE Watchdog(t)
  <2>1. TaskStateType' /\ DispatchTypes' /\ CountTypes'
    BY <1>4, ErrorTypes DEF Watchdog
  <2>2. QED
    BY <1>4, <2>1 DEF Watchdog, TopicTypes, RunTypes, RecoverTypes, topic, recover
<1>5. QED
  BY <1>1, <1>2, <1>3, <1>4 DEF RunStep

(* One more record of the topic. *)
LEMMA ReportTypes1 ==
  ASSUME TopicTypes, NEW e \in EndRecords, ends' = Append(ends, e), pos' = pos
  PROVE  TopicTypes'
<1>1. Len(ends) \in Nat /\ ends' \in Seq(EndRecords) /\ Len(ends') = Len(ends) + 1
  BY DEF TopicTypes
<1>2. pos \in 0 .. Len(ends)
  BY DEF TopicTypes
<1>3. pos' \in 0 .. Len(ends')
  BY <1>1, <1>2
<1>4. QED
  BY <1>1, <1>3 DEF TopicTypes

LEMMA StepReportType ==
  ASSUME NEW type \in StepTypes, NEW t \in Turns, NEW s \in Steps, NEW n \in Nat
  PROVE  Event(type, t, s, n) \in EndRecords
BY TypesAre, TurnsAreNat, EventType DEF EndRecords

LEMMA ReportWrites ==
  ASSUME StateTypes, Environment
  PROVE  TopicTypes' /\ DispatchTypes' /\ UNCHANGED <<log, proj, state, starting, run, recover, counts>>
<1>1. ASSUME NEW t \in Turns, NEW s \in Steps, ReportOpen(t, s)
      PROVE  /\ TopicTypes' /\ DispatchTypes'
             /\ UNCHANGED <<log, proj, state, starting, run, recover, counts>>
  <2>1. PICK type \in StepStart \cap ReportTypes :
          ends' = Append(ends, Event(type, t, s, 0))
    BY <1>1 DEF ReportOpen, Reported
  <2>2. Event(type, t, s, 0) \in EndRecords
    BY StepReportType DEF StepTypes
  <2>3. TopicTypes'
    BY <1>1, <2>1, <2>2, ReportTypes1 DEF ReportOpen, StateTypes
  <2>4. QED
    BY <1>1, <2>3 DEF ReportOpen, StateTypes, DispatchTypes, memory
<1>2. ASSUME NEW s \in Steps, ReportClosed(s)
      PROVE  /\ TopicTypes' /\ DispatchTypes'
             /\ UNCHANGED <<log, proj, state, starting, run, recover, counts>>
  <2>1. PICK i \in 1 .. Len(ends) :
          /\ ends[i].step = s
          /\ \E type \in EndsOf(ends[i].type) \cap ReportTypes :
               \E n \in IF type = "llm_completed" THEN Tokens ELSE {0} :
                 ends' = Append(ends, Event(type, ends[i].turn, s, n))
    BY <1>2 DEF ReportClosed
  <2>2. PICK type \in EndsOf(ends[i].type) \cap ReportTypes,
             n \in Nat : ends' = Append(ends, Event(type, ends[i].turn, s, n))
    BY <2>1, LogAssumption
  <2>3. ends[i].turn \in Turns
    BY DEF StateTypes, TopicTypes, EndRecords
  <2>4. Event(type, ends[i].turn, s, n) \in EndRecords
    BY <2>3, RecoveryAssumption, StepReportType
  <2>5. TopicTypes'
    BY <1>2, <2>2, <2>4, ReportTypes1 DEF ReportClosed, StateTypes
  <2>6. QED
    BY <1>2, <2>5 DEF ReportClosed, StateTypes, DispatchTypes, memory
<1>3. ASSUME NEW t \in Turns, ReportEnd(t)
      PROVE  /\ TopicTypes' /\ DispatchTypes'
             /\ UNCHANGED <<log, proj, state, starting, run, recover, counts>>
  <2>1. PICK type \in {"turn_completed", "turn_failed"} :
          ends' = Append(ends, Event(type, t, NoStep, 0))
    BY <1>3 DEF ReportEnd, Reported
  <2>2. Event(type, t, NoStep, 0) \in EndRecords
    BY TypesAre, TurnsAreNat, EventType DEF EndRecords
  <2>3. TopicTypes'
    BY <1>3, <2>1, <2>2, ReportTypes1 DEF ReportEnd, StateTypes
  <2>4. working[t] \in 0 .. MaxWorking /\ MaxWorking \in Nat /\ working[t] > 0
    BY <1>3, RecoveryAssumption DEF ReportEnd, StateTypes, DispatchTypes
  <2>5. working' \in [Turns -> 0 .. MaxWorking]
    <3>1. working[t] - 1 \in 0 .. MaxWorking
      BY <2>4
    <3>2. QED
      BY <3>1, <1>3 DEF ReportEnd, StateTypes, DispatchTypes
  <2>6. QED
    BY <1>3, <2>3, <2>5 DEF ReportEnd, StateTypes, DispatchTypes, memory
<1>4. ASSUME NEW s \in Steps, ReportExit(s)
      PROVE  /\ TopicTypes' /\ DispatchTypes'
             /\ UNCHANGED <<log, proj, state, starting, run, recover, counts>>
  <2>1. PICK i \in 1 .. Len(ends) :
          ends' = Append(ends, Event("llm_failed", ends[i].turn, s, 0))
    BY <1>4 DEF ReportExit, Reported
  <2>2. ends[i].turn \in Turns /\ "llm_failed" \in StepTypes
    BY DEF StateTypes, TopicTypes, EndRecords, StepTypes, StepTerminal
  <2>3. Event("llm_failed", ends[i].turn, s, 0) \in EndRecords
    BY <2>2, StepReportType
  <2>4. TopicTypes'
    BY <1>4, <2>1, <2>3, ReportTypes1 DEF ReportExit, StateTypes
  <2>5. QED
    BY <1>4, <2>4 DEF ReportExit, StateTypes, DispatchTypes, memory
<1>5. ASSUME NEW t \in Turns, ReportExitedTurn(t)
      PROVE  /\ TopicTypes' /\ DispatchTypes'
             /\ UNCHANGED <<log, proj, state, starting, run, recover, counts>>
  <2>1. ends' = Append(ends, Event("turn_failed", t, NoStep, 0))
    BY <1>5 DEF ReportExitedTurn, Reported
  <2>2. Event("turn_failed", t, NoStep, 0) \in EndRecords
    BY TypesAre, TurnsAreNat, EventType DEF EndRecords
  <2>3. TopicTypes'
    BY <1>5, <2>1, <2>2, ReportTypes1 DEF ReportExitedTurn, StateTypes
  <2>4. QED
    BY <1>5, <2>3 DEF ReportExitedTurn, StateTypes, DispatchTypes, memory
<1>6. QED
  BY <1>1, <1>2, <1>3, <1>4, <1>5 DEF Environment

LEMMA ReportTypesKept ==
  ASSUME StateTypes, Environment
  PROVE  StateTypes' /\ UNCHANGED recover
BY ReportWrites DEF StateTypes, TaskStateType, RunTypes, RecoverTypes, CountTypes,    recover, counts

LEMMA ConsumeTypes ==
  ASSUME StateTypes, Consume
  PROVE  StateTypes'
<1> DEFINE e == ends[pos + 1]
<1>0. ends \in Seq(EndRecords) /\ pos \in 0 .. Len(ends) /\ pos < Len(ends) /\ pos' = pos + 1
  BY DEF StateTypes, TopicTypes, Consume
<1>1. Len(ends) \in Nat
  BY <1>0
<1>2. pos + 1 \in 1 .. Len(ends) /\ pos' \in 0 .. Len(ends)
  BY <1>0, <1>1
<1>3. e \in EndRecords
  BY <1>0, <1>2
<1>4. e.turn \in Turns /\ e.step \in Steps \cup {NoStep}
  BY <1>3 DEF EndRecords, Events
<1>5. StepRecorded(e) \/ DoneRecorded(e) \/ ErrorRecorded(e) \/ RecordLost(e)
  BY DEF Consume
<1> HIDE DEF e
<1>6. TaskStateType /\ DispatchTypes /\ CountTypes
  BY DEF StateTypes
<1>7. TaskStateType' /\ DispatchTypes' /\ CountTypes'
  <2>1. CASE StepRecorded(e)
    BY <1>6, <2>1, StepIsWritten DEF TaskStateType, DispatchTypes, CountTypes, memory,
       counts
  <2>2. CASE DoneRecorded(e)
    <3>1. waiter' = Nobody /\ timed' = timed \ {e.turn} /\ attempts' = [attempts EXCEPT ![e.turn] = 0]
      BY <2>2 DEF DoneRecorded
    <3>2. attempts' \in [Turns -> 0 .. MaxAttempts]
      <4>1. attempts \in [Turns -> 0 .. MaxAttempts]
        BY <1>6 DEF DispatchTypes
      <4>2. 0 \in 0 .. MaxAttempts
        BY RecoveryAssumption
      <4>3. QED
        BY <3>1, <4>1, <4>2
    <3>3. DispatchTypes'
      BY <1>6, <2>2, <3>1, <3>2 DEF DoneRecorded, DispatchTypes
    <3>4. QED
      BY <1>6, <2>2, <3>3 DEF DoneRecorded, TaskStateType, CountTypes, counts
  <2>3. CASE ErrorRecorded(e)
    BY <1>4, <1>6, <2>3, ErrorTypes DEF ErrorRecorded
  <2>4. CASE RecordLost(e)
    BY <1>4, <1>6, <2>4 DEF RecordLost, TaskStateType, DispatchTypes, CountTypes, memory
  <2>5. QED
    BY <1>5, <2>1, <2>2, <2>3, <2>4
<1>8. TopicTypes'
  BY <1>0, <1>2 DEF TopicTypes, Consume
<1>9. QED
  BY <1>7, <1>8 DEF Consume, StateTypes, RunTypes, RecoverTypes, recover

LEMMA ReplayTypes ==
  ASSUME StateTypes, Rejoin \/ Restart
  PROVE  StateTypes'
<1> USE DEF StateTypes
<1>1. CASE Rejoin
  <2>1. pos \in 0 .. Len(ends) /\ Len(ends) \in Nat
    BY DEF TopicTypes
  <2>2. pos' \in 0 .. Len(ends)
    BY <1>1, <2>1 DEF Rejoin
  <2>3. TopicTypes'
    BY <1>1, <2>2 DEF Rejoin, TopicTypes
  <2>4. QED
    BY <1>1, <2>3 DEF Rejoin, TaskStateType, DispatchTypes, RunTypes, RecoverTypes,
       CountTypes, memory, recover
<1>2. CASE Restart
  <2>1. TopicTypes'
    BY <1>2 DEF Restart, TopicTypes
  <2>2. DispatchTypes'
    BY <1>2, RecoveryAssumption DEF Restart, DispatchTypes
  <2>3. RunTypes'
    BY <1>2 DEF Restart, RunTypes
  <2>4. RecoverTypes'
    <3>1. <<>> \in RedoQueues
      BY DEF RedoQueues
    <3>1a. "idle" \in PlacesOfRecovery
      BY DEF PlacesOfRecovery
    <3>2. /\ redo' = [r \in Recoverers |-> <<>>] /\ pc' = [r \in Recoverers |-> "idle"]
          /\ todo' = [r \in Recoverers |-> {}] /\ blocking' = [r \in Recoverers |-> {}]
          /\ closing' = [r \in Recoverers |-> NoTurn]
      BY <1>2 DEF Restart
    <3>3. redo' \in [Recoverers -> RedoQueues]
      BY <3>1, <3>2
    <3>4. QED
      BY <3>1a, <3>2, <3>3 DEF RecoverTypes
  <2>5. QED
    BY <1>2, <2>1, <2>2, <2>3, <2>4 DEF Restart, TaskStateType, CountTypes
<1>3. QED
  BY <1>1, <1>2

LEMMA PlaceKept ==
  ASSUME ScopeInv, Started \subseteq Started', NEW q \in Recoverers,
         pc'[q] = pc[q], todo'[q] = todo[q], closing'[q] = closing[q], redo'[q] = redo[q]
  PROVE  PlaceInv(q)'
BY DEF ScopeInv, PlaceInv, At

(* What one recovery does to its own part: the new place, where it may be, *)
(* and that PlaceInv holds of it.                                          *)
Moved(r, p, td, cl, bl, rd) ==
  /\ pc' = [pc EXCEPT ![r] = p] /\ todo' = [todo EXCEPT ![r] = td]
  /\ closing' = [closing EXCEPT ![r] = cl]
  /\ blocking' = [blocking EXCEPT ![r] = bl] /\ redo' = [redo EXCEPT ![r] = rd]

MayBeAt(p, td, cl, rd) ==
  td \subseteq Started /\ (p \in Closing => cl \in td) /\ (p = "waiting" => rd # <<>>)

LEMMA PlacesStep ==
  ASSUME RecoverTypes, ScopeInv, Started \subseteq Started', NEW r \in Recoverers,
         NEW p \in PlacesOfRecovery, NEW td \in SUBSET Turns,
         NEW cl \in Turns \cup {NoTurn}, NEW bl \in SUBSET Steps, NEW rd \in RedoQueues,
         Moved(r, p, td, cl, bl, rd), MayBeAt(p, td, cl, rd)
  PROVE  RecoverTypes' /\ \A q \in Recoverers : PlaceInv(q)'
<1> USE DEF Moved, MayBeAt
<1>1. /\ RecoverTypes'
      /\ pc'[r] = p /\ todo'[r] = td /\ closing'[r] = cl /\ redo'[r] = rd
      /\ \A q \in Recoverers \ {r} : /\ pc'[q] = pc[q] /\ todo'[q] = todo[q]
                                     /\ closing'[q] = closing[q] /\ redo'[q] = redo[q]
  BY DEF RecoverTypes
<1>2. PlaceInv(r)'
  BY <1>1 DEF PlaceInv, At
<1>3. ASSUME NEW q \in Recoverers \ {r} PROVE PlaceInv(q)'
  BY <1>1, PlaceKept
<1>4. QED
  BY <1>1, <1>2, <1>3

(* A part that a step leaves alone is the function it was. *)
LEMMA SameAt ==
  ASSUME NEW f, NEW S, NEW T, f \in [S -> T], NEW x \in S
  PROVE  f = [f EXCEPT ![x] = f[x]]
<1> DEFINE g == [f EXCEPT ![x] = f[x]]
<1>1. g \in [S -> T] /\ \A y \in S : g[y] = f[y]
  OBVIOUS
<1>2. QED
  BY <1>1

(* The redo context of a turn that was started: it has a first event.      *)
LEMMA RedoContextType ==
  ASSUME LogInv, NEW t \in Started
  PROVE  RedoContext(t) \in [turn : Turns, count : Nat]
<1> DEFINE events == {i \in 1 .. Len(log) : log[i].turn = t}
           first  == CHOOSE i \in events : \A j \in events : i <= j
<1>1. t \in Turns /\ events # {}
  BY DEF Started, OfType
<1>2. log \in Seq(Events) /\ Len(log) \in Nat
  BY DEF LogInv, LogTypeOK
<1>3. events \subseteq 1 .. Len(log)
  OBVIOUS
<1> HIDE DEF events
<1>4. \E x \in events : \A y \in events : x <= y
  BY <1>1, <1>2, <1>3, LeastElement
<1>5. first \in events
  BY <1>4
<1> HIDE DEF first
<1>6. log[first].data \in Nat
  <2>1. log[first] \in Events
    BY <1>2, <1>3, <1>5
  <2>2. QED
    BY <2>1 DEF Events
<1>7. 1 + (IF log[first].type = "turn_started" THEN log[first].data ELSE 0) \in Nat
  BY <1>6
<1>8. RedoContext(t) = [turn |-> t, count |-> 1 + IF log[first].type = "turn_started"
                                                  THEN log[first].data ELSE 0]
  BY DEF RedoContext, first, events
<1>9. QED
  BY <1>1, <1>7, <1>8

LEMMA IncompleteAreStarted ==
  ASSUME LogInv, IncompleteTurns(proj) \subseteq Turns
  PROVE  IncompleteTurns(proj) \subseteq Started
<1>1. \A t : t \in IncompleteTurns(proj) =>
        \E i \in 1 .. Len(log) : log[i].type = "turn_started" /\ log[i].turn = t
  BY DEF LogInv, TurnInv, StartIsLast
<1>2. QED
  BY <1>1 DEF Started, OfType

(* What RecoveryDecide does with the turn it picks. *)
Decided(r, t) ==
  LET steps == BlockingSteps(t)
  IN  IF steps = {}
      THEN /\ redo' = [redo EXCEPT ![r] = Append(@, RedoContext(t))]
           /\ todo' = [todo EXCEPT ![r] = @ \ {t}]
           /\ UNCHANGED <<pc, closing, blocking>>
      ELSE /\ closing' = [closing EXCEPT ![r] = t]
           /\ blocking' = [blocking EXCEPT ![r] = steps]
           /\ pc' = [pc EXCEPT ![r] = IF @ = "decide" THEN "close" ELSE "close_only"]
           /\ UNCHANGED <<redo, todo>>

LEMMA RecoveryPlaces ==
  ASSUME RecoveryInv, Started \subseteq Started', NEW r \in Recoverers, RecoveryStep(r)
  PROVE  RecoverTypes' /\ \A q \in Recoverers : PlaceInv(q)'
<1>1. RecoverTypes /\ ScopeInv /\ LogInv /\ PlaceInv(r)
  BY DEF RecoveryInv, StateTypes, ScopeInv
<1>2. /\ pc[r] \in PlacesOfRecovery /\ todo[r] \in SUBSET Turns
      /\ closing[r] \in Turns \cup {NoTurn}
      /\ blocking[r] \in SUBSET Steps /\ redo[r] \in RedoQueues
      /\ todo[r] \subseteq Started
  BY <1>1 DEF RecoverTypes, PlaceInv
<1>3. /\ pc = [pc EXCEPT ![r] = pc[r]] /\ todo = [todo EXCEPT ![r] = todo[r]]
      /\ closing = [closing EXCEPT ![r] = closing[r]]
      /\ blocking = [blocking EXCEPT ![r] = blocking[r]]
      /\ redo = [redo EXCEPT ![r] = redo[r]]
  BY <1>1, SameAt DEF RecoverTypes
<1>4. /\ {"decide", "decide_only"} \subseteq PlacesOfRecovery \ (Closing \cup {"waiting"})
      /\ {"idle"} \subseteq PlacesOfRecovery \ (Closing \cup {"waiting"})
      /\ {"close", "close_only"} \subseteq PlacesOfRecovery \ {"waiting"}
      /\ "waiting" \in PlacesOfRecovery \ Closing
      /\ Deciding = {"decide", "decide_only"}
      /\ Closing = {"close", "close_only"}
  BY DEF PlacesOfRecovery, Deciding, Closing
<1>5. CASE RecoveryCheck(r)
  <2>1. IncompleteTurns(proj) \in SUBSET Turns /\ IncompleteTurns(proj) \subseteq Started
    BY <1>1, IncompleteAreStarted DEF ScopeInv
  <2>2. PICK p \in {"decide", "decide_only"} : pc' = [pc EXCEPT ![r] = p]
    BY <1>5 DEF RecoveryCheck
  <2>3. /\ todo' = [todo EXCEPT ![r] = IncompleteTurns(proj)]
        /\ UNCHANGED <<closing, blocking, redo>>
    BY <1>5 DEF RecoveryCheck
  <2>4. /\ Moved(r, p, IncompleteTurns(proj), closing[r], blocking[r], redo[r])
        /\ MayBeAt(p, IncompleteTurns(proj), closing[r], redo[r])
    BY <1>3, <1>4, <2>1, <2>2, <2>3 DEF Moved, MayBeAt
  <2>5. p \in PlacesOfRecovery
    BY <1>4
  <2>6. QED
    BY <1>1, <1>2, <2>1, <2>4, <2>5, PlacesStep
<1>6. CASE RecoveryDecide(r)
  <2>1. pc[r] \in Deciding
    BY <1>6 DEF RecoveryDecide, At
  <2>2. PICK t \in todo[r] : Decided(r, t)
    BY <1>6 DEF RecoveryDecide, Decided
  <2> DEFINE steps == BlockingSteps(t)
  <2>3. CASE steps = {}
    <3>1. RedoContext(t) \in [turn : Turns, count : Nat]
      BY <1>1, <1>2, RedoContextType
    <3>2. Append(redo[r], RedoContext(t)) \in RedoQueues
      BY <1>2, <3>1 DEF RedoQueues
    <3>3. /\ redo' = [redo EXCEPT ![r] = Append(redo[r], RedoContext(t))]
          /\ todo' = [todo EXCEPT ![r] = todo[r] \ {t}]
          /\ UNCHANGED <<pc, closing, blocking>>
      BY <2>2, <2>3 DEF Decided
    <3>4. /\ todo[r] \ {t} \in SUBSET Turns /\ todo[r] \ {t} \subseteq Started
          /\ pc[r] \notin Closing /\ pc[r] # "waiting"
      BY <1>2, <1>4, <2>1
    <3>5. /\ Moved(r, pc[r], todo[r] \ {t}, closing[r], blocking[r],
                   Append(redo[r], RedoContext(t)))
          /\ MayBeAt(pc[r], todo[r] \ {t}, closing[r], Append(redo[r], RedoContext(t)))
      BY <1>3, <3>3, <3>4 DEF Moved, MayBeAt
    <3>6. QED
      BY <1>1, <1>2, <3>2, <3>4, <3>5, PlacesStep
  <2>4. CASE steps # {}
    <3>1. steps \in SUBSET Steps /\ t \in Turns \cup {NoTurn}
      BY <1>2 DEF BlockingSteps, StepsInFlight, IncompleteSteps
    <3>2. /\ closing' = [closing EXCEPT ![r] = t] /\ blocking' = [blocking EXCEPT ![r] = steps]
          /\ UNCHANGED <<redo, todo>>
      BY <2>2, <2>4 DEF Decided
    <3>3. PICK p \in {"close", "close_only"} : pc' = [pc EXCEPT ![r] = p]
      BY <2>2, <2>4 DEF Decided
    <3> HIDE DEF steps
    <3>4. /\ Moved(r, p, todo[r], t, steps, redo[r]) /\ MayBeAt(p, todo[r], t, redo[r])
      BY <1>2, <1>3, <1>4, <2>2, <3>2, <3>3 DEF Moved, MayBeAt
    <3>5. p \in PlacesOfRecovery
      BY <1>4
    <3>6. QED
      BY <1>1, <1>2, <3>1, <3>4, <3>5, PlacesStep
  <2>5. QED
    BY <2>3, <2>4
<1>7. CASE RecoveryCloseStep(r)
  <2>1. PICK s \in blocking[r] : blocking' = [blocking EXCEPT ![r] = blocking[r] \ {s}]
    BY <1>7 DEF RecoveryCloseStep
  <2>2. /\ blocking[r] \ {s} \in SUBSET Steps /\ UNCHANGED <<pc, todo, closing, redo>>
        /\ pc[r] \in Closing /\ pc[r] # "waiting" /\ closing[r] \in todo[r]
    BY <1>1, <1>2, <1>4, <1>7 DEF RecoveryCloseStep, At, PlaceInv
  <2>3. /\ Moved(r, pc[r], todo[r], closing[r], blocking[r] \ {s}, redo[r])
        /\ MayBeAt(pc[r], todo[r], closing[r], redo[r])
    BY <1>2, <1>3, <2>1, <2>2 DEF Moved, MayBeAt
  <2>4. QED
    BY <1>1, <1>2, <2>2, <2>3, PlacesStep
<1>8. CASE RecoveryFailTurn(r)
  <2> DEFINE td == todo[r] \ {closing[r]}
  <2>1. td \in SUBSET Turns /\ td \subseteq Started
    BY <1>2
  <2>2. /\ todo' = [todo EXCEPT ![r] = td] /\ UNCHANGED <<blocking, redo>>
        /\ closing' = [closing EXCEPT ![r] = NoTurn]
    BY <1>8 DEF RecoveryFailTurn
  <2>3. PICK p \in {"decide", "decide_only"} : pc' = [pc EXCEPT ![r] = p]
    BY <1>8 DEF RecoveryFailTurn
  <2> HIDE DEF td
  <2>4. /\ Moved(r, p, td, NoTurn, blocking[r], redo[r]) /\ MayBeAt(p, td, NoTurn, redo[r])
    BY <1>2, <1>3, <1>4, <2>1, <2>2, <2>3 DEF Moved, MayBeAt
  <2>5. p \in PlacesOfRecovery /\ NoTurn \in Turns \cup {NoTurn}
    BY <1>4
  <2>6. QED
    BY <1>1, <1>2, <2>1, <2>4, <2>5, PlacesStep
<1>9. CASE Forget(r)
  <2>1. <<>> \in RedoQueues /\ {} \in SUBSET Turns /\ {} \in SUBSET Steps
    BY DEF RedoQueues
  <2>2. /\ pc' = [pc EXCEPT ![r] = "idle"] /\ todo' = [todo EXCEPT ![r] = {}]
        /\ blocking' = [blocking EXCEPT ![r] = {}] /\ redo' = [redo EXCEPT ![r] = <<>>]
        /\ closing' = [closing EXCEPT ![r] = NoTurn]
    BY <1>9 DEF Forget
  <2>3. Moved(r, "idle", {}, NoTurn, {}, <<>>) /\ MayBeAt("idle", {}, NoTurn, <<>>)
    BY <1>4, <2>2 DEF Moved, MayBeAt
  <2>4. "idle" \in PlacesOfRecovery /\ NoTurn \in Turns \cup {NoTurn}
    BY <1>4
  <2>5. QED
    BY <1>1, <2>1, <2>3, <2>4, PlacesStep
<1>10. CASE RecoveryRedo(r)
  <2>1. /\ pc' = [pc EXCEPT ![r] = "waiting"] /\ UNCHANGED <<todo, closing, blocking, redo>>
        /\ redo[r] # <<>>
    BY <1>10 DEF RecoveryRedo
  <2>2. /\ Moved(r, "waiting", todo[r], closing[r], blocking[r], redo[r])
        /\ MayBeAt("waiting", todo[r], closing[r], redo[r])
    BY <1>2, <1>3, <1>4, <2>1 DEF Moved, MayBeAt
  <2>3. "waiting" \in PlacesOfRecovery
    BY <1>4
  <2>4. QED
    BY <1>1, <1>2, <2>2, <2>3, PlacesStep
<1>11. CASE pc[r] = "waiting" /\ NextRedo(r)
  <2>1. redo[r] # <<>>
    BY <1>1, <1>11 DEF PlaceInv
  <2>2. Tail(redo[r]) \in RedoQueues
    BY <1>2, <2>1, HeadAndTail DEF RedoQueues
  <2>3. /\ pc' = [pc EXCEPT ![r] = "decide"] /\ redo' = [redo EXCEPT ![r] = Tail(redo[r])]
        /\ UNCHANGED <<todo, closing, blocking>>
    BY <1>11 DEF NextRedo
  <2>4. /\ Moved(r, "decide", todo[r], closing[r], blocking[r], Tail(redo[r]))
        /\ MayBeAt("decide", todo[r], closing[r], Tail(redo[r]))
    BY <1>2, <1>3, <1>4, <2>3 DEF Moved, MayBeAt
  <2>5. "decide" \in PlacesOfRecovery
    BY <1>4
  <2>6. QED
    BY <1>1, <1>2, <2>2, <2>4, <2>5, PlacesStep
<1>12. QED
  BY <1>5, <1>6, <1>7, <1>8, <1>9, <1>10, <1>11 DEF RecoveryStep, RecoveryAborts,
     ApplyReturns, RecoveryEnds, RedoTold, RedoExhausted

LEMMA RecoveryRest ==
  ASSUME RecoveryInv, NEW r \in Recoverers, RecoveryStep(r)
  PROVE  TaskStateType' /\ TopicTypes' /\ DispatchTypes' /\ RunTypes' /\ CountTypes'
<1>1. StateTypes
  BY DEF RecoveryInv
<1> USE DEF StateTypes
<1>2. CASE \/ RecoveryCheck(r) \/ RecoveryDecide(r) \/ RecoveryCloseStep(r)
           \/ RecoveryFailTurn(r) \/ ApplyReturns(r) \/ RecoveryEnds(r) \/ RedoTold(r)
  <2>1. UNCHANGED <<topic, state, working, memory, starting, run, counts>>
    BY <1>2 DEF RecoveryCheck, RecoveryDecide, RecoveryCloseStep, RecoveryFailTurn,
       ApplyReturns, RecoveryEnds, RedoTold
  <2>2. QED
    BY <1>1, <2>1 DEF TaskStateType, TopicTypes, DispatchTypes, RunTypes, CountTypes, topic,
       memory, counts
<1>3. CASE RecoveryAborts(r)
  BY <1>1, <1>3 DEF RecoveryAborts, TaskStateType, TopicTypes, DispatchTypes, RunTypes,
     CountTypes, topic, memory
<1>4. ASSUME RecoveryRedo(r) \/ RedoExhausted(r)
      PROVE  Head(redo[r]).turn \in Turns
  <2>1. redo[r] \in Seq([turn : Turns, count : Nat]) /\ redo[r] # <<>>
    BY <1>1, <1>4 DEF RecoverTypes, RedoQueues, RecoveryInv, ScopeInv, PlaceInv,
       RecoveryRedo, RedoExhausted
  <2>2. Head(redo[r]) \in [turn : Turns, count : Nat]
    BY <2>1, HeadAndTail
  <2>3. QED
    BY <2>2
<1>5. CASE RecoveryRedo(r)
  <2> DEFINE t == Head(redo[r]).turn
  <2>1. t \in Turns /\ Dispatch(r, t)
    BY <1>4, <1>5 DEF RecoveryRedo
  <2> HIDE DEF t
  <2>2. working' \in [Turns -> 0 .. MaxWorking]
    BY <1>1, <2>1, HandOutTypes DEF Dispatch
  <2>3. DispatchTypes'
    BY <1>1, <2>1, <2>2 DEF Dispatch, DispatchTypes
  <2>4. QED
    BY <1>1, <1>5, <2>3 DEF RecoveryRedo, TaskStateType, TopicTypes, RunTypes, CountTypes,
       topic, counts
<1>6. CASE RedoExhausted(r)
  <2> DEFINE t == Head(redo[r]).turn
  <2>1. t \in Turns /\ FailTask(t) /\ UNCHANGED <<topic, working, starting, run>>
    BY <1>4, <1>6 DEF RedoExhausted
  <2> HIDE DEF t
  <2>2. working' \in [Turns -> 0 .. MaxWorking]
    BY <1>1, <2>1 DEF DispatchTypes
  <2>3. TaskStateType' /\ DispatchTypes' /\ CountTypes'
    BY <1>1, <2>1, <2>2, FailTaskStateType
  <2>4. QED
    BY <1>1, <2>1, <2>3 DEF TopicTypes, RunTypes, topic
<1>7. QED
  BY <1>2, <1>3, <1>5, <1>6 DEF RecoveryStep

(* A request spawns a recovery, or makes a start pending. *)
LEMMA SpawnKept ==
  ASSUME RecoveryInv, Started \subseteq Started', NEW r \in Recoverers,
         NEW at \in {"check", "check_only"}, SpawnRecovery(r, at)
  PROVE  RecoverTypes' /\ \A q \in Recoverers : PlaceInv(q)'
<1>1. RecoverTypes /\ ScopeInv /\ PlaceInv(r)
  BY DEF RecoveryInv, StateTypes, ScopeInv
<1>2. /\ todo[r] \in SUBSET Turns /\ blocking[r] \in SUBSET Steps
      /\ closing[r] \in Turns \cup {NoTurn}
      /\ redo[r] \in RedoQueues /\ todo[r] \subseteq Started
  BY <1>1 DEF RecoverTypes, PlaceInv
<1>3. /\ todo = [todo EXCEPT ![r] = todo[r]]
      /\ closing = [closing EXCEPT ![r] = closing[r]]
      /\ blocking = [blocking EXCEPT ![r] = blocking[r]]
      /\ redo = [redo EXCEPT ![r] = redo[r]]
  BY <1>1, SameAt DEF RecoverTypes
<1>4. at \in PlacesOfRecovery /\ at \notin Closing /\ at # "waiting"
  BY DEF PlacesOfRecovery, Closing
<1>5. pc' = [pc EXCEPT ![r] = at] /\ UNCHANGED <<todo, closing, blocking, redo>>
  BY DEF SpawnRecovery
<1>6. /\ Moved(r, at, todo[r], closing[r], blocking[r], redo[r])
      /\ MayBeAt(at, todo[r], closing[r], redo[r])
  BY <1>2, <1>3, <1>4, <1>5 DEF Moved, MayBeAt
<1>7. QED
  BY <1>1, <1>2, <1>4, <1>6, PlacesStep

LEMMA RequestKept ==
  ASSUME RecoveryInv, Started \subseteq Started', Request \/ RequestApply
  PROVE  StateTypes' /\ \A q \in Recoverers : PlaceInv(q)'
<1>1. StateTypes /\ ScopeInv
  BY DEF RecoveryInv
<1>2. RecoverTypes' /\ \A q \in Recoverers : PlaceInv(q)'
  <2>1. CASE \E r \in Recoverers : SpawnRecovery(r, "check")
    BY <2>1, SpawnKept
  <2>2. CASE \E r \in Recoverers : SpawnRecovery(r, "check_only")
    BY <2>2, SpawnKept
  <2>3. CASE UNCHANGED recover
    BY <1>1, <2>3, PlacesKept DEF StateTypes, RecoverTypes, recover
  <2>4. QED
    BY <2>1, <2>2, <2>3 DEF Request, RequestApply
<1>3. RunTypes'
  BY <1>1 DEF Request, RequestApply, StateTypes, RunTypes
<1>4. CountTypes'
  BY <1>1 DEF Request, RequestApply, StateTypes, CountTypes
<1>5. QED
  BY <1>1, <1>2, <1>3, <1>4 DEF Request, RequestApply, StateTypes, TaskStateType, TopicTypes,
     DispatchTypes, topic, memory

LEMMA RestartPlaces ==
  ASSUME Restart, NEW q \in Recoverers
  PROVE  PlaceInv(q)'
<1>1. pc'[q] = "idle" /\ todo'[q] = {}
  BY DEF Restart
<1>2. QED
  BY <1>1 DEF PlaceInv, At, Closing

LEMMA RecoveryInit == Init => RecoveryInv
<1> SUFFICES ASSUME Init PROVE RecoveryInv
  OBVIOUS
<1>1. LogInv
  BY LogInvInit DEF Init
<1>2. /\ ends = <<>> /\ Len(ends) = 0 /\ <<>> \in Seq(EndRecords) /\ <<>> \in RedoQueues
  BY DEF Init, RedoQueues
<1>3. TaskStateType /\ TopicTypes /\ CountTypes
  <2>1. TaskStateType
    BY DEF Init, TaskStateType, TaskStates
  <2>2. TopicTypes
    <3>1. pos = 0 /\ Len(ends) = 0
      BY <1>2 DEF Init
    <3>2. pos \in 0 .. Len(ends)
      BY <3>1
    <3>3. QED
      BY <1>2, <3>2 DEF TopicTypes
  <2>3. CountTypes
    BY DEF Init, CountTypes
  <2>4. QED
    BY <2>1, <2>2, <2>3
<1>4. DispatchTypes
  <2>1. 0 \in 0 .. MaxWorking /\ 0 \in 0 .. MaxAttempts
    BY RecoveryAssumption
  <2>2. QED
    BY <2>1 DEF Init, DispatchTypes
<1>5. RunTypes
  BY DEF Init, RunTypes
<1>6. RecoverTypes
  <2>1. "idle" \in PlacesOfRecovery
    BY DEF PlacesOfRecovery
  <2>2. redo \in [Recoverers -> RedoQueues]
    BY <1>2 DEF Init
  <2>3. QED
    BY <2>1, <2>2 DEF Init, RecoverTypes
<1>7. ScopeInv
  <2>1. IncompleteTurns(proj) = {}
    BY DEF Init, LogInit, IncompleteTurns, EmptyLogProjection
  <2>2. \A r \in Recoverers : PlaceInv(r)
    BY DEF Init, PlaceInv, At, Closing
  <2>3. QED
    BY <2>1, <2>2 DEF ScopeInv
<1>8. QED
  BY <1>1, <1>3, <1>4, <1>5, <1>6, <1>7 DEF RecoveryInv, StateTypes

LEMMA RecoveryNext == RecoveryInv /\ [Next]_recoveryVars => RecoveryInv'
<1> SUFFICES ASSUME RecoveryInv, [Next]_recoveryVars PROVE RecoveryInv'
  OBVIOUS
<1>1. /\ LogInv' /\ Started \subseteq Started' /\ IncompleteTurns(proj)' \subseteq Turns
  BY NextWrites, LogKept
<1>2. StateTypes /\ ScopeInv
  BY DEF RecoveryInv
<1>3. ASSUME StateTypes', UNCHANGED recover PROVE RecoveryInv'
  BY <1>1, <1>2, <1>3, PlacesKept DEF RecoveryInv, ScopeInv
<1>4. CASE \/ StartTurn \/ ClientBatch \/ ClientEvent \/ ClientTurnEnd \/ ClientTask
           \/ ClientSummary
  <2>1. UNCHANGED recover
    BY <1>4 DEF StartTurn, ClientBatch, ClientEvent, ClientTurnEnd, ClientTask,
       ClientSummary
  <2>2. QED
    BY <1>2, <1>3, <1>4, <2>1, RequestTypes
<1>5. CASE \E t \in Turns : RunStep(t) \/ Watchdog(t)
  <2>1. UNCHANGED recover
    BY <1>5 DEF RunStep, RunDispatch, RunTold, RunExhausted, Watchdog
  <2>2. QED
    BY <1>2, <1>3, <1>5, <2>1, RunTypesKept
<1>6. CASE Environment
  BY <1>2, <1>3, <1>6, ReportTypesKept
<1>7. CASE Consume
  BY <1>2, <1>3, <1>7, ConsumeTypes DEF Consume
<1>8. CASE Rejoin
  BY <1>2, <1>3, <1>8, ReplayTypes DEF Rejoin
<1>9. CASE Restart
  BY <1>1, <1>2, <1>9, ReplayTypes, RestartPlaces DEF RecoveryInv, ScopeInv
<1>10. CASE Request \/ RequestApply
  BY <1>1, <1>10, RequestKept DEF RecoveryInv, ScopeInv
<1>11. CASE \E r \in Recoverers : RecoveryStep(r)
  <2>1. PICK r \in Recoverers : RecoveryStep(r)
    BY <1>11
  <2>2. RecoverTypes' /\ \A q \in Recoverers : PlaceInv(q)'
    BY <1>1, <2>1, RecoveryPlaces
  <2>3. QED
    BY <1>1, <2>1, <2>2, RecoveryRest DEF RecoveryInv, StateTypes, ScopeInv
<1>12. CASE UNCHANGED recoveryVars
  <2>1. StateTypes'
    BY <1>2, <1>12 DEF recoveryVars, StateTypes, TaskStateType, TopicTypes, DispatchTypes,
       RunTypes, RecoverTypes, CountTypes, topic, memory, recover, counts
  <2>2. QED
    BY <1>3, <1>12, <2>1 DEF recoveryVars
<1>13. QED
  BY <1>4, <1>5, <1>6, <1>7, <1>8, <1>9, <1>10, <1>11, <1>12 DEF Next

LEMMA RecoveryInvariant == Spec => []RecoveryInv
BY RecoveryInit, RecoveryNext, PTL DEF Spec

-----------------------------------------------------------------------------
(* The theorems.                                                           *)

(* Recovery implements TaskLog: whatever crashes, replays, retries and     *)
(* overlapping recoveries do to it, the log grows by single events that    *)
(* the guards of the store accept or a batch brings, and a turn_started    *)
(* that no batch brings is a new turn.                                     *)
THEOREM RecoveryImplementsLog == Spec => LogSpec
<1>1. Init => LogInit
  BY DEF Init
<1>2. RecoveryInv /\ [Next]_recoveryVars => [LogNext]_logVars
  BY NextWrites, LogKept
<1>3. QED
  BY <1>1, <1>2, RecoveryInvariant, PTL DEF Spec, LogSpec

(* ... the same as the property that the runs check.                       *)
THEOREM WritesAreAllowed == Spec => WritesAllowed
<1> DEFINE A == LET e == log'[Len(log')]
                IN  Len(log') = Len(log) + 1 /\ (Write(e) \/ WriteBatch(e))
<1>1. LogInv /\ [LogNext]_logVars => [A]_logVars
  <2> SUFFICES ASSUME LogInv, LogNext PROVE A
    OBVIOUS
  <2>1. PICK e \in Events : Write(e) \/ WriteBatch(e)
    BY DEF LogNext
  <2>2. Written(e) /\ log \in Seq(Events)
    BY <2>1, AddedIsProper DEF LogInv, LogTypeOK
  <2>3. Len(log') = Len(log) + 1 /\ log'[Len(log')] = e
    BY <2>2, Appended
  <2>4. QED
    BY <2>1, <2>3
<1>2. QED
  BY <1>1, RecoveryImplementsLog, LogInvariant, PTL DEF LogSpec, WritesAllowed

(* The variables of Recovery stay in their types: in particular the turns  *)
(* and steps of a recovery are those of the task, and the budget of        *)
(* retries is never exceeded.                                              *)
THEOREM RecoveryTypeCorrect == Spec => []TypeOK
<1>1. RecoveryInv => TypeOK
  <2> SUFFICES ASSUME RecoveryInv PROVE TypeOK
    OBVIOUS
  <2>1. ends \in Seq(Events)
    <3>1. ends \in Seq(EndRecords) /\ EndRecords \subseteq Events
      BY DEF RecoveryInv, StateTypes, TopicTypes, EndRecords
    <3>2. QED
      BY <3>1
  <2>2. \A r \in Recoverers : redo[r] \in Seq([turn : Turns, count : Nat])
    BY DEF RecoveryInv, StateTypes, RecoverTypes, RedoQueues
  <2>3. QED
    BY <2>1, <2>2 DEF RecoveryInv, LogInv, StateTypes, TaskStateType, TopicTypes,
       DispatchTypes, RunTypes, RecoverTypes, PlacesOfRecovery, CountTypes, TypeOK
<1>2. QED
  BY <1>1, RecoveryInvariant, PTL

(* So what TaskLog guarantees holds of the composed system: production     *)
(* finds the incomplete turns of the reference and, beyond them, only what *)
(* a batch of a client started again (write_events_batch), whatever the    *)
(* consumer, the runs, the recoveries and the other requests did ...       *)
THEOREM RecoveryTurnsAgree == Spec => []TurnsAgree
BY RecoveryImplementsLog, IncompleteTurnsAgree, PTL

(* ... and no step in flight is hidden from a recovery.                    *)
THEOREM RecoveryStepsCovered == Spec => []StepsCovered
BY RecoveryImplementsLog, NoStepIsHidden, PTL

-----------------------------------------------------------------------------
(* What a step does to the log, the topic and the place in it: one of      *)
(* seven kinds.                                                            *)

Silent == UNCHANGED <<log, proj, topic, lost, replays>>

(* An event that is not about a step: a turn starts or ends, a summary. *)
WritesOther(e) ==
  /\ Written(e) /\ e.type \in {"turn_started", "summary_marker"} \cup TurnTerminal
  /\ e.step = NoStep
  /\ UNCHANGED <<topic, lost, replays>>

(* What a client sends to /events or in a batch, of any type. *)
WritesForClient(e) ==
  /\ Written(e) /\ e.step \in Steps /\ e.data = 0
  /\ lost' = lost \cup {e.step}
  /\ UNCHANGED <<topic, replays>>

ClosesStep(r, s) ==
  /\ At(r, Closing) /\ s \in blocking[r]
  /\ Written(Event("tool_failed", closing[r], s, Skipped))
  /\ UNCHANGED <<topic, lost, replays, pc, todo, closing>>

(* A new record: the first start of a step, its first end, the failure of  *)
(* a step after its completion, the turn's end.                            *)
Reportable(e) ==
  \/ e.type \in {"turn_completed", "turn_failed"} /\ e.step = NoStep
  \/ e.type \in StepStart /\ ~Opened(e.step)
  \/ /\ e.type \in StepTerminal /\ ~Closed(e.step)
     /\ e.type = "tool_failed" => e.data = 0
     /\ \E i \in 1 .. Len(ends) : /\ ends[i].type \in StepStart
                                  /\ ends[i].step = e.step /\ ends[i].turn = e.turn
  \/ /\ e.type = "llm_failed"
     /\ \A j \in 1 .. Len(ends) : ends[j].step = e.step => ends[j].type # "llm_failed"
     /\ \E i \in 1 .. Len(ends) : /\ ends[i].type = "llm_completed"
                                  /\ ends[i].step = e.step /\ ends[i].turn = e.turn

Reports(e) ==
  /\ ends' = Append(ends, e) /\ Reportable(e)
  /\ UNCHANGED <<log, proj, pos, lost, replays>>

(* The record is written, or the turn_failed its handler makes of it, or   *)
(* nothing.                                                                *)
Reads(e) ==
  /\ pos < Len(ends) /\ e = ends[pos + 1] /\ pos' = pos + 1
  /\ UNCHANGED <<ends, replays>>
  /\ \/ e.type # "turn_failed" /\ Written(e) /\ UNCHANGED lost
     \/ /\ e.type = "turn_failed" /\ UNCHANGED lost
        /\ Written(Event("turn_failed", e.turn, NoStep, 0)) \/ UNCHANGED <<log, proj>>
     \/ UNCHANGED <<log, proj>> /\ lost' = lost \cup {e.step}

GoesBack ==
  /\ pos' \in 0 .. pos /\ replays' = replays + 1
  /\ UNCHANGED <<log, proj, ends, lost>>

SomeStep ==
  \/ Silent \/ GoesBack
  \/ \E e \in Events : WritesOther(e) \/ WritesForClient(e)
  \/ \E r \in Recoverers : \E s \in blocking[r] : ClosesStep(r, s)
  \/ \E e \in EndRecords : Reports(e) \/ Reads(e)

LEMMA FailTaskKind ==
  ASSUME NEW t \in Turns, FailTask(t)
  PROVE  /\ UNCHANGED <<lost, replays>>
         /\ Written(Event("turn_failed", t, NoStep, 0)) \/ UNCHANGED <<log, proj>>
BY DEF FailTask

LEMMA TurnFailedIsOther ==
  ASSUME NEW t \in Turns, UNCHANGED <<lost, replays>>, UNCHANGED topic,
         Written(Event("turn_failed", t, NoStep, 0)) \/ UNCHANGED <<log, proj>>
  PROVE  SomeStep
<1>1. CASE UNCHANGED <<log, proj>>
  BY <1>1 DEF SomeStep, Silent
<1>2. CASE Written(Event("turn_failed", t, NoStep, 0))
  <2> DEFINE e == Event("turn_failed", t, NoStep, 0)
  <2>1. e \in Events /\ e.type = "turn_failed" /\ e.step = NoStep
    BY TurnsAreNat DEF Event, Events, Types, TurnTypes, TurnTerminal
  <2> HIDE DEF e
  <2>2. WritesOther(e)
    BY <1>2, <2>1 DEF WritesOther, TurnTerminal, e
  <2>3. QED
    BY <2>1, <2>2 DEF SomeStep
<1>3. QED
  BY <1>1, <1>2

LEMMA RequestKind ==
  ASSUME RecoveryInv, \/ StartTurn \/ ClientBatch \/ ClientEvent \/ ClientTurnEnd
                      \/ ClientTask \/ ClientSummary
  PROVE  SomeStep
<1>1. CASE StartTurn
  <2>1. UNCHANGED <<topic, lost, replays>>
    BY <1>1 DEF StartTurn, counts
  <2>2. CASE UNCHANGED <<log, proj>>
    BY <2>1, <2>2 DEF SomeStep, Silent
  <2>3. CASE Written(Event("turn_started", proj.maxTurn + 1, NoStep, 0))
    <3> DEFINE e == Event("turn_started", proj.maxTurn + 1, NoStep, 0)
    <3>1. proj.maxTurn + 1 \in Nat
      BY DEF RecoveryInv, LogInv, LogTypeOK
    <3>2. e \in Events /\ e.type = "turn_started" /\ e.step = NoStep
      BY <3>1 DEF Event, Events, Types, TurnTypes
    <3> HIDE DEF e
    <3>3. WritesOther(e)
      BY <2>1, <2>3, <3>2 DEF WritesOther, e
    <3>4. QED
      BY <3>2, <3>3 DEF SomeStep
  <2>4. QED
    BY <1>1, <2>2, <2>3 DEF StartTurn
<1>2. CASE ClientBatch \/ ClientEvent
  <2>1. PICK type \in BatchTypes, t \in Turns \cup {NoTurn}, s \in Steps :
          /\ Written(Event(type, t, s, 0))
          /\ lost' = lost \cup {s} /\ UNCHANGED <<topic, replays>>
    <3>1. CASE ClientBatch
      BY <3>1 DEF ClientBatch, WriteBatch
    <3>2. CASE ClientEvent
      BY <3>2 DEF ClientEvent, Write
    <3>3. QED
      BY <1>2, <3>1, <3>2
  <2> DEFINE e == Event(type, t, s, 0)
  <2>2. e \in Events /\ e.step = s /\ e.data = 0
    <3>1. t \in Nat /\ type \in Types
      BY LogAssumption, TurnsAreNat DEF NoTurn
    <3>2. QED
      BY <3>1, EventType
  <2> HIDE DEF e
  <2>3. WritesForClient(e)
    BY <2>1, <2>2 DEF WritesForClient, e
  <2>4. QED
    BY <2>2, <2>3 DEF SomeStep
<1>3. CASE ClientSummary
  <2>1. PICK n \in 1 .. Len(log) : Written(Event("summary_marker", NoTurn, NoStep, n))
    BY <1>3 DEF ClientSummary
  <2> DEFINE e == Event("summary_marker", NoTurn, NoStep, n)
  <2>2. e \in Events /\ e.type = "summary_marker" /\ e.step = NoStep
    <3>1. n \in Nat
      BY DEF RecoveryInv, LogInv, LogTypeOK
    <3>2. QED
      BY <3>1 DEF Event, Events, Types, SessionTypes, NoTurn
  <2> HIDE DEF e
  <2>3. WritesOther(e)
    BY <1>3, <2>1, <2>2 DEF WritesOther, ClientSummary, e
  <2>4. QED
    BY <2>2, <2>3 DEF SomeStep
<1>4. CASE ClientTurnEnd
  <2>1. PICK type \in {"turn_completed", "turn_failed", "turn_canceled"}, t \in Turns :
          Write(Event(type, t, NoStep, 0))
    BY <1>4 DEF ClientTurnEnd
  <2> DEFINE e == Event(type, t, NoStep, 0)
  <2>2. e \in Events /\ e.type \in TurnTerminal /\ e.step = NoStep
    <3>1. type \in TurnTerminal /\ type \in Types
      BY DEF TurnTerminal, Types, TurnTypes
    <3>2. QED
      BY <3>1, TurnsAreNat DEF Event, Events
  <2> HIDE DEF e
  <2>3. WritesOther(e)
    BY <1>4, <2>1, <2>2 DEF WritesOther, ClientTurnEnd, Write, e
  <2>4. QED
    BY <2>2, <2>3 DEF SomeStep
<1>5. CASE ClientTask
  BY <1>5 DEF ClientTask, SomeStep, Silent
<1>6. QED
  BY <1>1, <1>2, <1>3, <1>4, <1>5

LEMMA ReportKind ==
  ASSUME RecoveryInv, Environment
  PROVE  SomeStep
<1>1. ends \in Seq(EndRecords) /\ UNCHANGED <<log, proj, pos, lost, replays>>
  BY DEF RecoveryInv, StateTypes, TopicTypes, Environment, ReportOpen, ReportClosed,
     ReportEnd, ReportExit, ReportExitedTurn, counts
<1>2. ASSUME NEW e \in EndRecords, ends' = Append(ends, e), Reportable(e) PROVE SomeStep
  BY <1>1, <1>2 DEF SomeStep, Reports
<1>3. ASSUME NEW t \in Turns, NEW s \in Steps, ReportOpen(t, s) PROVE SomeStep
  <2>1. PICK type \in StepStart \cap ReportTypes :
          ends' = Append(ends, Event(type, t, s, 0))
    BY <1>3 DEF ReportOpen, Reported
  <2> DEFINE e == Event(type, t, s, 0)
  <2>2. e \in EndRecords
    BY StepReportType DEF StepTypes
  <2>3. e.type = type /\ e.step = s
    BY DEF Event
  <2> HIDE DEF e
  <2>4. Reportable(e)
    BY <1>3, <2>3 DEF Reportable, ReportOpen
  <2>5. QED
    BY <1>2, <2>1, <2>2, <2>4 DEF e
<1>4. ASSUME NEW s \in Steps, ReportClosed(s) PROVE SomeStep
  <2>1. PICK i \in 1 .. Len(ends) :
          /\ ends[i].step = s
          /\ \E type \in EndsOf(ends[i].type) \cap ReportTypes :
               \E n \in IF type = "llm_completed" THEN Tokens ELSE {0} :
                 ends' = Append(ends, Event(type, ends[i].turn, s, n))
    BY <1>4 DEF ReportClosed
  <2>2. PICK type \in EndsOf(ends[i].type) \cap ReportTypes, n \in Nat :
          /\ type # "llm_completed" => n = 0
          /\ ends' = Append(ends, Event(type, ends[i].turn, s, n))
    BY <2>1, LogAssumption
  <2> DEFINE e == Event(type, ends[i].turn, s, n)
  <2>3. ends[i] \in EndRecords /\ ends[i].turn \in Turns
    BY <1>1 DEF EndRecords
  <2>4. e \in EndRecords
    BY <2>3, RecoveryAssumption, StepReportType
  <2>5. e.type = type /\ e.step = s /\ e.turn = ends[i].turn /\ e.data = n
    BY DEF Event
  <2>6. type \in StepTerminal /\ (type = "tool_failed" => n = 0)
    BY <2>2 DEF EndsOf, StepTerminal
  <2>7. ends[i].type \in StepStart
    <3>1. ends[i].step # NoStep
      BY <2>1, StepAssumption
    <3>2. ends[i].type \in StepTypes
      BY <2>3, <3>1 DEF EndRecords
    <3>3. ends[i].type \notin StepTerminal
      BY <1>4, <2>1 DEF ReportClosed, Closed
    <3>4. QED
      BY <3>2, <3>3, TypesDistinct
  <2> HIDE DEF e
  <2>8. Reportable(e)
    BY <1>4, <2>1, <2>5, <2>6, <2>7 DEF Reportable, ReportClosed
  <2>9. QED
    BY <1>2, <2>2, <2>4, <2>8 DEF e
<1>5. ASSUME NEW t \in Turns, ReportEnd(t) PROVE SomeStep
  <2>1. PICK type \in {"turn_completed", "turn_failed"} :
          ends' = Append(ends, Event(type, t, NoStep, 0))
    BY <1>5 DEF ReportEnd, Reported
  <2> DEFINE e == Event(type, t, NoStep, 0)
  <2>2. e \in EndRecords /\ e.type = type /\ e.step = NoStep
    <3>1. type \in Types
      BY DEF Types, TurnTypes, TurnTerminal
    <3>2. e \in Events /\ e.type = type /\ e.step = NoStep /\ e.turn = t
      BY <3>1, TurnsAreNat DEF Event, Events
    <3>3. QED
      BY <3>2 DEF EndRecords
  <2> HIDE DEF e
  <2>3. Reportable(e)
    BY <2>2 DEF Reportable
  <2>4. QED
    BY <1>2, <2>1, <2>2, <2>3 DEF e
<1>6. ASSUME NEW s \in Steps, ReportExit(s) PROVE SomeStep
  <2>1. PICK i \in 1 .. Len(ends) :
          /\ ends[i].step = s /\ ends[i].type = "llm_completed"
          /\ ends' = Append(ends, Event("llm_failed", ends[i].turn, s, 0))
    BY <1>6 DEF ReportExit, Reported
  <2> DEFINE e == Event("llm_failed", ends[i].turn, s, 0)
  <2>2. ends[i].turn \in Turns /\ "llm_failed" \in StepTypes
    BY <1>1 DEF EndRecords, StepTypes, StepTerminal
  <2>3. e \in EndRecords
    BY <2>2, StepReportType
  <2>4. e.type = "llm_failed" /\ e.step = s /\ e.turn = ends[i].turn
    BY DEF Event
  <2> HIDE DEF e
  <2>5. Reportable(e)
    BY <1>6, <2>1, <2>4 DEF Reportable, ReportExit
  <2>6. QED
    BY <1>2, <2>1, <2>3, <2>5 DEF e
<1>7. ASSUME NEW t \in Turns, ReportExitedTurn(t) PROVE SomeStep
  <2>1. ends' = Append(ends, Event("turn_failed", t, NoStep, 0))
    BY <1>7 DEF ReportExitedTurn, Reported
  <2> DEFINE e == Event("turn_failed", t, NoStep, 0)
  <2>2. e \in EndRecords /\ e.type = "turn_failed" /\ e.step = NoStep
    BY TypesAre, TurnsAreNat, EventType DEF EndRecords
  <2> HIDE DEF e
  <2>3. Reportable(e)
    BY <2>2 DEF Reportable
  <2>4. QED
    BY <1>2, <2>1, <2>2, <2>3 DEF e
<1>8. QED
  BY <1>3, <1>4, <1>5, <1>6, <1>7 DEF Environment

LEMMA ConsumeKind ==
  ASSUME RecoveryInv, Consume
  PROVE  SomeStep
<1> DEFINE e == ends[pos + 1]
<1>1. ends \in Seq(EndRecords) /\ pos \in 0 .. Len(ends) /\ pos < Len(ends) /\ pos' = pos + 1
  BY DEF RecoveryInv, StateTypes, TopicTypes, Consume
<1>2. e \in EndRecords
  <2>1. Len(ends) \in Nat
    BY <1>1
  <2>2. pos + 1 \in 1 .. Len(ends)
    BY <1>1, <2>1
  <2>3. QED
    BY <1>1, <2>2
<1>3. StepRecorded(e) \/ DoneRecorded(e) \/ ErrorRecorded(e) \/ RecordLost(e)
  BY DEF Consume
<1>4. ends' = ends
  BY DEF Consume
<1>5. Reads(e)
  <2>1. pos < Len(ends) /\ e = ends[pos + 1] /\ pos' = pos + 1 /\ ends' = ends
    BY <1>1, <1>4
  <2> HIDE DEF e
  <2>2. CASE StepRecorded(e)
    <3>1. e.type \in StepTypes /\ Written(e) /\ UNCHANGED <<lost, replays>>
      BY <2>2, StepIsWritten DEF counts
    <3>2. e.type # "turn_failed"
      BY <3>1 DEF StepTypes, StepStart, StepTerminal
    <3>3. QED
      BY <2>1, <3>1, <3>2 DEF Reads
  <2>3. CASE DoneRecorded(e)
    BY <2>1, <2>3 DEF Reads, DoneRecorded, counts
  <2>4. CASE ErrorRecorded(e)
    <3>1. /\ e.type = "turn_failed" /\ UNCHANGED <<lost, replays>>
          /\ Written(Event("turn_failed", e.turn, NoStep, 0)) \/ UNCHANGED <<log, proj>>
      <4>1. e.turn \in Turns /\ e.type = "turn_failed" /\ ErrorHandled(e.turn)
        BY <1>2, <2>4 DEF ErrorRecorded, EndRecords
      <4>2. QED
        BY <4>1, FailTaskKind DEF ErrorHandled, counts
    <3>2. QED
      BY <2>1, <3>1 DEF Reads
  <2>5. CASE RecordLost(e)
    BY <2>1, <2>5 DEF Reads, RecordLost
  <2>6. QED
    BY <1>3, <2>2, <2>3, <2>4, <2>5
<1>6. QED
  BY <1>2, <1>5 DEF SomeStep

LEMMA RecoveryKind ==
  ASSUME RecoveryInv, NEW r \in Recoverers, RecoveryStep(r)
  PROVE  SomeStep
<1>1. todo[r] \in SUBSET Turns /\ blocking[r] \in SUBSET Steps
  BY DEF RecoveryInv, StateTypes, RecoverTypes
<1>2. CASE RecoveryCloseStep(r)
  <2>1. PICK s \in blocking[r] :
          Written(Event("tool_failed", closing[r], s, Skipped))
    BY <1>2 DEF RecoveryCloseStep
  <2>2. ClosesStep(r, s)
    BY <1>2, <2>1 DEF RecoveryCloseStep, ClosesStep, counts
  <2>3. QED
    BY <2>2 DEF SomeStep
<1>3. CASE RecoveryFailTurn(r)
  <2>1. closing[r] \in Turns
    BY <1>1, <1>3 DEF RecoveryInv, ScopeInv, PlaceInv, RecoveryFailTurn
  <2>2. QED
    BY <1>3, <2>1, TurnFailedIsOther DEF RecoveryFailTurn, counts
<1>4. CASE RedoExhausted(r)
  <2>1. redo[r] \in Seq([turn : Turns, count : Nat]) /\ redo[r] # <<>>
    BY <1>4 DEF RecoveryInv, StateTypes, RecoverTypes, RedoQueues, ScopeInv, PlaceInv,
       RedoExhausted
  <2>2. Head(redo[r]) \in [turn : Turns, count : Nat]
    BY <2>1, HeadAndTail
  <2>3. Head(redo[r]).turn \in Turns
    BY <2>2
  <2>4. QED
    BY <1>4, <2>3, FailTaskKind, TurnFailedIsOther DEF RedoExhausted
<1>5. CASE UNCHANGED <<log, proj, topic, lost, replays>>
  BY <1>5 DEF SomeStep, Silent
<1>6. QED
  BY <1>2, <1>3, <1>4, <1>5 DEF RecoveryStep, RecoveryCheck, RecoveryDecide,
     RecoveryAborts, ApplyReturns, RecoveryRedo, RecoveryEnds, RedoTold, counts

LEMMA NextKind == RecoveryInv /\ [Next]_recoveryVars => SomeStep
<1> SUFFICES ASSUME RecoveryInv, [Next]_recoveryVars PROVE SomeStep
  OBVIOUS
<1>1. CASE Silent
  BY <1>1 DEF SomeStep
<1>2. ASSUME NEW t \in Turns, RunStep(t) \/ Watchdog(t) PROVE SomeStep
  <2>1. CASE RunExhausted(t)
    BY <2>1, FailTaskKind, TurnFailedIsOther DEF RunExhausted
  <2>2. CASE Watchdog(t)
    <3>1. /\ UNCHANGED <<lost, replays>> /\ UNCHANGED topic
          /\ Written(Event("turn_failed", t, NoStep, 0)) \/ UNCHANGED <<log, proj>>
      BY <2>2, FailTaskKind DEF Watchdog, ErrorHandled, counts
    <3>2. QED
      BY <3>1, TurnFailedIsOther
  <2>3. CASE RunDispatch(t) \/ RunTold(t)
    BY <1>1, <2>3 DEF RunDispatch, RunTold, Silent, counts
  <2>4. QED
    BY <1>2, <2>1, <2>2, <2>3 DEF RunStep
<1>3. CASE Rejoin \/ Restart
  <2>1. pos \in Nat
    BY DEF RecoveryInv, StateTypes, TopicTypes
  <2>2. pos' \in 0 .. pos
    BY <1>3, <2>1 DEF Rejoin, Restart
  <2>3. QED
    BY <1>3, <2>2 DEF Rejoin, Restart, GoesBack, SomeStep
<1>4. CASE UNCHANGED recoveryVars \/ Request \/ RequestApply
  <2>1. Silent
    BY <1>4 DEF recoveryVars, Request, RequestApply, Silent, topic, counts
  <2>2. QED
    BY <1>1, <2>1
<1>5. QED
  BY <1>2, <1>3, <1>4, RequestKind, ReportKind, ConsumeKind, RecoveryKind DEF Next

-----------------------------------------------------------------------------
(* The tokens.                                                             *)

(* What RefTokensAfter does when its boundary moves. *)
LEMMA TokensMoved ==
  ASSUME NEW L \in Seq(Events), NEW p \in Nat, NEW q \in Nat, p <= q
  PROVE  RefTokensAfter(L, q) <= RefTokensAfter(L, p)
<1>1. Len(L) \in Nat
  OBVIOUS
<1>2. PICK f \in [0 .. Len(L) -> Nat] :
           /\ f[0] = 0
           /\ \A i \in 1 .. Len(L) : f[i] = f[i - 1] + TokensOf(L, p, i)
           /\ RefTokensAfter(L, p) = f[Len(L)]
  BY TokenSum
<1>3. PICK g \in [0 .. Len(L) -> Nat] :
           /\ g[0] = 0
           /\ \A i \in 1 .. Len(L) : g[i] = g[i - 1] + TokensOf(L, q, i)
           /\ RefTokensAfter(L, q) = g[Len(L)]
  BY TokenSum
<1> DEFINE S == {i \in 0 .. Len(L) : g[i] <= f[i]}
<1>4. 0 \in S
  BY <1>1, <1>2, <1>3
<1>5. \A i \in 0 .. Len(L) - 1 : i \in S => i + 1 \in S
  <2>1. SUFFICES ASSUME NEW i \in 0 .. Len(L) - 1, g[i] <= f[i]
                 PROVE  g[i + 1] <= f[i + 1]
    BY <1>1
  <2>2. i + 1 \in 1 .. Len(L) /\ (i + 1) - 1 = i
    BY <1>1
  <2>3. /\ f[i] \in Nat /\ g[i] \in Nat
        /\ f[i + 1] = f[i] + TokensOf(L, p, i + 1)
        /\ g[i + 1] = g[i] + TokensOf(L, q, i + 1)
    BY <1>1, <1>2, <1>3, <2>2
  <2>4. L[i + 1].data \in Nat
    <3>1. L[i + 1] \in Events
      BY <2>2
    <3>2. QED
      BY <3>1 DEF Events
  <2>5. TokensOf(L, q, i + 1) <= TokensOf(L, p, i + 1)
        /\ TokensOf(L, q, i + 1) \in Nat /\ TokensOf(L, p, i + 1) \in Nat
    BY <2>2, <2>4 DEF TokensOf
  <2>6. QED
    BY <2>1, <2>3, <2>5
<1> HIDE DEF S
<1>6. Len(L) \in S
  <2>1. 0 .. Len(L) \subseteq S
    BY <1>1, <1>4, <1>5, BoundedInduction
  <2>2. QED
    BY <1>1, <2>1
<1> USE DEF S
<1>7. QED
  BY <1>2, <1>3, <1>6

LEMMA TokensNext ==
  ASSUME NEW L \in Seq(Events), NEW n \in 0 .. Len(L) - 1
  PROVE  RefTokensAfter(L, n) = RefTokensAfter(L, n + 1) + TokensOf(L, n, n + 1)
<1>1. Len(L) \in Nat /\ n \in Nat /\ n + 1 \in Nat /\ n + 1 \in 1 .. Len(L)
  OBVIOUS
<1>2. PICK f \in [0 .. Len(L) -> Nat] :
           /\ f[0] = 0
           /\ \A i \in 1 .. Len(L) : f[i] = f[i - 1] + TokensOf(L, n, i)
           /\ RefTokensAfter(L, n) = f[Len(L)]
  BY <1>1, TokenSum
<1>3. PICK g \in [0 .. Len(L) -> Nat] :
           /\ g[0] = 0
           /\ \A i \in 1 .. Len(L) : g[i] = g[i - 1] + TokensOf(L, n + 1, i)
           /\ RefTokensAfter(L, n + 1) = g[Len(L)]
  BY <1>1, TokenSum
<1> DEFINE d == TokensOf(L, n, n + 1)
           S == {i \in 0 .. Len(L) : f[i] = g[i] + (IF i > n THEN d ELSE 0)}
<1>4. \A i \in 1 .. Len(L) : L[i].data \in Nat
  <2>1. \A i \in 1 .. Len(L) : L[i] \in Events
    OBVIOUS
  <2>2. QED
    BY <2>1 DEF Events
<1>5. d \in Nat
  BY <1>1, <1>4 DEF TokensOf
<1>6. 0 \in S
  BY <1>1, <1>2, <1>3
<1>7. \A i \in 0 .. Len(L) - 1 : i \in S => i + 1 \in S
  <2>1. SUFFICES ASSUME NEW i \in 0 .. Len(L) - 1,
                        f[i] = g[i] + (IF i > n THEN d ELSE 0)
                 PROVE  f[i + 1] = g[i + 1] + (IF i + 1 > n THEN d ELSE 0)
    BY <1>1
  <2>2. i + 1 \in 1 .. Len(L) /\ (i + 1) - 1 = i
    BY <1>1
  <2>3. /\ f[i] \in Nat /\ g[i] \in Nat
        /\ f[i + 1] = f[i] + TokensOf(L, n, i + 1)
        /\ g[i + 1] = g[i] + TokensOf(L, n + 1, i + 1)
    <3>1. f[i + 1] = f[(i + 1) - 1] + TokensOf(L, n, i + 1)
      BY <1>2, <2>2
    <3>2. g[i + 1] = g[(i + 1) - 1] + TokensOf(L, n + 1, i + 1)
      BY <1>3, <2>2
    <3>3. i \in 0 .. Len(L)
      BY <1>1
    <3>4. QED
      BY <2>2, <3>1, <3>2, <3>3
  <2>4. CASE i = n
    <3>0. i + 1 = n + 1 /\ ~ (n + 1 > n + 1)
      BY <1>1, <2>4
    <3>1. TokensOf(L, n + 1, i + 1) = 0
      BY <3>0 DEF TokensOf
    <3>2. TokensOf(L, n, i + 1) = d
      BY <2>4
    <3>3. ~ (i > n) /\ i + 1 > n
      BY <1>1, <2>4
    <3> HIDE DEF d
    <3>4. QED
      BY <1>5, <2>1, <2>3, <3>1, <3>2, <3>3
  <2>5. CASE i # n
    <3>1. TokensOf(L, n, i + 1) = TokensOf(L, n + 1, i + 1)
          /\ TokensOf(L, n, i + 1) \in Nat
      BY <1>1, <1>4, <2>2, <2>5 DEF TokensOf
    <3>2. i > n <=> i + 1 > n
      BY <1>1, <2>5
    <3> HIDE DEF d
    <3>3. QED
      BY <1>5, <2>1, <2>3, <3>1, <3>2
  <2>6. QED
    BY <2>4, <2>5
<1> HIDE DEF S, d
<1>8. Len(L) \in S
  <2>1. 0 .. Len(L) \subseteq S
    BY <1>1, <1>6, <1>7, BoundedInduction
  <2>2. QED
    BY <1>1, <2>1
<1>9. f[Len(L)] = g[Len(L)] + d
  BY <1>1, <1>8 DEF S
<1>10. QED
  BY <1>2, <1>3, <1>9 DEF d

LEMMA TokensAfterAll ==
  ASSUME NEW L \in Seq(Events)
  PROVE  RefTokensAfter(L, Len(L)) = 0
<1>1. Len(L) \in Nat
  OBVIOUS
<1>2. PICK f \in [0 .. Len(L) -> Nat] :
           /\ f[0] = 0
           /\ \A i \in 1 .. Len(L) : f[i] = f[i - 1] + TokensOf(L, Len(L), i)
           /\ RefTokensAfter(L, Len(L)) = f[Len(L)]
  BY <1>1, TokenSum
<1> DEFINE S == {i \in 0 .. Len(L) : f[i] = 0}
<1>3. 0 \in S
  BY <1>1, <1>2
<1>4. \A i \in 0 .. Len(L) - 1 : i \in S => i + 1 \in S
  <2>1. TAKE i \in 0 .. Len(L) - 1
  <2>2. i + 1 \in 1 .. Len(L) /\ (i + 1) - 1 = i /\ ~ (i + 1 > Len(L))
    BY <1>1
  <2>3. f[i + 1] = f[i] + 0
    BY <1>2, <2>2 DEF TokensOf
  <2>4. QED
    BY <2>2, <2>3
<1> HIDE DEF S
<1>5. Len(L) \in S
  <2>1. 0 .. Len(L) \subseteq S
    BY <1>1, <1>3, <1>4, BoundedInduction
  <2>2. QED
    BY <1>1, <2>1
<1> USE DEF S
<1>6. QED
  BY <1>2, <1>5

LEMMA TokensTyped ==
  ASSUME NEW L \in Seq(Events), NEW n \in Nat
  PROVE  RefTokensAfter(L, n) \in Nat
<1>1. PICK f \in [0 .. Len(L) -> Nat] : RefTokensAfter(L, n) = f[Len(L)]
  BY TokenSum
<1>2. Len(L) \in 0 .. Len(L)
  OBVIOUS
<1>3. QED
  BY <1>1, <1>2
(* tokens: read so far; rest: still to be read; all: in the topic; n times *)
(* the consumer went back; nothing lost.                                   *)
Tallied(tokens, rest, all, n, nothing) ==
  /\ tokens \in Nat
  /\ tokens + rest <= (n + 1) * all
  /\ nothing => tokens + rest >= all

(* What is read and what is still to be read is what was reported, once    *)
(* and at most once more for each time the consumer went back.             *)
TokenInv ==
  Tallied(proj.tokens, RefTokensAfter(ends, pos), RefTokensAfter(ends, 0), replays,
          lost = {})

(* A record with d tokens is reported; one is read; the consumer goes back. *)
LEMMA TallyReported ==
  ASSUME NEW tokens \in Nat, NEW rest \in Nat, NEW all \in Nat, NEW n \in Nat,
         NEW d \in Nat, NEW b \in BOOLEAN, Tallied(tokens, rest, all, n, b)
  PROVE  Tallied(tokens, rest + d, all + d, n, b)
<1>1. (n + 1) * (all + d) = (n + 1) * all + (n * d + d)
  OBVIOUS
<1>2. n * d \in Nat /\ (n + 1) * all \in Nat
  OBVIOUS
<1>3. PICK x \in Nat, y \in Nat, z \in Nat :
        x = (n + 1) * all /\ y = n * d /\ z = (n + 1) * (all + d)
  BY <1>1, <1>2
<1>4. tokens + (rest + d) <= z
  BY <1>1, <1>3 DEF Tallied
<1>5. b => tokens + (rest + d) >= all + d
  BY DEF Tallied
<1>6. QED
  BY <1>3, <1>4, <1>5 DEF Tallied

LEMMA TallyRead ==
  ASSUME NEW tokens \in Nat, NEW rest \in Nat, NEW all \in Nat, NEW n \in Nat,
         NEW d \in Nat, NEW b \in BOOLEAN, NEW c \in BOOLEAN,
         Tallied(tokens, rest + d, all, n, b), c => b
  PROVE  /\ Tallied(tokens + d, rest, all, n, c)
         /\ ~c \/ d = 0 => Tallied(tokens, rest, all, n, c)
<1>1. (n + 1) * all \in Nat
  OBVIOUS
<1>2. PICK x \in Nat : x = (n + 1) * all
  BY <1>1
<1>3. tokens + (rest + d) <= x /\ (c => tokens + (rest + d) >= all)
  BY <1>2 DEF Tallied
<1>4. tokens + d + rest <= x /\ tokens + rest <= x
  BY <1>3
<1>5. /\ c => tokens + d + rest >= all
      /\ ~c \/ d = 0 => (c => tokens + rest >= all)
  BY <1>3
<1>6. QED
  BY <1>2, <1>4, <1>5 DEF Tallied

LEMMA TallyBack ==
  ASSUME NEW tokens \in Nat, NEW rest \in Nat, NEW all \in Nat, NEW n \in Nat,
         NEW more \in Nat, NEW b \in BOOLEAN,
         Tallied(tokens, rest, all, n, b), rest <= more, more <= all
  PROVE  Tallied(tokens, more, all, n + 1, b)
<1>1. (n + 1 + 1) * all = (n + 1) * all + all
  OBVIOUS
<1>2. (n + 1) * all \in Nat
  OBVIOUS
<1>3. PICK x \in Nat, y \in Nat : x = (n + 1) * all /\ y = (n + 1 + 1) * all
  BY <1>1, <1>2
<1>4. tokens + more <= y
  BY <1>1, <1>3 DEF Tallied
<1>5. b => tokens + more >= all
  BY DEF Tallied
<1>6. QED
  BY <1>3, <1>4, <1>5 DEF Tallied

LEMMA TopicTyped ==
  ASSUME RecoveryInv
  PROVE  /\ ends \in Seq(EndRecords) /\ ends \in Seq(Events) /\ Len(ends) \in Nat
         /\ pos \in 0 .. Len(ends) /\ pos \in Nat /\ replays \in Nat
         /\ RefTokensAfter(ends, pos) \in Nat /\ RefTokensAfter(ends, 0) \in Nat
<1>1. ends \in Seq(EndRecords) /\ pos \in 0 .. Len(ends) /\ replays \in Nat
  BY DEF RecoveryInv, StateTypes, TopicTypes, CountTypes
<1>2. EndRecords \subseteq Events
  BY DEF EndRecords
<1>3. ends \in Seq(Events) /\ Len(ends) \in Nat
  BY <1>1, <1>2
<1>4. pos \in Nat
  BY <1>1, <1>3
<1>5. \A n \in Nat : RefTokensAfter(ends, n) \in Nat
  BY <1>3, TokensTyped
<1>6. QED
  BY <1>1, <1>3, <1>4, <1>5

LEMMA TokenInit == Init => TokenInv
<1> SUFFICES ASSUME Init PROVE TokenInv
  OBVIOUS
<1>1. ends = <<>> /\ pos = 0 /\ proj.tokens = 0 /\ replays = 0
  BY DEF Init, LogInit, EmptyLogProjection
<1>2. ends \in Seq(Events) /\ Len(ends) = 0
  BY <1>1
<1>3. RefTokensAfter(ends, 0) = 0
  BY <1>2, TokensAfterAll
<1>4. RefTokensAfter(ends, pos) = 0
  BY <1>1, <1>3
<1>5. QED
  BY <1>1, <1>3, <1>4 DEF TokenInv, Tallied

(* What an event of the log adds to the tokens. *)
LEMMA TokensWritten ==
  ASSUME NEW e \in Events, Written(e)
  PROVE  /\ e.type = "llm_completed" => proj'.tokens = proj.tokens + e.data
         /\ e.type # "llm_completed" => proj'.tokens = proj.tokens
BY Projected DEF TokensAdded

LEMMA TokenStep == RecoveryInv /\ TokenInv /\ [Next]_recoveryVars => TokenInv'
<1> SUFFICES ASSUME RecoveryInv, TokenInv, [Next]_recoveryVars PROVE TokenInv'
  OBVIOUS
<1>0. SomeStep
  BY NextKind
<1>1. /\ ends \in Seq(EndRecords) /\ ends \in Seq(Events) /\ Len(ends) \in Nat
      /\ pos \in 0 .. Len(ends) /\ pos \in Nat /\ replays \in Nat
  BY TopicTyped
<1>2. PICK rest \in Nat : rest = RefTokensAfter(ends, pos)
  BY TopicTyped
<1>3. PICK all \in Nat : all = RefTokensAfter(ends, 0)
  BY TopicTyped
<1>4. PICK none \in BOOLEAN : none = (lost = {})
  OBVIOUS
<1>5. proj.tokens \in Nat /\ Tallied(proj.tokens, rest, all, replays, none)
  BY <1>2, <1>3, <1>4 DEF TokenInv, Tallied
<1>6. ASSUME UNCHANGED topic, replays' = replays, lost \subseteq lost',
             proj'.tokens = proj.tokens
      PROVE  TokenInv'
  <2>1. Tallied(proj.tokens, rest + 0, all, replays, none) /\ (lost' = {} => none)
    <3>1. rest + 0 = rest
      BY <1>2
    <3>2. lost' = {} => none
      BY <1>4, <1>6
    <3>3. QED
      BY <1>5, <3>1, <3>2
  <2>2. Tallied(proj.tokens + 0, rest, all, replays, lost' = {})
    <3>1. PICK c \in BOOLEAN : c = (lost' = {})
      OBVIOUS
    <3>2. Tallied(proj.tokens + 0, rest, all, replays, c)
      BY ONLY <1>1, <1>2, <1>3, <1>4, <1>5, <2>1, <3>1, TallyRead
    <3>3. QED
      BY <3>1, <3>2
  <2>3. proj'.tokens = proj.tokens + 0 /\ ends' = ends /\ pos' = pos
    BY <1>5, <1>6 DEF topic
  <2>4. QED
    BY <1>2, <1>3, <1>6, <2>2, <2>3 DEF TokenInv
<1>7. CASE Silent
  BY <1>6, <1>7 DEF Silent
<1>8. ASSUME NEW e \in Events, WritesOther(e) \/ WritesForClient(e) PROVE TokenInv'
  <2>1. proj'.tokens = proj.tokens
    <3>1. Written(e) /\ (e.type = "llm_completed" => e.data = 0)
      BY <1>8 DEF WritesOther, WritesForClient, TurnTerminal
    <3>2. QED
      BY <1>5, <3>1, TokensWritten
  <2>2. UNCHANGED topic /\ replays' = replays /\ lost \subseteq lost'
    BY <1>8 DEF WritesOther, WritesForClient
  <2>3. QED
    BY <1>6, <2>1, <2>2
<1>9. ASSUME NEW r \in Recoverers, NEW s \in blocking[r], ClosesStep(r, s) PROVE TokenInv'
  <2>1. proj'.tokens = proj.tokens
    <3>1. Event("tool_failed", closing[r], s, Skipped).type = "tool_failed"
      BY DEF Event
    <3>2. QED
      BY <1>9, <3>1, Projected DEF ClosesStep, TokensAdded
  <2>2. QED
    BY <1>6, <1>9, <2>1 DEF ClosesStep
<1>10. ASSUME NEW e \in EndRecords, Reports(e) PROVE TokenInv'
  <2>1. /\ ends' = Append(ends, e) /\ pos' = pos /\ proj' = proj /\ lost' = lost
        /\ replays' = replays
    BY <1>10 DEF Reports
  <2>2. PICK M \in Seq(Events) : /\ M = ends' /\ Len(M) = Len(ends) + 1
                                 /\ \A i \in 1 .. Len(ends) : M[i] = ends[i]
                                 /\ M[Len(M)] = e
    <3>1. e \in Events
      BY DEF EndRecords
    <3>2. QED
      BY <1>1, <2>1, <3>1
  <2>3. \A n \in Nat :
          RefTokensAfter(M, n) = RefTokensAfter(ends, n) + TokensOf(M, n, Len(M))
    BY <1>1, <2>2, TokensAppended
  <2>4. PICK d \in Nat : d = IF e.type = "llm_completed" THEN e.data ELSE 0
    BY DEF EndRecords, Events
  <2>5. Len(M) > pos /\ Len(M) > 0
    BY <1>1, <2>2
  <2>6. TokensOf(M, pos, Len(M)) = d /\ TokensOf(M, 0, Len(M)) = d
    BY <2>2, <2>4, <2>5 DEF TokensOf
  <2>7. RefTokensAfter(M, pos) = rest + d /\ RefTokensAfter(M, 0) = all + d
    BY <1>1, <1>2, <1>3, <2>3, <2>6
  <2>8. Tallied(proj.tokens, rest + d, all + d, replays, none)
    BY ONLY <1>1, <1>2, <1>3, <1>4, <1>5, <2>4, TallyReported
  <2>9. QED
    BY <1>4, <2>1, <2>2, <2>7, <2>8 DEF TokenInv
<1>11. ASSUME NEW e \in EndRecords, Reads(e) PROVE TokenInv'
  <2>1. /\ pos < Len(ends) /\ e = ends[pos + 1] /\ pos' = pos + 1 /\ ends' = ends
        /\ replays' = replays
    BY <1>11 DEF Reads
  <2>2. PICK d \in Nat : d = IF e.type = "llm_completed" THEN e.data ELSE 0
    BY DEF EndRecords, Events
  <2>3. PICK left \in Nat : left = RefTokensAfter(ends, pos + 1)
    BY <1>1, TokensTyped
  <2>4. rest = left + d
    <3>1. pos \in 0 .. Len(ends) - 1
      BY <1>1, <2>1
    <3>2. rest = left + TokensOf(ends, pos, pos + 1)
      BY <1>1, <1>2, <2>3, <3>1, TokensNext
    <3>3. pos + 1 > pos
      BY <1>1
    <3>4. QED
      BY <2>1, <2>2, <3>2, <3>3 DEF TokensOf
  <2>5. PICK c \in BOOLEAN : c = (lost' = {})
    OBVIOUS
  <2>6. lost \subseteq lost'
    BY <1>11 DEF Reads
  <2>7. /\ Tallied(proj.tokens + d, left, all, replays, c)
        /\ ~c \/ d = 0 => Tallied(proj.tokens, left, all, replays, c)
    <3>1. Tallied(proj.tokens, left + d, all, replays, none) /\ (c => none)
      BY <1>4, <1>5, <2>4, <2>5, <2>6
    <3>2. QED
      BY ONLY <1>1, <1>3, <1>4, <1>5, <2>2, <2>3, <2>5, <3>1, TallyRead
  <2>8. \/ proj'.tokens = proj.tokens + d
        \/ proj'.tokens = proj.tokens /\ (~c \/ d = 0)
    <3>1. CASE Written(e)
      <4>1. e \in Events
        BY DEF EndRecords
      <4>2. QED
        BY <1>5, <2>2, <3>1, <4>1, TokensWritten
    <3>2. CASE /\ e.type = "turn_failed"
               /\ Written(Event("turn_failed", e.turn, NoStep, 0)) \/ UNCHANGED <<log, proj>>
      <4>1. d = 0
        BY <2>2, <3>2
      <4>2. Event("turn_failed", e.turn, NoStep, 0).type = "turn_failed"
        BY DEF Event
      <4>3. QED
        BY <3>2, <4>1, <4>2, Projected DEF TokensAdded
    <3>3. CASE UNCHANGED <<log, proj>> /\ lost' = lost \cup {e.step}
      BY <2>5, <3>3
    <3>4. QED
      BY <1>11, <3>1, <3>2, <3>3 DEF Reads
  <2>9. RefTokensAfter(ends', pos') = left /\ RefTokensAfter(ends', 0) = all
    BY <1>3, <2>1, <2>3
  <2>10. QED
    BY <2>1, <2>5, <2>7, <2>8, <2>9 DEF TokenInv
<1>12. CASE GoesBack
  <2>1. /\ pos' \in 0 .. pos /\ replays' = replays + 1 /\ ends' = ends /\ proj' = proj
        /\ lost' = lost
    BY <1>12 DEF GoesBack
  <2>2. PICK q \in Nat : q = pos' /\ q <= pos
    BY <1>1, <2>1
  <2>3. PICK more \in Nat : more = RefTokensAfter(ends, q)
    BY <1>1, TokensTyped
  <2>4. rest <= more /\ more <= all
    <3>1. rest <= more
      BY <1>1, <1>2, <2>2, <2>3, TokensMoved
    <3>2. more <= all
      <4>1. PICK z \in Nat : z = 0 /\ z <= q
        BY <2>2
      <4>2. RefTokensAfter(ends, q) <= RefTokensAfter(ends, z)
        BY <1>1, <2>2, <4>1, TokensMoved
      <4>3. QED
        BY <1>3, <2>3, <4>1, <4>2
    <3>3. QED
      BY <3>1, <3>2
  <2>5. Tallied(proj.tokens, more, all, replays + 1, none)
    BY ONLY <1>1, <1>2, <1>3, <1>4, <1>5, <2>3, <2>4, TallyBack
  <2>6. QED
    BY <1>3, <1>4, <2>1, <2>2, <2>3, <2>5 DEF TokenInv
<1>13. QED
  BY <1>0, <1>7, <1>8, <1>9, <1>10, <1>11, <1>12 DEF SomeStep

(* The tokens the projection counts are those of the records of the topic, *)
(* each counted once for each time the consumer read it: what              *)
(* run_lifecycle_consumer reads after a restart or a rejoin is counted     *)
(* again (TaskProjection::apply adds), never more often, and none is       *)
(* dropped unless the write of a step was lost.                            *)
THEOREM TokensCountedPerReplay == Spec => []TokensPerReplay
<1>1. RecoveryInv /\ TokenInv => TokensPerReplay
  <2> SUFFICES ASSUME RecoveryInv, TokenInv PROVE TokensPerReplay
    OBVIOUS
  <2>1. PICK rest \in Nat : rest = RefTokensAfter(ends, pos)
    BY TopicTyped
  <2>2. PICK all \in Nat : all = RefTokensAfter(ends, 0)
    BY TopicTyped
  <2>3. replays \in Nat /\ proj.tokens \in Nat
        /\ Tallied(proj.tokens, rest, all, replays, lost = {})
    BY <2>1, <2>2, TopicTyped DEF TokenInv, Tallied
  <2>4. (replays + 1) * all \in Nat
    BY <2>3
  <2>5. proj.tokens <= (replays + 1) * all
    <3>1. PICK x \in Nat : x = (replays + 1) * all
      BY <2>4
    <3>2. proj.tokens + rest <= x
      BY <2>3, <3>1 DEF Tallied
    <3>3. QED
      BY <2>3, <3>1, <3>2
  <2>6. ASSUME pos = Len(ends), lost = {} PROVE proj.tokens >= all
    <3>1. rest = 0
      BY <2>1, <2>6, TopicTyped, TokensAfterAll
    <3>2. QED
      BY <2>3, <2>6, <3>1 DEF Tallied
  <2>7. QED
    BY <2>2, <2>5, <2>6 DEF TokensPerReplay
<1>2. RecoveryInv /\ TokenInv /\ [Next]_recoveryVars => TokenInv'
  BY TokenStep
<1>3. Spec => []RecoveryInv
  BY RecoveryInvariant
<1>4. QED
  BY <1>1, <1>2, <1>3, TokenInit, PTL DEF Spec

(* What production reads of the log is what the reference reads, in a run  *)
(* with recovery too (BrokerEventStore against LogdbdEventStore): whatever *)
(* is replayed, redone or restarted, the next turn id, the tokens and the  *)
(* boundary of the last summary are those of the log.                      *)
THEOREM RecoveryTotalsAgree == Spec => []TotalsAgree
BY RecoveryImplementsLog, NumbersAreTheLogs, PTL

(* ... and check_summary_trigger never asks later than the reference,      *)
(* unless a batch started a turn since the last summary.                   *)
THEOREM RecoverySummaryInTime == Spec => []SummaryInTime
BY RecoveryImplementsLog, SummaryIsInTime, PTL

-----------------------------------------------------------------------------
(* The steps: what the projection knows of them is what the consumer has   *)
(* read of the topic and what recoveries closed.                           *)

(* The topic: a step starts once and then ends, in its turn, and once but  *)
(* for the failure that the exit of an agent adds to a completion.         *)
TopicInv ==
  /\ \A i, j \in 1 .. Len(ends) :
       ends[i].step = ends[j].step =>
         /\ {ends[i].type, ends[j].type} \subseteq StepStart => i = j
         /\ {ends[i].type, ends[j].type} \subseteq StepTerminal /\ i < j =>
              ends[i].type = "llm_completed" /\ ends[j].type = "llm_failed"
  /\ \A j \in 1 .. Len(ends) :
       ends[j].type \in StepTerminal =>
         \E i \in 1 .. j - 1 : /\ ends[i].type \in StepStart
                               /\ ends[i].step = ends[j].step
                               /\ ends[i].turn = ends[j].turn
  /\ \A i \in 1 .. Len(ends) : ends[i].type = "tool_failed" => ends[i].data = 0

(* startedAt points at a start of the step. *)
StartInv ==
  \A s \in Steps : proj.startedAt[s] # 0 =>
    /\ proj.startedAt[s] \in 1 .. Len(log)
    /\ log[proj.startedAt[s]].type \in StepStart
    /\ log[proj.startedAt[s]].step = s

(* The projection has seen the step start: it is open, or has ended. *)
Begun(s) == proj.startedAt[s] # 0 \/ s \in proj.ended

StartIn(s, t) ==
  \E i \in 1 .. Len(log) :
    log[i].type \in StepStart /\ log[i].step = s /\ log[i].turn = t

EndIn(s) == \E i \in 1 .. Len(log) : log[i].type \in StepTerminal /\ log[i].step = s

(* What a recovery is about to close was started in the turn it looks at. *)
BlockingInv ==
  \A r \in Recoverers :
    /\ ~ At(r, Closing) => blocking[r] = {}
    /\ \A s \in blocking[r] : Begun(s) /\ StartIn(s, closing[r])

(* Of a step that nothing was lost of, the log has what the topic has and  *)
(* what a recovery closed.                                                 *)
SourceInv ==
  \A k \in 1 .. Len(log) :
    log[k].step \in Steps \ lost =>
      \/ \E i \in 1 .. Len(ends) : ends[i] = log[k] /\ (replays = 0 => i <= pos)
      \/ /\ log[k].type = "tool_failed" /\ log[k].data = Skipped
         /\ StartIn(log[k].step, log[k].turn)

(* What the consumer has read of it, the projection knows. *)
ReadInv ==
  \A s \in Steps \ lost :
    /\ \A i \in 1 .. pos : ends[i].step = s /\ ends[i].type \in StepStart => Begun(s)
    /\ \A j \in 1 .. pos :
         ends[j].step = s /\ ends[j].type \in StepTerminal => proj.startedAt[s] = 0
    /\ EndIn(s) => s \in proj.ended

EndedInv == \A s \in proj.ended : EndIn(s)

StepInv ==
  /\ TopicInv /\ StartInv /\ BlockingInv
  /\ SourceInv /\ ReadInv /\ EndedInv

LEMMA StepInvInit == Init => StepInv
<1> SUFFICES ASSUME Init PROVE StepInv
  OBVIOUS
<1>1. Len(ends) = 0 /\ Len(log) = 0 /\ pos = 0
  BY DEF Init, LogInit
<1>2. \A i : i \notin 1 .. 0
  OBVIOUS
<1>3. proj.ended = {} /\ \A s \in Steps : proj.startedAt[s] = 0
  BY DEF Init, LogInit, EmptyLogProjection
<1>4. TopicInv
  BY <1>1, <1>2 DEF TopicInv
<1>5. StartInv /\ EndedInv
  BY <1>3 DEF StartInv, EndedInv
<1>6. BlockingInv
  BY DEF Init, BlockingInv
<1>7. SourceInv /\ ReadInv
  BY <1>1, <1>2 DEF SourceInv, ReadInv, EndIn
<1>8. QED
  BY <1>4, <1>5, <1>6, <1>7 DEF StepInv

(* How the steps that a recovery is about to close change: they are found, *)
(* or they become fewer while the recovery keeps to its turn.              *)
Keeps(r) ==
  /\ blocking'[r] \subseteq blocking[r]
  /\ blocking'[r] # {} => /\ closing'[r] = closing[r]
                          /\ At(r, Closing) => pc'[r] \in Closing

Finds(r) ==
  /\ \E t : blocking'[r] = BlockingSteps(t) /\ closing'[r] = t
  /\ pc'[r] \in Closing
  /\ UNCHANGED <<log, proj>>

LEMMA PlaceKinds ==
  ASSUME RecoveryInv, BlockingInv, NEW r \in Recoverers, RecoveryStep(r),
         NEW q \in Recoverers
  PROVE  Keeps(q) \/ Finds(q)
<1>1. /\ pc \in [Recoverers -> PlacesOfRecovery]
      /\ closing \in [Recoverers -> Turns \cup {NoTurn}]
      /\ blocking \in [Recoverers -> SUBSET Steps]
  BY DEF RecoveryInv, StateTypes, RecoverTypes
<1>2. CASE /\ blocking'[q] \subseteq blocking[q]
           /\ blocking'[q] = {} \/ (pc'[q] = pc[q] /\ closing'[q] = closing[q])
  BY <1>2 DEF Keeps, At
<1>3. CASE RecoveryCheck(r)
  <2>1. blocking[r] = {} /\ UNCHANGED <<blocking, closing>>
    BY <1>3 DEF RecoveryCheck, BlockingInv, At, Closing
  <2>2. q # r => pc'[q] = pc[q]
    BY <1>1, <1>3 DEF RecoveryCheck
  <2>3. QED
    BY <1>2, <2>1, <2>2
<1>4. CASE RecoveryDecide(r)
  <2>1. blocking[r] = {} /\ UNCHANGED <<log, proj>>
    BY <1>4 DEF RecoveryDecide, BlockingInv, At, Closing, Deciding
  <2>2. PICK t \in todo[r] : Decided(r, t)
    BY <1>4 DEF RecoveryDecide, Decided
  <2>3. CASE BlockingSteps(t) = {}
    BY <1>2, <2>2, <2>3 DEF Decided
  <2>4. CASE BlockingSteps(t) # {}
    <3>1. PICK steps : steps = BlockingSteps(t)
      OBVIOUS
    <3>2. /\ blocking' = [blocking EXCEPT ![r] = steps]
          /\ pc' = [pc EXCEPT ![r] = IF @ = "decide" THEN "close" ELSE "close_only"]
          /\ closing' = [closing EXCEPT ![r] = t]
      BY <2>2, <2>4, <3>1 DEF Decided
    <3>3. q = r => blocking'[q] = steps /\ closing'[q] = t /\ pc'[q] \in Closing
      BY <1>1, <3>2 DEF Closing
    <3>4. q = r => Finds(q)
      BY <2>1, <3>1, <3>3 DEF Finds
    <3>5. q # r => blocking'[q] = blocking[q] /\ closing'[q] = closing[q] /\ pc'[q] = pc[q]
      BY <1>1, <3>2
    <3>6. QED
      BY <1>2, <3>4, <3>5
  <2>5. QED
    BY <2>3, <2>4
<1>5. CASE RecoveryCloseStep(r)
  <2>1. PICK s \in blocking[r] : blocking' = [blocking EXCEPT ![r] = @ \ {s}]
    BY <1>5 DEF RecoveryCloseStep
  <2>2. UNCHANGED <<pc, closing>>
    BY <1>5 DEF RecoveryCloseStep
  <2>3. QED
    BY <1>1, <1>2, <2>1, <2>2
<1>6. CASE RecoveryFailTurn(r)
  <2>1. /\ blocking[r] = {} /\ UNCHANGED blocking
        /\ q # r => closing'[q] = closing[q] /\ pc'[q] = pc[q]
    BY <1>1, <1>6 DEF RecoveryFailTurn
  <2>2. QED
    BY <1>2, <2>1
<1>7. CASE Forget(r)
  <2>1. /\ blocking'[r] = {}
        /\ q # r => /\ blocking'[q] = blocking[q] /\ closing'[q] = closing[q]
                    /\ pc'[q] = pc[q]
    BY <1>1, <1>7 DEF Forget
  <2>2. QED
    BY <1>2, <2>1
<1>8. CASE RecoveryRedo(r) \/ RedoTold(r) \/ RedoExhausted(r)
  <2>1. UNCHANGED <<closing, blocking>> /\ pc[r] \notin Closing
    BY <1>8 DEF RecoveryRedo, RedoTold, RedoExhausted, NextRedo, Closing
  <2>2. q # r => pc'[q] = pc[q]
    BY <1>1, <1>8 DEF RecoveryRedo, RedoTold, RedoExhausted, NextRedo
  <2>3. QED
    BY <2>1, <2>2 DEF Keeps, At
<1>9. QED
  BY <1>3, <1>4, <1>5, <1>6, <1>7, <1>8 DEF RecoveryStep, RecoveryAborts, ApplyReturns,
     RecoveryEnds

LEMMA BlockingKinds ==
  ASSUME RecoveryInv, BlockingInv, [Next]_recoveryVars, NEW q \in Recoverers
  PROVE  Keeps(q) \/ Finds(q)
<1>1. pc \in [Recoverers -> PlacesOfRecovery]
  BY DEF RecoveryInv, StateTypes, RecoverTypes
<1>2. CASE \E r \in Recoverers : RecoveryStep(r)
  BY <1>2, PlaceKinds
<1>3. CASE UNCHANGED <<pc, closing, blocking>>
  BY <1>3 DEF Keeps, At
<1>4. CASE Request \/ RequestApply
  <2>1. CASE \E r \in Recoverers, at \in {"check", "check_only"} : SpawnRecovery(r, at)
    <3>1. PICK r \in Recoverers, at \in {"check", "check_only"} : SpawnRecovery(r, at)
      BY <2>1
    <3>2. /\ pc[r] = "idle" /\ pc' = [pc EXCEPT ![r] = at]
          /\ UNCHANGED <<closing, blocking>>
      BY <3>1 DEF SpawnRecovery
    <3>3. pc[q] \in Closing => pc'[q] = pc[q]
      BY <1>1, <3>2 DEF Closing
    <3>4. QED
      BY <3>2, <3>3 DEF Keeps, At
  <2>2. QED
    BY <1>3, <1>4, <2>1 DEF Request, RequestApply, recover
<1>5. CASE Restart
  <2>1. blocking'[q] = {}
    BY <1>5 DEF Restart
  <2>2. QED
    BY <2>1 DEF Keeps
<1>6. QED
  BY <1>2, <1>3, <1>4, <1>5 DEF Next, RunStep, RunDispatch, RunTold, RunExhausted,
     Watchdog, Environment, ReportEnd, ReportOpen, ReportClosed, ReportExit,
     ReportExitedTurn, Consume, Rejoin, StartTurn, ClientBatch, ClientEvent, ClientTurnEnd,
     ClientTask, ClientSummary, recover, recoveryVars

(* What an event of the log changes of what is known of a step. *)
LEMMA KnownOfStep ==
  ASSUME LogTypeOK, NEW e \in Events, Written(e), NEW s \in Steps
  PROVE  /\ e.step = s /\ e.type \in StepStart =>
              /\ proj'.startedAt[s] = Len(log) + 1
              /\ s \in proj'.ended <=> s \in proj.ended
         /\ e.step = s /\ e.type \in StepTerminal =>
              /\ proj'.startedAt[s] = 0
              /\ s \in proj'.ended <=> Begun(s)
         /\ ~ (e.step = s /\ e.type \in StepTypes) =>
              /\ proj'.startedAt[s] = proj.startedAt[s]
              /\ s \in proj'.ended <=> s \in proj.ended
<1>1. /\ proj'.startedAt = StartedAt(proj, Len(log) + 1, e)
      /\ proj'.ended = IF e.type \in StepTerminal /\ proj.startedAt[e.step] # 0
                       THEN proj.ended \cup {e.step} ELSE proj.ended
  BY Projected
<1>2. proj.startedAt \in [Steps -> Nat] /\ StepStart \cap StepTerminal = {}
      /\ StepTypes = StepStart \cup StepTerminal
  BY TypesDistinct DEF LogTypeOK
<1>3. CASE e.type \in StepStart
  <2>1. proj'.startedAt = [proj.startedAt EXCEPT ![e.step] = Len(log) + 1]
        /\ proj'.ended = proj.ended
    BY <1>1, <1>2, <1>3, StartedAtCases
  <2>2. QED
    BY <1>2, <1>3, <2>1
<1>4. CASE e.type \in StepTerminal
  <2>1. proj'.startedAt = [proj.startedAt EXCEPT ![e.step] = 0]
    BY <1>1, <1>2, <1>4, StartedAtCases
  <2>2. QED
    BY <1>1, <1>2, <1>4, <2>1 DEF Begun
<1>5. CASE e.type \notin StepTypes
  <2>1. proj'.startedAt = proj.startedAt /\ proj'.ended = proj.ended
    BY <1>1, <1>2, <1>5, StartedAtCases
  <2>2. QED
    BY <1>2, <1>5, <2>1
<1>6. QED
  BY <1>2, <1>3, <1>4, <1>5

LEMMA LogChange ==
  ASSUME RecoveryInv, [Next]_recoveryVars
  PROVE  UNCHANGED <<log, proj>> \/ \E e \in Events : Written(e)
BY NextWrites, AddedIsProper DEF TurnNext, logVars

(* What is known of a step is never forgotten. *)
LEMMA Remembered ==
  ASSUME LogTypeOK, UNCHANGED <<log, proj>> \/ \E e \in Events : Written(e)
  PROVE  /\ \A s \in Steps : Begun(s) => Begun(s)'
         /\ \A s \in Steps : s \in proj.ended => s \in proj'.ended
         /\ \A s, t : StartIn(s, t) => StartIn(s, t)'
         /\ \A s : EndIn(s) => EndIn(s)'
<1>1. CASE UNCHANGED <<log, proj>>
  BY <1>1 DEF Begun, StartIn, EndIn
<1>2. ASSUME NEW e \in Events, Written(e)
      PROVE  /\ \A s \in Steps : Begun(s) => Begun(s)'
             /\ \A s \in Steps : s \in proj.ended => s \in proj'.ended
             /\ \A s, t : StartIn(s, t) => StartIn(s, t)'
             /\ \A s : EndIn(s) => EndIn(s)'
  <2>1. log \in Seq(Events)
    BY DEF LogTypeOK
  <2>2. /\ Len(log) \in Nat /\ Len(log) + 1 # 0
        /\ 1 .. Len(log) \subseteq 1 .. Len(log')
        /\ \A i \in 1 .. Len(log) : log'[i] = log[i]
    BY <1>2, <2>1, Appended
  <2>3. ASSUME NEW s \in Steps
        PROVE  (Begun(s) => Begun(s)') /\ (s \in proj.ended => s \in proj'.ended)
    BY <1>2, <2>2, KnownOfStep, TypesDistinct DEF Begun
  <2>4. QED
    BY <2>2, <2>3 DEF StartIn, EndIn
<1>3. QED
  BY <1>1, <1>2

LEMMA StartStep ==
  ASSUME LogTypeOK, StartInv, UNCHANGED <<log, proj>> \/ \E e \in Events : Written(e)
  PROVE  StartInv'
<1>1. CASE UNCHANGED <<log, proj>>
  BY <1>1 DEF StartInv
<1>2. ASSUME NEW e \in Events, Written(e) PROVE StartInv'
  <2>1. log \in Seq(Events)
    BY DEF LogTypeOK
  <2>2. /\ Len(log) \in Nat /\ log'[Len(log) + 1] = e
        /\ 1 .. Len(log') = (1 .. Len(log)) \cup {Len(log) + 1}
        /\ \A i \in 1 .. Len(log) : log'[i] = log[i]
    BY <1>2, <2>1, Appended
  <2>3. ASSUME NEW s \in Steps, proj'.startedAt[s] # 0
        PROVE  /\ proj'.startedAt[s] \in 1 .. Len(log')
               /\ log'[proj'.startedAt[s]].type \in StepStart
               /\ log'[proj'.startedAt[s]].step = s
    <3>1. CASE e.step = s /\ e.type \in StepStart
      BY <1>2, <2>2, <3>1, KnownOfStep
    <3>2. CASE e.step = s /\ e.type \in StepTerminal
      BY <1>2, <2>3, <3>2, KnownOfStep
    <3>3. CASE ~ (e.step = s /\ e.type \in StepTypes)
      <4>1. proj'.startedAt[s] = proj.startedAt[s]
        BY <1>2, <3>3, KnownOfStep
      <4>2. QED
        BY <2>2, <2>3, <4>1 DEF StartInv
    <3>4. QED
      BY <3>1, <3>2, <3>3, TypesDistinct
  <2>4. QED
    BY <2>3 DEF StartInv
<1>3. QED
  BY <1>1, <1>2

LEMMA EndedStep ==
  ASSUME LogTypeOK, EndedInv, UNCHANGED <<log, proj>> \/ \E e \in Events : Written(e)
  PROVE  EndedInv'
<1>1. CASE UNCHANGED <<log, proj>>
  BY <1>1 DEF EndedInv, EndIn
<1>2. ASSUME NEW e \in Events, Written(e) PROVE EndedInv'
  <2>1. log \in Seq(Events)
    BY DEF LogTypeOK
  <2>2. /\ Len(log) \in Nat /\ log'[Len(log) + 1] = e
        /\ Len(log) + 1 \in 1 .. Len(log')
    BY <1>2, <2>1, Appended
  <2>3. ASSUME NEW s \in proj'.ended PROVE EndIn(s)'
    <3>1. s \in proj.ended \/ (e.type \in StepTerminal /\ e.step = s)
      BY <1>2, Projected
    <3>2. CASE s \in proj.ended
      BY <1>2, <3>2, Remembered DEF EndedInv
    <3>3. CASE e.type \in StepTerminal /\ e.step = s
      BY <2>2, <3>3 DEF EndIn
    <3>4. QED
      BY <3>1, <3>2, <3>3
  <2>4. QED
    BY <2>3 DEF EndedInv
<1>3. QED
  BY <1>1, <1>2

LEMMA BlockingStep ==
  ASSUME RecoveryInv, StartInv, BlockingInv, [Next]_recoveryVars
  PROVE  BlockingInv'
<1>1. LogTypeOK /\ (UNCHANGED <<log, proj>> \/ \E e \in Events : Written(e))
  BY LogChange DEF RecoveryInv, LogInv
<1>2. /\ \A s \in Steps : Begun(s) => Begun(s)'
      /\ \A s, t : StartIn(s, t) => StartIn(s, t)'
  BY <1>1, Remembered
<1>3. ASSUME NEW r \in Recoverers
      PROVE  /\ ~ At(r, Closing)' => blocking'[r] = {}
             /\ \A s \in blocking'[r] : Begun(s)' /\ StartIn(s, closing[r])'
  <2>1. blocking[r] \subseteq Steps
    BY DEF RecoveryInv, StateTypes, RecoverTypes
  <2>2. CASE Keeps(r)
    <3>1. blocking'[r] \subseteq blocking[r]
      BY <2>2 DEF Keeps
    <3>2. ~ At(r, Closing)' => blocking'[r] = {}
      BY <2>2 DEF Keeps, BlockingInv, At
    <3>3. ASSUME NEW s \in blocking'[r] PROVE Begun(s)' /\ StartIn(s, closing[r])'
      <4>1. s \in Steps /\ Begun(s) /\ StartIn(s, closing[r]) /\ closing'[r] = closing[r]
        BY <2>1, <2>2, <3>1, <3>3 DEF BlockingInv, Keeps
      <4>2. PICK t : t = closing[r] /\ t = closing'[r]
        BY <4>1
      <4>3. QED
        BY <1>2, <4>1, <4>2 DEF StartIn
    <3>4. QED
      BY <3>2, <3>3
  <2>3. CASE Finds(r)
    <3>1. At(r, Closing)' /\ UNCHANGED <<log, proj>>
      BY <2>3 DEF Finds, At
    <3>2. PICK t : blocking'[r] = BlockingSteps(t) /\ closing'[r] = t
      BY <2>3 DEF Finds
    <3>3. ASSUME NEW s \in blocking'[r] PROVE Begun(s)' /\ StartIn(s, closing[r])'
      <4>1. s \in Steps /\ proj.startedAt[s] # 0 /\ log[proj.startedAt[s]].turn = t
        BY <3>2, <3>3 DEF BlockingSteps, StepsInFlight, IncompleteSteps
      <4>2. Begun(s) /\ StartIn(s, t)
        BY <4>1 DEF StartInv, Begun, StartIn
      <4>3. QED
        BY <3>1, <3>2, <4>2 DEF Begun, StartIn
    <3>4. QED
      BY <3>1, <3>3
  <2>4. QED
    BY <2>2, <2>3, BlockingKinds
<1>4. QED
  BY <1>3 DEF BlockingInv

LEMMA TopicStep ==
  ASSUME RecoveryInv, TopicInv, [Next]_recoveryVars
  PROVE  TopicInv'
<1>1. ends \in Seq(EndRecords) /\ Len(ends) \in Nat
  BY TopicTyped
<1>2. CASE ends' = ends
  BY <1>2 DEF TopicInv
<1>3. ASSUME NEW e \in EndRecords, Reports(e) PROVE TopicInv'
  <2>1. /\ Len(ends') = Len(ends) + 1 /\ ends'[Len(ends) + 1] = e
        /\ \A i \in 1 .. Len(ends) : ends'[i] = ends[i]
        /\ 1 .. Len(ends') = (1 .. Len(ends)) \cup {Len(ends) + 1}
    BY <1>1, <1>3 DEF Reports
  <2>2. e.type \in StepStart => ~ Opened(e.step)
    BY <1>3, TypesDistinct DEF Reports, Reportable, StepStart, StepTerminal
  <2>3. ASSUME NEW i \in 1 .. Len(ends), ends[i].step = e.step,
               {ends[i].type, e.type} \subseteq StepTerminal
        PROVE  ends[i].type = "llm_completed" /\ e.type = "llm_failed"
    <3>1. Closed(e.step) /\ e.type \in StepTerminal /\ ends[i].type \in StepTerminal
      BY <2>3 DEF Closed
    <3>2. e.type \notin {"turn_completed", "turn_failed"} /\ e.type \notin StepStart
      BY <3>1 DEF StepStart, StepTerminal
    <3>3. /\ e.type = "llm_failed" /\ ends[i].type # "llm_failed"
          /\ \E k \in 1 .. Len(ends) : /\ ends[k].type = "llm_completed"
                                       /\ ends[k].step = e.step
      BY <1>3, <2>3, <3>1, <3>2 DEF Reports, Reportable
    <3>4. PICK k \in 1 .. Len(ends) : ends[k].type = "llm_completed" /\ ends[k].step = e.step
      BY <3>3
    <3>5. ends[k].type \in StepTerminal
      BY <3>4 DEF StepTerminal
    <3>6. ~ (k < i)
      BY <2>3, <3>1, <3>3, <3>4, <3>5 DEF TopicInv
    <3>7. CASE i < k
      BY <2>3, <3>1, <3>3, <3>4, <3>5, <3>7 DEF TopicInv
    <3>8. CASE i = k
      BY <3>3, <3>4, <3>8
    <3>9. QED
      BY <3>6, <3>7, <3>8
  <2>4. ASSUME NEW i \in 1 .. Len(ends'), NEW j \in 1 .. Len(ends'),
               ends'[i].step = ends'[j].step
        PROVE  /\ {ends'[i].type, ends'[j].type} \subseteq StepStart => i = j
               /\ {ends'[i].type, ends'[j].type} \subseteq StepTerminal /\ i < j =>
                    ends'[i].type = "llm_completed" /\ ends'[j].type = "llm_failed"
    <3>1. \A k \in 1 .. Len(ends) : k # Len(ends) + 1 /\ k < Len(ends) + 1
      BY <1>1
    <3>2. CASE i \in 1 .. Len(ends) /\ j \in 1 .. Len(ends)
      BY <2>1, <2>4, <3>2 DEF TopicInv
    <3>3. CASE i = Len(ends) + 1 /\ j = Len(ends) + 1
      BY <1>1, <3>3
    <3>4. CASE i \in 1 .. Len(ends) /\ j = Len(ends) + 1
      BY <2>1, <2>2, <2>3, <2>4, <3>4 DEF Opened
    <3>5. CASE i = Len(ends) + 1 /\ j \in 1 .. Len(ends)
      <4>1. ~ (i < j)
        BY <1>1, <3>5
      <4>2. QED
        BY <2>1, <2>2, <2>4, <3>5, <4>1 DEF Opened
    <3>6. QED
      BY <2>1, <3>2, <3>3, <3>4, <3>5
  <2>5. ASSUME NEW j \in 1 .. Len(ends'), ends'[j].type \in StepTerminal
        PROVE  \E i \in 1 .. j - 1 : /\ ends'[i].type \in StepStart
                                     /\ ends'[i].step = ends'[j].step
                                     /\ ends'[i].turn = ends'[j].turn
    <3>1. CASE j \in 1 .. Len(ends)
      <4>1. PICK i \in 1 .. j - 1 : /\ ends[i].type \in StepStart
                                    /\ ends[i].step = ends[j].step
                                    /\ ends[i].turn = ends[j].turn
        BY <2>1, <2>5, <3>1 DEF TopicInv
      <4>2. i \in 1 .. Len(ends)
        BY <1>1, <3>1
      <4>3. QED
        BY <2>1, <3>1, <4>1, <4>2
    <3>2. CASE j = Len(ends) + 1
      <4>1. e.type \in StepTerminal
        BY <2>1, <2>5, <3>2
      <4>2. PICK i \in 1 .. Len(ends) : /\ ends[i].type \in StepStart
                                        /\ ends[i].step = e.step /\ ends[i].turn = e.turn
        <5>1. e.type \notin StepStart /\ e.type \notin {"turn_completed", "turn_failed"}
          BY <4>1 DEF StepStart, StepTerminal
        <5>2. PICK k \in 1 .. Len(ends) : /\ ends[k].type \in StepStart \cup {"llm_completed"}
                                          /\ ends[k].step = e.step /\ ends[k].turn = e.turn
          BY <1>3, <5>1 DEF Reports, Reportable
        <5>3. CASE ends[k].type = "llm_completed"
          <6>1. PICK i \in 1 .. k - 1 : /\ ends[i].type \in StepStart
                                        /\ ends[i].step = ends[k].step
                                        /\ ends[i].turn = ends[k].turn
            BY <5>3 DEF TopicInv, StepTerminal
          <6>2. i \in 1 .. Len(ends)
            BY <1>1
          <6>3. QED
            BY <5>2, <6>1, <6>2
        <5>4. QED
          BY <5>2, <5>3
      <4>3. i \in 1 .. j - 1
        BY <1>1, <3>2
      <4>4. QED
        BY <2>1, <3>2, <4>2, <4>3
    <3>3. QED
      BY <2>1, <3>1, <3>2
  <2>6. \A i \in 1 .. Len(ends') : ends'[i].type = "tool_failed" => ends'[i].data = 0
    <3>1. e.type = "tool_failed" => e.data = 0
      BY <1>3 DEF Reports, Reportable, StepStart
    <3>2. QED
      BY <2>1, <3>1 DEF TopicInv
  <2>7. QED
    BY <2>4, <2>5, <2>6 DEF TopicInv
<1>4. ends' = ends \/ \E e \in EndRecords : Reports(e)
  BY NextKind DEF SomeStep, Silent, GoesBack, WritesOther, WritesForClient, ClosesStep,
     Reads, topic
<1>5. QED
  BY <1>2, <1>3, <1>4

(* Whose event is written: nobody's, a client's, a recovery's, or the      *)
(* record that the consumer reads.                                         *)
Origin(e) ==
  \/ e.step = NoStep /\ e.type \notin StepTypes
  \/ e.step \in lost'
  \/ \E r \in Recoverers : \E s \in blocking[r] :
       ClosesStep(r, s) /\ e = Event("tool_failed", closing[r], s, Skipped)
  \/ e \in EndRecords /\ Reads(e)

LEMMA WriteOrigin ==
  ASSUME RecoveryInv, [Next]_recoveryVars
  PROVE  /\ UNCHANGED <<log, proj>> \/ \E e \in Events : Written(e) /\ Origin(e)
         /\ lost \subseteq lost'
<1>1. SomeStep
  BY NextKind
<1>2. CASE Silent \/ GoesBack
  BY <1>2 DEF Silent, GoesBack
<1>3. ASSUME NEW e \in Events, WritesOther(e) \/ WritesForClient(e)
      PROVE  Written(e) /\ Origin(e) /\ lost \subseteq lost'
  <2>1. CASE WritesOther(e)
    BY <2>1, TypesDistinct DEF WritesOther, Origin
  <2>2. CASE WritesForClient(e)
    BY <2>2 DEF WritesForClient, Origin
  <2>3. QED
    BY <1>3, <2>1, <2>2
<1>4. ASSUME NEW r \in Recoverers, NEW s \in blocking[r], ClosesStep(r, s)
      PROVE  (\E e \in Events : Written(e) /\ Origin(e)) /\ lost \subseteq lost'
  <2> DEFINE e == Event("tool_failed", closing[r], s, Skipped)
  <2>1. e \in Events
    <3>1. /\ todo[r] \in SUBSET Turns /\ closing[r] \in todo[r]
          /\ blocking[r] \in SUBSET Steps
      BY <1>4 DEF RecoveryInv, StateTypes, RecoverTypes, ScopeInv, PlaceInv, ClosesStep
    <3>2. closing[r] \in Nat
      BY <3>1, TurnsAreNat
    <3>3. "tool_failed" \in Types /\ Skipped \in Nat /\ s \in Steps \cup {NoStep}
      BY <3>1 DEF Types, StepTypes, StepTerminal, Skipped
    <3>4. QED
      BY ONLY <3>2, <3>3, EventType
  <2>2. Written(e) /\ Origin(e)
    BY <1>4 DEF ClosesStep, Origin
  <2> HIDE DEF e
  <2>3. QED
    BY <1>4, <2>1, <2>2 DEF ClosesStep
<1>5. ASSUME NEW x \in EndRecords, Reads(x)
      PROVE  /\ UNCHANGED <<log, proj>> \/ \E e \in Events : Written(e) /\ Origin(e)
             /\ lost \subseteq lost'
  <2>0. lost \subseteq lost'
    BY <1>5 DEF Reads
  <2>1. CASE Written(x)
    <3>1. x \in Events /\ Origin(x)
      BY <1>5 DEF Origin, EndRecords
    <3>2. QED
      BY <2>0, <2>1, <3>1
  <2>2. CASE Written(Event("turn_failed", x.turn, NoStep, 0))
    <3> DEFINE e == Event("turn_failed", x.turn, NoStep, 0)
    <3>1. e \in Events
      <4>1. "turn_failed" \in Types /\ x.turn \in Nat /\ 0 \in Nat /\ NoStep \in Steps \cup {NoStep}
        BY TypesAre, TurnsAreNat DEF EndRecords
      <4>2. QED
        BY ONLY <4>1, EventType
    <3>2. e.step = NoStep /\ e.type \notin StepTypes
      BY DEF Event, StepTypes, StepStart, StepTerminal
    <3>3. Written(e)
      BY <2>2
    <3> HIDE DEF e
    <3>4. QED
      BY <1>5, <3>1, <3>2, <3>3 DEF Origin, Reads
  <2>3. QED
    BY <1>5, <2>1, <2>2 DEF Reads
<1>6. ASSUME NEW e \in EndRecords, Reports(e) PROVE UNCHANGED <<log, proj>> /\ lost' = lost
  BY <1>6 DEF Reports
<1>7. QED
  BY <1>1, <1>2, <1>3, <1>4, <1>5, <1>6 DEF SomeStep

(* The place of the consumer: what it had read it has read still, unless   *)
(* it went back, and then it is counted.                                   *)
LEMMA PlaceInTopic ==
  ASSUME RecoveryInv, [Next]_recoveryVars
  PROVE  /\ Len(ends) \in Nat /\ Len(ends) <= Len(ends')
         /\ \A i \in 1 .. Len(ends) : ends'[i] = ends[i]
         /\ replays' = 0 => replays = 0 /\ pos <= pos'
         /\ pos \in Nat /\ pos <= Len(ends) /\ pos' \in Nat
         /\ pos' <= pos \/ \E e \in EndRecords : Reads(e)
<1>1. /\ ends \in Seq(EndRecords) /\ Len(ends) \in Nat /\ pos \in Nat /\ pos <= Len(ends)
      /\ replays \in Nat
  BY TopicTyped
<1>2. SomeStep
  BY NextKind
<1>3. CASE UNCHANGED <<topic, replays>>
  BY <1>1, <1>3 DEF topic
<1>4. CASE GoesBack
  BY <1>1, <1>4 DEF GoesBack
<1>5. ASSUME NEW e \in EndRecords, Reports(e)
      PROVE  /\ Len(ends) <= Len(ends') /\ \A i \in 1 .. Len(ends) : ends'[i] = ends[i]
             /\ replays' = replays /\ pos' = pos
  BY <1>1, <1>5 DEF Reports
<1>6. ASSUME NEW e \in EndRecords, Reads(e)
      PROVE  ends' = ends /\ replays' = replays /\ pos' = pos + 1
  BY <1>6 DEF Reads
<1>7. UNCHANGED <<topic, replays>> \/ GoesBack \/ \E e \in EndRecords : Reports(e) \/ Reads(e)
  BY <1>2 DEF SomeStep, Silent, WritesOther, WritesForClient, ClosesStep
<1>8. QED
  BY <1>1, <1>3, <1>4, <1>5, <1>6, <1>7

LEMMA SourceStep ==
  ASSUME RecoveryInv, BlockingInv, SourceInv, [Next]_recoveryVars
  PROVE  SourceInv'
<1>1. /\ LogTypeOK /\ lost \subseteq lost'
      /\ UNCHANGED <<log, proj>> \/ \E e \in Events : Written(e) /\ Origin(e)
  BY WriteOrigin DEF RecoveryInv, LogInv
<1>2. \A s, t : StartIn(s, t) => StartIn(s, t)'
  BY <1>1, Remembered
<1>3. /\ Len(ends) \in Nat /\ Len(ends) <= Len(ends')
      /\ \A i \in 1 .. Len(ends) : ends'[i] = ends[i]
      /\ replays' = 0 => replays = 0 /\ pos <= pos'
      /\ pos \in Nat /\ pos <= Len(ends) /\ pos' \in Nat
  BY PlaceInTopic
<1>4. Len(ends') \in Nat
  <2>1. RecoveryInv'
    BY RecoveryNext
  <2>2. QED
    BY <2>1 DEF RecoveryInv, StateTypes, TopicTypes
<1>5. ASSUME NEW k \in 1 .. Len(log), log'[k] = log[k], log'[k].step \in Steps \ lost'
      PROVE  \/ \E i \in 1 .. Len(ends') :
                  ends'[i] = log'[k] /\ (replays' = 0 => i <= pos')
             \/ /\ log'[k].type = "tool_failed" /\ log'[k].data = Skipped
                /\ StartIn(log[k].step, log[k].turn)'
  <2>1. CASE \E i \in 1 .. Len(ends) : ends[i] = log[k] /\ (replays = 0 => i <= pos)
    <3>1. PICK i \in 1 .. Len(ends) : ends[i] = log[k] /\ (replays = 0 => i <= pos)
      BY <2>1
    <3>2. i \in 1 .. Len(ends') /\ ends'[i] = log'[k] /\ (replays' = 0 => i <= pos')
      BY <1>3, <1>4, <1>5, <3>1
    <3>3. QED
      BY <3>2
  <2>2. CASE /\ log[k].type = "tool_failed" /\ log[k].data = Skipped
             /\ StartIn(log[k].step, log[k].turn)
    <3>1. PICK s, t : s = log[k].step /\ t = log[k].turn
                      /\ s = log'[k].step /\ t = log'[k].turn
      BY <1>5
    <3>2. StartIn(s, t)'
      BY <1>2, <2>2, <3>1
    <3>3. QED
      BY <1>5, <2>2, <3>1, <3>2 DEF StartIn
  <2>3. QED
    BY <1>1, <1>5, <2>1, <2>2 DEF SourceInv
<1>6. CASE UNCHANGED <<log, proj>>
  BY <1>5, <1>6 DEF SourceInv
<1>7. ASSUME NEW e \in Events, Written(e), Origin(e) PROVE SourceInv'
  <2>1. log \in Seq(Events)
    BY <1>1 DEF LogTypeOK
  <2>2. /\ Len(log) \in Nat /\ log'[Len(log) + 1] = e
        /\ 1 .. Len(log') = (1 .. Len(log)) \cup {Len(log) + 1}
        /\ \A i \in 1 .. Len(log) : log'[i] = log[i]
    BY <1>7, <2>1, Appended
  <2>3. ASSUME e.step \in Steps \ lost'
        PROVE  \/ \E i \in 1 .. Len(ends') : ends'[i] = e /\ (replays' = 0 => i <= pos')
               \/ /\ e.type = "tool_failed" /\ e.data = Skipped
                  /\ StartIn(e.step, e.turn)'
    <3>1. CASE e \in EndRecords /\ Reads(e)
      <4>1. /\ pos < Len(ends) /\ e = ends[pos + 1] /\ pos' = pos + 1 /\ ends' = ends
        BY <3>1 DEF Reads
      <4>2. pos + 1 \in 1 .. Len(ends') /\ ends'[pos + 1] = e /\ pos + 1 <= pos'
        BY <1>3, <4>1
      <4>3. QED
        BY <4>2
    <3>2. ASSUME NEW r \in Recoverers, NEW s \in blocking[r],
                 e = Event("tool_failed", closing[r], s, Skipped)
          PROVE  /\ e.type = "tool_failed" /\ e.data = Skipped
                 /\ StartIn(e.step, e.turn)'
      <4>1. /\ e.type = "tool_failed" /\ e.data = Skipped /\ e.step = s
            /\ e.turn = closing[r]
        BY <3>2 DEF Event
      <4>2. StartIn(s, closing[r])
        BY DEF BlockingInv
      <4>3. PICK t : t = e.turn
        OBVIOUS
      <4>4. StartIn(s, t)'
        BY <1>2, <4>1, <4>2, <4>3
      <4>5. QED
        BY <4>1, <4>3, <4>4 DEF StartIn
    <3>3. e.step # NoStep /\ e.step \notin lost'
      BY <2>3, StepAssumption
    <3>4. QED
      BY <1>7, <3>1, <3>2, <3>3 DEF Origin
  <2>4. ASSUME NEW k \in 1 .. Len(log'), log'[k].step \in Steps \ lost'
        PROVE  \/ \E i \in 1 .. Len(ends') :
                    ends'[i] = log'[k] /\ (replays' = 0 => i <= pos')
               \/ /\ log'[k].type = "tool_failed" /\ log'[k].data = Skipped
                  /\ StartIn(log[k].step, log[k].turn)'
    <3>1. CASE k \in 1 .. Len(log)
      BY <1>5, <2>2, <2>4, <3>1
    <3>2. CASE k = Len(log) + 1
      BY <2>2, <2>3, <2>4, <3>2 DEF StartIn
    <3>3. QED
      BY <2>2, <3>1, <3>2
  <2>5. QED
    BY <2>4 DEF SourceInv
<1>8. QED
  BY <1>1, <1>6, <1>7

(* The record of a step that is read and not lost is written. *)
LEMMA ReadIsWritten ==
  ASSUME NEW e \in EndRecords, Reads(e), e.type \in StepTypes, e.step \notin lost'
  PROVE  Written(e)
BY DEF Reads, StepTypes, StepStart, StepTerminal

LEMMA ReadStep ==
  ASSUME RecoveryInv, TopicInv, BlockingInv, ReadInv, [Next]_recoveryVars
  PROVE  ReadInv'
<1>1. /\ LogTypeOK /\ lost \subseteq lost'
      /\ UNCHANGED <<log, proj>> \/ \E e \in Events : Written(e) /\ Origin(e)
  BY WriteOrigin DEF RecoveryInv, LogInv
<1>2. /\ \A s \in Steps : Begun(s) => Begun(s)'
      /\ \A s \in Steps : s \in proj.ended => s \in proj'.ended
  BY <1>1, Remembered
<1>3. /\ Len(ends) \in Nat /\ pos \in Nat /\ pos <= Len(ends) /\ pos' \in Nat
      /\ \A i \in 1 .. Len(ends) : ends'[i] = ends[i]
      /\ pos' <= pos \/ \E e \in EndRecords : Reads(e)
  BY PlaceInTopic
<1>4. ASSUME NEW e \in EndRecords, Reads(e)
      PROVE  pos + 1 \in 1 .. Len(ends) /\ ends[pos + 1] = e /\ pos' = pos + 1
  BY <1>3, <1>4 DEF Reads
<1>5. ASSUME NEW i \in 1 .. pos', i \notin 1 .. pos
      PROVE  \E e \in EndRecords : Reads(e) /\ i = pos + 1 /\ ends'[i] = e
  <2>1. ~ (pos' <= pos)
    BY <1>3, <1>5
  <2>2. PICK e \in EndRecords : Reads(e)
    BY <1>3, <2>1
  <2>3. i = pos + 1
    BY <1>3, <1>4, <1>5, <2>2
  <2>4. QED
    BY <1>3, <1>4, <2>2, <2>3
<1>6. ASSUME NEW e \in Events, Written(e)
      PROVE  /\ log \in Seq(Events) /\ log'[Len(log) + 1] = e
             /\ Len(log) \in Nat /\ Len(log) + 1 # 0
             /\ 1 .. Len(log') = (1 .. Len(log)) \cup {Len(log) + 1}
             /\ \A i \in 1 .. Len(log) : log'[i] = log[i]
  <2>1. log \in Seq(Events)
    BY <1>1 DEF LogTypeOK
  <2>2. QED
    BY <1>6, <2>1, Appended
<1>7. EndRecords \subseteq Events
  BY DEF EndRecords
<1>8. ASSUME NEW s \in Steps \ lost', NEW i \in 1 .. pos', ends'[i].step = s,
             ends'[i].type \in StepStart
      PROVE  Begun(s)'
  <2>1. CASE i \in 1 .. pos
    <3>1. i \in 1 .. Len(ends)
      BY <1>3, <2>1
    <3>2. Begun(s)
      BY <1>1, <1>3, <1>8, <2>1, <3>1 DEF ReadInv
    <3>3. QED
      BY <1>2, <3>2
  <2>2. CASE i \notin 1 .. pos
    <3>1. PICK e \in EndRecords : Reads(e) /\ i = pos + 1 /\ ends'[i] = e
      BY <1>5, <2>2
    <3>2. e.step = s /\ e.type \in StepStart /\ e \in Events
      BY <1>7, <1>8, <3>1
    <3>3. Written(e)
      BY <1>8, <3>1, <3>2, ReadIsWritten, TypesDistinct
    <3>4. proj'.startedAt[s] = Len(log) + 1
      BY <1>1, <3>2, <3>3, KnownOfStep
    <3>5. QED
      BY <1>6, <3>2, <3>3, <3>4 DEF Begun
  <2>3. QED
    BY <2>1, <2>2
<1>9. ASSUME NEW s \in Steps \ lost', NEW j \in 1 .. pos', ends'[j].step = s,
             ends'[j].type \in StepTerminal
      PROVE  proj'.startedAt[s] = 0
  <2>1. CASE j \in 1 .. pos
    <3>1. j \in 1 .. Len(ends) /\ ends'[j] = ends[j]
      BY <1>3, <2>1
    <3>2. proj.startedAt[s] = 0
      BY <1>1, <1>9, <2>1, <3>1 DEF ReadInv
    <3>3. PICK i \in 1 .. j - 1 : ends[i].type \in StepStart /\ ends[i].step = s
      BY <1>9, <3>1 DEF TopicInv
    <3>4. i \in 1 .. Len(ends) /\ i # pos + 1
      BY <1>3, <2>1, <3>1
    <3>5. CASE UNCHANGED <<log, proj>>
      BY <3>2, <3>5
    <3>6. ASSUME NEW e \in Events, Written(e), Origin(e) PROVE proj'.startedAt[s] = 0
      <4>1. ~ (e.step = s /\ e.type \in StepStart)
        <5>1. SUFFICES ASSUME e.step = s, e.type \in StepStart PROVE FALSE
          OBVIOUS
        <5>2. CASE e \in EndRecords /\ Reads(e)
          <6>1. pos + 1 \in 1 .. Len(ends) /\ ends[pos + 1] = e
            BY <1>4, <5>2
          <6>2. i = pos + 1
            BY <3>3, <3>4, <5>1, <6>1 DEF TopicInv
          <6>3. QED
            BY <3>4, <6>2
        <5>3. e.type # "tool_failed"
          BY <5>1 DEF StepStart
        <5>4. e.step # NoStep /\ e.step \notin lost'
          BY <5>1, StepAssumption
        <5>5. QED
          BY <3>6, <5>2, <5>3, <5>4 DEF Origin, Event
      <4>2. QED
        BY <1>1, <3>2, <3>6, <4>1, KnownOfStep, TypesDistinct
    <3>7. QED
      BY <1>1, <3>5, <3>6
  <2>2. CASE j \notin 1 .. pos
    <3>1. PICK e \in EndRecords : Reads(e) /\ j = pos + 1 /\ ends'[j] = e
      BY <1>5, <2>2
    <3>2. e.step = s /\ e.type \in StepTerminal /\ e \in Events
      BY <1>7, <1>9, <3>1
    <3>3. Written(e)
      BY <1>9, <3>1, <3>2, ReadIsWritten, TypesDistinct
    <3>4. QED
      BY <1>1, <3>2, <3>3, KnownOfStep
  <2>3. QED
    BY <2>1, <2>2
<1>10. ASSUME NEW s \in Steps \ lost', EndIn(s)' PROVE s \in proj'.ended
  <2>1. CASE EndIn(s)
    BY <1>1, <1>2, <1>10, <2>1 DEF ReadInv
  <2>2. CASE ~ EndIn(s)
    <3>1. ~ UNCHANGED <<log, proj>>
      BY <1>10, <2>2 DEF EndIn
    <3>2. PICK e \in Events : Written(e) /\ Origin(e)
      BY <1>1, <3>1
    <3>3. e.type \in StepTerminal /\ e.step = s
      BY <1>6, <1>10, <2>2, <3>2 DEF EndIn
    <3>4. Begun(s)
      <4>1. CASE e \in EndRecords /\ Reads(e)
        <5>1. pos + 1 \in 1 .. Len(ends) /\ ends[pos + 1] = e
          BY <1>4, <4>1
        <5>2. PICK i \in 1 .. (pos + 1) - 1 : ends[i].type \in StepStart /\ ends[i].step = s
          BY <3>3, <5>1 DEF TopicInv
        <5>3. i \in 1 .. pos
          BY <1>3
        <5>4. QED
          BY <1>1, <5>2, <5>3 DEF ReadInv
      <4>2. ASSUME NEW r \in Recoverers, NEW x \in blocking[r],
                   e = Event("tool_failed", closing[r], x, Skipped)
            PROVE  Begun(s)
        BY <3>3, <4>2 DEF Event, BlockingInv
      <4>3. e.step # NoStep /\ e.step \notin lost'
        BY <3>3, StepAssumption
      <4>4. QED
        BY <3>2, <4>1, <4>2, <4>3 DEF Origin
    <3>5. QED
      BY <1>1, <3>2, <3>3, <3>4, KnownOfStep
  <2>3. QED
    BY <2>1, <2>2
<1>11. QED
  BY <1>8, <1>9, <1>10 DEF ReadInv

LEMMA StepInvStep == RecoveryInv /\ StepInv /\ [Next]_recoveryVars => StepInv'
<1> SUFFICES ASSUME RecoveryInv, StepInv, [Next]_recoveryVars PROVE StepInv'
  OBVIOUS
<1>1. LogTypeOK /\ (UNCHANGED <<log, proj>> \/ \E e \in Events : Written(e))
  BY LogChange DEF RecoveryInv, LogInv
<1>2. TopicInv' /\ BlockingInv' /\ SourceInv' /\ ReadInv'
  BY TopicStep, BlockingStep, SourceStep, ReadStep DEF StepInv
<1>3. StartInv' /\ EndedInv'
  BY <1>1, StartStep, EndedStep DEF StepInv
<1>4. QED
  BY <1>2, <1>3 DEF StepInv

LEMMA StepInvariant == Spec => [](RecoveryInv /\ StepInv)
<1>1. Init => StepInv
  BY StepInvInit
<1>2. RecoveryInv /\ StepInv /\ [Next]_recoveryVars => StepInv'
  BY StepInvStep
<1>3. Spec => []RecoveryInv
  BY RecoveryInvariant
<1>4. QED
  BY <1>1, <1>2, <1>3, PTL DEF Spec

(* A start of the log of a step of which nothing was lost is that of the   *)
(* topic, so all starts of the step are in one turn.                       *)
LEMMA StartOfTopic ==
  ASSUME SourceInv, NEW s \in Steps \ lost, NEW t, StartIn(s, t)
  PROVE  \E i \in 1 .. Len(ends) :
           ends[i].type \in StepStart /\ ends[i].step = s /\ ends[i].turn = t
<1>1. PICK k \in 1 .. Len(log) :
        log[k].type \in StepStart /\ log[k].step = s /\ log[k].turn = t
  BY DEF StartIn
<1>2. log[k].type # "tool_failed"
  BY <1>1 DEF StepStart
<1>3. QED
  BY <1>1, <1>2 DEF SourceInv

LEMMA EndsInItsTurn ==
  ASSUME TopicInv, SourceInv, NEW s \in Steps \ lost, NEW t, StartIn(s, t),
         NEW k \in 1 .. Len(log), log[k].type \in StepTerminal, log[k].step = s,
         Len(ends) \in Nat
  PROVE  log[k].turn = t
<1>1. PICK i \in 1 .. Len(ends) :
        ends[i].type \in StepStart /\ ends[i].step = s /\ ends[i].turn = t
  BY StartOfTopic
<1>2. \E h \in 1 .. Len(ends) :
        ends[h].type \in StepStart /\ ends[h].step = s /\ ends[h].turn = log[k].turn
  <2>1. CASE StartIn(s, log[k].turn)
    BY <2>1, StartOfTopic
  <2>2. CASE \E j \in 1 .. Len(ends) : ends[j] = log[k]
    <3>1. PICK j \in 1 .. Len(ends) : ends[j] = log[k]
      BY <2>2
    <3>2. PICK h \in 1 .. j - 1 : /\ ends[h].type \in StepStart
                                  /\ ends[h].step = ends[j].step
                                  /\ ends[h].turn = ends[j].turn
      BY <3>1 DEF TopicInv
    <3>3. h \in 1 .. Len(ends)
      OBVIOUS
    <3>4. QED
      BY <3>1, <3>2, <3>3
  <2>3. QED
    BY <2>1, <2>2 DEF SourceInv
<1>3. QED
  BY <1>1, <1>2 DEF TopicInv

LEMMA CaughtUp ==
  ASSUME RecoveryInv, StepInv
  PROVE  StepsCaughtUp
<1> SUFFICES ASSUME pos = Len(ends), NEW s \in Steps \ lost
             PROVE  /\ s \in IncompleteSteps(proj) => Opened(s) /\ ~Closed(s)
                    /\ Opened(s) /\ ~Closed(s) /\ s \notin IncompleteSteps(proj) =>
                         \E i \in OfType(log, {"tool_failed"}) : log[i].step = s
                    /\ \A t \in Turns :
                         [step |-> s, ended |-> TRUE] \in ProjTurnSteps(log, proj, t)
                           <=> s \in RefTurnSteps(log, t)
  BY DEF StepsCaughtUp
<1>1. Len(ends) \in Nat
  BY TopicTyped
<1>2. ASSUME s \in IncompleteSteps(proj) PROVE Opened(s) /\ ~Closed(s)
  <2>1. proj.startedAt[s] # 0
    BY <1>2 DEF IncompleteSteps
  <2>2. \E t : StartIn(s, t)
    BY <2>1 DEF StepInv, StartInv, StartIn
  <2>3. Opened(s)
    BY <2>2, StartOfTopic DEF StepInv, Opened
  <2>4. ~Closed(s)
    BY <2>1 DEF StepInv, ReadInv, Closed
  <2>5. QED
    BY <2>3, <2>4
<1>3. ASSUME Opened(s), ~Closed(s), s \notin IncompleteSteps(proj)
      PROVE  \E i \in OfType(log, {"tool_failed"}) : log[i].step = s
  <2>1. Begun(s)
    BY <1>3 DEF StepInv, ReadInv, Opened
  <2>2. EndIn(s)
    BY <1>3, <2>1 DEF Begun, IncompleteSteps, StepInv, EndedInv
  <2>3. PICK k \in 1 .. Len(log) : log[k].type \in StepTerminal /\ log[k].step = s
    BY <2>2 DEF EndIn
  <2>4. log[k].type = "tool_failed"
    BY <1>3, <2>3 DEF StepInv, SourceInv, Closed
  <2>5. QED
    BY <2>3, <2>4 DEF OfType
<1>4. ASSUME NEW t \in Turns
      PROVE  [step |-> s, ended |-> TRUE] \in ProjTurnSteps(log, proj, t)
               <=> s \in RefTurnSteps(log, t)
  <2>1. [step |-> s, ended |-> TRUE] \in ProjTurnSteps(log, proj, t)
          <=> StartIn(s, t) /\ s \in proj.ended
    <3>1. ASSUME [step |-> s, ended |-> TRUE] \in ProjTurnSteps(log, proj, t)
          PROVE  StartIn(s, t) /\ s \in proj.ended
      <4>1. PICK i \in 1 .. Len(log) :
              /\ log[i].type \in StepStart /\ log[i].turn = t
              /\ [step |-> s, ended |-> TRUE] =
                   [step |-> log[i].step, ended |-> log[i].step \in proj.ended]
        BY <3>1 DEF ProjTurnSteps
      <4>2. s = log[i].step /\ TRUE = (log[i].step \in proj.ended)
        BY <4>1
      <4>3. QED
        BY <4>1, <4>2 DEF StartIn
    <3>2. ASSUME StartIn(s, t), s \in proj.ended
          PROVE  [step |-> s, ended |-> TRUE] \in ProjTurnSteps(log, proj, t)
      <4>1. PICK i \in 1 .. Len(log) :
              log[i].type \in StepStart /\ log[i].step = s /\ log[i].turn = t
        BY <3>2 DEF StartIn
      <4>2. TRUE = (log[i].step \in proj.ended)
        BY <3>2, <4>1
      <4>3. [step |-> s, ended |-> TRUE] =
              [step |-> log[i].step, ended |-> log[i].step \in proj.ended]
        BY <4>1, <4>2
      <4>4. QED
        BY <4>1, <4>3 DEF ProjTurnSteps
    <3>3. QED
      BY <3>1, <3>2
  <2>2. s \in RefTurnSteps(log, t) <=>
          /\ StartIn(s, t)
          /\ \E k \in 1 .. Len(log) :
               log[k].type \in StepTerminal /\ log[k].step = s /\ log[k].turn = t
    BY DEF RefTurnSteps, StartIn, OfType
  <2>3. s \in proj.ended <=> EndIn(s)
    BY DEF StepInv, ReadInv, EndedInv
  <2>4. ASSUME StartIn(s, t), EndIn(s)
        PROVE  \E k \in 1 .. Len(log) :
                 log[k].type \in StepTerminal /\ log[k].step = s /\ log[k].turn = t
    BY <1>1, <2>4, EndsInItsTurn DEF StepInv, EndIn
  <2>5. QED
    BY <2>1, <2>2, <2>3, <2>4 DEF EndIn
<1>5. QED
  BY <1>2, <1>3, <1>4

(* A consumer that has caught up with the topic leaves recovery with the   *)
(* truth, after any restart, rejoin and replay: a step in flight by the    *)
(* projection (BrokerEventStore::get_incomplete_steps) was reported open   *)
(* and not ended, one that is not in flight though nobody reported its end *)
(* was closed by skip_non_idempotent_step, and get_turn_steps shows as     *)
(* ended the steps that the reference has a start and an end of.           *)
THEOREM RecoveryCatchesUp == Spec => []StepsCaughtUp
<1>1. RecoveryInv /\ StepInv => StepsCaughtUp
  BY CaughtUp
<1>2. QED
  BY <1>1, StepInvariant, PTL

(* What StepEndsOnce asks of a step of the program. *)
OnceNext ==
  LET e == log'[Len(log')]
  IN  Len(log') > Len(log) /\ e.type \in StepTerminal /\ TerminalTaken(log, e) =>
        \/ replays > 0
        \/ e.step \in lost'
        \/ e.data = Skipped /\ e.type = "tool_failed"
        \/ \E i \in OfType(log, {"tool_failed"}) :
             log[i].step = e.step /\ log[i].data = Skipped
        \/ e.type = "llm_failed" /\ ExitedAfter(e.step)

LEMMA EndsOnce ==
  ASSUME RecoveryInv, StepInv, [Next]_recoveryVars
  PROVE  OnceNext
<1>1. /\ LogTypeOK /\ lost \subseteq lost'
      /\ UNCHANGED <<log, proj>> \/ \E e \in Events : Written(e) /\ Origin(e)
  BY WriteOrigin DEF RecoveryInv, LogInv
<1>2. log \in Seq(Events) /\ replays \in Nat /\ Len(ends) \in Nat /\ pos \in Nat
  BY <1>1, TopicTyped DEF LogTypeOK
<1>3. CASE UNCHANGED <<log, proj>>
  <2>1. Len(log) \in Nat /\ ~ (Len(log) > Len(log))
    BY <1>2
  <2>2. Len(log') = Len(log)
    BY <1>3
  <2>3. QED
    BY <2>1, <2>2 DEF OnceNext
<1>4. ASSUME NEW e \in Events, Written(e), Origin(e) PROVE OnceNext
  <2>1. log'[Len(log')] = e
    BY <1>2, <1>4, Appended
  <2>2. SUFFICES ASSUME e.type \in StepTerminal, TerminalTaken(log, e), replays = 0,
                        e.step \notin lost', ~ (e.data = Skipped /\ e.type = "tool_failed"),
                        ~ (e.type = "llm_failed" /\ ExitedAfter(e.step))
                 PROVE  \E i \in OfType(log, {"tool_failed"}) :
                          log[i].step = e.step /\ log[i].data = Skipped
    BY <1>2, <2>1 DEF OnceNext
  <2>3. PICK k \in 1 .. Len(log) : log[k].type \in StepTerminal /\ log[k].step = e.step
    <3>1. e.type \notin TurnTerminal
      BY <2>2 DEF TurnTerminal, StepTerminal
    <3>2. QED
      BY <2>2, <3>1 DEF TerminalTaken, StepTerminal
  <2>4. e \in EndRecords /\ Reads(e)
    BY <1>4, <2>2 DEF Origin, Event, StepTypes
  <2>5. pos + 1 \in 1 .. Len(ends) /\ ends[pos + 1] = e /\ e.step \in Steps \ lost
    <3>1. pos < Len(ends) /\ ends[pos + 1] = e
      BY <2>4 DEF Reads
    <3>2. e.step \in Steps
      BY <2>2, <2>4 DEF EndRecords, StepTerminal
    <3>3. QED
      BY <1>1, <1>2, <2>2, <3>1, <3>2
  <2>6. ~ \E i \in 1 .. Len(ends) : ends[i] = log[k] /\ i <= pos
    <3>1. SUFFICES ASSUME NEW i \in 1 .. Len(ends), ends[i] = log[k], i <= pos PROVE FALSE
      OBVIOUS
    <3>2. /\ i < pos + 1 /\ ends[i].step = ends[pos + 1].step
          /\ {ends[i].type, ends[pos + 1].type} \subseteq StepTerminal
      BY <1>2, <2>2, <2>3, <2>5, <3>1
    <3>3. ends[i].type = "llm_completed" /\ ends[pos + 1].type = "llm_failed"
      BY <2>5, <3>2 DEF StepInv, TopicInv
    <3>4. QED
      BY <2>2, <2>5, <3>2, <3>3 DEF ExitedAfter
  <2>7. log[k].type = "tool_failed" /\ log[k].data = Skipped
    BY <2>2, <2>3, <2>5, <2>6 DEF StepInv, SourceInv
  <2>8. QED
    BY <2>3, <2>7 DEF OfType
<1>5. QED
  BY <1>1, <1>3, <1>4

(* BrokerEventStore does not ask whether a step has ended already, as      *)
(* check_terminal_uniqueness of the test store does.  A second end of a    *)
(* step is written all the same only when the consumer has gone back in    *)
(* the topic, a client reported the step past it, a recovery closed the    *)
(* step that its tool had ended or then ends, or the agent of the fixlet   *)
(* exited after its answer (drive_turn), so that llm_failed follows        *)
(* llm_completed in the topic itself.                                      *)
THEOREM StepsEndOnce == Spec => StepEndsOnce
<1>1. RecoveryInv /\ StepInv /\ [Next]_recoveryVars => [OnceNext]_recoveryVars
  BY EndsOnce
<1>2. QED
  BY <1>1, StepInvariant, PTL DEF Spec, StepEndsOnce, OnceNext

-----------------------------------------------------------------------------
(* The turns whose step was handed to a human.                             *)

(* A skipped step is of a turn that was started, and while the turn is     *)
(* incomplete somebody is about to end it, unless a recovery was cut short *)
(* or a batch started it again.                                            *)
SkipInv ==
  /\ \A i \in 1 .. Len(log) :
       log[i].type = "tool_failed" /\ log[i].data = Skipped => log[i].turn \in Started
  /\ trouble = 0 =>
       \A t \in IncompleteTurns(proj) :
         \/ SkippedIn(t) = {}
         \/ t \in Restarted(log)
         \/ \E q \in Recoverers : At(q, Closing) /\ t = closing[q]

LEMMA TroubleGrows ==
  ASSUME RecoveryInv, [Next]_recoveryVars
  PROVE  trouble \in Nat /\ trouble' \in {trouble, trouble + 1}
<1>1. trouble \in Nat
  BY DEF RecoveryInv, StateTypes, CountTypes
<1>2. ASSUME NEW t, FailTask(t) PROVE trouble' \in {trouble, trouble + 1}
  BY <1>2 DEF FailTask
<1>3. ASSUME NEW t, ErrorHandled(t) PROVE trouble' \in {trouble, trouble + 1}
  BY <1>2, <1>3 DEF ErrorHandled, counts
<1>4. ASSUME NEW r \in Recoverers, RecoveryStep(r)
      PROVE  trouble' \in {trouble, trouble + 1}
  <2>1. CASE RedoExhausted(r)
    BY <1>2, <2>1 DEF RedoExhausted
  <2>2. CASE ~ RedoExhausted(r)
    BY <1>4, <2>2 DEF RecoveryStep, RecoveryCheck, RecoveryDecide, RecoveryCloseStep,
       RecoveryFailTurn, RecoveryAborts, ApplyReturns, RecoveryRedo, RecoveryEnds,
       RedoTold, counts
  <2>3. QED
    BY <2>1, <2>2
<1>5. CASE Consume
  <2>1. PICK e : StepRecorded(e) \/ DoneRecorded(e) \/ ErrorRecorded(e) \/ RecordLost(e)
    BY <1>5 DEF Consume
  <2>2. CASE ErrorRecorded(e)
    BY <1>1, <1>3, <2>2 DEF ErrorRecorded
  <2>3. CASE StepRecorded(e) \/ DoneRecorded(e) \/ RecordLost(e)
    BY <1>1, <2>3 DEF StepRecorded, DoneRecorded, RecordLost, counts
  <2>4. QED
    BY <2>1, <2>2, <2>3
<1>6. ASSUME NEW t \in Turns, RunStep(t) \/ Watchdog(t)
      PROVE  trouble' \in {trouble, trouble + 1}
  BY <1>2, <1>3, <1>6 DEF RunStep, RunDispatch, RunTold, RunExhausted, Watchdog, counts
<1>7. CASE (\E t \in Turns : RunStep(t) \/ Watchdog(t)) \/ \E r \in Recoverers : RecoveryStep(r)
  BY <1>1, <1>4, <1>6, <1>7
<1>8. CASE \/ StartTurn \/ ClientBatch \/ ClientEvent \/ ClientTurnEnd \/ ClientTask
           \/ ClientSummary \/ Request \/ RequestApply
  BY <1>1, <1>8 DEF StartTurn, ClientBatch, ClientEvent, ClientTurnEnd, ClientTask,
     ClientSummary, Request, RequestApply, counts
<1>9. CASE Environment \/ Rejoin \/ Restart \/ UNCHANGED recoveryVars
  BY <1>1, <1>9 DEF Environment, ReportEnd, ReportOpen, ReportClosed, ReportExit,
     ReportExitedTurn, Rejoin, Restart, counts, recoveryVars
<1>10. QED
  BY <1>1, <1>5, <1>7, <1>8, <1>9 DEF Next

(* A recovery that closes the steps of a turn leaves it only with the end  *)
(* of the turn, or cut short.                                              *)
LEMMA CloserStays ==
  ASSUME RecoveryInv, [Next]_recoveryVars, NEW q \in Recoverers, At(q, Closing)
  PROVE  \/ At(q, Closing)' /\ closing'[q] = closing[q]
         \/ trouble' = trouble + 1
         \/ closing[q] \notin IncompleteTurns(proj)'
<1>1. pc \in [Recoverers -> PlacesOfRecovery] /\ closing \in [Recoverers -> Turns \cup {NoTurn}]
      /\ pc[q] \in Closing
  BY DEF RecoveryInv, StateTypes, RecoverTypes, At
<1>2. CASE UNCHANGED <<pc, closing>>
  BY <1>1, <1>2 DEF At
<1>3. ASSUME NEW r \in Recoverers, RecoveryStep(r)
      PROVE  \/ At(q, Closing)' /\ closing'[q] = closing[q]
             \/ trouble' = trouble + 1
             \/ closing[q] \notin IncompleteTurns(proj)'
  <2>1. CASE r # q
    <3>1. pc'[q] = pc[q] /\ closing'[q] = closing[q]
      BY <1>1, <1>3, <2>1 DEF RecoveryStep, RecoveryCheck, RecoveryDecide,
         RecoveryCloseStep, RecoveryFailTurn, RecoveryAborts, ApplyReturns, RecoveryRedo,
         RecoveryEnds, RedoTold, RedoExhausted, NextRedo, Forget
    <3>2. QED
      BY <1>1, <3>1 DEF At
  <2>2. CASE r = q
    <3>1. CASE RecoveryCloseStep(r)
      BY <1>2, <3>1 DEF RecoveryCloseStep
    <3>2. CASE RecoveryAborts(r)
      BY <3>2 DEF RecoveryAborts
    <3>3. CASE RecoveryFailTurn(r)
      <4> DEFINE e == Event("turn_failed", closing[q], NoStep, 0)
      <4>1. Written(e)
        BY <2>2, <3>3 DEF RecoveryFailTurn
      <4>2. e.type \in TurnTerminal /\ e.turn = closing[q]
        BY DEF Event, TurnTerminal
      <4> HIDE DEF e
      <4>3. proj'.activeTurns = proj.activeTurns \ {e.turn}
        BY <4>1, <4>2, Projected, ActiveTurnsCases
      <4>4. QED
        BY <4>2, <4>3 DEF IncompleteTurns
    <3>4. QED
      BY <1>1, <1>3, <2>2, <3>1, <3>2, <3>3 DEF RecoveryStep, RecoveryCheck,
         RecoveryDecide, ApplyReturns, RecoveryRedo, RecoveryEnds, RedoTold,
         RedoExhausted, At, Closing, Deciding
  <2>3. QED
    BY <2>1, <2>2
<1>4. CASE Restart
  BY <1>4 DEF Restart
<1>5. CASE Request \/ RequestApply
  <2>1. CASE \E r \in Recoverers, at \in {"check", "check_only"} : SpawnRecovery(r, at)
    <3>1. PICK r \in Recoverers, at \in {"check", "check_only"} : SpawnRecovery(r, at)
      BY <2>1
    <3>2. pc'[q] = pc[q] /\ closing' = closing
      BY <1>1, <3>1 DEF SpawnRecovery, Closing
    <3>3. QED
      BY <1>1, <3>2 DEF At
  <2>2. QED
    BY <1>2, <1>5, <2>1 DEF Request, RequestApply, recover
<1>6. QED
  BY <1>2, <1>3, <1>4, <1>5 DEF Next, RunStep, RunDispatch, RunTold, RunExhausted,
     Watchdog, Environment, ReportEnd, ReportOpen, ReportClosed, ReportExit,
     ReportExitedTurn, Consume, Rejoin, StartTurn, ClientBatch, ClientEvent, ClientTurnEnd,
     ClientTask, ClientSummary, recover, recoveryVars

(* Only a recovery writes that a step was skipped, and stays at its turn.  *)
LEMMA OnlyCloserSkips ==
  ASSUME RecoveryInv, TopicInv, [Next]_recoveryVars, NEW e \in Events, Written(e),
         e.type = "tool_failed", e.data = Skipped
  PROVE  \E q \in Recoverers : At(q, Closing)' /\ e.turn = closing[q]'
<1>1. SomeStep
  BY NextKind
<1>2. log \in Seq(Events) /\ Len(log) \in Nat
  BY DEF RecoveryInv, LogInv, LogTypeOK
<1>3. log' # log
  BY <1>2, Appended
<1>4. ASSUME NEW x, Written(x) PROVE x = e
  <2>1. log' = Append(log, x) /\ log' = Append(log, e)
    BY <1>4 DEF Written
  <2>2. log \in Seq(Events \cup {x})
    BY <1>2
  <2>3. Append(log, x)[Len(log) + 1] = x /\ Append(log, e)[Len(log) + 1] = e
    BY <2>2
  <2>4. QED
    BY <2>1, <2>3
<1>5. ASSUME NEW x \in Events, WritesOther(x) \/ WritesForClient(x) PROVE FALSE
  <2>1. x = e
    BY <1>4, <1>5 DEF WritesOther, WritesForClient
  <2>2. QED
    BY <1>5, <2>1 DEF WritesOther, WritesForClient, Skipped, TurnTerminal
<1>6. ASSUME NEW x \in EndRecords, Reads(x) PROVE FALSE
  <2>1. CASE Written(x)
    <3>1. x = e /\ pos < Len(ends) /\ x = ends[pos + 1]
      BY <1>4, <1>6, <2>1 DEF Reads
    <3>2. pos + 1 \in 1 .. Len(ends)
      BY <3>1, TopicTyped
    <3>3. QED
      BY <3>1, <3>2 DEF TopicInv, Skipped
  <2>2. CASE Written(Event("turn_failed", x.turn, NoStep, 0))
    <3>1. Event("turn_failed", x.turn, NoStep, 0) = e
      BY <1>4, <2>2
    <3>2. Event("turn_failed", x.turn, NoStep, 0).type = "turn_failed"
      BY DEF Event
    <3>3. QED
      BY <3>1, <3>2
  <2>3. QED
    BY <1>3, <1>6, <2>1, <2>2 DEF Reads
<1>7. ASSUME NEW r \in Recoverers, NEW s \in blocking[r], ClosesStep(r, s)
      PROVE  \E q \in Recoverers : At(q, Closing)' /\ e.turn = closing[q]'
  <2>1. /\ Event("tool_failed", closing[r], s, Skipped) = e
        /\ UNCHANGED <<pc, closing>> /\ At(r, Closing)
    BY <1>4, <1>7 DEF ClosesStep
  <2>2. e.turn = closing[r]
    BY <2>1 DEF Event
  <2>3. QED
    BY <2>1, <2>2 DEF At
<1>8. ~ Silent /\ ~ GoesBack /\ \A x : ~ Reports(x)
  BY <1>3 DEF Silent, GoesBack, Reports
<1>9. QED
  BY <1>1, <1>5, <1>6, <1>7, <1>8 DEF SomeStep

LEMMA SkipStep ==
  ASSUME RecoveryInv, TopicInv, SkipInv, [Next]_recoveryVars
  PROVE  SkipInv'
<1>1. CASE UNCHANGED <<log, proj>>
  <2>1. SUFFICES ASSUME trouble' = 0, NEW t \in IncompleteTurns(proj)
                 PROVE  \/ SkippedIn(t) = {}
                        \/ t \in Restarted(log)
                        \/ \E q \in Recoverers : At(q, Closing)' /\ t = closing'[q]
    BY <1>1 DEF SkipInv, Started, SkippedIn, OfType, IncompleteTurns, Restarted
  <2>2. trouble = 0 /\ trouble' # trouble + 1
    BY <2>1, TroubleGrows
  <2>3. ASSUME NEW q \in Recoverers, At(q, Closing), t = closing[q]
        PROVE  At(q, Closing)' /\ t = closing'[q]
    <3>1. closing[q] \in IncompleteTurns(proj)'
      BY <1>1, <2>1, <2>3 DEF IncompleteTurns
    <3>2. QED
      BY <2>2, <2>3, <3>1, CloserStays
  <2>4. QED
    BY <2>2, <2>3 DEF SkipInv
<1>2. ASSUME NEW e \in Events, Written(e), NewStart(e) PROVE SkipInv'
  <2>1. log \in Seq(Events) /\ proj.maxTurn \in Nat /\ TurnInv
    BY DEF RecoveryInv, LogInv, LogTypeOK
  <2>2. /\ Len(log) \in Nat /\ log'[Len(log) + 1] = e
        /\ 1 .. Len(log') = (1 .. Len(log)) \cup {Len(log) + 1}
        /\ \A i \in 1 .. Len(log) : log'[i] = log[i] /\ log[i] \in Events /\ i < Len(log) + 1
    BY <1>2, <2>1, Appended
  <2>3. RecoveryInv' /\ Started \subseteq Started'
    BY RecoveryNext, NextWrites, LogKept
  <2>4. ASSUME NEW i \in 1 .. Len(log'), log'[i].type = "tool_failed", log'[i].data = Skipped
        PROVE  log'[i].turn \in Started'
    <3>1. CASE i \in 1 .. Len(log)
      BY <2>2, <2>3, <2>4, <3>1 DEF SkipInv
    <3>2. CASE i = Len(log) + 1
      <4>1. PICK q \in Recoverers : At(q, Closing)' /\ e.turn = closing'[q]
        BY <1>2, <2>2, <2>4, <3>2, OnlyCloserSkips
      <4>2. closing'[q] \in todo'[q] /\ todo'[q] \subseteq Started'
        BY <2>3, <4>1 DEF RecoveryInv, ScopeInv, PlaceInv
      <4>3. QED
        BY <2>2, <3>2, <4>1, <4>2
    <3>3. QED
      BY <2>2, <3>1, <3>2
  <2>5. ASSUME trouble' = 0, NEW t, t \in IncompleteTurns(proj'),
               ~ \E q \in Recoverers : At(q, Closing)' /\ t = closing'[q]
        PROVE  t \in Restarted(log') \/ \A i \in 1 .. Len(log') :
                 ~ (log'[i].type = "tool_failed" /\ log'[i].turn = t /\ log'[i].data = Skipped)
    <3>1. trouble = 0 /\ trouble' # trouble + 1
      BY <2>5, TroubleGrows
    <3>2. ~ (e.type = "tool_failed" /\ e.turn = t /\ e.data = Skipped)
      BY <1>2, <2>5, OnlyCloserSkips
    <3>3. t \in ActiveTurns(proj, e)
      BY <1>2, <2>5, Projected DEF IncompleteTurns
    <3>4. CASE SkippedIn(t) = {}
      BY <2>2, <3>2, <3>4 DEF SkippedIn, OfType
    <3>5. CASE t \in IncompleteTurns(proj) /\ SkippedIn(t) # {}
      <4>1. t \in Restarted(log)
        <5>1. SUFFICES ASSUME NEW q \in Recoverers, At(q, Closing), t = closing[q]
                       PROVE  FALSE
          BY <3>1, <3>5 DEF SkipInv
        <5>2. t \in IncompleteTurns(proj)'
          BY <2>5 DEF IncompleteTurns
        <5>3. At(q, Closing)' /\ closing'[q] = closing[q]
          BY <3>1, <5>1, <5>2, CloserStays
        <5>4. QED
          BY <2>5, <5>1, <5>3
      <4>2. ~ (e.type \in TurnTerminal /\ e.turn = t)
        BY <3>3, TypesDistinct DEF ActiveTurns
      <4>3. PICK j \in 1 .. Len(log) :
              /\ log[j].type = "turn_started" /\ log[j].turn = t /\ log[j].step # NoStep
              /\ \E i \in 1 .. Len(log) :
                   log[i].type \in TurnTerminal /\ i < j /\ log[i].turn = t
              /\ \A k \in 1 .. Len(log) :
                   log[k].type \in TurnTerminal /\ k > j => log[k].turn # t
        BY <4>1, InRestarted
      <4>4. \A k \in 1 .. Len(log') :
              log'[k].type \in TurnTerminal /\ k > j => log'[k].turn # t
        BY <2>2, <4>2, <4>3
      <4>5. t \in Restarted(log')
        BY <2>2, <4>3, <4>4, InRestarted
      <4>6. QED
        BY <4>5
    <3>6. CASE t \notin IncompleteTurns(proj) /\ SkippedIn(t) # {}
      <4>1. e.type = "turn_started" /\ e.turn = t
        BY <3>3, <3>6 DEF ActiveTurns, IncompleteTurns
      <4>2. PICK m \in 1 .. Len(log) : /\ log[m].type = "tool_failed" /\ log[m].turn = t
                                       /\ log[m].data = Skipped
        BY <3>6 DEF SkippedIn, OfType
      <4>3. e.step # NoStep
        <5>1. log[m].turn \in Nat /\ log[m].turn <= proj.maxTurn
          BY <2>1, <2>2 DEF TurnInv, Events
        <5>2. e.turn # proj.maxTurn + 1
          BY <2>1, <4>1, <4>2, <5>1
        <5>3. QED
          BY <1>2, <4>1, <5>2 DEF NewStart
      <4>4. PICK j \in 1 .. Len(log) : log[j].type = "turn_started" /\ log[j].turn = t
        BY <4>2 DEF SkipInv, Started, OfType
      <4>5. PICK i \in 1 .. Len(log) : log[i].type \in TurnTerminal /\ log[i].turn = t
        BY <2>1, <3>6, <4>4 DEF TurnInv, StartIsLast
      <4>6. \A k \in 1 .. Len(log') : ~ (k > Len(log) + 1)
        BY <2>2
      <4>7. Len(log) + 1 \in 1 .. Len(log')
        BY <2>2
      <4>8. t \in Restarted(log')
        BY <2>2, <4>1, <4>3, <4>5, <4>6, <4>7, InRestarted
      <4>9. QED
        BY <4>8
    <3>7. QED
      BY <3>4, <3>5, <3>6
  <2>6. QED
    BY <2>4, <2>5 DEF SkipInv, SkippedIn, OfType, Restarted, IncompleteTurns
<1>3. UNCHANGED <<log, proj>> \/ \E e \in Events : Written(e) /\ NewStart(e)
  BY NextWrites, AddedIsProper DEF TurnNext, logVars
<1>4. QED
  BY <1>1, <1>2, <1>3

(* What RedoClean asks of a step of the program. *)
RedoNext ==
  \A r \in Recoverers, t \in Turns :
    Redoes(r, t) /\ t \in IncompleteTurns(proj) =>
      \/ SkippedIn(t) = {}
      \/ trouble > 0
      \/ t \in Restarted(log)
      \/ \E q \in Recoverers : At(q, Closing) /\ t = closing[q]

(* A turn whose non-idempotent step was handed to a human is not           *)
(* dispatched again by a background recovery while it is incomplete: from  *)
(* tool_failed to turn_failed (fail_turn_with_non_idempotent_block) there  *)
(* is a recovery at work on it, and only a crash or a lost write takes     *)
(* that one away.  A batch of a client that starts the turn again after    *)
(* its end (write_events_batch) puts it back into recovery.                *)
THEOREM SkippedTurnsAreNotRedone == Spec => RedoClean
<1>1. Init => SkipInv
  BY DEF Init, SkipInv, LogInit, EmptyLogProjection, IncompleteTurns
<1>2. (RecoveryInv /\ StepInv) /\ SkipInv /\ [Next]_recoveryVars => SkipInv'
  BY SkipStep DEF StepInv
<1>3. (RecoveryInv /\ StepInv) /\ SkipInv /\ [Next]_recoveryVars => [RedoNext]_recoveryVars
  <2> SUFFICES ASSUME RecoveryInv, SkipInv PROVE RedoNext
    OBVIOUS
  <2>1. trouble = 0 \/ trouble > 0
    BY DEF RecoveryInv, StateTypes, CountTypes
  <2>2. QED
    BY <2>1 DEF SkipInv, RedoNext
<1>4. Spec => [](RecoveryInv /\ StepInv)
  BY StepInvariant
<1>5. QED
  BY <1>1, <1>2, <1>3, <1>4, PTL DEF Spec, RedoClean, RedoNext
=============================================================================
