------------------------ MODULE TurnDispatch_proofs ------------------------
(* Theorems about TurnDispatch, for every set of tasks, every priority     *)
(* assignment, every limit and budget, and every combination of faults.    *)
EXTENDS TurnDispatch, SequenceTheorems, TLAPS, FiniteSetTheorems

(* Taking one element out of a queue leaves a queue (try_pop). *)
LEMMA RemoveAtType ==
  ASSUME NEW S, NEW s \in Seq(S), NEW i \in DOMAIN s
  PROVE  RemoveAt(s, i) \in Seq(S)
<1>1. i \in 1 .. Len(s)
  OBVIOUS
<1>2. SubSeq(s, 1, i - 1) \in Seq(S)
  BY <1>1, SubSeqProperties
<1>3. SubSeq(s, i + 1, Len(s)) \in Seq(S)
  BY <1>1, SubSeqProperties
<1>4. QED
  BY <1>2, <1>3, ConcatProperties DEF RemoveAt

(* Updating a function at one point, whether or not it is in the domain,   *)
(* keeps its type if the new value has the type.                           *)
LEMMA ExceptType ==
  ASSUME NEW S, NEW T, NEW f \in [S -> T], NEW x, NEW y, x \in S => y \in T
  PROVE  [f EXCEPT ![x] = y] \in [S -> T]
OBVIOUS

(* A report takes a delivery off the account, or leaves it there. *)
LEMMA ReportedType ==
  ASSUME NEW t \in Tasks, TypeOK, Reported(t)
  PROVE  outstanding' \in [Tasks -> Nat]
<1>1. CASE outstanding' = [outstanding EXCEPT ![t] = @ - 1]
  BY <1>1 DEF TypeOK, Reported
<1>2. CASE UNCHANGED outstanding
  BY <1>2 DEF TypeOK
<1>3. QED
  BY <1>1, <1>2 DEF Reported

(* One more delivery of some turn keeps the count of deliveries typed. *)
LEMMA OneMoreType ==
  ASSUME NEW f \in [Tasks -> Nat], NEW x
  PROVE  [f EXCEPT ![x] = f[x] + 1] \in [Tasks -> Nat]
<1>1. x \in Tasks => f[x] + 1 \in Nat
  OBVIOUS
<1>2. QED
  BY ONLY <1>1, f \in [Tasks -> Nat], ExceptType

(* Adding a terminal event keeps the log of a turn well-typed. *)
LEMMA TerminalsType ==
  ASSUME NEW f \in [Tasks -> Seq({"completed", "failed"})], NEW t,
         NEW e \in {"completed", "failed"}
  PROVE  [f EXCEPT ![t] = Append(f[t], e)]
           \in [Tasks -> Seq({"completed", "failed"})]
<1>1. ASSUME t \in Tasks
      PROVE  Append(f[t], e) \in Seq({"completed", "failed"})
  BY <1>1
<1>2. QED
  BY <1>1

(* The three kinds of actor are different. *)
LEMMA ActorsDistinct ==
  /\ Consumer \in Actors /\ Watchdog \in Actors /\ Runs \subseteq Actors
  /\ Consumer \notin Runs /\ Watchdog \notin Runs
BY DispatchAssumption DEF Actors, Runs, Consumer, Watchdog

(* A slot that is released leaves the counter in range. *)
LEMMA SlotReleasedType ==
  ASSUME NEW n \in 0 .. MaxConcurrent
  PROVE  SlotReleased(n) \in 0 .. MaxConcurrent
BY DispatchAssumption DEF SlotReleased

(* Answering a pending turn (complete_pending_turn) is well-typed. *)
LEMMA CompletePendingType ==
  ASSUME TypeOK, NEW t, NEW outcome \in Answers, CompletePending(t, outcome)
  PROVE  /\ registered' \in [Tasks -> NoRun .. MaxRuns]
         /\ answer' \in [Runs -> Answers]
<1> USE DispatchAssumption DEF TypeOK, NoRun
<1>1. CASE registered[t] = NoRun
  BY <1>1 DEF CompletePending, channels
<1>2. CASE registered[t] # NoRun
  <2>1. registered' = [registered EXCEPT ![t] = NoRun]
    BY <1>2 DEF CompletePending
  <2>2. answer' = [answer EXCEPT ![<<t, registered[t]>>] = outcome]
    BY <1>2 DEF CompletePending
  <2>3. registered' \in [Tasks -> NoRun .. MaxRuns]
    <3>1. NoRun \in NoRun .. MaxRuns /\ registered \in [Tasks -> NoRun .. MaxRuns]
      OBVIOUS
    <3>2. QED
      BY ONLY <2>1, <3>1, ExceptType
  <2>4. answer' \in [Runs -> Answers]
    BY <2>2
  <2>5. QED
    BY <2>3, <2>4
<1>3. QED
  BY <1>1, <1>2

(* A decision of the retry policy is well-typed: the counter it writes     *)
(* never passes max_attempts.                                              *)
LEMMA DecideType ==
  ASSUME TypeOK, NEW a \in Actors, NEW t \in Tasks \cup {NoTask},
         NEW retryable \in BOOLEAN, Decide(a, t, retryable)
  PROVE  /\ attempts' \in [Tasks -> 0 .. MaxAttempts]
         /\ pc' \in [Actors -> Locations]
         /\ job' \in [Actors -> Tasks \cup {NoTask}]
         /\ held' \in [Actors -> Tasks \cup {NoTask}]
         /\ afterFail' \in [Actors -> {"pump", "release", "ended", "idle"}]
         /\ afterPump' \in [Actors -> {"wait", "answer", "ended", "idle"}]
         /\ redispatched' \in [Tasks -> Nat]
         /\ closing' \in [Tasks -> BOOLEAN]
<1> USE DispatchAssumption DEF TypeOK, GoTo, Home, Locations
<1>1. job' \in [Actors -> Tasks \cup {NoTask}]
  BY DEF Decide
<1>2. CASE RetryAllowed(attempts[t], retryable)
  <2>1. t \in Tasks => attempts[t] + 1 \in 0 .. MaxAttempts
    BY <1>2 DEF RetryAllowed
  <2>2. attempts' = [attempts EXCEPT ![t] = attempts[t] + 1]
    BY <1>2 DEF Decide
  <2>3. attempts' \in [Tasks -> 0 .. MaxAttempts]
    BY <2>1, <2>2
  <2>4. redispatched' \in [Tasks -> Nat]
    <3>1. redispatched' = [redispatched EXCEPT ![t] =
             IF closing[t] THEN redispatched[t] ELSE redispatched[t] + 1]
      BY <1>2 DEF Decide
    <3>2. t \in Tasks => (IF closing[t] THEN redispatched[t]
                          ELSE redispatched[t] + 1) \in Nat
      OBVIOUS
    <3>3. redispatched \in [Tasks -> Nat]
      OBVIOUS
    <3>4. QED
      BY ONLY <3>1, <3>2, <3>3, ExceptType
  <2>5. QED
    BY <1>1, <1>2, <2>3, <2>4 DEF Decide
<1>3. CASE ~RetryAllowed(attempts[t], retryable)
  <2>1. /\ attempts' \in [Tasks -> 0 .. MaxAttempts]
        /\ closing' \in [Tasks -> BOOLEAN]
    <3>1. /\ attempts' = [attempts EXCEPT ![t] = 0]
          /\ closing' = [closing EXCEPT ![t] = TRUE]
      BY <1>3 DEF Decide
    <3>2. /\ 0 \in 0 .. MaxAttempts /\ attempts \in [Tasks -> 0 .. MaxAttempts]
          /\ TRUE \in BOOLEAN /\ closing \in [Tasks -> BOOLEAN]
      OBVIOUS
    <3>3. QED
      BY ONLY <3>1, <3>2, ExceptType
  <2>2. /\ held' \in [Actors -> Tasks \cup {NoTask}]
        /\ afterFail' \in [Actors -> {"pump", "release", "ended", "idle"}]
    <3>1. /\ held' = [held EXCEPT ![a] = t]
          /\ afterFail' = [afterFail EXCEPT ![a] = "release"]
      BY <1>3 DEF Decide
    <3>2. QED
      BY <3>1
  <2>3. QED
    BY <1>1, <1>3, <2>1, <2>2 DEF Decide
<1>4. QED
  BY <1>2, <1>3

(* An error report, up to the decision about it, is well-typed. *)
LEMMA ErrorType ==
  ASSUME TypeOK, NEW t \in Tasks, NEW retryable \in BOOLEAN,
         ConsumeError(t, retryable)
  PROVE  TypeOK'
<1>1. outstanding' \in [Tasks -> Nat]
  BY ReportedType DEF ConsumeError
<1>2. Decide(Consumer, t, retryable)
  BY DEF ConsumeError
<1>3. /\ attempts' \in [Tasks -> 0 .. MaxAttempts]
      /\ pc' \in [Actors -> Locations]
      /\ job' \in [Actors -> Tasks \cup {NoTask}]
      /\ held' \in [Actors -> Tasks \cup {NoTask}]
      /\ afterFail' \in [Actors -> {"pump", "release", "ended", "idle"}]
      /\ afterPump' \in [Actors -> {"wait", "answer", "ended", "idle"}]
      /\ redispatched' \in [Tasks -> Nat]
      /\ closing' \in [Tasks -> BOOLEAN]
  BY <1>2, ActorsDistinct, DecideType
<1>4. QED
  BY <1>1, <1>3 DEF ConsumeError, TypeOK, store, dispatcher, channels

LEMMA TypeInit == Init => TypeOK
<1> SUFFICES ASSUME Init PROVE TypeOK
  OBVIOUS
<1>1. /\ pc \in [Actors -> Locations]
      /\ job \in [Actors -> Tasks \cup {NoTask}]
      /\ held \in [Actors -> Tasks \cup {NoTask}]
      /\ afterFail \in [Actors -> {"pump", "release", "ended", "idle"}]
      /\ afterPump \in [Actors -> {"wait", "answer", "ended", "idle"}]
  BY DEF Init, Locations, Runs
<1>2. QED
  BY <1>1, DispatchAssumption DEF Init, TypeOK, Answers, NoRun

-----------------------------------------------------------------------------
(* Type correctness: every action keeps each variable in its range.  The   *)
(* interesting parts are in_flight, which the capacity gate and the guard  *)
(* of on_turn_terminal keep between 0 and max_concurrent, and the retry    *)
(* counters, which RetryPolicy::decide keeps within the budget.            *)
LEMMA TypeNext == TypeOK /\ [Next]_vars => TypeOK'
<1> SUFFICES ASSUME TypeOK, [Next]_vars PROVE TypeOK'
  OBVIOUS
<1> USE DispatchAssumption, ActorsDistinct
    DEF TypeOK, store, dispatcher, memory, channels, control, history, GoTo,
        ReturnTo, Home, Answers, Locations, NoRun
<1>1. ASSUME NEW t \in Tasks, Request(t) PROVE TypeOK'
  <2>1. CASE StartTurn(t)
    BY <2>1 DEF StartTurn
  <2>2. CASE BlockRedo(t)
    BY <2>2, TerminalsType DEF BlockRedo
  <2>3. ASSUME NEW n \in 1 .. MaxRuns, RedoTurn(t, n) PROVE TypeOK'
    BY <2>3 DEF RedoTurn
  <2>4. QED
    BY <1>1, <2>1, <2>2, <2>3 DEF Request
<1>2. ASSUME NEW r \in Runs, RunStep(r) PROVE TypeOK'
  <2> r[1] \in Tasks /\ r[2] \in 1 .. MaxRuns
    BY DEF Runs
  <2>1. CASE Register(r)
    <3>1. registered' \in [Tasks -> NoRun .. MaxRuns]
      BY <2>1 DEF Register
    <3>2. answer' \in [Runs -> Answers]
      BY <2>1 DEF Register, ReplacedTold
    <3>3. pc' \in [Actors -> Locations]
      BY <2>1 DEF Register
    <3>4. QED
      BY <2>1, <3>1, <3>2, <3>3 DEF Register
  <2>2. CASE Enqueue(r)
    <3>1. queue' \in Seq(Tasks)
      BY <2>2 DEF Enqueue
    <3>2. pc' \in [Actors -> Locations]
      BY <2>2 DEF Enqueue
    <3>3. afterPump' \in [Actors -> {"wait", "answer", "ended", "idle"}]
      BY <2>2 DEF Enqueue
    <3>4. QED
      BY <2>2, <3>1, <3>2, <3>3 DEF Enqueue
  <2>3. CASE WaitAnswered(r)
    BY <2>3 DEF WaitAnswered
  <2>4. CASE WaitExhausted(r)
    BY <2>4 DEF WaitExhausted
  <2>5. QED
    BY <1>2, <2>1, <2>2, <2>3, <2>4 DEF RunStep
<1>3. ASSUME NEW a \in Actors, SharedStep(a) PROVE TypeOK'
  <2>1. CASE PopNext(a)
    <3>1. PICK i \in DOMAIN queue : /\ held' = [held EXCEPT ![a] = queue[i]]
                                    /\ timed' = timed \cup {queue[i]}
                                    /\ queue' = RemoveAt(queue, i)
      BY <2>1 DEF PopNext
    <3>2. queue[i] \in Tasks /\ queue' \in Seq(Tasks)
      BY <3>1, RemoveAtType
    <3>3. inFlight' \in 0 .. MaxConcurrent
      BY <2>1 DEF PopNext, HasCapacity
    <3>4. QED
      BY <2>1, <3>1, <3>2, <3>3 DEF PopNext
  <2>2. CASE PumpDone(a)
    BY <2>2 DEF PumpDone
  <2>3. CASE Publish(a)
    <3>1. outstanding' \in [Tasks -> Nat]
      BY <2>3, OneMoreType DEF Publish
    <3>2. held' \in [Actors -> Tasks \cup {NoTask}]
      BY <2>3 DEF Publish
    <3>3. QED
      BY <2>3, <3>1, <3>2 DEF Publish
  <2>4. CASE PublishFailed(a)
    BY <2>4, SlotReleasedType DEF PublishFailed
  <2>5. CASE FailClear(a)
    <3>1. attempts' \in [Tasks -> 0 .. MaxAttempts]
      <4>1. attempts' = [attempts EXCEPT ![held[a]] = 0]
        BY <2>5 DEF FailClear
      <4>2. 0 \in 0 .. MaxAttempts /\ attempts \in [Tasks -> 0 .. MaxAttempts]
        OBVIOUS
      <4>3. QED
        BY ONLY <4>1, <4>2, ExceptType
    <3>2. closing' \in [Tasks -> BOOLEAN]
      BY <2>5 DEF FailClear
    <3>3. pc' \in [Actors -> Locations]
      BY <2>5 DEF FailClear
    <3>4. QED
      BY <2>5, <3>1, <3>2, <3>3 DEF FailClear
  <2>6. CASE FailRecord(a)
    <3>1. terminals' \in [Tasks -> Seq({"completed", "failed"})]
      BY <2>6, TerminalsType DEF FailRecord
    <3>2. taskState' \in [Tasks -> {"Ready", "Executing", "Failed"}]
      BY <2>6 DEF FailRecord
    <3>3. pc' \in [Actors -> Locations]
      BY <2>6 DEF FailRecord
    <3>4. QED
      BY <2>6, <3>1, <3>2, <3>3 DEF FailRecord
  <2>7. CASE FailRespond(a)
    <3>1. /\ registered' \in [Tasks -> NoRun .. MaxRuns]
          /\ answer' \in [Runs -> Answers]
      BY <2>7, CompletePendingType DEF FailRespond
    <3>2. /\ pc' \in [Actors -> Locations]
          /\ job' \in [Actors -> Tasks \cup {NoTask}]
      BY <2>7 DEF FailRespond
    <3>3. /\ held' \in [Actors -> Tasks \cup {NoTask}]
          /\ afterFail' \in [Actors -> {"pump", "release", "ended", "idle"}]
      BY <2>7 DEF FailRespond
    <3>4. QED
      BY <2>7, <3>1, <3>2, <3>3 DEF FailRespond
  <2>8. CASE ReleaseSlot(a)
    BY <2>8, SlotReleasedType DEF ReleaseSlot, AfterRelease
  <2>9. CASE Redispatch(a)
    <3>1. outstanding' \in [Tasks -> Nat]
      BY <2>9, OneMoreType DEF Redispatch
    <3>2. /\ pc' \in [Actors -> Locations]
          /\ job' \in [Actors -> Tasks \cup {NoTask}]
      BY <2>9 DEF Redispatch
    <3>3. QED
      BY <2>9, <3>1, <3>2 DEF Redispatch
  <2>10. CASE RedispatchFailed(a)
    BY <2>10 DEF RedispatchFailed
  <2>11. QED
    BY <1>3, <2>1, <2>2, <2>3, <2>4, <2>5, <2>6, <2>7, <2>8, <2>9, <2>10
    DEF SharedStep
<1>4. CASE ConsumerStep
  <2>1. ASSUME NEW t \in Tasks, ConsumeDone(t) PROVE TypeOK'
    <3>1. terminals' \in [Tasks -> Seq({"completed", "failed"})]
      BY <2>1, TerminalsType DEF ConsumeDone, CompletionRecorded
    <3>2. outstanding' \in [Tasks -> Nat]
      BY <2>1, ReportedType DEF ConsumeDone
    <3>3. /\ attempts' \in [Tasks -> 0 .. MaxAttempts]
          /\ closing' \in [Tasks -> BOOLEAN]
      BY <2>1 DEF ConsumeDone
    <3>4. /\ pc' \in [Actors -> Locations]
          /\ job' \in [Actors -> Tasks \cup {NoTask}]
          /\ afterPump' \in [Actors -> {"wait", "answer", "ended", "idle"}]
      BY <2>1 DEF ConsumeDone
    <3>5. QED
      BY <2>1, <3>1, <3>2, <3>3, <3>4 DEF ConsumeDone
  <2>2. ASSUME NEW t \in Tasks, NEW retryable \in BOOLEAN,
               ConsumeError(t, retryable)
        PROVE TypeOK'
    BY ONLY TypeOK, <2>2, ErrorType
  <2>3. CASE AnswerDone
    <3>1. /\ registered' \in [Tasks -> NoRun .. MaxRuns]
          /\ answer' \in [Runs -> Answers]
      BY <2>3, CompletePendingType DEF AnswerDone
    <3>2. /\ pc' \in [Actors -> Locations]
          /\ job' \in [Actors -> Tasks \cup {NoTask}]
      BY <2>3 DEF AnswerDone
    <3>3. QED
      BY <2>3, <3>1, <3>2 DEF AnswerDone
  <2>4. QED
    BY <1>4, <2>1, <2>2, <2>3 DEF ConsumerStep
<1>5. CASE WatchdogStep
  <2>1. CASE WatchdogScan
    BY <2>1 DEF WatchdogScan
  <2>2. ASSUME NEW t \in Tasks, ReclaimStale(t) PROVE TypeOK'
    BY <2>2 DEF ReclaimStale
  <2>3. CASE DecideStale
    BY <2>3, DecideType DEF DecideStale
  <2>4. QED
    BY <1>5, <2>1, <2>2, <2>3 DEF WatchdogStep
<1>6. CASE UNCHANGED vars
  BY <1>6 DEF vars
<1>7. QED
  BY <1>1, <1>2, <1>3, <1>4, <1>5, <1>6 DEF Next

THEOREM TypeCorrect == Spec => []TypeOK
BY TypeInit, TypeNext, PTL DEF Spec

-----------------------------------------------------------------------------
(* No stranded turn.  The invariant is inductive with the types: an actor  *)
(* leaves dispatch_pending only by finding the queue empty or the gate     *)
(* closed, and whoever adds a turn or frees a slot is inside it.           *)

(* Steps of one actor do not change whether another one is pumping. *)
LEMMA OthersPump ==
  ASSUME TypeOK, NEW b \in Actors, NEW l, NEW m,
         pc' = [pc EXCEPT ![b] = l],
         afterFail' = [afterFail EXCEPT ![b] = m] \/ afterFail' = afterFail,
         NEW a \in Actors, a # b, Pumping(a)
  PROVE  Pumping(a)'
BY DEF TypeOK, Pumping

(* A step of an actor that is not pumping and that touches neither the     *)
(* queue nor the slots strands nothing.                                    *)
LEMMA IdleStep ==
  ASSUME TypeOK, NoStrandedTurn, NEW b \in Actors, NEW l, NEW m,
         pc' = [pc EXCEPT ![b] = l],
         afterFail' = [afterFail EXCEPT ![b] = m] \/ afterFail' = afterFail,
         ~Pumping(b), UNCHANGED dispatcher
  PROVE  NoStrandedTurn'
<1> SUFFICES ASSUME queue # <<>>, HasCapacity(inFlight)
             PROVE  \E a \in Actors : Pumping(a)'
  BY DEF NoStrandedTurn, dispatcher, HasCapacity
<1>1. PICK a \in Actors : Pumping(a)
  BY DEF NoStrandedTurn
<1>2. a # b
  BY <1>1
<1>3. QED
  BY <1>1, <1>2, OthersPump

(* A step after which its actor is pumping strands nothing either. *)
LEMMA PumpStep ==
  ASSUME NEW b \in Actors, Pumping(b)'
  PROVE  NoStrandedTurn'
BY DEF NoStrandedTurn

(* The steps of fail_task_with_reason keep an actor pumping or not. *)
LEMMA FailStep ==
  ASSUME TypeOK, NoStrandedTurn, NEW b \in Actors,
         pc[b] \in {"clear", "record"}, NEW l \in {"record", "respond"},
         pc' = [pc EXCEPT ![b] = l], UNCHANGED <<afterFail, dispatcher>>
  PROVE  NoStrandedTurn'
<1>1. CASE afterFail[b] = "pump"
  BY <1>1, PumpStep DEF Pumping, TypeOK
<1>2. CASE afterFail[b] # "pump"
  <2>1. ~Pumping(b)
    BY <1>2 DEF Pumping
  <2>2. QED
    BY <2>1, IdleStep
<1>3. QED
  BY <1>1, <1>2

(* Neither does a decision of the retry policy strand a turn. *)
LEMMA DecideStep ==
  ASSUME TypeOK, NoStrandedTurn, NEW b \in Actors, ~Pumping(b),
         NEW t, NEW retryable, Decide(b, t, retryable), UNCHANGED dispatcher
  PROVE  NoStrandedTurn'
<1>1. CASE RetryAllowed(attempts[t], retryable)
  BY <1>1, IdleStep DEF Decide, GoTo
<1>2. CASE ~RetryAllowed(attempts[t], retryable)
  BY <1>2, IdleStep DEF Decide, GoTo
<1>3. QED
  BY <1>1, <1>2

LEMMA NoStrandedNext == TypeOK /\ NoStrandedTurn /\ [Next]_vars => NoStrandedTurn'
<1> SUFFICES ASSUME TypeOK, NoStrandedTurn, [Next]_vars PROVE NoStrandedTurn'
  OBVIOUS
<1> USE ActorsDistinct
    DEF store, dispatcher, memory, channels, control, history, GoTo, ReturnTo
<1> DEFINE Early == {"absent", "register", "enqueue", "wait", "idle", "answer",
                     "decide", "redispatch", "release"}
<1>0. ASSUME NEW b \in Actors, pc[b] \in Early PROVE ~Pumping(b)
  BY <1>0 DEF Pumping
<1>1. ASSUME NEW t \in Tasks, Request(t) PROVE NoStrandedTurn'
  <2>0. <<t, 1>> \in Actors
    BY DispatchAssumption DEF Runs
  <2>1. CASE StartTurn(t)
    BY <2>0, <2>1, <1>0, IdleStep DEF StartTurn
  <2>2. CASE BlockRedo(t)
    BY <2>2 DEF BlockRedo, NoStrandedTurn, Pumping
  <2>3. ASSUME NEW n \in 1 .. MaxRuns, RedoTurn(t, n) PROVE NoStrandedTurn'
    <3>1. <<t, n>> \in Actors
      BY DEF Runs
    <3>2. QED
      BY <2>3, <3>1, <1>0, IdleStep DEF RedoTurn
  <2>4. QED
    BY <1>1, <2>1, <2>2, <2>3 DEF Request
<1>2. ASSUME NEW r \in Runs, RunStep(r) PROVE NoStrandedTurn'
  <2>1. CASE Register(r)
    BY <2>1, <1>0, IdleStep DEF Register
  <2>2. CASE Enqueue(r)
    BY <2>2, PumpStep DEF Enqueue, Pumping, TypeOK
  <2>3. CASE WaitAnswered(r)
    BY <2>3, <1>0, IdleStep DEF WaitAnswered
  <2>4. CASE WaitExhausted(r)
    BY <2>4, <1>0, IdleStep DEF WaitExhausted
  <2>5. QED
    BY <1>2, <2>1, <2>2, <2>3, <2>4 DEF RunStep
<1>3. ASSUME NEW a \in Actors, SharedStep(a) PROVE NoStrandedTurn'
  <2>1. CASE PopNext(a)
    BY <2>1, PumpStep DEF PopNext, Pumping, TypeOK
  <2>2. CASE PumpDone(a)
    BY <2>2 DEF PumpDone, NoStrandedTurn
  <2>3. CASE Publish(a)
    BY <2>3, PumpStep DEF Publish, Pumping, TypeOK
  <2>4. CASE PublishFailed(a)
    BY <2>4, PumpStep DEF PublishFailed, Pumping, TypeOK
  <2>5. CASE FailClear(a)
    BY <2>5, FailStep DEF FailClear
  <2>6. CASE FailRecord(a)
    BY <2>6, FailStep DEF FailRecord
  <2>7. CASE FailRespond(a)
    <3>1. CASE afterFail[a] = "pump"
      BY <2>7, <3>1, PumpStep DEF FailRespond, Pumping, TypeOK
    <3>2. CASE afterFail[a] # "pump"
      BY <2>7, <3>2, IdleStep DEF FailRespond, Pumping
    <3>3. QED
      BY <3>1, <3>2
  <2>8. CASE ReleaseSlot(a)
    BY <2>8, PumpStep DEF ReleaseSlot, AfterRelease, Pumping, TypeOK
  <2>9. CASE Redispatch(a)
    BY <2>9, <1>0, IdleStep DEF Redispatch
  <2>10. CASE RedispatchFailed(a)
    BY <2>10, <1>0, IdleStep DEF RedispatchFailed
  <2>11. QED
    BY <1>3, <2>1, <2>2, <2>3, <2>4, <2>5, <2>6, <2>7, <2>8, <2>9, <2>10
    DEF SharedStep
<1>4. CASE ConsumerStep
  <2>1. ASSUME NEW t \in Tasks, ConsumeDone(t) PROVE NoStrandedTurn'
    BY <2>1, <1>0, IdleStep DEF ConsumeDone
  <2>2. ASSUME NEW t \in Tasks, NEW retryable \in BOOLEAN,
               ConsumeError(t, retryable)
        PROVE NoStrandedTurn'
    BY <2>2, <1>0, DecideStep DEF ConsumeError
  <2>3. CASE AnswerDone
    BY <2>3, <1>0, IdleStep DEF AnswerDone
  <2>4. QED
    BY <1>4, <2>1, <2>2, <2>3 DEF ConsumerStep
<1>5. CASE WatchdogStep
  <2>1. CASE WatchdogScan
    BY <2>1 DEF WatchdogScan, NoStrandedTurn, Pumping
  <2>2. ASSUME NEW t \in Tasks, ReclaimStale(t) PROVE NoStrandedTurn'
    BY <2>2, <1>0, IdleStep DEF ReclaimStale
  <2>3. CASE DecideStale
    BY <2>3, <1>0, DecideStep DEF DecideStale
  <2>4. QED
    BY <1>5, <2>1, <2>2, <2>3 DEF WatchdogStep
<1>6. CASE UNCHANGED vars
  BY <1>6 DEF vars, NoStrandedTurn, Pumping
<1>7. QED
  BY <1>1, <1>2, <1>3, <1>4, <1>5, <1>6 DEF Next

(* A free slot and a waiting turn never meet unattended. *)
THEOREM NothingStranded == Spec => []NoStrandedTurn
<1>1. Init => NoStrandedTurn
  BY DEF Init, NoStrandedTurn
<1>2. QED
  BY <1>1, NoStrandedNext, TypeCorrect, PTL DEF Spec

-----------------------------------------------------------------------------
(* One sender.  The invariant becomes inductive with what it says nothing  *)
(* of: a run that did not register yet has not been answered and is not    *)
(* the one its task's turn will answer.                                    *)

EarlyRun(r) == pc[r] \in {"absent", "register"}

EarlyUnknown ==
  \A t \in Tasks, n \in 1 .. MaxRuns :
     EarlyRun(<<t, n>>) => answer[<<t, n>>] = "none" /\ registered[t] # n

SenderInv == OneSender /\ EarlyUnknown

(* Where a run is matters only as far as it has registered or not. *)
LEMMA SenderFrame ==
  ASSUME SenderInv, UNCHANGED channels,
         \A r \in Runs : EarlyRun(r)' <=> EarlyRun(r)
  PROVE  SenderInv'
BY DEF SenderInv, OneSender, EarlyUnknown, EarlyRun, channels, Runs

(* So a step of one actor that leaves the channels alone and neither       *)
(* starts nor ends at the registration keeps the invariant.                *)
LEMMA SenderStep ==
  ASSUME TypeOK, SenderInv, NEW b \in Actors, NEW l,
         pc' = [pc EXCEPT ![b] = l],
         (pc[b] \in {"absent", "register"}) <=> (l \in {"absent", "register"}),
         UNCHANGED channels
  PROVE  SenderInv'
<1>1. \A r \in Runs : EarlyRun(r)' <=> EarlyRun(r)
  BY ActorsDistinct DEF TypeOK, EarlyRun
<1>2. QED
  BY <1>1, SenderFrame

(* complete_pending_turn answers the registered run and forgets it. *)
LEMMA SenderAnswer ==
  ASSUME TypeOK, SenderInv, NEW b \in Actors, NEW l, NEW t,
         t \in Tasks \cup {NoTask}, NEW outcome \in Answers \ {"none"},
         pc' = [pc EXCEPT ![b] = l],
         pc[b] \notin {"absent", "register"}, l \notin {"absent", "register"},
         CompletePending(t, outcome)
  PROVE  SenderInv'
<1>1. CASE registered[t] = NoRun
  BY <1>1, SenderStep DEF CompletePending
<1>2. CASE registered[t] # NoRun /\ t \in Tasks
  <2>1. \A r \in Runs : EarlyRun(r)' <=> EarlyRun(r)
    BY ActorsDistinct DEF TypeOK, EarlyRun
  <2>2. registered' = [registered EXCEPT ![t] = NoRun]
    BY <1>2 DEF CompletePending
  <2>3. answer' = [answer EXCEPT ![<<t, registered[t]>>] = outcome]
    BY <1>2 DEF CompletePending
  <2>4. registered[t] \in 1 .. MaxRuns /\ ~EarlyRun(<<t, registered[t]>>)
    BY <1>2, DispatchAssumption DEF TypeOK, NoRun, SenderInv, EarlyUnknown
  <2>5. ASSUME NEW u \in Tasks, NEW n \in 1 .. MaxRuns
        PROVE  answer'[<<u, n>>] =
                 IF u = t /\ n = registered[t] THEN outcome ELSE answer[<<u, n>>]
    <3>1. <<u, n>> \in Runs /\ answer \in [Runs -> Answers]
      BY DEF Runs, TypeOK
    <3>2. <<u, n>> = <<t, registered[t]>> <=> u = t /\ n = registered[t]
      OBVIOUS
    <3>3. QED
      BY ONLY <2>3, <3>1, <3>2
  <2>6. ASSUME NEW u \in Tasks
        PROVE  registered'[u] = IF u = t THEN NoRun ELSE registered[u]
    BY <2>2 DEF TypeOK
  <2>7. ASSUME NEW u \in Tasks, NEW n \in 1 .. MaxRuns
        PROVE  /\ EarlyRun(<<u, n>>)' =>
                    answer'[<<u, n>>] = "none" /\ registered'[u] # n
               /\ ~EarlyRun(<<u, n>>)' =>
                    (answer'[<<u, n>>] = "none" <=> registered'[u] = n)
    <3>1. <<u, n>> \in Runs /\ n # NoRun
      BY DEF Runs, NoRun
    <3>2. /\ EarlyRun(<<u, n>>) => answer[<<u, n>>] = "none" /\ registered[u] # n
          /\ ~EarlyRun(<<u, n>>) => (answer[<<u, n>>] = "none" <=> registered[u] = n)
      BY DEF SenderInv, OneSender, EarlyUnknown, EarlyRun
    <3>3. CASE u = t /\ n = registered[t]
      BY <2>1, <2>4, <2>5, <2>6, <3>1, <3>3
    <3>4. CASE u = t /\ n # registered[t]
      BY <2>1, <2>5, <2>6, <3>1, <3>2, <3>4
    <3>5. CASE u # t
      BY <2>1, <2>5, <2>6, <3>1, <3>2, <3>5
    <3>6. QED
      BY <3>3, <3>4, <3>5
  <2>8. QED
    BY <2>7 DEF SenderInv, OneSender, EarlyUnknown, EarlyRun
<1>3. CASE registered[t] # NoRun /\ t \notin Tasks
  <2>1. <<t, registered[t]>> \notin Runs
    BY <1>3 DEF Runs
  <2>2. /\ registered' = [registered EXCEPT ![t] = NoRun]
        /\ answer' = [answer EXCEPT ![<<t, registered[t]>>] = outcome]
    BY <1>3 DEF CompletePending
  <2>3. registered' = registered /\ answer' = answer
    BY <1>3, <2>1, <2>2 DEF TypeOK
  <2>4. QED
    BY <2>3, SenderStep DEF channels
<1>4. QED
  BY <1>1, <1>2, <1>3

(* register_pending_turn: the new run takes the place of the one before,   *)
(* which is told so.                                                       *)
LEMMA SenderRegister ==
  ASSUME TypeOK, SenderInv, NEW r \in Runs, Register(r)
  PROVE  SenderInv'
<1>1. PICK t \in Tasks, n \in 1 .. MaxRuns : r = <<t, n>>
  BY DEF Runs
<1>2. /\ ~EarlyRun(r)'
      /\ \A s \in Runs : s # r => (EarlyRun(s)' <=> EarlyRun(s))
  BY ActorsDistinct DEF Register, GoTo, EarlyRun, TypeOK
<1>3. EarlyRun(r) /\ answer[r] = "none" /\ registered[t] # n
  BY <1>1 DEF Register, EarlyRun, SenderInv, EarlyUnknown
<1>4. ASSUME NEW u \in Tasks
      PROVE  registered'[u] = IF u = t THEN n ELSE registered[u]
  BY <1>1 DEF Register, TypeOK
<1>5. ASSUME NEW u \in Tasks, NEW m \in 1 .. MaxRuns
      PROVE  answer'[<<u, m>>] = IF u = t /\ m = registered[t] THEN "replaced"
                                ELSE answer[<<u, m>>]
  <2>1. <<u, m>> \in Runs /\ m # NoRun /\ t = r[1]
    BY <1>1 DEF Runs, NoRun
  <2>2. CASE registered[t] = NoRun
    BY <2>1, <2>2 DEF Register, ReplacedTold
  <2>3. CASE registered[t] # NoRun
    <3>1. answer' = [answer EXCEPT ![<<t, registered[t]>>] = "replaced"]
      BY <2>1, <2>3 DEF Register, ReplacedTold
    <3>2. QED
      BY <2>1, <3>1 DEF TypeOK
  <2>4. QED
    BY <2>2, <2>3
<1>6. ASSUME NEW u \in Tasks, NEW m \in 1 .. MaxRuns
      PROVE  /\ EarlyRun(<<u, m>>)' =>
                  answer'[<<u, m>>] = "none" /\ registered'[u] # m
             /\ ~EarlyRun(<<u, m>>)' =>
                  (answer'[<<u, m>>] = "none" <=> registered'[u] = m)
  <2>1. <<u, m>> \in Runs
    BY DEF Runs
  <2>2. /\ EarlyRun(<<u, m>>) => answer[<<u, m>>] = "none" /\ registered[u] # m
        /\ ~EarlyRun(<<u, m>>) => (answer[<<u, m>>] = "none" <=> registered[u] = m)
    BY DEF SenderInv, OneSender, EarlyUnknown, EarlyRun
  <2>3. CASE u = t /\ m = n
    BY <1>1, <1>2, <1>3, <1>4, <1>5, <2>3
  <2>4. CASE ~(u = t /\ m = n)
    <3>1. EarlyRun(<<u, m>>)' <=> EarlyRun(<<u, m>>)
      BY <1>1, <1>2, <2>1, <2>4
    <3>2. QED
      BY <1>4, <1>5, <2>2, <2>4, <3>1
  <2>5. QED
    BY <2>3, <2>4
<1>7. QED
  BY <1>6 DEF SenderInv, OneSender, EarlyUnknown, EarlyRun

LEMMA SenderNext == TypeOK /\ SenderInv /\ [Next]_vars => SenderInv'
<1> SUFFICES ASSUME TypeOK, SenderInv, [Next]_vars PROVE SenderInv'
  OBVIOUS
<1> USE ActorsDistinct DEF GoTo, ReturnTo
<1>1. ASSUME NEW t \in Tasks, Request(t) PROVE SenderInv'
  <2>1. CASE StartTurn(t)
    <3>1. <<t, 1>> \in Actors
      BY DispatchAssumption DEF Runs
    <3>2. QED
      BY <2>1, <3>1, SenderStep DEF StartTurn
  <2>2. CASE BlockRedo(t)
    BY <2>2, SenderFrame DEF BlockRedo, EarlyRun, control
  <2>3. ASSUME NEW n \in 1 .. MaxRuns, RedoTurn(t, n) PROVE SenderInv'
    <3>1. <<t, n>> \in Actors
      BY DEF Runs
    <3>2. QED
      BY <2>3, <3>1, SenderStep DEF RedoTurn
  <2>4. QED
    BY <1>1, <2>1, <2>2, <2>3 DEF Request
<1>2. ASSUME NEW r \in Runs, RunStep(r) PROVE SenderInv'
  <2>1. CASE Register(r)
    BY <2>1, SenderRegister
  <2>2. CASE Enqueue(r)
    BY <2>2, SenderStep DEF Enqueue
  <2>3. CASE WaitAnswered(r)
    BY <2>3, SenderStep DEF WaitAnswered
  <2>4. CASE WaitExhausted(r)
    BY <2>4, SenderStep DEF WaitExhausted
  <2>5. QED
    BY <1>2, <2>1, <2>2, <2>3, <2>4 DEF RunStep
<1>3. ASSUME NEW a \in Actors, SharedStep(a) PROVE SenderInv'
  <2>1. CASE PopNext(a)
    BY <2>1, SenderStep DEF PopNext
  <2>2. CASE PumpDone(a)
    BY <2>2, SenderStep DEF PumpDone, TypeOK
  <2>3. CASE Publish(a)
    BY <2>3, SenderStep DEF Publish
  <2>4. CASE PublishFailed(a)
    BY <2>4, SenderStep DEF PublishFailed
  <2>5. CASE FailClear(a)
    BY <2>5, SenderStep DEF FailClear
  <2>6. CASE FailRecord(a)
    BY <2>6, SenderStep DEF FailRecord
  <2>7. CASE FailRespond(a)
    BY <2>7, SenderAnswer DEF FailRespond, TypeOK, Answers
  <2>8. CASE ReleaseSlot(a)
    BY <2>8, SenderStep DEF ReleaseSlot, AfterRelease
  <2>9. CASE Redispatch(a)
    BY <2>9, SenderStep DEF Redispatch, Home
  <2>10. CASE RedispatchFailed(a)
    BY <2>10, SenderStep DEF RedispatchFailed
  <2>11. QED
    BY <1>3, <2>1, <2>2, <2>3, <2>4, <2>5, <2>6, <2>7, <2>8, <2>9, <2>10
    DEF SharedStep
<1>4. CASE ConsumerStep
  <2>1. ASSUME NEW t \in Tasks, ConsumeDone(t) PROVE SenderInv'
    BY <2>1, SenderStep DEF ConsumeDone
  <2>2. ASSUME NEW t \in Tasks, NEW retryable \in BOOLEAN,
               ConsumeError(t, retryable)
        PROVE SenderInv'
    BY <2>2, SenderStep DEF ConsumeError, Decide
  <2>3. CASE AnswerDone
    BY <2>3, SenderAnswer DEF AnswerDone, TypeOK, Answers
  <2>4. QED
    BY <1>4, <2>1, <2>2, <2>3 DEF ConsumerStep
<1>5. CASE WatchdogStep
  <2>1. CASE WatchdogScan
    BY <2>1, SenderFrame DEF WatchdogScan, EarlyRun
  <2>2. ASSUME NEW t \in Tasks, ReclaimStale(t) PROVE SenderInv'
    BY <2>2, SenderStep DEF ReclaimStale
  <2>3. CASE DecideStale
    BY <2>3, SenderStep DEF DecideStale, Decide
  <2>4. QED
    BY <1>5, <2>1, <2>2, <2>3 DEF WatchdogStep
<1>6. CASE UNCHANGED vars
  BY <1>6, SenderFrame DEF vars, control, EarlyRun
<1>7. QED
  BY <1>1, <1>2, <1>3, <1>4, <1>5, <1>6 DEF Next

(* Every run that registered is either the one its task's turn answers or  *)
(* has been answered: register_pending_turn and complete_pending_turn      *)
(* never orphan a waiting run and never answer one twice.                  *)
THEOREM EachRunHasItsSender == Spec => []OneSender
<1>1. Init => SenderInv
  BY DispatchAssumption
  DEF Init, SenderInv, OneSender, EarlyUnknown, EarlyRun, Runs, Actors, NoRun
<1>2. SenderInv => OneSender
  BY DEF SenderInv
<1>3. QED
  BY <1>1, <1>2, SenderNext, TypeCorrect, PTL DEF Spec

-----------------------------------------------------------------------------
(* The retry budget.  Until a turn is being closed its retry counter is    *)
(* the number of its re-dispatches; the paths that reset the counter all   *)
(* close the turn first or in the same step.                               *)
BudgetInv ==
  \A t \in Tasks : /\ redispatched[t] <= MaxAttempts
                   /\ ~closing[t] => redispatched[t] = attempts[t]

(* A step that counts no re-dispatch and touches the counter only of turns *)
(* it closes.                                                              *)
LEMMA BudgetKept ==
  ASSUME TypeOK, BudgetInv, redispatched' = redispatched,
         \A u \in Tasks : closing'[u] \/ (closing'[u] = closing[u]
                                         /\ attempts'[u] = attempts[u])
  PROVE  BudgetInv'
BY DEF BudgetInv, TypeOK

(* RetryPolicy::decide, whichever handler asks it. *)
LEMMA BudgetDecide ==
  ASSUME TypeOK, BudgetInv, NEW a, NEW t, NEW retryable \in BOOLEAN,
         Decide(a, t, retryable)
  PROVE  BudgetInv'
<1>1. CASE RetryAllowed(attempts[t], retryable)
  <2>1. /\ attempts' = [attempts EXCEPT ![t] = @ + 1]
        /\ redispatched' = [redispatched EXCEPT ![t] = IF closing[t] THEN @ ELSE @ + 1]
        /\ closing' = closing
    BY <1>1 DEF Decide
  <2>2. attempts[t] < MaxAttempts
    BY <1>1 DEF RetryAllowed
  <2>3. SUFFICES ASSUME NEW u \in Tasks
                 PROVE  /\ redispatched'[u] <= MaxAttempts
                        /\ ~closing'[u] => redispatched'[u] = attempts'[u]
    BY DEF BudgetInv
  <2>4. CASE u = t
    BY <2>1, <2>2, <2>4, DispatchAssumption DEF BudgetInv, TypeOK
  <2>5. CASE u # t
    BY <2>1, <2>5 DEF BudgetInv, TypeOK
  <2>6. QED
    BY <2>4, <2>5
<1>2. CASE ~RetryAllowed(attempts[t], retryable)
  BY <1>2, BudgetKept DEF Decide, TypeOK
<1>3. QED
  BY <1>1, <1>2

(* No step takes a turn past its budget before the turn is being closed. *)
LEMMA BudgetNext == TypeOK /\ BudgetInv /\ [Next]_vars => BudgetInv'
<1> SUFFICES ASSUME TypeOK, BudgetInv, [Next]_vars PROVE BudgetInv'
  OBVIOUS
<1> USE DEF memory, history
<1>1. ASSUME NEW t \in Tasks, Request(t) PROVE BudgetInv'
  <2>1. CASE StartTurn(t)
    BY <2>1, BudgetKept DEF StartTurn
  <2>2. CASE BlockRedo(t)
    BY <2>2, BudgetKept DEF BlockRedo, TypeOK
  <2>3. ASSUME NEW n \in 1 .. MaxRuns, RedoTurn(t, n) PROVE BudgetInv'
    BY <2>3, BudgetKept DEF RedoTurn
  <2>4. QED
    BY <1>1, <2>1, <2>2, <2>3 DEF Request
<1>2. ASSUME NEW r \in Runs, RunStep(r) PROVE BudgetInv'
  BY <1>2, BudgetKept
  DEF RunStep, Register, Enqueue, WaitAnswered, WaitExhausted
<1>3. ASSUME NEW a \in Actors, SharedStep(a) PROVE BudgetInv'
  <2>1. CASE PopNext(a)
    BY <2>1, BudgetKept DEF PopNext
  <2>2. CASE FailClear(a)
    BY <2>2, BudgetKept DEF FailClear, TypeOK
  <2>3. CASE PumpDone(a) \/ Publish(a) \/ PublishFailed(a)
    BY <2>3, BudgetKept DEF PumpDone, Publish, PublishFailed
  <2>4. CASE FailRecord(a) \/ FailRespond(a) \/ ReleaseSlot(a)
    BY <2>4, BudgetKept DEF FailRecord, FailRespond, ReleaseSlot
  <2>5. CASE Redispatch(a) \/ RedispatchFailed(a)
    BY <2>5, BudgetKept DEF Redispatch, RedispatchFailed
  <2>6. QED
    BY <1>3, <2>1, <2>2, <2>3, <2>4, <2>5 DEF SharedStep
<1>4. CASE ConsumerStep
  <2>1. ASSUME NEW t \in Tasks, ConsumeDone(t) PROVE BudgetInv'
    BY <2>1, BudgetKept DEF ConsumeDone, TypeOK
  <2>2. ASSUME NEW t \in Tasks, NEW retryable \in BOOLEAN,
               ConsumeError(t, retryable)
        PROVE BudgetInv'
    BY <2>2, BudgetDecide DEF ConsumeError
  <2>3. CASE AnswerDone
    BY <2>3, BudgetKept DEF AnswerDone
  <2>4. QED
    BY <1>4, <2>1, <2>2, <2>3 DEF ConsumerStep
<1>5. CASE WatchdogStep
  <2>1. CASE WatchdogScan
    BY <2>1, BudgetKept DEF WatchdogScan
  <2>2. ASSUME NEW t \in Tasks, ReclaimStale(t) PROVE BudgetInv'
    BY <2>2, BudgetKept DEF ReclaimStale
  <2>3. CASE DecideStale
    BY <2>3, BudgetDecide DEF DecideStale
  <2>4. QED
    BY <1>5, <2>1, <2>2, <2>3 DEF WatchdogStep
<1>6. CASE UNCHANGED vars
  BY <1>6, BudgetKept DEF vars
<1>7. QED
  BY <1>1, <1>2, <1>3, <1>4, <1>5, <1>6 DEF Next

(* Consumer and watchdog together dispatch a turn again at most            *)
(* max_attempts times before some path starts to close it                  *)
(* (handle_turn_execution_error, reclaim_stale_turns).                     *)
THEOREM RetriesWithinBudget == Spec => []RetryBudget
<1>1. Init => BudgetInv
  BY DispatchAssumption DEF Init, BudgetInv
<1>2. BudgetInv => RetryBudget
  BY DEF BudgetInv, RetryBudget
<1>3. QED
  BY <1>1, <1>2, BudgetNext, TypeCorrect, PTL DEF Spec

-----------------------------------------------------------------------------
(* A caller that is told "completed".  The consumer answers by task after  *)
(* release_slot_and_redispatch, in which it may fail other turns; what     *)
(* carries the record of the completion through is that it comes back to   *)
(* the pump from each failure and still works for the same task.           *)
Recorded(t) == \E i \in DOMAIN terminals[t] : terminals[t][i] = "completed"

OnRecord == job[Consumer] \in Tasks /\ Recorded(job[Consumer])

AnswerInv ==
  /\ CompletedIsRecorded
  /\ pc[Consumer] = "answer" => OnRecord
  /\ afterPump[Consumer] = "answer" =>
       /\ pc[Consumer] \in {"release", "pump", "publish", "clear", "record", "respond"}
       /\ pc[Consumer] \in {"clear", "record", "respond"} => afterFail[Consumer] = "pump"
       /\ OnRecord

(* What is on record stays there: terminal events are only added. *)
LEMMA RecordGrows ==
  ASSUME TypeOK, NEW t, NEW e \in {"completed", "failed"},
         terminals' = [terminals EXCEPT ![t] = Append(@, e)],
         NEW u \in Tasks, Recorded(u)
  PROVE  Recorded(u)'
<1>1. terminals[u] \in Seq({"completed", "failed"})
  BY DEF TypeOK
<1>2. PICK i \in DOMAIN terminals[u] : terminals[u][i] = "completed"
  BY DEF Recorded
<1>3. CASE u = t
  <2>1. terminals'[u] = Append(terminals[u], e)
    BY <1>3 DEF TypeOK
  <2>2. i \in DOMAIN terminals'[u] /\ terminals'[u][i] = terminals[u][i]
    BY <1>1, <1>2, <2>1
  <2>3. QED
    BY <1>2, <2>2 DEF Recorded
<1>4. CASE u # t
  BY <1>2, <1>4 DEF TypeOK, Recorded
<1>5. QED
  BY <1>3, <1>4

(* A step that gives nobody the answer "completed" and leaves the consumer *)
(* where it is.                                                            *)
LEMMA AnswerFrame ==
  ASSUME TypeOK, AnswerInv,
         \A r \in Runs : answer'[r] = "completed" => answer[r] = "completed",
         \A u \in Tasks : Recorded(u) => Recorded(u)',
         pc'[Consumer] = pc[Consumer], job'[Consumer] = job[Consumer],
         afterPump'[Consumer] = afterPump[Consumer],
         afterFail'[Consumer] = afterFail[Consumer]
  PROVE  AnswerInv'
<1>1. CompletedIsRecorded'
  BY DEF AnswerInv, CompletedIsRecorded, Recorded, Runs
<1>2. OnRecord => OnRecord'
  BY DEF OnRecord, Recorded
<1>3. QED
  BY <1>1, <1>2 DEF AnswerInv

(* complete_pending_turn with the outcome of a failure. *)
LEMMA FailedAnswer ==
  ASSUME TypeOK, NEW t, CompletePending(t, "failed"), NEW r \in Runs,
         answer'[r] = "completed"
  PROVE  answer[r] = "completed"
BY DEF CompletePending, TypeOK, channels

(* A step of the consumer that gives nobody the answer "completed" and     *)
(* arrives with the invariant.                                             *)
LEMMA AnswerStep ==
  ASSUME TypeOK, AnswerInv,
         \A r \in Runs : answer'[r] = "completed" => answer[r] = "completed",
         \A u \in Tasks : Recorded(u) => Recorded(u)',
         pc'[Consumer] = "answer" => OnRecord',
         afterPump'[Consumer] = "answer" =>
           /\ pc'[Consumer] \in {"release", "pump", "publish", "clear", "record", "respond"}
           /\ pc'[Consumer] \in {"clear", "record", "respond"} => afterFail'[Consumer] = "pump"
           /\ OnRecord'
  PROVE  AnswerInv'
<1>1. CompletedIsRecorded'
  BY DEF AnswerInv, CompletedIsRecorded, Recorded, Runs
<1>2. QED
  BY <1>1 DEF AnswerInv

(* The steps any actor may be at: only a failure answers somebody. *)
LEMMA AnswerShared ==
  ASSUME TypeOK, AnswerInv, NEW a \in Actors, SharedStep(a)
  PROVE  AnswerInv'
<1> USE ActorsDistinct
    DEF store, dispatcher, memory, channels, control, history, GoTo, ReturnTo
<1>1. \A r \in Runs : answer'[r] = "completed" => answer[r] = "completed"
  <2>1. CASE FailRespond(a)
    BY <2>1, FailedAnswer DEF FailRespond
  <2>2. CASE ~FailRespond(a)
    BY <2>2 DEF SharedStep, PopNext, PumpDone, Publish, PublishFailed, FailClear,
               FailRecord, ReleaseSlot, Redispatch, RedispatchFailed
  <2>3. QED
    BY <2>1, <2>2
<1>2. \A u \in Tasks : Recorded(u) => Recorded(u)'
  <2>1. CASE FailRecord(a)
    BY <2>1, RecordGrows DEF FailRecord
  <2>2. CASE ~FailRecord(a)
    BY <2>2 DEF SharedStep, PopNext, PumpDone, Publish, PublishFailed, FailClear,
               FailRespond, ReleaseSlot, Redispatch, RedispatchFailed, Recorded
  <2>3. QED
    BY <2>1, <2>2
<1>3. CASE a # Consumer
  <2>1. /\ pc'[Consumer] = pc[Consumer]
        /\ job'[Consumer] = job[Consumer]
        /\ afterPump'[Consumer] = afterPump[Consumer]
        /\ afterFail'[Consumer] = afterFail[Consumer]
    BY <1>3 DEF TypeOK, SharedStep, PopNext, PumpDone, Publish, PublishFailed,
                FailClear, FailRecord, FailRespond, ReleaseSlot, Redispatch,
                RedispatchFailed
  <2>2. QED
    BY <1>1, <1>2, <2>1, AnswerFrame
<1>4. CASE a = Consumer
  <2>0. job'[Consumer] = job[Consumer] /\ OnRecord => OnRecord'
    BY <1>2 DEF OnRecord, Recorded
  <2>1. CASE PopNext(a) \/ Publish(a) \/ FailClear(a) \/ FailRecord(a)
             \/ ReleaseSlot(a) \/ PublishFailed(a)
    <3>1. /\ job' = job /\ afterPump' = afterPump
          /\ pc'[Consumer] \in {"pump", "publish", "clear", "record", "respond"}
      BY <1>4, <2>1 DEF TypeOK, PopNext, Publish, FailClear, FailRecord,
                        ReleaseSlot, PublishFailed, AfterRelease
    <3>2. afterPump[Consumer] = "answer"
            /\ pc'[Consumer] \in {"clear", "record", "respond"}
          => afterFail'[Consumer] = "pump"
      BY <1>4, <2>1 DEF AnswerInv, TypeOK, PopNext, Publish, FailClear,
                        FailRecord, ReleaseSlot, PublishFailed, AfterRelease
    <3>3. QED
      BY <1>1, <1>2, <2>0, <3>1, <3>2, AnswerStep DEF AnswerInv
  <2>2. CASE PumpDone(a)
    <3>1. /\ pc'[Consumer] = afterPump[Consumer]
          /\ afterPump'[Consumer] = "ended"
          /\ afterPump[Consumer] = "answer" => job'[Consumer] = job[Consumer]
      BY <1>4, <2>2 DEF PumpDone, TypeOK
    <3>2. QED
      BY <1>1, <1>2, <2>0, <3>1, AnswerStep DEF AnswerInv
  <2>3. CASE FailRespond(a)
    <3>1. /\ pc[Consumer] = "respond" /\ pc'[Consumer] = afterFail[Consumer]
          /\ afterPump' = afterPump
          /\ afterFail[Consumer] # "idle" => job'[Consumer] = job[Consumer]
          /\ pc'[Consumer] # "answer"
      BY <1>4, <2>3 DEF FailRespond, TypeOK
    <3>2. QED
      BY <1>1, <1>2, <2>0, <3>1, AnswerStep DEF AnswerInv
  <2>4. CASE Redispatch(a) \/ RedispatchFailed(a)
    <3>1. /\ pc[Consumer] = "redispatch" /\ pc'[Consumer] # "answer"
          /\ afterPump' = afterPump
      BY <1>4, <2>4 DEF Redispatch, RedispatchFailed, Home, TypeOK
    <3>2. QED
      BY <1>1, <1>2, <3>1, AnswerStep DEF AnswerInv
  <2>5. QED
    BY <2>1, <2>2, <2>3, <2>4 DEF SharedStep
<1>5. QED
  BY <1>3, <1>4

(* The consumer answers "completed" for the task whose record it wrote. *)
LEMMA AnswerConsumer ==
  ASSUME TypeOK, AnswerInv, ConsumerStep
  PROVE  AnswerInv'
<1> USE ActorsDistinct
    DEF store, dispatcher, memory, channels, control, history, GoTo, ReturnTo
<1>1. ASSUME NEW t \in Tasks, ConsumeDone(t) PROVE AnswerInv'
  <2>1. terminals' = [terminals EXCEPT ![t] = Append(@, "completed")]
    BY <1>1 DEF ConsumeDone, CompletionRecorded
  <2>2. \A u \in Tasks : Recorded(u) => Recorded(u)'
    BY <2>1, RecordGrows
  <2>3. Recorded(t)'
    <3>1. terminals[t] \in Seq({"completed", "failed"})
      BY DEF TypeOK
    <3>2. terminals'[t] = Append(terminals[t], "completed")
      BY <2>1 DEF TypeOK
    <3>3. /\ Len(terminals[t]) + 1 \in DOMAIN terminals'[t]
          /\ terminals'[t][Len(terminals[t]) + 1] = "completed"
      BY <3>1, <3>2
    <3>4. QED
      BY <3>3 DEF Recorded
  <2>4. /\ answer' = answer /\ pc'[Consumer] = "release"
        /\ job'[Consumer] = t
    BY <1>1 DEF ConsumeDone, TypeOK
  <2>5. OnRecord'
    BY <2>3, <2>4 DEF OnRecord, Recorded
  <2>6. QED
    BY <2>2, <2>4, <2>5, AnswerStep
<1>2. ASSUME NEW t \in Tasks, NEW retryable \in BOOLEAN,
             ConsumeError(t, retryable)
      PROVE AnswerInv'
  <2>1. /\ answer' = answer /\ terminals' = terminals
        /\ pc[Consumer] = "idle" /\ pc'[Consumer] # "answer"
        /\ afterPump'[Consumer] # "answer"
    BY <1>2 DEF ConsumeError, Decide, AnswerInv, Home, TypeOK
  <2>2. QED
    BY <2>1, AnswerStep DEF Recorded
<1>3. CASE AnswerDone
  <2>1. /\ pc[Consumer] = "answer" /\ pc'[Consumer] = "idle"
        /\ afterPump' = afterPump /\ terminals' = terminals
        /\ CompletePending(job[Consumer], "completed")
    BY <1>3 DEF AnswerDone, TypeOK
  <2>2. OnRecord
    BY <2>1 DEF AnswerInv
  <2>3. CompletedIsRecorded'
    <3>1. SUFFICES ASSUME NEW u \in Tasks, NEW n \in 1 .. MaxRuns,
                          answer'[<<u, n>>] = "completed"
                   PROVE  Recorded(u)
      BY <2>1 DEF CompletedIsRecorded, Recorded
    <3>2. CASE answer[<<u, n>>] = "completed"
      BY <3>2 DEF AnswerInv, CompletedIsRecorded, Recorded
    <3>3. CASE answer[<<u, n>>] # "completed"
      <4>1. /\ registered[job[Consumer]] # NoRun
            /\ answer' = [answer EXCEPT
                            ![<<job[Consumer], registered[job[Consumer]]>>] = "completed"]
        BY <2>1, <3>1, <3>3 DEF CompletePending
      <4>2. <<u, n>> = <<job[Consumer], registered[job[Consumer]]>>
        BY <3>1, <3>3, <4>1 DEF TypeOK, Runs
      <4>3. u = job[Consumer]
        BY <4>2
      <4>4. QED
        BY <2>2, <4>3 DEF OnRecord
    <3>4. QED
      BY <3>2, <3>3
  <2>4. QED
    BY <2>1, <2>3 DEF AnswerInv
<1>4. QED
  BY <1>1, <1>2, <1>3 DEF ConsumerStep

(* No step of anybody breaks the invariant. *)
LEMMA AnswerNext == TypeOK /\ AnswerInv /\ [Next]_vars => AnswerInv'
<1> SUFFICES ASSUME TypeOK, AnswerInv, [Next]_vars PROVE AnswerInv'
  OBVIOUS
<1> USE ActorsDistinct
    DEF store, dispatcher, memory, channels, control, history, GoTo, ReturnTo
<1>1. ASSUME NEW t \in Tasks, Request(t) PROVE AnswerInv'
  <2>1. CASE StartTurn(t)
    BY <2>1, AnswerFrame, DispatchAssumption, SMTT(30)
       DEF StartTurn, Recorded, TypeOK, Runs
  <2>2. CASE BlockRedo(t)
    BY <2>2, AnswerFrame, RecordGrows DEF BlockRedo
  <2>3. ASSUME NEW n \in 1 .. MaxRuns, RedoTurn(t, n) PROVE AnswerInv'
    BY <2>3, AnswerFrame, SMTT(30) DEF RedoTurn, Recorded, TypeOK, Runs
  <2>4. QED
    BY <1>1, <2>1, <2>2, <2>3 DEF Request
<1>2. ASSUME NEW r \in Runs, RunStep(r) PROVE AnswerInv'
  <2>1. r # Consumer
    BY <1>2
  <2>2. CASE Register(r)
    <3>1. \A q \in Runs : answer'[q] = "completed" => answer[q] = "completed"
      BY <2>2 DEF Register, ReplacedTold, TypeOK
    <3>2. QED
      BY <2>1, <2>2, <3>1, AnswerFrame DEF Register, Recorded, TypeOK
  <2>3. CASE Enqueue(r)
    BY <2>1, <2>3, AnswerFrame DEF Enqueue, Recorded, TypeOK
  <2>4. CASE WaitAnswered(r)
    BY <2>1, <2>4, AnswerFrame DEF WaitAnswered, Recorded, TypeOK
  <2>5. CASE WaitExhausted(r)
    BY <2>1, <2>5, AnswerFrame DEF WaitExhausted, Recorded, TypeOK
  <2>6. QED
    BY <1>2, <2>2, <2>3, <2>4, <2>5 DEF RunStep
<1>3. ASSUME NEW a \in Actors, SharedStep(a) PROVE AnswerInv'
  BY <1>3, AnswerShared
<1>4. CASE ConsumerStep
  BY <1>4, AnswerConsumer
<1>5. CASE WatchdogStep
  <2>0. Watchdog # Consumer
    BY DEF Watchdog, Consumer
  <2>1. CASE WatchdogScan
    BY <2>1, AnswerFrame DEF WatchdogScan, Recorded
  <2>2. ASSUME NEW t \in Tasks, ReclaimStale(t) PROVE AnswerInv'
    BY <2>0, <2>2, AnswerFrame DEF ReclaimStale, Recorded, TypeOK
  <2>3. CASE DecideStale
    BY <2>0, <2>3, AnswerFrame DEF DecideStale, Decide, Recorded, TypeOK
  <2>4. QED
    BY <1>5, <2>1, <2>2, <2>3 DEF WatchdogStep
<1>6. CASE UNCHANGED vars
  BY <1>6, AnswerFrame DEF vars, Recorded
<1>7. QED
  BY <1>1, <1>2, <1>3, <1>4, <1>5, <1>6 DEF Next

(* A run is told "completed" only of a turn whose completion is in the     *)
(* store (handle_turn_execution_done writes before it answers, and answers *)
(* the task it wrote for).                                                 *)
THEOREM CompletionsAreRecorded == Spec => []CompletedIsRecorded
<1>1. Init => AnswerInv
  BY ActorsDistinct DEF Init, AnswerInv, CompletedIsRecorded, Runs
<1>2. AnswerInv => CompletedIsRecorded
  BY DEF AnswerInv
<1>3. QED
  BY <1>1, <1>2, AnswerNext, TypeCorrect, PTL DEF Spec

-----------------------------------------------------------------------------
(* Slots: where a turn is while every published turn is answered once.     *)

Publishing(t) == \E a \in Actors : pc[a] = "publish" /\ held[a] = t

InHand(t) ==
  /\ job[Consumer] = t
  /\ \/ pc[Consumer] \in {"redispatch", "release"}
     \/ /\ pc[Consumer] \in {"clear", "record", "respond"}
        /\ afterFail[Consumer] = "release"

Waiting(t) == \E i \in DOMAIN queue : queue[i] = t

ToCome(t) == pc[<<t, 1>>] \in {"absent", "register", "enqueue"}

(* Only the first run of each task and the consumer are at work, and a run *)
(* fails a turn only from within its dispatch_pending.                     *)
CalmControl ==
  /\ pc[Watchdog] = "idle" /\ stale = {}
  /\ \A r \in Runs :
       /\ r[2] # 1 => pc[r] = "absent"
       /\ pc[r] \notin {"release", "redispatch"}
       /\ pc[r] \in {"clear", "record", "respond"} => afterFail[r] = "pump"
  /\ \A a \in Actors : pc[a] = "publish" => held[a] \in Tasks
  /\ \/ pc[Consumer] \in {"redispatch", "release"}
     \/ pc[Consumer] \in {"clear", "record", "respond"} /\ afterFail[Consumer] = "release"
     => job[Consumer] \in Tasks

(* A turn is in at most one place, and there once. *)
OnePlace ==
  /\ \A i, j \in DOMAIN queue : queue[i] = queue[j] => i = j
  /\ \A a, b \in Actors :
       pc[a] = "publish" /\ pc[b] = "publish" /\ held[a] = held[b] => a = b
  /\ \A t \in Tasks :
       /\ outstanding[t] <= 1
       /\ ToCome(t) \/ Waiting(t) => outstanding[t] = 0 /\ ~Publishing(t) /\ ~InHand(t)
       /\ ToCome(t) => ~Waiting(t)
       /\ outstanding[t] > 0 => ~Publishing(t) /\ ~InHand(t)
       /\ Publishing(t) => ~InHand(t)

Slots == {t \in Tasks : HoldsSlot(t)}

SlotsCounted == IsFiniteSet(Slots) /\ inFlight = Cardinality(Slots)

SlotInv == CalmControl /\ OnePlace /\ SlotsCounted

(* Dispatching a popped turn takes one slot more. *)
LEMMA SlotTaken ==
  ASSUME SlotsCounted, NEW t \in Tasks, ~HoldsSlot(t), Slots' = Slots \cup {t},
         inFlight' = inFlight + 1
  PROVE  SlotsCounted'
<1>1. t \notin Slots
  BY DEF Slots
<1>2. IsFiniteSet(Slots') /\ Cardinality(Slots') = Cardinality(Slots) + 1
  BY <1>1, FS_AddElement DEF SlotsCounted
<1>3. QED
  BY <1>2 DEF SlotsCounted

(* Releasing the slot of a turn gives back just that one. *)
LEMMA SlotFreed ==
  ASSUME SlotsCounted, NEW t \in Tasks, HoldsSlot(t), Slots' = Slots \ {t},
         inFlight' = SlotReleased(inFlight)
  PROVE  SlotsCounted'
<1>1. t \in Slots
  BY DEF Slots
<1>2. IsFiniteSet(Slots') /\ Cardinality(Slots') = Cardinality(Slots) - 1
  BY <1>1, FS_RemoveElement DEF SlotsCounted
<1>3. Cardinality(Slots) \in Nat /\ Cardinality(Slots') \in Nat
  BY <1>2, FS_CardinalityType DEF SlotsCounted
<1>4. QED
  BY <1>2, <1>3 DEF SlotsCounted, SlotReleased

(* The turns that occupy a slot, named by where they are. *)
LEMMA SlotPlaces ==
  ASSUME NEW t
  PROVE  HoldsSlot(t) <=> outstanding[t] > 0 \/ Publishing(t) \/ InHand(t)
BY DEF HoldsSlot, Publishing, InHand

(* A step that moves no turn: nobody publishes anything else, the queue    *)
(* and the deliveries are as they were, and the consumer keeps its turn.   *)
LEMMA NoTurnMoves ==
  ASSUME TypeOK, OnePlace, SlotsCounted, UNCHANGED <<queue, outstanding, inFlight>>,
         \A t \in Tasks : /\ Publishing(t)' <=> Publishing(t)
                          /\ InHand(t)' <=> InHand(t)
                          /\ ToCome(t)' => ToCome(t),
         \A b \in Actors : pc[b]' = "publish" => pc[b] = "publish" /\ held[b]' = held[b]
  PROVE  OnePlace' /\ SlotsCounted'
<1>1. \A t : Waiting(t)' <=> Waiting(t)
  BY DEF Waiting
<1>2. OnePlace'
  BY <1>1 DEF OnePlace
<1>3. Slots' = Slots
  BY SlotPlaces DEF Slots, HoldsSlot, Publishing, InHand
<1>4. QED
  BY <1>2, <1>3 DEF SlotsCounted

(* An actor at one of these has no turn in hand and publishes none. *)
Quiet == {"absent", "register", "enqueue", "wait", "ended", "idle", "answer", "pump"}

(* Steps between those places move no turn. *)
LEMMA QuietStep ==
  ASSUME TypeOK, CalmControl, OnePlace, SlotsCounted,
         NEW a \in Actors, NEW l \in Quiet, a \in Runs \/ a = Consumer,
         a \in Runs => a[2] = 1,
         GoTo(a, l), pc[a] \in Quiet,
         l \in {"absent", "register", "enqueue"} => pc[a] \in {"absent", "register"},
         \A b \in Actors : b # a => job'[b] = job[b],
         UNCHANGED <<queue, outstanding, inFlight, held, afterFail, stale>>
  PROVE  SlotInv'
<1> USE ActorsDistinct
<1>1. pc' = [pc EXCEPT ![a] = l] /\ pc \in [Actors -> Locations]
  BY DEF GoTo, TypeOK
<1>2. \A b \in Actors : pc'[b] = IF b = a THEN l ELSE pc[b]
  BY <1>1
<1>3. CalmControl'
  <2>1. pc'[Watchdog] = "idle" /\ stale' = {}
    <3>1. Watchdog # a
      BY DEF Watchdog, Consumer
    <3>2. QED
      BY <1>2, <3>1 DEF CalmControl
  <2>2. \A r \in Runs :
           /\ r[2] # 1 => pc'[r] = "absent"
           /\ pc'[r] \notin {"release", "redispatch"}
           /\ pc'[r] \in {"clear", "record", "respond"} => afterFail'[r] = "pump"
    BY <1>2 DEF CalmControl, Quiet
  <2>3. \A b \in Actors : pc'[b] = "publish" => held'[b] \in Tasks
    BY <1>2 DEF CalmControl, Quiet
  <2>4. (\/ pc'[Consumer] \in {"redispatch", "release"}
         \/ /\ pc'[Consumer] \in {"clear", "record", "respond"}
            /\ afterFail'[Consumer] = "release")
        => job'[Consumer] \in Tasks
    BY <1>2 DEF CalmControl, Quiet
  <2>5. QED
    BY <2>1, <2>2, <2>3, <2>4 DEF CalmControl
<1>4. \A t \in Tasks : Publishing(t)' <=> Publishing(t)
  BY <1>2 DEF Publishing, Quiet
<1>5. \A t \in Tasks : InHand(t)' <=> InHand(t)
  BY <1>2 DEF InHand, Quiet
<1>6. \A t \in Tasks : ToCome(t)' => ToCome(t)
  <2>1. \A t \in Tasks : <<t, 1>> \in Actors
    BY DispatchAssumption DEF Actors, Runs
  <2>2. QED
    BY <1>2, <2>1 DEF ToCome, Quiet
<1>7. \A b \in Actors : pc[b]' = "publish" => pc[b] = "publish" /\ held[b]' = held[b]
  BY <1>2 DEF Quiet
<1>8. OnePlace' /\ SlotsCounted'
  BY <1>4, <1>5, <1>6, <1>7, NoTurnMoves
<1>9. QED
  BY <1>3, <1>8 DEF SlotInv

(* A run of the calm system is the first of its task. *)
LEMMA FirstRun ==
  ASSUME CalmControl, NEW r \in Runs, pc[r] # "absent"
  PROVE  r[2] = 1 /\ r[1] \in Tasks /\ r = <<r[1], 1>>
BY DEF CalmControl, Runs

(* Starting, registering, waiting: no turn moves. *)
LEMMA SlotsRun ==
  ASSUME TypeOK, SlotInv, NEW r \in Runs, Register(r) \/ WaitAnswered(r)
  PROVE  SlotInv'
<1>1. r[2] = 1
  BY FirstRun DEF SlotInv, Register, WaitAnswered
<1>2. CASE Register(r)
  BY <1>1, <1>2, ActorsDistinct, QuietStep
     DEF Register, SlotInv, Quiet, dispatcher, store, memory
<1>3. CASE WaitAnswered(r)
  BY <1>1, <1>3, ActorsDistinct, QuietStep
     DEF WaitAnswered, SlotInv, Quiet, dispatcher
<1>4. QED
  BY <1>2, <1>3

LEMMA SlotsStart ==
  ASSUME TypeOK, SlotInv, NEW t \in Tasks, StartTurn(t)
  PROVE  SlotInv'
<1>1. <<t, 1>> \in Runs /\ <<t, 1>>[2] = 1
  BY DispatchAssumption DEF Runs
<1>2. QED
  BY <1>1, ActorsDistinct, QuietStep DEF StartTurn, SlotInv, Quiet, dispatcher

LEMMA SlotsAnswer ==
  ASSUME TypeOK, SlotInv, AnswerDone
  PROVE  SlotInv'
<1>1. GoTo(Consumer, "idle") /\ \A b \in Actors : b # Consumer => job'[b] = job[b]
  BY DEF AnswerDone, ReturnTo, TypeOK
<1>2. QED
  BY <1>1, ActorsDistinct, QuietStep DEF AnswerDone, SlotInv, Quiet, dispatcher

(* Only runs and the consumer are at work, and runs only with their first. *)
LEMMA AtWork ==
  ASSUME TypeOK, CalmControl, NEW a \in Actors, pc[a] \notin {"absent", "idle"}
  PROVE  (a \in Runs \/ a = Consumer) /\ (a \in Runs => a[2] = 1)
BY DEF CalmControl, Actors

LEMMA SlotsPumpDone ==
  ASSUME TypeOK, SlotInv, NEW a \in Actors, PumpDone(a)
  PROVE  SlotInv'
<1>1. GoTo(a, afterPump[a]) /\ \A b \in Actors : b # a => job'[b] = job[b]
  BY DEF PumpDone, ReturnTo, TypeOK
<1>2. afterPump[a] \in Quiet /\ afterPump[a] \notin {"absent", "register", "enqueue"}
  BY DEF TypeOK, Quiet
<1>3. (a \in Runs \/ a = Consumer) /\ (a \in Runs => a[2] = 1)
  BY AtWork DEF PumpDone, SlotInv
<1>4. QED
  BY <1>1, <1>2, <1>3, QuietStep DEF PumpDone, SlotInv, Quiet, dispatcher

(* Recording that a turn failed leaves it where it is ... *)
LEMMA SlotsFailing ==
  ASSUME TypeOK, SlotInv, NEW a \in Actors, FailClear(a) \/ FailRecord(a)
  PROVE  SlotInv'
<1> USE ActorsDistinct DEF SlotInv
<1>1. PICK l \in {"record", "respond"} : GoTo(a, l)
  BY DEF FailClear, FailRecord
<1>2. /\ pc[a] \in {"clear", "record"}
      /\ UNCHANGED <<queue, outstanding, inFlight, held, afterFail, stale, job>>
  BY DEF FailClear, FailRecord, dispatcher
<1>3. \A b \in Actors : pc'[b] = IF b = a THEN l ELSE pc[b]
  BY <1>1 DEF GoTo, TypeOK
<1>4. CalmControl'
  <2>1. pc'[Watchdog] = "idle" /\ stale' = {}
    BY <1>2, <1>3 DEF CalmControl
  <2>2. \A r \in Runs :
           /\ r[2] # 1 => pc'[r] = "absent"
           /\ pc'[r] \notin {"release", "redispatch"}
           /\ pc'[r] \in {"clear", "record", "respond"} => afterFail'[r] = "pump"
    BY <1>2, <1>3 DEF CalmControl
  <2>3. \A b \in Actors : pc'[b] = "publish" => held'[b] \in Tasks
    BY <1>2, <1>3 DEF CalmControl
  <2>4. (\/ pc'[Consumer] \in {"redispatch", "release"}
         \/ /\ pc'[Consumer] \in {"clear", "record", "respond"}
            /\ afterFail'[Consumer] = "release")
        => job'[Consumer] \in Tasks
    BY <1>2, <1>3 DEF CalmControl
  <2>5. QED
    BY <2>1, <2>2, <2>3, <2>4 DEF CalmControl
<1>5. \A t \in Tasks : Publishing(t)' <=> Publishing(t)
  BY <1>2, <1>3 DEF Publishing
<1>6. \A t \in Tasks : InHand(t)' <=> InHand(t)
  BY <1>2, <1>3 DEF InHand
<1>7. \A t \in Tasks : ToCome(t)' => ToCome(t)
  BY <1>2, <1>3, DispatchAssumption DEF ToCome, Actors, Runs
<1>8. \A b \in Actors : pc[b]' = "publish" => pc[b] = "publish" /\ held[b]' = held[b]
  BY <1>2, <1>3
<1>9. QED
  BY <1>2, <1>4, <1>5, <1>6, <1>7, <1>8, NoTurnMoves

(* ... and so does the answer to its caller: a turn the consumer failed    *)
(* keeps its slot until release_slot_and_redispatch.                       *)
LEMMA SlotsRespond ==
  ASSUME TypeOK, SlotInv, NEW a \in Actors, FailRespond(a)
  PROVE  SlotInv'
<1> USE ActorsDistinct DEF SlotInv
<1> DEFINE l == afterFail[a]
<1>1. /\ pc[a] = "respond" /\ l \in {"pump", "release", "ended", "idle"}
      /\ UNCHANGED <<queue, outstanding, inFlight, stale>>
  BY DEF FailRespond, dispatcher, TypeOK
<1>2. \A b \in Actors :
         /\ pc'[b] = IF b = a THEN l ELSE pc[b]
         /\ b # a => held'[b] = held[b] /\ afterFail'[b] = afterFail[b]
         /\ job'[b] = IF b = a /\ l = "idle" THEN NoTask ELSE job[b]
  BY DEF FailRespond, ReturnTo, GoTo, TypeOK
<1>3. a \in Runs => l = "pump"
  BY <1>1 DEF CalmControl
<1>4. a # Watchdog
  BY <1>1 DEF CalmControl
<1> HIDE DEF l
<1>5. CalmControl'
  <2>1. pc'[Watchdog] = "idle" /\ stale' = {}
    BY <1>1, <1>2, <1>4 DEF CalmControl
  <2>2. \A r \in Runs :
           /\ r[2] # 1 => pc'[r] = "absent"
           /\ pc'[r] \notin {"release", "redispatch"}
           /\ pc'[r] \in {"clear", "record", "respond"} => afterFail'[r] = "pump"
    BY <1>1, <1>2, <1>3 DEF CalmControl
  <2>3. \A b \in Actors : pc'[b] = "publish" => held'[b] \in Tasks
    BY <1>1, <1>2 DEF CalmControl
  <2>4. (\/ pc'[Consumer] \in {"redispatch", "release"}
         \/ /\ pc'[Consumer] \in {"clear", "record", "respond"}
            /\ afterFail'[Consumer] = "release")
        => job'[Consumer] \in Tasks
    <3>1. CASE a # Consumer
      BY <1>2, <3>1 DEF CalmControl
    <3>2. CASE a = Consumer /\ l = "release"
      BY <1>1, <1>2, <3>2 DEF CalmControl, l
    <3>3. CASE a = Consumer /\ l # "release"
      BY <1>1, <1>2, <3>3
    <3>4. QED
      BY <3>1, <3>2, <3>3
  <2>5. QED
    BY <2>1, <2>2, <2>3, <2>4 DEF CalmControl
<1>6. \A t \in Tasks : Publishing(t)' <=> Publishing(t)
  BY <1>1, <1>2 DEF Publishing
<1>7. \A t \in Tasks : InHand(t)' <=> InHand(t)
  <2>1. CASE a # Consumer
    BY <1>2, <2>1 DEF InHand
  <2>2. CASE a = Consumer
    BY <1>1, <1>2, <2>2 DEF InHand, l
  <2>3. QED
    BY <2>1, <2>2
<1>8. \A t \in Tasks : ToCome(t)' => ToCome(t)
  BY <1>1, <1>2, DispatchAssumption DEF ToCome, Actors, Runs
<1>9. \A b \in Actors : pc[b]' = "publish" => pc[b] = "publish" /\ held[b]' = held[b]
  BY <1>1, <1>2
<1>10. QED
  BY <1>1, <1>5, <1>6, <1>7, <1>8, <1>9, NoTurnMoves

(* What a queue holds once one element was taken out of it (try_pop). *)
LEMMA RemoveAtElements ==
  ASSUME NEW S, NEW s \in Seq(S), NEW i \in DOMAIN s
  PROVE  /\ DOMAIN RemoveAt(s, i) = 1 .. Len(s) - 1
         /\ \A j \in 1 .. Len(s) - 1 :
              RemoveAt(s, i)[j] = IF j < i THEN s[j] ELSE s[j + 1]
<1>1. i \in 1 .. Len(s) /\ Len(s) \in Nat
  OBVIOUS
<1> DEFINE p == SubSeq(s, 1, i - 1)
           q == SubSeq(s, i + 1, Len(s))
<1>2. p \in Seq(S) /\ Len(p) = i - 1 /\ \A j \in 1 .. i - 1 : p[j] = s[j]
  BY <1>1, SubSeqProperties
<1>3. /\ q \in Seq(S) /\ Len(q) = Len(s) - i
      /\ \A j \in 1 .. Len(s) - i : q[j] = s[i + j]
  <2>1. CASE i = Len(s)
    BY <1>1, <2>1, SubSeqProperties
  <2>2. CASE i < Len(s)
    BY <1>1, <2>2, SubSeqProperties
  <2>3. QED
    BY <1>1, <2>1, <2>2
<1>4. RemoveAt(s, i) = p \o q
  BY DEF RemoveAt
<1> HIDE DEF p, q
<1>5. /\ p \o q \in Seq(S) /\ Len(p \o q) = Len(s) - 1
      /\ \A j \in 1 .. Len(s) - 1 :
           (p \o q)[j] = IF j <= Len(p) THEN p[j] ELSE q[j - Len(p)]
  <2>1. Len(p) + Len(q) = Len(s) - 1
    BY <1>1, <1>2, <1>3
  <2>2. /\ p \o q \in Seq(S) /\ Len(p \o q) = Len(p) + Len(q)
        /\ \A j \in 1 .. Len(p) + Len(q) :
             (p \o q)[j] = IF j <= Len(p) THEN p[j] ELSE q[j - Len(p)]
    BY <1>2, <1>3, ConcatProperties
  <2>3. QED
    BY <2>1, <2>2
<1>6. ASSUME NEW j \in 1 .. Len(s) - 1
      PROVE  (p \o q)[j] = IF j < i THEN s[j] ELSE s[j + 1]
  <2>1. CASE j < i
    BY <1>1, <1>2, <1>5, <2>1
  <2>2. CASE ~(j < i)
    <3>1. j - Len(p) \in 1 .. Len(s) - i /\ i + (j - Len(p)) = j + 1 /\ ~(j <= Len(p))
      BY <1>1, <1>2, <2>2
    <3>2. QED
      BY <1>1, <1>3, <1>5, <2>2, <3>1
  <2>3. QED
    BY <2>1, <2>2
<1>7. QED
  BY <1>1, <1>4, <1>5, <1>6

(* The three parts of OnePlace: the place of one turn, the queue, and the  *)
(* actors that publish.                                                    *)
PlaceOf(t) ==
  /\ outstanding[t] <= 1
  /\ ToCome(t) \/ Waiting(t) => outstanding[t] = 0 /\ ~Publishing(t) /\ ~InHand(t)
  /\ ToCome(t) => ~Waiting(t)
  /\ outstanding[t] > 0 => ~Publishing(t) /\ ~InHand(t)
  /\ Publishing(t) => ~InHand(t)

QueuedOnce == \A i, j \in DOMAIN queue : queue[i] = queue[j] => i = j

PublishedOnce ==
  \A a, b \in Actors :
     pc[a] = "publish" /\ pc[b] = "publish" /\ held[a] = held[b] => a = b

LEMMA OnePlaceParts ==
  OnePlace <=> QueuedOnce /\ PublishedOnce /\ \A t \in Tasks : PlaceOf(t)
BY DEF OnePlace, QueuedOnce, PublishedOnce, PlaceOf

(* A started run puts its turn into the queue, where it was not yet. *)
LEMMA SlotsEnqueue ==
  ASSUME TypeOK, SlotInv, NEW r \in Runs, Enqueue(r)
  PROVE  SlotInv'
<1> USE ActorsDistinct DEF SlotInv
<1>1. r[2] = 1 /\ r[1] \in Tasks /\ r = <<r[1], 1>>
  BY FirstRun DEF Enqueue
<1> DEFINE u == r[1]
<1>2. /\ pc[r] = "enqueue" /\ queue' = Append(queue, u)
      /\ UNCHANGED <<outstanding, inFlight, held, afterFail, stale, job>>
  BY DEF Enqueue
<1>3. \A b \in Actors : pc'[b] = IF b = r THEN "pump" ELSE pc[b]
  BY DEF Enqueue, GoTo, TypeOK
<1>4. ToCome(u)
  BY <1>1, <1>2 DEF ToCome
<1>5. u \in Tasks
  BY <1>1
<1> HIDE DEF u
<1>6. CalmControl'
  <2>1. pc'[Watchdog] = "idle" /\ stale' = {}
    BY <1>2, <1>3 DEF CalmControl
  <2>2. \A s \in Runs :
           /\ s[2] # 1 => pc'[s] = "absent"
           /\ pc'[s] \notin {"release", "redispatch"}
           /\ pc'[s] \in {"clear", "record", "respond"} => afterFail'[s] = "pump"
    BY <1>1, <1>2, <1>3 DEF CalmControl
  <2>3. \A b \in Actors : pc'[b] = "publish" => held'[b] \in Tasks
    BY <1>2, <1>3 DEF CalmControl
  <2>4. (\/ pc'[Consumer] \in {"redispatch", "release"}
         \/ /\ pc'[Consumer] \in {"clear", "record", "respond"}
            /\ afterFail'[Consumer] = "release")
        => job'[Consumer] \in Tasks
    BY <1>2, <1>3 DEF CalmControl
  <2>5. QED
    BY <2>1, <2>2, <2>3, <2>4 DEF CalmControl
<1>7. \A t : Publishing(t)' <=> Publishing(t)
  BY <1>2, <1>3 DEF Publishing
<1>8. \A t : InHand(t)' <=> InHand(t)
  BY <1>2, <1>3 DEF InHand
<1>9. \A t \in Tasks : ToCome(t)' => ToCome(t) /\ t # u
  BY <1>1, <1>2, <1>3, DispatchAssumption DEF ToCome, Actors, Runs, u
<1>10. /\ queue \in Seq(Tasks) /\ Len(queue) \in Nat /\ DOMAIN queue = 1 .. Len(queue)
       /\ DOMAIN queue' = 1 .. Len(queue) + 1
       /\ \A i \in 1 .. Len(queue) + 1 :
            queue'[i] = IF i <= Len(queue) THEN queue[i] ELSE u
  BY <1>2, <1>5 DEF TypeOK
<1>11. ~Waiting(u)
  BY <1>4, <1>5 DEF OnePlace
<1>12. \A t : Waiting(t)' => Waiting(t) \/ t = u
  BY <1>10 DEF Waiting
<1>13. QueuedOnce'
  BY <1>10, <1>11 DEF QueuedOnce, Waiting, OnePlace
<1>14. PublishedOnce'
  BY <1>2, <1>3 DEF PublishedOnce, OnePlace
<1>15. \A t \in Tasks : PlaceOf(t)'
  BY <1>2, <1>4, <1>7, <1>8, <1>9, <1>12 DEF PlaceOf, OnePlace
<1>16. Slots' = Slots
  BY <1>2, <1>7, <1>8, SMTT(30) DEF Slots, HoldsSlot, Publishing, InHand
<1>17. QED
  BY <1>2, <1>6, <1>13, <1>14, <1>15, <1>16
     DEF SlotsCounted, OnePlace, QueuedOnce, PublishedOnce, PlaceOf

(* dispatch_pending takes a turn out of the queue: its slot is one more. *)
LEMMA SlotsPop ==
  ASSUME TypeOK, SlotInv, NEW a \in Actors, PopNext(a)
  PROVE  SlotInv'
<1> USE ActorsDistinct DEF SlotInv
<1>1. PICK i \in DOMAIN queue :
        /\ held' = [held EXCEPT ![a] = queue[i]]
        /\ queue' = RemoveAt(queue, i)
  BY DEF PopNext
<1>2. /\ pc[a] = "pump" /\ inFlight' = inFlight + 1
      /\ UNCHANGED <<outstanding, afterFail, stale, job>>
  BY DEF PopNext
<1> DEFINE u == queue[i]
<1>3. queue \in Seq(Tasks) /\ u \in Tasks
  BY DEF TypeOK
<1>4. Waiting(u)
  BY DEF Waiting
<1>5. outstanding[u] = 0 /\ ~Publishing(u) /\ ~InHand(u) /\ ~ToCome(u)
  BY <1>3, <1>4 DEF OnePlace
<1>6. \A b \in Actors : /\ pc'[b] = IF b = a THEN "publish" ELSE pc[b]
                        /\ held'[b] = IF b = a THEN u ELSE held[b]
  BY <1>1 DEF PopNext, GoTo, TypeOK
<1>7. /\ DOMAIN queue' = 1 .. Len(queue) - 1 /\ DOMAIN queue = 1 .. Len(queue)
      /\ Len(queue) \in Nat
      /\ \A j \in 1 .. Len(queue) - 1 :
           queue'[j] = IF j < i THEN queue[j] ELSE queue[j + 1]
  BY <1>1, <1>3, RemoveAtElements
<1>8. \A t : Waiting(t)' => Waiting(t) /\ t # u
  <2>1. SUFFICES ASSUME NEW j \in 1 .. Len(queue) - 1
                 PROVE  queue'[j] # u /\ \E k \in DOMAIN queue : queue[k] = queue'[j]
    BY <1>7 DEF Waiting
  <2>2. CASE j < i
    BY <1>7, <2>2 DEF OnePlace
  <2>3. CASE ~(j < i)
    <3>1. j + 1 \in DOMAIN queue /\ j + 1 # i /\ queue'[j] = queue[j + 1]
      BY <1>7, <2>3
    <3>2. QED
      BY <3>1 DEF OnePlace
  <2>4. QED
    BY <2>2, <2>3
<1>9. QueuedOnce'
  <2>1. SUFFICES ASSUME NEW j \in 1 .. Len(queue) - 1, NEW k \in 1 .. Len(queue) - 1,
                        queue'[j] = queue'[k]
                 PROVE  j = k
    BY <1>7 DEF QueuedOnce
  <2>2. PICK m \in DOMAIN queue :
          queue'[j] = queue[m] /\ m = IF j < i THEN j ELSE j + 1
    BY <1>7
  <2>3. PICK n \in DOMAIN queue :
          queue'[k] = queue[n] /\ n = IF k < i THEN k ELSE k + 1
    BY <1>7
  <2>4. m = n
    BY <2>1, <2>2, <2>3 DEF OnePlace
  <2>5. QED
    BY <1>7, <2>2, <2>3, <2>4
<1> HIDE DEF u
<1>10. CalmControl'
  <2>1. pc'[Watchdog] = "idle" /\ stale' = {}
    BY <1>2, <1>6 DEF CalmControl
  <2>2. \A s \in Runs :
           /\ s[2] # 1 => pc'[s] = "absent"
           /\ pc'[s] \notin {"release", "redispatch"}
           /\ pc'[s] \in {"clear", "record", "respond"} => afterFail'[s] = "pump"
    BY <1>2, <1>6 DEF CalmControl
  <2>3. \A b \in Actors : pc'[b] = "publish" => held'[b] \in Tasks
    BY <1>2, <1>3, <1>6 DEF CalmControl
  <2>4. (\/ pc'[Consumer] \in {"redispatch", "release"}
         \/ /\ pc'[Consumer] \in {"clear", "record", "respond"}
            /\ afterFail'[Consumer] = "release")
        => job'[Consumer] \in Tasks
    BY <1>2, <1>6 DEF CalmControl
  <2>5. QED
    BY <2>1, <2>2, <2>3, <2>4 DEF CalmControl
<1>11. \A t : Publishing(t)' <=> Publishing(t) \/ t = u
  BY <1>2, <1>6 DEF Publishing
<1>12. \A t : InHand(t)' <=> InHand(t)
  BY <1>2, <1>6 DEF InHand
<1>13. \A t \in Tasks : ToCome(t)' => ToCome(t)
  BY <1>2, <1>6, DispatchAssumption DEF ToCome, Actors, Runs
<1>14. PublishedOnce'
  BY <1>2, <1>5, <1>6 DEF PublishedOnce, OnePlace, Publishing
<1>15. \A t \in Tasks : PlaceOf(t)'
  BY <1>2, <1>5, <1>8, <1>11, <1>12, <1>13 DEF PlaceOf, OnePlace
<1>16. OnePlace'
  BY <1>9, <1>14, <1>15 DEF OnePlace, QueuedOnce, PublishedOnce, PlaceOf
<1>17. Slots' = Slots \cup {u}
  <2>1. \A t \in Tasks : HoldsSlot(t)' <=> HoldsSlot(t) \/ t = u
    BY <1>2, <1>11, <1>12 DEF HoldsSlot, Publishing, InHand
  <2>2. QED
    BY <1>3, <2>1 DEF Slots
<1>18. ~HoldsSlot(u)
  BY <1>5 DEF HoldsSlot, Publishing, InHand
<1>19. QED
  BY <1>2, <1>3, <1>10, <1>16, <1>17, <1>18, SlotTaken

(* The turn is published and keeps its slot; or every attempt failed, and  *)
(* the slot is given back before the turn is failed.                       *)
LEMMA SlotsPublish ==
  ASSUME TypeOK, SlotInv, NEW a \in Actors, Publish(a) \/ PublishFailed(a)
  PROVE  SlotInv'
<1> USE ActorsDistinct DEF SlotInv
<1> DEFINE u == held[a]
           out == IF Publish(a) THEN 1 ELSE 0
<1>1. pc[a] = "publish" /\ UNCHANGED <<queue, stale, job>>
  BY DEF Publish, PublishFailed, dispatcher
<1>2. u \in Tasks
  BY <1>1 DEF CalmControl
<1>3. Publishing(u)
  BY <1>1 DEF Publishing
<1>4. outstanding[u] = 0 /\ ~InHand(u) /\ ~ToCome(u) /\ ~Waiting(u)
  BY <1>2, <1>3 DEF OnePlace, TypeOK
<1>5. PICK l \in {"pump", "clear"} : GoTo(a, l) /\ (l = "pump" <=> Publish(a))
  BY DEF Publish, PublishFailed, GoTo, TypeOK
<1>6. \A b \in Actors : /\ pc'[b] = IF b = a THEN l ELSE pc[b]
                        /\ b # a => held'[b] = held[b]
                        /\ b # a => afterFail'[b] = afterFail[b]
                        /\ b = a /\ l = "clear" => afterFail'[b] = "pump"
  BY <1>5 DEF Publish, PublishFailed, GoTo, TypeOK
<1>7. \A t \in Tasks : outstanding'[t] = IF t = u THEN out ELSE outstanding[t]
  BY <1>2, <1>4 DEF Publish, PublishFailed, TypeOK
<1>8. out \in {0, 1}
  OBVIOUS
<1>9. PublishedOnce /\ \A t \in Tasks : PlaceOf(t)
  BY OnePlaceParts
<1>10. a # Watchdog
  BY <1>1 DEF CalmControl
<1>11. inFlight' = IF out = 1 THEN inFlight ELSE SlotReleased(inFlight)
  BY DEF Publish, PublishFailed, dispatcher
<1>12. out = 1 <=> l = "pump"
  BY <1>5
<1> HIDE DEF u, out
<1>13. CalmControl'
  <2>1. pc'[Watchdog] = "idle" /\ stale' = {}
    BY <1>1, <1>6, <1>10 DEF CalmControl
  <2>2. \A s \in Runs :
           /\ s[2] # 1 => pc'[s] = "absent"
           /\ pc'[s] \notin {"release", "redispatch"}
           /\ pc'[s] \in {"clear", "record", "respond"} => afterFail'[s] = "pump"
    BY <1>1, <1>6 DEF CalmControl
  <2>3. \A b \in Actors : pc'[b] = "publish" => held'[b] \in Tasks
    BY <1>6 DEF CalmControl
  <2>4. (\/ pc'[Consumer] \in {"redispatch", "release"}
         \/ /\ pc'[Consumer] \in {"clear", "record", "respond"}
            /\ afterFail'[Consumer] = "release")
        => job'[Consumer] \in Tasks
    BY <1>1, <1>6 DEF CalmControl
  <2>5. QED
    BY <2>1, <2>2, <2>3, <2>4 DEF CalmControl
<1>14. \A t \in Tasks : Publishing(t)' <=> Publishing(t) /\ t # u
  BY <1>1, <1>6, <1>9 DEF Publishing, PublishedOnce, u
<1>15. \A t : InHand(t)' <=> InHand(t)
  BY <1>1, <1>6 DEF InHand
<1>16. \A t \in Tasks : ToCome(t)' => ToCome(t)
  BY <1>1, <1>6, DispatchAssumption DEF ToCome, Actors, Runs
<1>17. \A t : Waiting(t)' <=> Waiting(t)
  BY <1>1 DEF Waiting
<1>18. PublishedOnce'
  BY <1>6, <1>9 DEF PublishedOnce
<1>19. QueuedOnce'
  BY <1>1 DEF QueuedOnce, OnePlace
<1>20. \A t \in Tasks : PlaceOf(t)'
  BY <1>4, <1>7, <1>8, <1>9, <1>14, <1>15, <1>16, <1>17 DEF PlaceOf
<1>21. OnePlace'
  BY <1>18, <1>19, <1>20 DEF OnePlace, QueuedOnce, PublishedOnce, PlaceOf
<1>22. HoldsSlot(u) /\ Slots' = IF out = 1 THEN Slots ELSE Slots \ {u}
  BY <1>2, <1>3, <1>4, <1>7, <1>8, <1>14, <1>15
     DEF Slots, HoldsSlot, Publishing, InHand
<1>23. SlotsCounted'
  <2>1. CASE out = 1
    BY <1>11, <1>22, <2>1 DEF SlotsCounted
  <2>2. CASE out = 0
    BY <1>2, <1>11, <1>22, <2>2, SlotFreed
  <2>3. QED
    BY <1>8, <2>1, <2>2
<1>24. QED
  BY <1>13, <1>21, <1>23

(* What the consumer's own steps do to the other actors and turns: the     *)
(* clauses of the invariant that are not about its turn.                   *)
LEMMA ConsumerMoves ==
  ASSUME TypeOK, CalmControl, OnePlace, NEW l, GoTo(Consumer, l), l # "publish",
         pc[Consumer] \in {"idle", "release", "redispatch"},
         \A b \in Actors : b # Consumer => afterFail'[b] = afterFail[b],
         \A b \in Actors : b # Consumer => held'[b] = held[b],
         UNCHANGED <<queue, stale>>
  PROVE  /\ (\/ l \in {"redispatch", "release"}
             \/ l \in {"clear", "record", "respond"} /\ afterFail'[Consumer] = "release"
             => job'[Consumer] \in Tasks) => CalmControl'
         /\ QueuedOnce' /\ PublishedOnce'
         /\ \A t : Publishing(t)' <=> Publishing(t)
         /\ \A t \in Tasks : ToCome(t)' => ToCome(t)
         /\ \A t : Waiting(t)' <=> Waiting(t)
<1> USE ActorsDistinct
<1>1. \A b \in Actors : pc'[b] = IF b = Consumer THEN l ELSE pc[b]
  BY DEF GoTo, TypeOK
<1>2. ASSUME \/ l \in {"redispatch", "release"}
             \/ l \in {"clear", "record", "respond"} /\ afterFail'[Consumer] = "release"
             => job'[Consumer] \in Tasks
      PROVE  CalmControl'
  <2>1. pc'[Watchdog] = "idle" /\ stale' = {}
    BY <1>1 DEF CalmControl, Watchdog, Consumer
  <2>2. \A s \in Runs :
           /\ s[2] # 1 => pc'[s] = "absent"
           /\ pc'[s] \notin {"release", "redispatch"}
           /\ pc'[s] \in {"clear", "record", "respond"} => afterFail'[s] = "pump"
    BY <1>1 DEF CalmControl
  <2>3. \A b \in Actors : pc'[b] = "publish" => held'[b] \in Tasks
    BY <1>1 DEF CalmControl
  <2>4. (\/ pc'[Consumer] \in {"redispatch", "release"}
         \/ /\ pc'[Consumer] \in {"clear", "record", "respond"}
            /\ afterFail'[Consumer] = "release")
        => job'[Consumer] \in Tasks
    BY <1>1, <1>2
  <2>5. QED
    BY <2>1, <2>2, <2>3, <2>4 DEF CalmControl
<1>3. QueuedOnce'
  BY DEF QueuedOnce, OnePlace
<1>4. PublishedOnce'
  BY <1>1 DEF PublishedOnce, OnePlace
<1>5. \A t : Publishing(t)' <=> Publishing(t)
  BY <1>1 DEF Publishing
<1>6. \A t \in Tasks : ToCome(t)' => ToCome(t)
  BY <1>1, DispatchAssumption DEF ToCome, Actors, Runs
<1>7. \A t : Waiting(t)' <=> Waiting(t)
  BY DEF Waiting
<1>8. QED
  BY <1>2, <1>3, <1>4, <1>5, <1>6, <1>7

(* A report takes its turn from the fixlet into the consumer's hands,      *)
(* where it keeps its slot: it completed, or the retry policy decides.     *)
LEMMA SlotsReported ==
  ASSUME TypeOK, SlotInv, Faults \subseteq {"dispatch_error"}, NEW t \in Tasks,
         \/ ConsumeDone(t)
         \/ \E retryable \in BOOLEAN : ConsumeError(t, retryable)
  PROVE  SlotInv'
<1> USE ActorsDistinct DEF SlotInv
<1>1. /\ pc[Consumer] = "idle" /\ outstanding[t] = 1
      /\ outstanding' = [outstanding EXCEPT ![t] = @ - 1]
  BY DEF ConsumeDone, ConsumeError, Reported, OnePlace, TypeOK
<1>2. UNCHANGED <<queue, inFlight, stale>>
  BY DEF ConsumeDone, ConsumeError, dispatcher
<1>3. /\ \A b \in Actors : b # Consumer => afterFail'[b] = afterFail[b]
      /\ \A b \in Actors : b # Consumer => held'[b] = held[b]
      /\ job'[Consumer] = t
  BY DEF ConsumeDone, ConsumeError, Decide, TypeOK
<1>4. PICK l \in {"release", "redispatch", "clear"} :
        GoTo(Consumer, l) /\ (l = "clear" => afterFail'[Consumer] = "release")
  BY DEF ConsumeDone, ConsumeError, Decide, TypeOK
<1>5. \A s : InHand(s)' <=> s = t
  BY <1>3, <1>4 DEF InHand, GoTo, TypeOK
<1>6. \A s : ~InHand(s)
  BY <1>1 DEF InHand
<1>7. ~Publishing(t) /\ ~ToCome(t) /\ ~Waiting(t)
  BY <1>1 DEF OnePlace
<1>8. \A s \in Tasks : outstanding'[s] = IF s = t THEN 0 ELSE outstanding[s]
  BY <1>1 DEF TypeOK
<1>9. /\ CalmControl' /\ QueuedOnce' /\ PublishedOnce'
      /\ \A s : Publishing(s)' <=> Publishing(s)
      /\ \A s \in Tasks : ToCome(s)' => ToCome(s)
      /\ \A s : Waiting(s)' <=> Waiting(s)
  BY <1>1, <1>2, <1>3, <1>4, ConsumerMoves
<1>10. \A s \in Tasks : PlaceOf(s)
  BY OnePlaceParts
<1>11. \A s \in Tasks : PlaceOf(s)'
  BY <1>5, <1>6, <1>7, <1>8, <1>9, <1>10 DEF PlaceOf
<1>12. Slots' = Slots
  <2>1. \A s \in Tasks : HoldsSlot(s)' <=> HoldsSlot(s)
    BY <1>1, <1>5, <1>6, <1>8, <1>9 DEF HoldsSlot, Publishing, InHand
  <2>2. QED
    BY <2>1 DEF Slots
<1>13. QED
  BY <1>2, <1>9, <1>11, <1>12
     DEF OnePlace, QueuedOnce, PublishedOnce, PlaceOf, SlotsCounted

(* A retry goes back to the fixlets with its slot; a turn that is over     *)
(* gives its slot back (on_turn_terminal).                                 *)
LEMMA SlotsHandedOn ==
  ASSUME TypeOK, SlotInv, NEW a \in Actors, Redispatch(a) \/ ReleaseSlot(a)
  PROVE  SlotInv'
<1> USE ActorsDistinct DEF SlotInv
<1>1. a = Consumer /\ pc[Consumer] \in {"redispatch", "release"}
  BY DEF Redispatch, ReleaseSlot, CalmControl, Actors
<1> DEFINE u == job[Consumer]
           out == IF Redispatch(a) THEN 1 ELSE 0
<1>2. u \in Tasks /\ InHand(u) /\ \A s : InHand(s) => s = u
  BY <1>1 DEF CalmControl, InHand
<1>3. outstanding[u] = 0 /\ ~Publishing(u) /\ ~ToCome(u) /\ ~Waiting(u)
  BY <1>2 DEF OnePlace, TypeOK
<1>4. UNCHANGED <<queue, stale, held, afterFail>>
  BY DEF Redispatch, ReleaseSlot, dispatcher
<1>5. PICK l \in {"idle", "pump"} : GoTo(Consumer, l)
  BY <1>1 DEF Redispatch, ReleaseSlot, ReturnTo, Home, AfterRelease
<1>6. \A s : ~InHand(s)'
  BY <1>5 DEF InHand, GoTo, TypeOK
<1>7. \A s \in Tasks : outstanding'[s] = IF s = u THEN out ELSE outstanding[s]
  BY <1>1, <1>2, <1>3 DEF Redispatch, ReleaseSlot, TypeOK
<1>8. out \in {0, 1} /\ inFlight' = IF out = 1 THEN inFlight ELSE SlotReleased(inFlight)
  BY <1>1 DEF Redispatch, ReleaseSlot, dispatcher
<1>9. /\ CalmControl' /\ QueuedOnce' /\ PublishedOnce'
      /\ \A s : Publishing(s)' <=> Publishing(s)
      /\ \A s \in Tasks : ToCome(s)' => ToCome(s)
      /\ \A s : Waiting(s)' <=> Waiting(s)
  BY <1>1, <1>4, <1>5, ConsumerMoves
<1>10. \A s \in Tasks : PlaceOf(s)
  BY OnePlaceParts
<1> HIDE DEF u, out
<1>11. \A s \in Tasks : PlaceOf(s)'
  BY <1>3, <1>6, <1>7, <1>8, <1>9, <1>10 DEF PlaceOf
<1>12. HoldsSlot(u) /\ Slots' = IF out = 1 THEN Slots ELSE Slots \ {u}
  <2>1. \A s \in Tasks : HoldsSlot(s)' <=> IF s = u THEN out = 1 ELSE HoldsSlot(s)
    BY <1>2, <1>3, <1>6, <1>7, <1>8, <1>9 DEF HoldsSlot, Publishing, InHand
  <2>2. HoldsSlot(u)
    BY <1>2 DEF HoldsSlot, InHand
  <2>3. QED
    BY <1>2, <2>1, <2>2 DEF Slots
<1>13. SlotsCounted'
  <2>1. CASE out = 1
    BY <1>8, <1>12, <2>1 DEF SlotsCounted
  <2>2. CASE out = 0
    BY <1>2, <1>8, <1>12, <2>2, SlotFreed
  <2>3. QED
    BY <1>8, <2>1, <2>2
<1>14. QED
  BY <1>9, <1>11, <1>13 DEF OnePlace, QueuedOnce, PublishedOnce, PlaceOf

LEMMA SlotInit == Init => SlotInv
<1> SUFFICES ASSUME Init PROVE SlotInv
  OBVIOUS
<1> USE ActorsDistinct DEF Init
<1>1. \A a \in Actors : pc[a] = IF a \in Runs THEN "absent" ELSE "idle"
  OBVIOUS
<1>2. pc[Watchdog] = "idle" /\ pc[Consumer] = "idle"
  BY <1>1
<1>3. CalmControl
  BY <1>1, <1>2 DEF CalmControl
<1>4. \A t \in Tasks : outstanding[t] = 0 /\ ~Publishing(t) /\ ~InHand(t) /\ ~Waiting(t)
  BY <1>1, <1>2 DEF Publishing, InHand, Waiting
<1>5. OnePlace
  BY <1>1, <1>4 DEF OnePlace
<1>6. Slots = {}
  BY <1>4 DEF Slots, HoldsSlot, Publishing, InHand
<1>7. QED
  BY <1>3, <1>5, <1>6, FS_EmptySet DEF SlotInv, SlotsCounted

LEMMA SlotNext ==
  ASSUME Faults \subseteq {"dispatch_error"}
  PROVE  TypeOK /\ SlotInv /\ [Next]_vars => SlotInv'
<1> SUFFICES ASSUME TypeOK, SlotInv, [Next]_vars
             PROVE  SlotInv'
  OBVIOUS
<1>1. ASSUME NEW t \in Tasks, Request(t)
      PROVE  SlotInv'
  BY <1>1, SlotsStart DEF Request, RedoTurn, BlockRedo
<1>2. ASSUME NEW r \in Runs, RunStep(r)
      PROVE  SlotInv'
  BY <1>2, SlotsRun, SlotsEnqueue DEF RunStep, WaitExhausted, DeadlinePassed
<1>3. ASSUME NEW a \in Actors, SharedStep(a)
      PROVE  SlotInv'
  BY <1>3, SlotsPop, SlotsPumpDone, SlotsPublish, SlotsFailing, SlotsRespond,
     SlotsHandedOn DEF SharedStep, RedispatchFailed
<1>4. CASE ConsumerStep
  BY <1>4, SlotsReported, SlotsAnswer DEF ConsumerStep
<1>5. CASE WatchdogStep
  BY <1>5 DEF WatchdogStep, WatchdogScan, ReclaimStale, DecideStale, SlotInv,
     CalmControl
<1>6. CASE UNCHANGED vars
  <2>1. UNCHANGED <<pc, job, held, afterFail, stale, queue, inFlight, outstanding>>
    BY <1>6 DEF vars, control, dispatcher
  <2>2. CalmControl'
    BY <2>1 DEF SlotInv, CalmControl
  <2>3. \A t \in Tasks : /\ Publishing(t)' <=> Publishing(t)
                         /\ InHand(t)' <=> InHand(t)
                         /\ ToCome(t)' => ToCome(t)
    BY <2>1 DEF Publishing, InHand, ToCome
  <2>4. QED
    BY <2>1, <2>2, <2>3, NoTurnMoves DEF SlotInv
<1>7. QED
  BY <1>1, <1>2, <1>3, <1>4, <1>5, <1>6 DEF Next

(* While each published turn is answered once, before any deadline, and    *)
(* only first dispatches may fail, the in_flight counter of the Dispatcher *)
(* is exactly the number of turns that occupy a slot: dispatch_pending     *)
(* takes one for each turn it pops, a retry keeps it, and each of the two  *)
(* ways a turn can end gives it back once.                                 *)
THEOREM SlotsAreAccounted ==
  ASSUME Faults \subseteq {"dispatch_error"}
  PROVE  Spec => []SlotAccounting
<1>1. Init => SlotInv
  BY SlotInit
<1>2. TypeOK /\ SlotInv /\ [Next]_vars => SlotInv'
  BY SlotNext
<1>3. SlotInv => SlotAccounting
  BY DEF SlotInv, SlotsCounted, Slots, SlotAccounting
<1>4. Spec => []TypeOK
  BY TypeCorrect
<1>5. QED
  BY <1>1, <1>2, <1>3, <1>4, PTL DEF Spec

(* on_turn_terminal is the callback of every terminal turn: under the same *)
(* conditions, once every started turn is over and nobody is at work, all  *)
(* slots of the Dispatcher are free again.                                 *)
THEOREM SlotsComeBack ==
  ASSUME Faults \subseteq {"dispatch_error"}
  PROVE  Spec => []NoSlotLeak
<1>1. Init => SlotInv
  BY SlotInit
<1>2. TypeOK /\ SlotInv /\ [Next]_vars => SlotInv'
  BY SlotNext
<1>3. SlotInv => NoSlotLeak
  <2>1. SUFFICES ASSUME SlotInv, AtRest
                 PROVE  inFlight = 0
    BY DEF NoSlotLeak
  <2>2. \A t \in Tasks : ~HoldsSlot(t)
    BY <2>1, ActorsDistinct DEF AtRest, HoldsSlot
  <2>3. Slots = {}
    BY <2>2 DEF Slots
  <2>4. QED
    BY <2>1, <2>3, FS_EmptySet DEF SlotInv, SlotsCounted
<1>4. Spec => []TypeOK
  BY TypeCorrect
<1>5. QED
  BY <1>1, <1>2, <1>3, <1>4, PTL DEF Spec

=============================================================================
