--------------------------- MODULE TaskLog_proofs ---------------------------
(* Theorems about TaskLog, for every set of steps and tokens, every batch  *)
(* and every threshold.                                                    *)
EXTENDS TaskLog, FoldLemmas, FiniteSetTheorems

(* A turn has a start after all its ends. *)
StartIsLast(L, t) ==
  \E j \in 1 .. Len(L) :
    /\ L[j].type = "turn_started" /\ L[j].turn = t
    /\ \A k \in 1 .. Len(L) : L[k].type \in TurnTerminal /\ L[k].turn = t => k < j

(* A turn that was not started in a batch is new to the log when it starts. *)
StartsAreNew ==
  \A i \in 1 .. Len(log) : log[i].type = "turn_started" /\ log[i].step = NoStep =>
    log[i].turn # NoTurn /\ \A k \in 1 .. i - 1 : log[k].turn < log[i].turn

(* Turns in the log are bounded by max_turn_id, which is why a start is    *)
(* new, and the active turns are those with a start after all their ends.  *)
TurnInv ==
  /\ \A i \in 1 .. Len(log) : log[i].turn <= proj.maxTurn
  /\ StartsAreNew
  /\ \A t : t \in IncompleteTurns(proj) <=> StartIsLast(log, t)

LogInv == LogTypeOK /\ TurnInv /\ StepsCovered

(* What may be added to the log: it is of its type, a step event names a   *)
(* step, and a turn event a turn.                                          *)
Proper(e) ==
  /\ e \in Events
  /\ e.type \in StepTypes => e.step \in Steps

(* A turn that starts has a new number, or comes in a batch. *)
NewStart(e) ==
  e.type = "turn_started" => e.turn = proj.maxTurn + 1 \/ e.step # NoStep

LEMMA TypesDistinct ==
  /\ "turn_started" \notin TurnTerminal /\ "turn_started" \notin StepTypes
  /\ TurnTerminal \cap StepTypes = {} /\ StepStart \cap StepTerminal = {}
  /\ StepTypes = StepStart \cup StepTerminal
  /\ "turn_started" \notin StepStart \cup StepTerminal
  /\ "summary_marker" \notin StepStart \cup StepTerminal \cup TurnTerminal
  /\ TurnTerminal \cap SessionTypes = {} /\ StepTypes \cap SessionTypes = {}
  /\ StepTypes \cap (SessionTypes \cup TaskTypes \cup TurnTypes) = {}
BY DEF TurnTerminal, StepTypes, StepStart, StepTerminal, SessionTypes, TaskTypes,
   TurnTypes

LEMMA AddedIsProper ==
  ASSUME NEW e \in Events, Write(e) \/ WriteBatch(e)
  PROVE  Proper(e) /\ Written(e) /\ NewStart(e)
<1>1. CASE Write(e)
  <2>1. e.type \in StepTypes => e.step # NoStep
    BY <1>1, TypesDistinct DEF Write, Accepted, ValidScope
  <2>2. QED
    BY <1>1, <2>1 DEF Write, Accepted, Proper, Events, NewStart
<1>2. CASE WriteBatch(e)
  BY <1>2 DEF WriteBatch, Proper, Events, NewStart
<1>3. QED
  BY <1>1, <1>2

(* The log after an event. *)
LEMMA Appended ==
  ASSUME log \in Seq(Events), NEW e \in Events, Written(e)
  PROVE  /\ Len(log) \in Nat /\ log' \in Seq(Events) /\ Len(log') = Len(log) + 1
         /\ log'[Len(log) + 1] = e
         /\ \A i \in 1 .. Len(log) : log'[i] = log[i]
         /\ 1 .. Len(log') = (1 .. Len(log)) \cup {Len(log) + 1}
<1>1. log' = Append(log, e)
  BY DEF Written
<1>2. /\ Len(log) \in Nat /\ log' \in Seq(Events) /\ Len(log') = Len(log) + 1
      /\ log'[Len(log) + 1] = e
      /\ \A i \in 1 .. Len(log) : log'[i] = log[i]
  BY <1>1
<1>3. QED
  BY <1>2

(* The projection after an event, field by field (TaskProjection::apply). *)
LEMMA Projected ==
  ASSUME NEW e, Written(e)
  PROVE  /\ proj'.maxSeq = MaxSeq(proj, Len(log) + 1)
         /\ proj'.maxTurn = IF e.turn > proj.maxTurn THEN e.turn ELSE proj.maxTurn
         /\ proj'.activeTurns = ActiveTurns(proj, e)
         /\ proj'.startedAt = StartedAt(proj, Len(log) + 1, e)
         /\ proj'.ended = IF e.type \in StepTerminal /\ proj.startedAt[e.step] # 0
                          THEN proj.ended \cup {e.step} ELSE proj.ended
         /\ proj'.summaryAt = IF e.type = "summary_marker" THEN e.data ELSE proj.summaryAt
         /\ proj'.tokens = TokensAdded(proj, e)
BY DEF Written, LogApplied

LEMMA StartedAtCases ==
  ASSUME NEW p, NEW seq, NEW e
  PROVE  /\ e.type \in StepStart =>
              StartedAt(p, seq, e) = [p.startedAt EXCEPT ![e.step] = seq]
         /\ e.type \in StepTerminal =>
              StartedAt(p, seq, e) = [p.startedAt EXCEPT ![e.step] = 0]
         /\ e.type \notin StepStart \cup StepTerminal =>
              StartedAt(p, seq, e) = p.startedAt
<1>1. CASE e.type \in StepStart
  <2>1. e.type \notin StepTerminal
    BY <1>1, TypesDistinct
  <2>2. QED
    BY <1>1, <2>1 DEF StartedAt
<1>2. CASE e.type \in StepTerminal
  <2>1. e.type \notin StepStart
    BY <1>2, TypesDistinct
  <2>2. QED
    BY <1>2, <2>1 DEF StartedAt
<1>3. CASE e.type \notin StepStart \cup StepTerminal
  BY <1>3 DEF StartedAt
<1>4. QED
  BY <1>1, <1>2, <1>3

LEMMA ActiveTurnsCases ==
  ASSUME NEW p, NEW e
  PROVE  /\ e.type = "turn_started" =>
              ActiveTurns(p, e) = p.activeTurns \cup {e.turn}
         /\ e.type \in TurnTerminal =>
              ActiveTurns(p, e) = p.activeTurns \ {e.turn}
         /\ e.type \notin TurnTerminal \cup {"turn_started"} =>
              ActiveTurns(p, e) = p.activeTurns
<1>1. CASE e.type = "turn_started"
  <2>1. e.type \notin TurnTerminal
    BY <1>1, TypesDistinct
  <2>2. QED
    BY <1>1, <2>1 DEF ActiveTurns
<1>2. CASE e.type \in TurnTerminal
  <2>1. e.type # "turn_started"
    BY <1>2, TypesDistinct
  <2>2. QED
    BY <1>2, <2>1 DEF ActiveTurns
<1>3. CASE e.type \notin TurnTerminal \cup {"turn_started"}
  BY <1>3 DEF ActiveTurns
<1>4. QED
  BY <1>1, <1>2, <1>3

LEMMA LogTypeInit == LogInit => LogTypeOK
BY DEF LogInit, LogTypeOK, EmptyLogProjection

LEMMA LogTypeStep ==
  ASSUME LogTypeOK, NEW e, Proper(e), Written(e)
  PROVE  LogTypeOK'
<1>1. /\ e \in Events /\ e.turn \in Nat /\ log \in Seq(Events)
      /\ (e.type \in StepTypes => e.step \in Steps)
  BY DEF Proper, Events, LogTypeOK
<1>2. /\ Len(log) \in Nat /\ log' \in Seq(Events) /\ Len(log') = Len(log) + 1
  BY <1>1, Appended
<1>3. proj'.maxSeq = Len(log')
  <2>1. proj'.maxSeq = MaxSeq(proj, Len(log) + 1) /\ proj.maxSeq = Len(log)
    BY Projected DEF LogTypeOK
  <2>2. QED
    BY <1>2, <2>1 DEF MaxSeq
<1>4. proj'.maxTurn \in Nat
  BY <1>1, Projected DEF LogTypeOK
<1>5. proj'.activeTurns \subseteq Nat
  <2>1. proj'.activeTurns = ActiveTurns(proj, e) /\ proj.activeTurns \subseteq Nat
    BY Projected DEF LogTypeOK
  <2>2. ActiveTurns(proj, e) \subseteq proj.activeTurns \cup {e.turn}
    BY DEF ActiveTurns
  <2>3. QED
    BY <1>1, <2>1, <2>2
<1>6. proj'.startedAt \in [Steps -> Nat]
  <2>1. proj'.startedAt = StartedAt(proj, Len(log) + 1, e)
    BY Projected
  <2>2. proj.startedAt \in [Steps -> Nat] /\ Len(log) + 1 \in Nat
    BY <1>2 DEF LogTypeOK
  <2>3. QED
    BY <2>1, <2>2, StartedAtCases
<1>7. proj'.ended \subseteq Steps
  BY <1>1, Projected DEF StepTypes, LogTypeOK
<1>8. QED
  BY <1>2, <1>3, <1>4, <1>5, <1>6, <1>7 DEF LogTypeOK

(* Membership in the reference's incomplete turns, spelled out. *)
LEMMA InRefTurns ==
  ASSUME NEW L, NEW t
  PROVE  t \in RefIncompleteTurns(L) <=>
           \E i \in 1 .. Len(L) :
             /\ L[i].type = "turn_started" /\ L[i].turn = t
             /\ \A j \in 1 .. Len(L) : L[j].type \in TurnTerminal => L[j].turn # t
BY DEF RefIncompleteTurns, OfType

LEMMA InRefSteps ==
  ASSUME NEW L, NEW s
  PROVE  s \in RefIncompleteSteps(L) <=>
           \E i \in 1 .. Len(L) :
             /\ L[i].type \in StepStart /\ L[i].step = s
             /\ \A j \in 1 .. Len(L) : L[j].type \in StepTerminal => L[j].step # s
BY DEF RefIncompleteSteps, OfType

(* Membership in the turns that a batch started again, spelled out. *)
LEMMA InRestarted ==
  ASSUME NEW L, NEW t
  PROVE  t \in Restarted(L) <=>
           \E j \in 1 .. Len(L) :
             /\ L[j].type = "turn_started" /\ L[j].turn = t /\ L[j].step # NoStep
             /\ \E i \in 1 .. Len(L) :
                  L[i].type \in TurnTerminal /\ i < j /\ L[i].turn = t
             /\ \A k \in 1 .. Len(L) :
                  L[k].type \in TurnTerminal /\ k > j => L[k].turn # t
BY DEF Restarted, OfType

LEMMA TurnInit == LogInit => TurnInv
<1> SUFFICES ASSUME LogInit PROVE TurnInv
  OBVIOUS
<1>1. Len(log) = 0
  BY DEF LogInit
<1>2. \A t : ~ StartIsLast(log, t)
  BY <1>1 DEF StartIsLast
<1>3. IncompleteTurns(proj) = {}
  BY DEF LogInit, IncompleteTurns, EmptyLogProjection
<1>4. QED
  BY <1>1, <1>2, <1>3 DEF TurnInv, StartsAreNew

LEMMA TurnStep ==
  ASSUME LogTypeOK, TurnInv, NEW e, Proper(e), Written(e), NewStart(e)
  PROVE  TurnInv'
<1>1. e \in Events /\ e.turn \in Nat /\ proj.maxTurn \in Nat /\ log \in Seq(Events)
  BY DEF Proper, Events, LogTypeOK
<1>2. /\ Len(log) \in Nat
      /\ log'[Len(log) + 1] = e
      /\ \A i \in 1 .. Len(log) : log'[i] = log[i] /\ log[i] \in Events
      /\ 1 .. Len(log') = (1 .. Len(log)) \cup {Len(log) + 1}
  BY <1>1, Appended
<1>3. \A i \in 1 .. Len(log) : log[i].turn \in Nat /\ log[i].turn <= proj.maxTurn
  BY <1>2 DEF TurnInv, Events
<1>4. \A i \in 1 .. Len(log') : log'[i].turn <= proj'.maxTurn
  <2>1. proj'.maxTurn = IF e.turn > proj.maxTurn THEN e.turn ELSE proj.maxTurn
    BY Projected
  <2>2. proj'.maxTurn \in Nat /\ proj.maxTurn <= proj'.maxTurn /\ e.turn <= proj'.maxTurn
    BY <2>1, <1>1
  <2>3. ASSUME NEW i \in 1 .. Len(log) PROVE log'[i].turn <= proj'.maxTurn
    <3>1. log'[i].turn = log[i].turn /\ log[i].turn \in Nat /\ log[i].turn <= proj.maxTurn
      BY <1>2, <1>3
    <3>2. QED
      BY <1>1, <2>2, <3>1
  <2>4. QED
    BY <2>2, <2>3, <1>2
<1>5. StartsAreNew'
  <2>1. SUFFICES ASSUME NEW i \in 1 .. Len(log'),
                        log'[i].type = "turn_started", log'[i].step = NoStep
                 PROVE  log'[i].turn # NoTurn
                        /\ \A k \in 1 .. i - 1 : log'[k].turn < log'[i].turn
    BY DEF StartsAreNew
  <2>2. CASE i = Len(log) + 1
    <3>1. e.turn = proj.maxTurn + 1
      BY <1>2, <2>1, <2>2 DEF NewStart
    <3>2. log'[i].turn = proj.maxTurn + 1
      BY <1>2, <2>2, <3>1
    <3>3. ASSUME NEW k \in 1 .. i - 1 PROVE log'[k].turn < log'[i].turn
      <4>1. k \in 1 .. Len(log)
        BY <1>2, <2>2
      <4>2. log'[k].turn = log[k].turn /\ log[k].turn \in Nat /\ log[k].turn <= proj.maxTurn
        BY <1>2, <1>3, <4>1
      <4>3. QED
        BY <1>1, <3>2, <4>2
    <3>4. QED
      BY <1>1, <3>2, <3>3 DEF NoTurn
  <2>3. CASE i \in 1 .. Len(log)
    <3>1. log[i].turn # NoTurn /\ \A k \in 1 .. i - 1 : log[k].turn < log[i].turn
      BY <1>2, <2>1, <2>3 DEF TurnInv, StartsAreNew
    <3>2. \A k \in 1 .. i - 1 : k \in 1 .. Len(log)
      BY <1>2, <2>3
    <3>3. QED
      BY <1>2, <2>3, <3>1, <3>2
  <2>4. QED
    BY <1>2, <2>2, <2>3
<1>6. ASSUME NEW t PROVE StartIsLast(log', t) <=> t \in IncompleteTurns(proj')
  <2>1. StartIsLast(log, t) <=> t \in proj.activeTurns
    BY DEF TurnInv, IncompleteTurns
  <2>2. IncompleteTurns(proj') = ActiveTurns(proj, e)
    BY Projected DEF IncompleteTurns
  <2>3. CASE e.type = "turn_started" /\ e.turn = t
    <3>1. StartIsLast(log', t)
      BY <2>3, <1>2, TypesDistinct DEF StartIsLast
    <3>2. QED
      BY <3>1, <2>2, <2>3, ActiveTurnsCases
  <2>4. CASE e.type \in TurnTerminal /\ e.turn = t
    <3>1. ~ StartIsLast(log', t)
      BY <2>4, <1>2 DEF StartIsLast
    <3>2. QED
      BY <3>1, <2>2, <2>4, ActiveTurnsCases
  <2>5. CASE ~(e.turn = t /\ e.type \in TurnTerminal \cup {"turn_started"})
    <3>1. StartIsLast(log', t) <=> StartIsLast(log, t)
      BY <2>5, <1>2 DEF StartIsLast
    <3>2. t \in ActiveTurns(proj, e) <=> t \in proj.activeTurns
      BY <2>5, ActiveTurnsCases
    <3>3. QED
      BY <3>1, <3>2, <2>1, <2>2
  <2>6. QED
    BY <2>3, <2>4, <2>5
<1>7. \A t : (t \in IncompleteTurns(proj) <=> StartIsLast(log, t))'
  BY <1>6 DEF StartIsLast, IncompleteTurns
<1>8. QED
  BY <1>4, <1>5, <1>7 DEF TurnInv

(* A start after all ends of its turn is the start of a turn without ends, *)
(* or it came in a batch, since other starts are new.                      *)
LEMMA TurnsAreThese ==
  ASSUME LogTypeOK, TurnInv
  PROVE  TurnsAgree
<1>1. Len(log) \in Nat /\ \A i \in 1 .. Len(log) : log[i].turn \in Nat
  <2>1. Len(log) \in Nat /\ \A i \in 1 .. Len(log) : log[i] \in Events
    BY DEF LogTypeOK
  <2>2. QED
    BY <2>1 DEF Events
<1>2. ASSUME NEW t, StartIsLast(log, t)
      PROVE  t \in RefIncompleteTurns(log) \cup Restarted(log)
  <2>1. PICK j \in 1 .. Len(log) :
          /\ log[j].type = "turn_started" /\ log[j].turn = t
          /\ \A k \in 1 .. Len(log) :
               log[k].type \in TurnTerminal /\ log[k].turn = t => k < j
    BY <1>2 DEF StartIsLast
  <2>2. CASE \A k \in 1 .. Len(log) : log[k].type \in TurnTerminal => log[k].turn # t
    BY <2>1, <2>2, InRefTurns
  <2>3. CASE \E k \in 1 .. Len(log) : log[k].type \in TurnTerminal /\ log[k].turn = t
    <3>1. PICK i \in 1 .. Len(log) : log[i].type \in TurnTerminal /\ log[i].turn = t
      BY <2>3
    <3>2. i < j
      BY <2>1, <3>1
    <3>3. log[j].step # NoStep
      <4>1. i \in 1 .. j - 1 /\ ~ (log[i].turn < log[j].turn)
        BY <1>1, <2>1, <3>1, <3>2
      <4>2. QED
        BY <2>1, <4>1 DEF TurnInv, StartsAreNew
    <3>4. \A k \in 1 .. Len(log) : log[k].type \in TurnTerminal /\ k > j => log[k].turn # t
      BY <1>1, <2>1
    <3>5. QED
      BY <2>1, <3>1, <3>2, <3>3, <3>4, InRestarted
  <2>4. QED
    BY <2>2, <2>3
<1>3. ASSUME NEW t, t \in RefIncompleteTurns(log) PROVE StartIsLast(log, t)
  BY <1>3, InRefTurns DEF StartIsLast
<1>4. ASSUME NEW t, t \in Restarted(log) PROVE StartIsLast(log, t)
  <2>1. PICK j \in 1 .. Len(log) :
          /\ log[j].type = "turn_started" /\ log[j].turn = t
          /\ \A k \in 1 .. Len(log) :
               log[k].type \in TurnTerminal /\ k > j => log[k].turn # t
    BY <1>4, InRestarted
  <2>2. ASSUME NEW k \in 1 .. Len(log), log[k].type \in TurnTerminal, log[k].turn = t
        PROVE  k < j
    <3>1. k # j /\ ~ (k > j)
      BY <2>1, <2>2, TypesDistinct
    <3>2. QED
      BY <1>1, <3>1
  <2>3. QED
    BY <2>1, <2>2 DEF StartIsLast
<1>5. \A t : t \in IncompleteTurns(proj) <=> t \in RefIncompleteTurns(log) \cup Restarted(log)
  BY <1>2, <1>3, <1>4 DEF TurnInv
<1>6. QED
  BY <1>5 DEF TurnsAgree

LEMMA StepInit == LogInit => StepsCovered
<1> SUFFICES ASSUME LogInit PROVE StepsCovered
  OBVIOUS
<1>1. Len(log) = 0
  BY DEF LogInit
<1>2. QED
  BY <1>1, InRefSteps DEF StepsCovered

LEMMA StepStep ==
  ASSUME LogTypeOK, StepsCovered, NEW e, Proper(e), Written(e)
  PROVE  StepsCovered'
<1>1. /\ e \in Events /\ log \in Seq(Events)
      /\ proj.startedAt \in [Steps -> Nat] /\ proj'.startedAt \in [Steps -> Nat]
      /\ (e.type \in StepTypes => e.step \in Steps)
  BY LogTypeStep DEF Proper, LogTypeOK
<1>2. /\ Len(log) \in Nat
      /\ log'[Len(log) + 1] = e
      /\ \A i \in 1 .. Len(log) : log'[i] = log[i]
      /\ 1 .. Len(log') = (1 .. Len(log)) \cup {Len(log) + 1}
  BY <1>1, Appended
<1>3. proj'.startedAt = StartedAt(proj, Len(log) + 1, e)
  BY Projected
<1>4. ASSUME NEW s, s \in RefIncompleteSteps(log') PROVE s \in IncompleteSteps(proj')
  <2>1. PICK i \in 1 .. Len(log') :
             /\ log'[i].type \in StepStart /\ log'[i].step = s
             /\ \A j \in 1 .. Len(log') : log'[j].type \in StepTerminal => log'[j].step # s
    BY <1>4, InRefSteps
  <2>2. ~(e.type \in StepTerminal /\ e.step = s)
    BY <2>1, <1>2
  <2>3. CASE e.type \in StepStart /\ e.step = s
    <3>1. s \in Steps
      BY <2>3, <1>1 DEF StepTypes
    <3>2. proj'.startedAt[s] = Len(log) + 1
      BY <2>3, <3>1, <1>1, <1>3, StartedAtCases
    <3>3. QED
      BY <3>1, <3>2, <1>2 DEF IncompleteSteps
  <2>4. CASE ~(e.type \in StepStart /\ e.step = s)
    <3>1. i \in 1 .. Len(log) /\ log'[i] = log[i]
      BY <2>1, <2>4, <1>2
    <3>2. s \in RefIncompleteSteps(log)
      BY <3>1, <2>1, <1>2, InRefSteps, SMTT(30)
    <3>3. s \in Steps /\ proj.startedAt[s] # 0
      BY <3>2 DEF StepsCovered, IncompleteSteps
    <3>4. proj'.startedAt[s] = proj.startedAt[s]
      BY <2>2, <2>4, <3>3, <1>1, <1>3, StartedAtCases
    <3>5. QED
      BY <3>3, <3>4 DEF IncompleteSteps
  <2>5. QED
    BY <2>3, <2>4
<1>5. QED
  BY <1>4 DEF StepsCovered, RefIncompleteSteps, IncompleteSteps, OfType

LEMMA LogStepKeeps == LogInv /\ [LogNext]_logVars => LogInv'
<1> SUFFICES ASSUME LogInv, [LogNext]_logVars PROVE LogInv'
  OBVIOUS
<1>1. CASE UNCHANGED logVars
  BY <1>1 DEF logVars, LogInv, LogTypeOK, TurnInv, StartsAreNew, StartIsLast,
     StepsCovered, IncompleteTurns, IncompleteSteps, RefIncompleteSteps, OfType
<1>2. CASE LogNext
  <2>1. PICK e \in Events : Write(e) \/ WriteBatch(e)
    BY <1>2 DEF LogNext
  <2>2. Proper(e) /\ Written(e) /\ NewStart(e)
    BY <2>1, AddedIsProper
  <2>3. QED
    BY <2>2, LogTypeStep, TurnStep, StepStep DEF LogInv
<1>3. QED
  BY <1>1, <1>2

LEMMA LogInvInit == LogInit => LogInv
BY LogTypeInit, TurnInit, StepInit DEF LogInv

LEMMA LogInvariant == LogSpec => []LogInv
BY LogInvInit, LogStepKeeps, PTL DEF LogSpec

(* The log and the projection stay in their types, and max_seq is the      *)
(* length of the log.                                                      *)
THEOREM LogTypeCorrect == LogSpec => []LogTypeOK
BY LogInvariant, PTL DEF LogInv

(* The turns that production finds incomplete (get_incomplete_turns over   *)
(* the projection) are those of the reference and those that a batch       *)
(* started again after their end, after any sequence of events that        *)
(* write_event lets into the log and any batches, of events of any type.   *)
THEOREM IncompleteTurnsAgree == LogSpec => []TurnsAgree
<1>1. LogInv => TurnsAgree
  BY TurnsAreThese DEF LogInv
<1>2. QED
  BY <1>1, LogInvariant, PTL

(* No order of starts, ends and repeats, batches included, hides a step    *)
(* that is in flight by the log from recovery.                             *)
THEOREM NoStepIsHidden == LogSpec => []StepsCovered
<1>1. LogInv => StepsCovered
  BY DEF LogInv
<1>2. QED
  BY <1>1, LogInvariant, PTL

-----------------------------------------------------------------------------
(* The numbers of the projection are those of the log.                     *)

(* What an event adds to the tokens after position n. *)
TokensOf(L, n, i) ==
  IF i > n /\ L[i].type = "llm_completed" THEN L[i].data ELSE 0

(* The sum in RefTokensAfter, by its recursion. *)
LEMMA TokenSum ==
  ASSUME NEW L \in Seq(Events), NEW n \in Nat
  PROVE  \E f \in [0 .. Len(L) -> Nat] :
           /\ f[0] = 0
           /\ \A i \in 1 .. Len(L) : f[i] = f[i - 1] + TokensOf(L, n, i)
           /\ RefTokensAfter(L, n) = f[Len(L)]
<1> DEFINE t == [i \in 1 .. Len(L) |-> TokensOf(L, n, i)]
           body(s) == [i \in 0 .. Len(L) |->
                         IF i = 0 THEN 0
                         ELSE s[i - 1] + (IF i > n /\ L[i].type = "llm_completed"
                                          THEN L[i].data ELSE 0)]
           sum == CHOOSE s : s = body(s)
<1>1. Len(L) \in Nat
  OBVIOUS
<1>2. t \in [1 .. Len(L) -> Nat] /\ \A i \in 1 .. Len(L) : t[i] = TokensOf(L, n, i)
  <2>1. \A i \in 1 .. Len(L) : TokensOf(L, n, i) \in Nat
    <3>1. TAKE i \in 1 .. Len(L)
    <3>2. L[i] \in Events
      OBVIOUS
    <3>3. QED
      BY <3>2 DEF TokensOf, Events
  <2>2. QED
    BY <2>1
<1> HIDE DEF t
<1>3. PICK f \in [0 .. Len(L) -> Nat] :
        f[0] = 0 /\ \A i \in 1 .. Len(L) : f[i] = f[i - 1] + t[i]
  BY <1>1, <1>2, SumExists DEF PartialSums
<1>4. \A i \in 1 .. Len(L) : f[i] = f[i - 1] + TokensOf(L, n, i)
  BY <1>2, <1>3
<1>5. f = body(f)
  <2>1. \A i \in 0 .. Len(L) : f[i] = body(f)[i]
    BY <1>3, <1>4 DEF TokensOf
  <2>2. QED
    BY <2>1
<1>6. sum = body(sum)
  <2> HIDE DEF body
  <2>1. QED
    BY <1>5
<1>7. RefTokensAfter(L, n) = sum[Len(L)]
  BY DEF RefTokensAfter
<1> HIDE DEF sum
<1>8. sum[0] = f[0] /\ \A i \in 1 .. Len(L) : sum[i] = sum[i - 1] + TokensOf(L, n, i)
  BY <1>1, <1>3, <1>6 DEF TokensOf
<1>9. \A i \in 1 .. Len(L) : sum[i - 1] = f[i - 1] => sum[i] = f[i]
  BY <1>4, <1>8
<1>10. sum[Len(L)] = f[Len(L)]
  <2>1. SameUpTo(sum, f, Len(L))
    BY <1>1, <1>8, <1>9, RecursionUnique DEF SameRecursion
  <2>2. QED
    BY <1>1, <2>1 DEF SameUpTo
<1>11. QED
  BY <1>3, <1>4, <1>7, <1>10

LEMMA TokensAreNat ==
  ASSUME NEW L \in Seq(Events)
  PROVE  RefTokensAfter(L, 0) \in Nat /\ (L = <<>> => RefTokensAfter(L, 0) = 0)
<1>1. PICK n \in Nat : n = 0
  OBVIOUS
<1>2. PICK f \in [0 .. Len(L) -> Nat] : f[0] = 0 /\ RefTokensAfter(L, n) = f[Len(L)]
  BY TokenSum
<1>3. Len(L) \in 0 .. Len(L) /\ (L = <<>> => Len(L) = 0)
  OBVIOUS
<1>4. QED
  BY <1>1, <1>2, <1>3

(* An event at the end of the log adds its tokens. *)
LEMMA TokensAppended ==
  ASSUME NEW L \in Seq(Events), NEW M \in Seq(Events), NEW n \in Nat,
         Len(M) = Len(L) + 1, \A i \in 1 .. Len(L) : M[i] = L[i]
  PROVE  RefTokensAfter(M, n) = RefTokensAfter(L, n) + TokensOf(M, n, Len(M))
<1>1. Len(L) \in Nat /\ Len(M) \in Nat /\ 1 .. Len(L) \subseteq 1 .. Len(M)
  OBVIOUS
<1>2. PICK f \in [0 .. Len(L) -> Nat] :
           /\ f[0] = 0
           /\ \A i \in 1 .. Len(L) : f[i] = f[i - 1] + TokensOf(L, n, i)
           /\ RefTokensAfter(L, n) = f[Len(L)]
  BY TokenSum
<1>3. PICK g \in [0 .. Len(M) -> Nat] :
           /\ g[0] = 0
           /\ \A i \in 1 .. Len(M) : g[i] = g[i - 1] + TokensOf(M, n, i)
           /\ RefTokensAfter(M, n) = g[Len(M)]
  BY TokenSum
<1>4. SameRecursion(f, g, Len(L))
  <2>1. \A i \in 1 .. Len(L) : TokensOf(L, n, i) = TokensOf(M, n, i)
    BY DEF TokensOf
  <2>2. QED
    BY <1>1, <1>2, <1>3, <2>1 DEF SameRecursion
<1>5. f[Len(L)] = g[Len(L)]
  <2>1. SameUpTo(f, g, Len(L))
    BY <1>1, <1>4, RecursionUnique
  <2>2. QED
    BY <1>1, <2>1 DEF SameUpTo
<1>6. g[Len(M)] = g[Len(L)] + TokensOf(M, n, Len(M))
  <2>1. Len(M) \in 1 .. Len(M) /\ Len(M) - 1 = Len(L)
    BY <1>1
  <2>2. QED
    BY <1>3, <2>1
<1>7. QED
  BY <1>2, <1>3, <1>5, <1>6

(* What the references for the largest turn and the last summary choose. *)
IsMaxTurn(L, m) ==
  /\ m = 0 \/ \E i \in 1 .. Len(L) : L[i].turn = m
  /\ \A i \in 1 .. Len(L) : L[i].turn <= m

IsSummary(L, n) ==
  \/ OfType(L, {"summary_marker"}) = {} /\ n = 0
  \/ \E i \in OfType(L, {"summary_marker"}) :
       L[i].data = n /\ \A j \in OfType(L, {"summary_marker"}) : j <= i

LEMMA MaxTurnIs ==
  ASSUME NEW L \in Seq(Events), NEW m \in Nat, IsMaxTurn(L, m)
  PROVE  RefMaxTurn(L) = m
<1> DEFINE turns == {0} \cup {L[i].turn : i \in 1 .. Len(L)}
<1>1. \A i \in 1 .. Len(L) : L[i].turn \in Nat
  <2>1. \A i \in 1 .. Len(L) : L[i] \in Events
    OBVIOUS
  <2>2. QED
    BY <2>1 DEF Events
<1>2. turns \subseteq Nat /\ m \in turns /\ \A u \in turns : u <= m
  BY <1>1 DEF IsMaxTurn
<1>3. RefMaxTurn(L) = CHOOSE t \in turns : \A u \in turns : u <= t
  BY DEF RefMaxTurn
<1> HIDE DEF turns
<1>4. RefMaxTurn(L) \in turns /\ \A u \in turns : u <= RefMaxTurn(L)
  BY <1>2, <1>3
<1>5. RefMaxTurn(L) <= m /\ m <= RefMaxTurn(L)
  BY <1>2, <1>4
<1>6. RefMaxTurn(L) \in Nat
  BY <1>2, <1>4
<1>7. QED
  BY <1>5, <1>6

LEMMA SummaryIs ==
  ASSUME NEW L \in Seq(Events), NEW n, IsSummary(L, n)
  PROVE  RefSummaryAt(L) = n
<1> DEFINE marks == OfType(L, {"summary_marker"})
           last == CHOOSE i \in marks : \A j \in marks : j <= i
<1>1. marks \subseteq Nat
  BY DEF OfType
<1>2. CASE marks = {}
  BY <1>2 DEF IsSummary, RefSummaryAt
<1>3. CASE marks # {}
  <2>1. PICK i \in marks : L[i].data = n /\ \A j \in marks : j <= i
    BY <1>3 DEF IsSummary
  <2> HIDE DEF marks
  <2>2. last \in marks /\ \A j \in marks : j <= last
    BY <2>1
  <2>3. last = i
    <3>1. last \in Nat /\ i \in Nat /\ last <= i /\ i <= last
      BY <1>1, <2>1, <2>2
    <3>2. QED
      BY <3>1
  <2>4. RefSummaryAt(L) = L[last].data
    BY <1>3 DEF RefSummaryAt, marks
  <2>5. QED
    BY <2>1, <2>3, <2>4
<1>4. QED
  BY <1>2, <1>3

(* The numbers of the projection. *)
NumbersInv ==
  /\ IsMaxTurn(log, proj.maxTurn)
  /\ proj.tokens = RefTokensAfter(log, 0)
  /\ IsSummary(log, proj.summaryAt) /\ proj.summaryAt \in Nat

LEMMA NumbersInit == LogInit => NumbersInv
<1> SUFFICES ASSUME LogInit PROVE NumbersInv
  OBVIOUS
<1>1. log = <<>> /\ Len(log) = 0 /\ log \in Seq(Events)
  BY DEF LogInit
<1>2. proj.maxTurn = 0 /\ proj.tokens = 0 /\ proj.summaryAt = 0
  BY DEF LogInit, EmptyLogProjection
<1>3. RefTokensAfter(log, 0) = 0
  BY <1>1, TokensAreNat
<1>4. OfType(log, {"summary_marker"}) = {}
  BY <1>1 DEF OfType
<1>5. QED
  BY <1>1, <1>2, <1>3, <1>4 DEF NumbersInv, IsMaxTurn, IsSummary

LEMMA NumbersStep ==
  ASSUME LogTypeOK, NumbersInv, NEW e, Proper(e), Written(e)
  PROVE  NumbersInv'
<1>1. /\ e \in Events /\ e.turn \in Nat /\ e.data \in Nat /\ log \in Seq(Events)
      /\ proj.maxTurn \in Nat
  BY DEF Proper, Events, LogTypeOK
<1>2. /\ Len(log) \in Nat /\ log' \in Seq(Events) /\ Len(log') = Len(log) + 1
      /\ log'[Len(log) + 1] = e
      /\ \A i \in 1 .. Len(log) : log'[i] = log[i]
      /\ 1 .. Len(log') = (1 .. Len(log)) \cup {Len(log) + 1}
  BY <1>1, Appended
<1>3. \A i \in 1 .. Len(log) : log[i].turn \in Nat
  <2>1. \A i \in 1 .. Len(log) : log[i] \in Events
    BY <1>1
  <2>2. QED
    BY <2>1 DEF Events
<1>4. proj'.maxTurn = (IF e.turn > proj.maxTurn THEN e.turn ELSE proj.maxTurn)
  BY Projected
<1>5. IsMaxTurn(log, proj.maxTurn)'
  <2>1. \A i \in 1 .. Len(log) : log[i].turn <= proj.maxTurn
    BY DEF NumbersInv, IsMaxTurn
  <2>2. \A i \in 1 .. Len(log') : log'[i].turn <= proj'.maxTurn
    <3>1. /\ proj'.maxTurn \in Nat
          /\ proj.maxTurn <= proj'.maxTurn /\ e.turn <= proj'.maxTurn
      BY <1>1, <1>4
    <3>2. ASSUME NEW i \in 1 .. Len(log) PROVE log'[i].turn <= proj'.maxTurn
      <4>1. /\ log'[i].turn = log[i].turn /\ log[i].turn \in Nat
            /\ log[i].turn <= proj.maxTurn
        BY <1>2, <1>3, <2>1
      <4>2. QED
        BY <1>1, <3>1, <4>1
    <3>3. QED
      BY <1>2, <3>1, <3>2
  <2>3. CASE e.turn > proj.maxTurn
    BY <1>2, <1>4, <2>2, <2>3 DEF IsMaxTurn
  <2>4. CASE ~ (e.turn > proj.maxTurn)
    <3>1. proj'.maxTurn = proj.maxTurn
      BY <1>4, <2>4
    <3>2. proj.maxTurn = 0 \/ \E i \in 1 .. Len(log) : log[i].turn = proj.maxTurn
      BY DEF NumbersInv, IsMaxTurn
    <3>3. proj'.maxTurn = 0 \/ \E i \in 1 .. Len(log') : log'[i].turn = proj'.maxTurn
      BY <1>2, <3>1, <3>2
    <3>4. QED
      BY <2>2, <3>3 DEF IsMaxTurn
  <2>5. QED
    BY <2>3, <2>4
<1>6. (proj.tokens = RefTokensAfter(log, 0))'
  <2>1. proj'.tokens = TokensAdded(proj, e)
    BY Projected
  <2>2. PICK L : L = log'
    OBVIOUS
  <2>3. RefTokensAfter(L, 0) = RefTokensAfter(log, 0) + TokensOf(L, 0, Len(L))
    BY <1>1, <1>2, <2>2, TokensAppended
  <2>4. TokensOf(L, 0, Len(L)) = IF e.type = "llm_completed" THEN e.data ELSE 0
    BY <1>2, <2>2 DEF TokensOf
  <2>5. RefTokensAfter(log, 0) \in Nat
    BY <1>1, TokensAreNat
  <2>6. QED
    BY <2>1, <2>2, <2>3, <2>4, <2>5 DEF NumbersInv, TokensAdded
<1>7. IsSummary(log, proj.summaryAt)' /\ proj'.summaryAt \in Nat
  <2>1. proj'.summaryAt = IF e.type = "summary_marker" THEN e.data ELSE proj.summaryAt
    BY Projected
  <2>2. OfType(log, {"summary_marker"})' =
          OfType(log, {"summary_marker"})
            \cup (IF e.type = "summary_marker" THEN {Len(log) + 1} ELSE {})
    BY <1>2 DEF OfType
  <2>3. OfType(log, {"summary_marker"}) \subseteq 1 .. Len(log)
    BY DEF OfType
  <2>4. CASE e.type = "summary_marker"
    <3>1. Len(log) + 1 \in OfType(log, {"summary_marker"})'
      BY <2>2, <2>4
    <3>2. \A j \in OfType(log, {"summary_marker"})' : j <= Len(log) + 1
      BY <1>2, <2>2, <2>3
    <3>3. QED
      BY <1>1, <1>2, <2>1, <2>4, <3>1, <3>2 DEF IsSummary
  <2>5. CASE e.type # "summary_marker"
    <3>1. OfType(log, {"summary_marker"})' = OfType(log, {"summary_marker"})
      BY <2>2, <2>5
    <3>2. QED
      BY <1>2, <2>1, <2>3, <2>5, <3>1 DEF NumbersInv, IsSummary
  <2>6. QED
    BY <2>4, <2>5
<1>8. QED
  BY <1>5, <1>6, <1>7 DEF NumbersInv

LEMMA NumbersAgree ==
  ASSUME LogTypeOK, NumbersInv
  PROVE  TotalsAgree
<1>1. RefMaxTurn(log) = proj.maxTurn
  BY MaxTurnIs DEF LogTypeOK, NumbersInv
<1>2. RefSummaryAt(log) = proj.summaryAt
  BY SummaryIs DEF LogTypeOK, NumbersInv
<1>3. QED
  BY <1>1, <1>2 DEF NumbersInv, TotalsAgree

(* Each turn the reference counts has an event that production counts: the *)
(* one that started it, since no earlier event is of the turn unless a     *)
(* batch started it.                                                       *)
LEMMA TurnsCounted ==
  ASSUME LogTypeOK, TurnInv, NEW n \in Nat, ~BatchStarted(log, n)
  PROVE  /\ RefTurnsAfter(log, n) \in Nat /\ ProjTurnsAfter(log, n) \in Nat
         /\ RefTurnsAfter(log, n) <= ProjTurnsAfter(log, n)
<1> DEFINE A == {i \in OfType(log, {"turn_started"}) : i > n}
           T == {log[i].turn : i \in A}
           B == {i \in 1 .. Len(log) :
                   /\ log[i].turn # NoTurn
                   /\ \A k \in 1 .. n : k <= Len(log) => log[k].turn # log[i].turn}
<1>1. Len(log) \in Nat /\ \A i \in 1 .. Len(log) : log[i].turn \in Nat
  <2>1. Len(log) \in Nat /\ \A i \in 1 .. Len(log) : log[i] \in Events
    BY DEF LogTypeOK
  <2>2. QED
    BY <2>1 DEF Events
<1>2. IsFiniteSet(1 .. Len(log))
  BY <1>1, FS_Interval
<1>3. IsFiniteSet(A) /\ IsFiniteSet(B)
  <2>1. A \in SUBSET (1 .. Len(log)) /\ B \in SUBSET (1 .. Len(log))
    BY DEF OfType
  <2> HIDE DEF A, B
  <2>2. QED
    BY <1>2, <2>1, FS_Subset
<1>4. A \in SUBSET B
  <2>1. SUFFICES ASSUME NEW i \in A PROVE i \in B
    OBVIOUS
  <2>2. i \in 1 .. Len(log) /\ log[i].type = "turn_started" /\ i > n
    BY DEF OfType
  <2>3. log[i].turn # NoTurn /\ \A k \in 1 .. i - 1 : log[k].turn < log[i].turn
    <3>1. log[i].step = NoStep
      BY <2>2 DEF BatchStarted, OfType
    <3>2. QED
      BY <2>2, <3>1 DEF TurnInv, StartsAreNew
  <2>4. \A k \in 1 .. n : k <= Len(log) => log[k].turn # log[i].turn
    BY <1>1, <2>2, <2>3
  <2>5. QED
    BY <2>2, <2>3, <2>4
<1> DEFINE turn == [i \in A |-> log[i].turn]
<1>5. turn \in Surjection(A, T)
  BY DEF Surjection
<1>6. RefTurnsAfter(log, n) = Cardinality(T) /\ ProjTurnsAfter(log, n) = Cardinality(B)
  BY DEF RefTurnsAfter, ProjTurnsAfter
<1> HIDE DEF A, B, T, turn
<1>7. IsFiniteSet(T) /\ Cardinality(T) <= Cardinality(A)
  BY <1>3, <1>5, FS_Surjection
<1>8. Cardinality(A) <= Cardinality(B)
  BY <1>3, <1>4, FS_Subset
<1>9. Cardinality(T) \in Nat /\ Cardinality(A) \in Nat /\ Cardinality(B) \in Nat
  BY <1>3, <1>7, FS_CardinalityType
<1>10. QED
  BY <1>6, <1>7, <1>8, <1>9

LEMMA EventsCounted ==
  ASSUME LogTypeOK, NEW n \in Nat
  PROVE  /\ RefEventsAfter(log, n) \in Nat /\ ProjEventsAfter(proj, n) \in Nat
         /\ RefEventsAfter(log, n) <= ProjEventsAfter(proj, n)
<1> DEFINE E == {i \in OfType(log, TurnTypes \cup StepTypes) : i > n}
<1>1. Len(log) \in Nat /\ proj.maxSeq = Len(log)
  BY DEF LogTypeOK
<1>2. E \in SUBSET (n + 1 .. Len(log))
  BY DEF OfType
<1>3. IsFiniteSet(n + 1 .. Len(log))
      /\ Cardinality(n + 1 .. Len(log)) = ProjEventsAfter(proj, n)
  <2>1. PICK a, b \in Int : a = n + 1 /\ b = Len(log)
    BY <1>1
  <2>2. IsFiniteSet(a .. b) /\ Cardinality(a .. b) = IF a > b THEN 0 ELSE b - a + 1
    BY FS_Interval
  <2>3. (IF a > b THEN 0 ELSE b - a + 1) = ProjEventsAfter(proj, n)
    BY <1>1, <2>1 DEF ProjEventsAfter
  <2>4. QED
    BY <2>1, <2>2, <2>3
<1>4. RefEventsAfter(log, n) = Cardinality(E)
  BY DEF RefEventsAfter
<1> HIDE DEF E
<1>5. IsFiniteSet(E) /\ Cardinality(E) <= Cardinality(n + 1 .. Len(log))
  BY <1>2, <1>3, FS_Subset
<1>6. Cardinality(E) \in Nat
  BY <1>5, FS_CardinalityType
<1>7. QED
  BY <1>1, <1>3, <1>4, <1>5, <1>6 DEF ProjEventsAfter

LEMMA NoLaterSummary ==
  ASSUME LogTypeOK, TurnInv, NumbersInv
  PROVE  SummaryInTime
<1>1. SUFFICES ASSUME RefTrigger(log), ~BatchStarted(log, RefSummaryAt(log))
               PROVE  ProjTrigger(log, proj)
  BY DEF SummaryInTime
<1>2. PICK n \in Nat : n = proj.summaryAt
  BY DEF NumbersInv
<1>3. RefSummaryAt(log) = n
  BY <1>2, NumbersAgree DEF TotalsAgree
<1>4. ShouldSummarize(RefTurnsAfter(log, n), RefTokensAfter(log, n), RefEventsAfter(log, n))
  BY <1>1, <1>3 DEF RefTrigger
<1>5. ShouldSummarize(ProjTurnsAfter(log, n), RefTokensAfter(log, n), ProjEventsAfter(proj, n))
  BY <1>1, <1>3, <1>4, TurnsCounted, EventsCounted, LogAssumption DEF ShouldSummarize
<1>6. QED
  BY <1>2, <1>5 DEF ProjTrigger

NumberedInv == LogInv /\ NumbersInv

LEMMA NumberedInvariant == LogSpec => []NumberedInv
<1>1. LogInit => NumberedInv
  BY LogInvInit, NumbersInit DEF NumberedInv
<1>2. NumberedInv /\ [LogNext]_logVars => NumberedInv'
  <2>1. SUFFICES ASSUME NumberedInv, [LogNext]_logVars PROVE NumbersInv'
    BY LogStepKeeps DEF NumberedInv
  <2>2. CASE UNCHANGED logVars
    <3>1. log' = log /\ proj' = proj
      BY <2>2 DEF logVars
    <3>2. QED
      BY <2>1, <3>1 DEF NumberedInv, NumbersInv, IsMaxTurn, IsSummary, OfType
  <2>3. CASE LogNext
    <3>1. PICK e \in Events : Write(e) \/ WriteBatch(e)
      BY <2>3 DEF LogNext
    <3>2. Proper(e) /\ Written(e)
      BY <3>1, AddedIsProper
    <3>3. QED
      BY <2>1, <3>2, NumbersStep DEF NumberedInv, LogInv
  <2>4. QED
    BY <2>1, <2>2, <2>3
<1>3. QED
  BY <1>1, <1>2, PTL DEF LogSpec

(* The next turn id, the tokens and the boundary of the last summary that  *)
(* production derives event by event are those of the log.                 *)
THEOREM NumbersAreTheLogs == LogSpec => []TotalsAgree
<1>1. NumberedInv => TotalsAgree
  BY NumbersAgree DEF NumberedInv, LogInv
<1>2. QED
  BY <1>1, NumberedInvariant, PTL

(* Production never asks for a summary later than the reference would, for *)
(* any thresholds, unless a batch started a turn since the last summary.   *)
THEOREM SummaryIsInTime == LogSpec => []SummaryInTime
<1>1. NumberedInv => SummaryInTime
  BY NoLaterSummary DEF NumberedInv, LogInv
<1>2. QED
  BY <1>1, NumberedInvariant, PTL
=============================================================================
