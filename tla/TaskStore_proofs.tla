-------------------------- MODULE TaskStore_proofs --------------------------
(* Theorems about TaskStore, for every number of events and of loads: type *)
(* correctness and the truth of the cache for every set of calls and every *)
(* combination of faults, and for calls that come one after the other the  *)
(* life cycle of the task, the legality of every event, the agreement of   *)
(* the two stores and the uniqueness of turn numbers.                      *)
EXTENDS TaskStore, FiniteSetTheorems, TLAPS

Events == [type : AllEventTypes \cup {"task_created"}, turn : 0 .. MaxEvents]

(* The calls that may still add an event to the log. *)
Busy == {c \in Calls : pc[c] \notin {"idle", "apply"}}

(* Objects exist where they are used. *)
ObjectsInv ==
  /\ cached = NoObject => created < MaxLoads
  /\ \A c \in Calls : pc[c] = "loading" => ref[c] # NoObject

(* Positions lie within the log, which has room for all that are busy. *)
RoomInv ==
  /\ Len(log) + Cardinality(Busy) <= MaxEvents
  /\ \A c \in Calls : pos[c] <= Len(log) /\ (pc[c] = "apply" => pos[c] >= 1)

(* No projection, and no call, knows of a turn that the log does not.      *)
TurnsInv ==
  /\ truth.maxTurn < Len(log)
  /\ \A i \in 1 .. Len(log) :
       /\ log[i].turn <= truth.maxTurn
       /\ log[i].type = "turn_started" => log[i].turn >= 1
  /\ \A o \in Objects : proj[o].maxTurn <= truth.maxTurn
  /\ \A c \in Calls : turn[c] <= truth.maxTurn + 1

(* A call asks for a turn only to start it, and then writes it.            *)
AskedInv ==
  /\ \A c \in Calls : asks[c] = "turn" => op[c] = "turn_started"
  /\ \A c \in Calls : pc[c] \in {"guard", "lock", "apply"} =>
       /\ op[c] # "read"
       /\ op[c] = "turn_started" => turn[c] >= 1

StoreInv == TypeOK /\ ObjectsInv /\ RoomInv /\ TurnsInv /\ AskedInv

-----------------------------------------------------------------------------
(* Lemmas on the operators of the model.                                   *)

LEMMA TypesDistinct ==
  /\ "turn_started" \notin TaskEvents /\ "turn_ended" \notin TaskEvents
  /\ "task_created" \notin AllEventTypes /\ "read" \notin AllEventTypes
  /\ \A t \in AllEventTypes : t \in TaskEvents \/ t \in {"turn_started", "turn_ended"}
BY DEF TaskEvents, AllEventTypes

(* Task events lead to a state. *)
LEMMA TargetsAreStates ==
  ASSUME NEW t \in TaskEvents \cup {"task_created", "turn_started"}
  PROVE  TargetState[t] \in Lifecycle!States
BY DEF TaskEvents, TargetState, Lifecycle!States

(* A projection after an event, field by field. *)
LEMMA AppliedFields ==
  ASSUME NEW p, NEW e
  PROVE  /\ Applied(p, e).state = AppliedState(p.state, e.type)
         /\ Applied(p, e).maxTurn = IF e.turn > p.maxTurn THEN e.turn ELSE p.maxTurn
BY DEF Applied

LEMMA AppliedType ==
  ASSUME NEW p \in Projections, NEW e \in Events,
         e.type = "turn_started" => e.turn >= 1
  PROVE  /\ Applied(p, e) \in Projections
         /\ Applied(p, e).maxTurn >= p.maxTurn
         /\ Applied(p, e).maxTurn >= e.turn
         /\ Applied(p, e).maxTurn \in {p.maxTurn, e.turn}
<1>1. MaxEvents \in Nat
  BY StoreAssumption
<1>2. AppliedState(p.state, e.type) \in Lifecycle!States
  <2>1. p.state \in Lifecycle!States
    BY DEF Projections
  <2>2. CASE e.type = "turn_started"
    BY <2>1, <2>2 DEF AppliedState, Lifecycle!States
  <2>3. CASE e.type = "turn_ended"
    BY <2>1, <2>3 DEF AppliedState
  <2>4. CASE e.type \in TaskEvents \cup {"task_created"}
    <3>1. e.type # "turn_started" /\ e.type # "turn_ended"
      BY <2>4, TypesDistinct
    <3>2. QED
      BY <2>4, <3>1, TargetsAreStates DEF AppliedState
  <2>5. QED
    BY <2>2, <2>3, <2>4, TypesDistinct DEF Events
<1>3. p.maxTurn \in 0 .. MaxEvents /\ e.turn \in 0 .. MaxEvents
  BY DEF Projections, Events
<1>4. Applied(p, e).active \in SUBSET (1 .. MaxEvents)
  <2>1. p.active \in SUBSET (1 .. MaxEvents)
    BY DEF Projections
  <2>2. Applied(p, e).active =
          CASE e.type = "turn_started" -> p.active \cup {e.turn}
            [] e.type = "turn_ended"   -> p.active \ {e.turn}
            [] OTHER                   -> p.active
    BY DEF Applied
  <2>3. CASE e.type = "turn_started"
    BY <1>1, <1>3, <2>1, <2>2, <2>3
  <2>4. CASE e.type = "turn_ended"
    BY <2>1, <2>2, <2>4
  <2>5. CASE e.type \notin {"turn_started", "turn_ended"}
    BY <2>1, <2>2, <2>5
  <2>6. QED
    BY <2>3, <2>4, <2>5
<1>5. Applied(p, e).maxTurn = IF e.turn > p.maxTurn THEN e.turn ELSE p.maxTurn
  BY AppliedFields
<1>6. Applied(p, e) \in Projections
  <2>1. Applied(p, e) = [state |-> Applied(p, e).state,
                         maxTurn |-> Applied(p, e).maxTurn,
                         active |-> Applied(p, e).active]
    BY DEF Applied
  <2>2. Applied(p, e).state \in Lifecycle!States
    BY <1>2, AppliedFields
  <2>3. Applied(p, e).maxTurn \in 0 .. MaxEvents
    BY <1>3, <1>5
  <2>4. QED
    BY <1>4, <2>1, <2>2, <2>3 DEF Projections
<1>7. QED
  BY <1>1, <1>3, <1>5, <1>6

LEMMA EmptyType == EmptyProjection \in Projections /\ EmptyProjection.maxTurn = 0
BY StoreAssumption DEF EmptyProjection, Projections, Lifecycle!States

(* The log after an event. *)
LEMMA LogAppended ==
  ASSUME log \in Seq(Events), NEW e \in Events, log' = Append(log, e)
  PROVE  /\ Len(log) \in Nat /\ log' \in Seq(Events) /\ Len(log') = Len(log) + 1
         /\ log'[Len(log) + 1] = e
         /\ \A i \in 1 .. Len(log) : log'[i] = log[i] /\ log[i] \in Events
         /\ DOMAIN log = 1 .. Len(log)
         /\ 1 .. Len(log') = (1 .. Len(log)) \cup {Len(log) + 1}
<1>1. /\ Len(log) \in Nat /\ log' \in Seq(Events) /\ Len(log') = Len(log) + 1
      /\ log'[Len(log) + 1] = e
      /\ \A i \in 1 .. Len(log) : log'[i] = log[i] /\ log[i] \in Events
      /\ DOMAIN log = 1 .. Len(log)
  OBVIOUS
<1>2. QED
  BY <1>1

(* How many are busy. *)
LEMMA BusyIsFinite == Cardinality(Busy) \in Nat /\ IsFiniteSet(Busy)
BY StoreAssumption, FS_Subset, FS_CardinalityType DEF Busy

LEMMA BusyShrinks ==
  ASSUME Busy' \subseteq Busy
  PROVE  Cardinality(Busy') \in Nat /\ Cardinality(Busy') <= Cardinality(Busy)
<1>1. IsFiniteSet(Busy') /\ Cardinality(Busy') <= Cardinality(Busy)
  BY BusyIsFinite, FS_Subset
<1>2. QED
  BY <1>1, FS_CardinalityType

LEMMA BusyLoses ==
  ASSUME NEW c \in Busy, Busy' = Busy \ {c}
  PROVE  Cardinality(Busy') = Cardinality(Busy) - 1
BY BusyIsFinite, FS_RemoveElement

LEMMA BusyGains ==
  ASSUME RoomForCall, NEW c \in Calls, Busy' \subseteq Busy \cup {c}, Len(log) \in Nat
  PROVE  Len(log) + Cardinality(Busy') <= MaxEvents
<1> DEFINE All == {d \in Calls : pc[d] # "idle"}
<1>1. IsFiniteSet(All) /\ Cardinality(All) \in Nat
  BY StoreAssumption, FS_Subset, FS_CardinalityType
<1>2. Busy \subseteq All
  BY DEF Busy
<1>3. Cardinality(Busy) <= Cardinality(All) /\ Cardinality(Busy) \in Nat
  BY <1>1, <1>2, FS_Subset, BusyIsFinite
<1>4. IsFiniteSet(Busy \cup {c}) /\ Cardinality(Busy \cup {c}) <= Cardinality(Busy) + 1
  BY BusyIsFinite, FS_AddElement
<1>5. Cardinality(Busy') <= Cardinality(Busy \cup {c}) /\ IsFiniteSet(Busy')
  BY <1>4, FS_Subset
<1>6. Cardinality(Busy') \in Nat /\ Cardinality(Busy \cup {c}) \in Nat
  BY <1>4, <1>5, FS_CardinalityType
<1>7. Len(log) + Cardinality(All) < MaxEvents /\ MaxEvents \in Nat
  BY StoreAssumption DEF RoomForCall
<1>8. QED
  BY <1>1, <1>3, <1>4, <1>5, <1>6, <1>7

-----------------------------------------------------------------------------
(* The invariant of every set of calls, action by action.                  *)

LEMMA StoreInit == Init => StoreInv
<1> SUFFICES ASSUME Init PROVE StoreInv
  OBVIOUS
<1>1. MaxEvents \in Nat /\ MaxEvents >= 1 /\ MaxLoads \in Nat /\ MaxLoads >= 1
  BY StoreAssumption
<1>2. log \in Seq(Events) /\ Len(log) = 1 /\ log[1] = Event("task_created", 0)
  BY <1>1 DEF Init, Event, Events
<1>3. TypeOK
  BY <1>1, <1>2, EmptyType DEF Init, TypeOK, Events, AllEventTypes
<1>4. ObjectsInv
  BY <1>1 DEF Init, ObjectsInv
<1>5. RoomInv
  <2>1. Busy = {}
    BY DEF Busy, Init
  <2>2. Cardinality(Busy) = 0
    BY <2>1, FS_EmptySet
  <2>3. QED
    BY <1>1, <1>2, <2>2 DEF RoomInv, Init
<1>6. TurnsInv
  BY <1>2, EmptyType DEF TurnsInv, Init, Event
<1>7. AskedInv
  BY DEF AskedInv, Init
<1>8. QED
  BY <1>3, <1>4, <1>5, <1>6, <1>7 DEF StoreInv

(* The types, one by one. *)
LEMMA Types ==
  ASSUME TypeOK
  PROVE  /\ log \in Seq(Events) /\ Len(log) \in Nat /\ DOMAIN log = 1 .. Len(log)
         /\ \A i \in 1 .. Len(log) : log[i] \in Events
         /\ truth \in Projections /\ truth.maxTurn \in 0 .. MaxEvents
         /\ proj \in [Objects -> Projections]
         /\ \A o \in Objects : proj[o] \in Projections /\ proj[o].maxTurn \in 0 .. MaxEvents
         /\ MaxEvents \in Nat /\ MaxLoads \in Nat
         /\ NoObject \notin Objects
         /\ \A c \in Calls : turn[c] \in Nat /\ pos[c] \in Nat
<1>1. MaxEvents \in Nat /\ MaxLoads \in Nat /\ NoObject \notin Objects
  BY StoreAssumption DEF NoObject, Objects
<1>2. log \in Seq(Events) /\ truth \in Projections /\ proj \in [Objects -> Projections]
  BY DEF TypeOK, Events
<1>3. \A p \in Projections : p.maxTurn \in 0 .. MaxEvents
  BY DEF Projections
<1>4. \A c \in Calls : turn[c] \in Nat /\ pos[c] \in Nat
  BY <1>1 DEF TypeOK
<1>5. /\ Len(log) \in Nat /\ DOMAIN log = 1 .. Len(log)
      /\ \A i \in 1 .. Len(log) : log[i] \in Events
  BY <1>2
<1>6. QED
  BY <1>1, <1>2, <1>3, <1>4, <1>5

(* A step that moves calls about, but neither the log nor a projection.    *)
LEMMA QuietStep ==
  ASSUME StoreInv, UNCHANGED <<log, truth, proj, turn>>,
         NEW c \in Calls, pc[c] \notin {"idle", "apply"},
         \E l : pc' = [pc EXCEPT ![c] = l]
  PROVE  TurnsInv' /\ Len(log') + Cardinality(Busy') <= MaxEvents
<1>1. TurnsInv'
  BY DEF StoreInv, TurnsInv
<1>2. Busy' \subseteq Busy
  <2>1. PICK l : pc' = [pc EXCEPT ![c] = l]
    OBVIOUS
  <2>2. pc \in [Calls -> {"idle", "ensure", "joined", "loading", "query", "guard",
                          "lock", "apply"}]
    BY DEF StoreInv, TypeOK
  <2>3. QED
    BY <2>1, <2>2 DEF Busy
<1>3. QED
  BY <1>1, <1>2, BusyShrinks, BusyIsFinite, Types DEF StoreInv, RoomInv

LEMMA BeginStep ==
  ASSUME StoreInv, NEW c \in Calls, Arrive(c)
  PROVE  StoreInv'
<1> USE DEF StoreInv
<1>1. PICK type \in EventTypes \cup {"read"}, n \in Nat :
        /\ Begin(c, type, n)
        /\ n <= truth.maxTurn
        /\ type = "turn_started" => n = 0
  <2>1. CASE \E type \in {"read"} \cup (EventTypes \ {"turn_ended"}) : Begin(c, type, 0)
    <3>1. PICK t \in {"read"} \cup (EventTypes \ {"turn_ended"}) : Begin(c, t, 0)
      BY <2>1
    <3>2. 0 <= truth.maxTurn /\ 0 \in Nat
      BY Types
    <3>3. QED
      BY <3>1, <3>2
  <2>2. CASE /\ "turn_ended" \in EventTypes
             /\ \E n \in 1 .. truth.maxTurn : Begin(c, "turn_ended", n)
    BY <2>2, Types
  <2>3. QED
    BY <2>1, <2>2 DEF Arrive
<1>2. type \in AllEventTypes \cup {"read"} /\ n \in 0 .. MaxEvents /\ n <= truth.maxTurn
  BY <1>1, StoreAssumption, Types
<1>3. TypeOK'
  BY <1>1, <1>2 DEF Begin, GoTo, TypeOK
<1>4. ObjectsInv'
  BY <1>1 DEF Begin, GoTo, TypeOK, ObjectsInv
<1>5. RoomInv'
  <2>1. Busy' \subseteq Busy \cup {c}
    BY <1>1 DEF Begin, GoTo, Busy, TypeOK
  <2>2. Len(log) + Cardinality(Busy') <= MaxEvents
    BY <1>1, <2>1, BusyGains, Types DEF Begin
  <2>3. QED
    BY <1>1, <2>2 DEF Begin, GoTo, TypeOK, RoomInv
<1>6. TurnsInv'
  <2>1. UNCHANGED <<log, truth, proj>> /\ turn' = [turn EXCEPT ![c] = n]
    BY <1>1 DEF Begin
  <2>2. \A d \in Calls : turn'[d] = IF d = c THEN n ELSE turn[d]
    BY <2>1 DEF TypeOK
  <2>3. n <= truth.maxTurn + 1
    BY <1>2, Types
  <2>4. QED
    BY <2>1, <2>2, <2>3 DEF TurnsInv
<1>7. AskedInv'
  BY <1>1 DEF Begin, GoTo, TypeOK, AskedInv
<1>8. QED
  BY <1>3, <1>4, <1>5, <1>6, <1>7

(* A projection that is there, or seems so: hits and loads that end.       *)
LEMMA EnsuredStep ==
  ASSUME StoreInv, NEW c \in Calls, Ensured(c), pc[c] \in {"ensure", "loading"},
         UNCHANGED <<log, truth, cached, proj, created, writer, op, turn, ref,
                     pos, target>>,
         tainted' \subseteq Objects
  PROVE  StoreInv'
<1> USE DEF StoreInv
<1>1. PICK l \in {"ensure", "query"} : GoTo(c, l)
  BY DEF Ensured
<1>2. asks' \in [Calls -> {"exists", "state", "turn"}]
      /\ \A d \in Calls : asks'[d] = "turn" => asks[d] = "turn"
  BY DEF Ensured, TypeOK
<1>3. TypeOK'
  BY <1>1, <1>2 DEF GoTo, TypeOK
<1>4. ObjectsInv'
  BY <1>1 DEF GoTo, TypeOK, ObjectsInv
<1>5. TurnsInv' /\ Len(log') + Cardinality(Busy') <= MaxEvents
  BY <1>1, QuietStep DEF GoTo
<1>6. RoomInv'
  BY <1>1, <1>5 DEF GoTo, TypeOK, RoomInv
<1>7. AskedInv'
  BY <1>1, <1>2 DEF GoTo, TypeOK, AskedInv
<1>8. QED
  BY <1>3, <1>4, <1>5, <1>6, <1>7

LEMMA LoadStep ==
  ASSUME StoreInv, NEW c \in Calls,
         EnsureHit(c) \/ EnsureMiss(c) \/ Insert(c) \/ Loaded(c) \/ LoadedShort(c)
           \/ LoadFailed(c)
  PROVE  StoreInv'
<1> USE DEF StoreInv
<1>1. CASE EnsureHit(c)
  BY <1>1, EnsuredStep DEF EnsureHit, TypeOK
<1>2. CASE EnsureMiss(c)
  <2>1. Len(log) \in 0 .. MaxEvents
    BY Types, BusyIsFinite DEF RoomInv
  <2>2. TypeOK'
    BY <1>2, <2>1, Types, SMTT(30) DEF EnsureMiss, GoTo, TypeOK
  <2>3. ObjectsInv'
    BY <1>2 DEF EnsureMiss, GoTo, TypeOK, ObjectsInv
  <2>4. TurnsInv' /\ Len(log') + Cardinality(Busy') <= MaxEvents
    BY <1>2, QuietStep DEF EnsureMiss, GoTo
  <2>5. RoomInv'
    BY <1>2, <2>1, <2>4 DEF EnsureMiss, GoTo, TypeOK, RoomInv
  <2>6. AskedInv'
    BY <1>2 DEF EnsureMiss, GoTo, TypeOK, AskedInv
  <2>7. QED
    BY <2>2, <2>3, <2>4, <2>5, <2>6
<1>3. CASE Insert(c)
  <2>1. cached' \in Objects /\ created' \in 0 .. MaxLoads
    BY <1>3, Types DEF Insert, TypeOK, ObjectsInv, Objects
  <2>2. ref' = [ref EXCEPT ![c] = cached'] /\ tainted' \subseteq Objects
    BY <1>3, <2>1 DEF Insert, TypeOK
  <2>3. TypeOK'
    BY <1>3, <2>1, <2>2 DEF Insert, GoTo, TypeOK
  <2>4. ObjectsInv'
    BY <1>3, <2>1, <2>2, Types DEF Insert, GoTo, TypeOK, ObjectsInv
  <2>5. TurnsInv' /\ Len(log') + Cardinality(Busy') <= MaxEvents
    BY <1>3, QuietStep DEF Insert, GoTo
  <2>6. RoomInv'
    BY <1>3, <2>5 DEF Insert, GoTo, TypeOK, RoomInv
  <2>7. AskedInv'
    BY <1>3 DEF Insert, GoTo, TypeOK, AskedInv
  <2>8. QED
    BY <2>3, <2>4, <2>5, <2>6, <2>7
<1>4. CASE Loaded(c)
  BY <1>4, EnsuredStep DEF Loaded, TypeOK
<1>5. CASE LoadedShort(c)
  <2>1. ref[c] \in Objects
    BY <1>5 DEF LoadedShort, ObjectsInv, TypeOK
  <2>2. QED
    BY <1>5, <2>1, EnsuredStep DEF LoadedShort, TypeOK
<1>6. CASE LoadFailed(c)
  <2>1. ref[c] \in Objects
    BY <1>6 DEF LoadFailed, ObjectsInv, TypeOK
  <2>2. PICK l \in {"ensure", "idle"} : GoTo(c, l)
    BY <1>6 DEF LoadFailed
  <2>3. TypeOK'
    BY <1>6, <2>1, <2>2 DEF LoadFailed, GoTo, TypeOK
  <2>4. ObjectsInv'
    BY <1>6, <2>2 DEF LoadFailed, GoTo, TypeOK, ObjectsInv
  <2>5. TurnsInv' /\ Len(log') + Cardinality(Busy') <= MaxEvents
    BY <1>6, <2>2, QuietStep DEF LoadFailed, GoTo
  <2>6. RoomInv'
    BY <1>6, <2>2, <2>5 DEF LoadFailed, GoTo, TypeOK, RoomInv
  <2>7. AskedInv'
    BY <1>6, <2>2 DEF LoadFailed, GoTo, TypeOK, AskedInv
  <2>8. QED
    BY <2>3, <2>4, <2>5, <2>6, <2>7
<1>7. QED
  BY <1>1, <1>2, <1>3, <1>4, <1>5, <1>6

LEMMA FeedStep ==
  ASSUME StoreInv, NEW c \in Calls, Feed(c)
  PROVE  StoreInv'
<1> USE DEF StoreInv
<1> DEFINE k == pos[c] + 1
<1>1. k \in 1 .. Len(log) /\ ref[c] \in Objects
  BY Types DEF Feed, ObjectsInv, TypeOK
<1>2. pos' = [pos EXCEPT ![c] = k] /\ pos'[c] = k
  BY DEF Feed, TypeOK
<1>3. log[k] \in Events /\ proj[ref[c]] \in Projections
      /\ log[k].turn <= truth.maxTurn
      /\ (log[k].type = "turn_started" => log[k].turn >= 1)
  BY <1>1, Types DEF TurnsInv
<1> DEFINE p == Applied(proj[ref[c]], log[k])
<1>4. /\ p \in Projections /\ p.maxTurn \in {proj[ref[c]].maxTurn, log[k].turn}
  BY <1>3, AppliedType
<1>5. proj' = [proj EXCEPT ![ref[c]] = p]
  BY <1>2 DEF Feed
<1> HIDE DEF p, k
<1>6. Len(log) \in 0 .. MaxEvents
  BY Types, BusyIsFinite DEF RoomInv
<1>7. TypeOK'
  <2>1. k \in 0 .. MaxEvents
    BY <1>1, <1>6, Types
  <2>2. pos' \in [Calls -> 0 .. MaxEvents]
    BY <1>2, <2>1 DEF TypeOK
  <2>3. proj' \in [Objects -> Projections]
    BY <1>4, <1>5, Types
  <2>4. QED
    BY <2>2, <2>3 DEF Feed, TypeOK
<1>8. ObjectsInv'
  BY DEF Feed, ObjectsInv
<1>9. RoomInv'
  <2>1. Busy' = Busy
    BY DEF Feed, Busy
  <2>2. QED
    BY <1>1, <1>2, <2>1, SMTT(30) DEF Feed, RoomInv, TypeOK
<1>10. TurnsInv'
  <2>1. \A o \in Objects : proj'[o].maxTurn <= truth.maxTurn
    BY <1>1, <1>3, <1>4, <1>5, Types DEF TurnsInv
  <2>2. QED
    BY <2>1 DEF Feed, TurnsInv
<1>11. AskedInv'
  BY DEF Feed, AskedInv
<1>12. QED
  BY <1>7, <1>8, <1>9, <1>10, <1>11

LEMMA EvictStep ==
  ASSUME StoreInv, Evict
  PROVE  StoreInv'
<1> USE DEF StoreInv
<1>1. TypeOK' /\ ObjectsInv'
  BY DEF Evict, call, TypeOK, ObjectsInv
<1>2. Busy' = Busy
  BY DEF Evict, call, Busy
<1>3. RoomInv' /\ TurnsInv' /\ AskedInv'
  BY <1>2 DEF Evict, call, RoomInv, TurnsInv, AskedInv
<1>4. QED
  BY <1>1, <1>3

LEMMA TurnedStep ==
  ASSUME StoreInv, NEW c \in Calls, Query(c), asks[c] = "turn"
  PROVE  turn'[c] = truth.maxTurn + 1
         \/ turn'[c] \in 1 .. truth.maxTurn
<1>1. cached \in Objects /\ turn'[c] = proj[cached].maxTurn + 1
  BY DEF Query, NextTurn, StoreInv, TypeOK
<1>2. proj[cached].maxTurn <= truth.maxTurn
  BY <1>1 DEF StoreInv, TurnsInv
<1>3. QED
  BY <1>1, <1>2, Types DEF StoreInv

LEMMA QueryStep ==
  ASSUME StoreInv, NEW c \in Calls, Query(c)
  PROVE  StoreInv'
<1> USE DEF StoreInv
<1>1. PICK l \in {"idle", "ensure", "guard"} : GoTo(c, l)
  <2>1. GoTo(c, CASE op[c] = "read" -> "idle"
                  [] op[c] = "turn_started" /\ asks[c] = "turn" -> "guard"
                  [] op[c] = "turn_started" /\ asks[c] # "turn" ->
                       IF proj[cached].state \in Lifecycle!Terminal THEN "idle"
                       ELSE "ensure"
                  [] OTHER -> IF Lifecycle!CanTransition(proj[cached].state,
                                                         TargetState[op[c]])
                              THEN "guard" ELSE "idle")
    BY DEF Query
  <2>2. QED
    BY <2>1
<1>2. pc' = [pc EXCEPT ![c] = l]
  BY <1>1 DEF GoTo
<1>3. l = "guard" => op[c] # "read" /\ (op[c] = "turn_started" => asks[c] = "turn")
  BY <1>2 DEF Query, GoTo, TypeOK
<1>4. asks' \in [Calls -> {"exists", "state", "turn"}]
      /\ \A d \in Calls : asks'[d] = "turn" => op[d] = "turn_started"
  BY DEF Query, TypeOK, AskedInv
<1>5. /\ turn' \in [Calls -> 0 .. MaxEvents]
      /\ \A d \in Calls : turn'[d] <= truth.maxTurn + 1
      /\ asks[c] = "turn" => turn'[c] >= 1
      /\ \A d \in Calls : d # c => turn'[d] = turn[d]
  <2>1. Len(log) <= MaxEvents /\ truth.maxTurn + 1 <= MaxEvents
    BY Types, BusyIsFinite DEF RoomInv, TurnsInv
  <2>2. CASE asks[c] = "turn"
    <3>1. turn' = [turn EXCEPT ![c] = NextTurn(proj[cached])]
      BY <2>2 DEF Query
    <3>2. turn'[c] \in 1 .. truth.maxTurn + 1
      BY <2>2, TurnedStep, Types
    <3>3. turn' = [turn EXCEPT ![c] = turn'[c]] /\ turn'[c] \in 0 .. MaxEvents
      BY <2>1, <3>1, <3>2, Types, SMTT(30) DEF TypeOK
    <3>4. turn \in [Calls -> 0 .. MaxEvents]
      BY DEF TypeOK
    <3>5. turn' \in [Calls -> 0 .. MaxEvents] /\ \A d \in Calls : d # c => turn'[d] = turn[d]
      BY <3>3, <3>4
    <3>6. turn'[c] <= truth.maxTurn + 1 /\ turn'[c] >= 1
      BY <3>2, Types
    <3>7. QED
      BY <3>5, <3>6 DEF TurnsInv
  <2>3. CASE asks[c] # "turn"
    BY <2>3 DEF Query, TypeOK, TurnsInv
  <2>4. QED
    BY <2>2, <2>3
<1>6. TypeOK'
  BY <1>2, <1>4, <1>5 DEF Query, TypeOK
<1>7. ObjectsInv'
  BY <1>2 DEF Query, TypeOK, ObjectsInv
<1>8. Busy' \subseteq Busy
  BY <1>2 DEF Query, Busy, TypeOK
<1>9. RoomInv'
  <2>1. Len(log) + Cardinality(Busy') <= MaxEvents
    BY <1>8, BusyShrinks, BusyIsFinite, Types DEF RoomInv
  <2>2. \A d \in Calls : pc'[d] = "apply" => pc[d] = "apply"
    BY <1>2 DEF TypeOK
  <2>3. QED
    BY <2>1, <2>2 DEF Query, RoomInv
<1>10. TurnsInv'
  BY <1>5 DEF Query, TurnsInv
<1>11. AskedInv'
  <2>1. ASSUME NEW d \in Calls, pc'[d] \in {"guard", "lock", "apply"}
        PROVE  op'[d] # "read" /\ (op'[d] = "turn_started" => turn'[d] >= 1)
    BY <1>2, <1>3, <1>5, <2>1 DEF Query, TypeOK, AskedInv
  <2>2. QED
    BY <1>4, <2>1 DEF Query, AskedInv
<1>12. QED
  BY <1>6, <1>7, <1>9, <1>10, <1>11

LEMMA MovedStep ==
  ASSUME StoreInv, NEW c \in Calls, QueryPanic(c) \/ Guard(c) \/ ProduceFailed(c)
  PROVE  StoreInv'
<1> USE DEF StoreInv
<1>1. PICK l \in {"idle", "lock"} :
        GoTo(c, l) /\ (l = "lock" => pc[c] = "guard")
  BY DEF QueryPanic, Guard, ProduceFailed
<1>2. /\ UNCHANGED <<log, truth, cached, proj, created, writer, asks, op, turn, ref,
                     pos, target, tainted>>
      /\ pc[c] \notin {"idle", "apply"}
  BY DEF QueryPanic, Guard, ProduceFailed
<1>3. TypeOK' /\ ObjectsInv'
  BY <1>1, <1>2 DEF GoTo, TypeOK, ObjectsInv
<1>4. TurnsInv' /\ Len(log') + Cardinality(Busy') <= MaxEvents
  BY <1>1, <1>2, QuietStep DEF GoTo
<1>5. RoomInv' /\ AskedInv'
  BY <1>1, <1>2, <1>4 DEF GoTo, TypeOK, RoomInv, AskedInv
<1>6. QED
  BY <1>3, <1>4, <1>5

(* An event of a call reaches the log, acknowledged or not. *)
LEMMA WriteStep ==
  ASSUME StoreInv, NEW c \in Calls, Produce(c) \/ AckLost(c)
  PROVE  StoreInv'
<1> USE DEF StoreInv
<1> DEFINE e == Event(op[c], turn[c])
<1>1. e \in Events /\ e.turn = turn[c] /\ e.type = op[c] /\ pc[c] = "lock"
      /\ (e.type = "turn_started" => e.turn >= 1)
  <2>1. pc[c] = "lock"
    BY DEF Produce, AckLost
  <2>2. op[c] \in AllEventTypes /\ (op[c] = "turn_started" => turn[c] >= 1)
    BY <2>1 DEF AskedInv, TypeOK
  <2>3. turn[c] \in 0 .. MaxEvents
    BY DEF TypeOK
  <2>4. QED
    BY <2>1, <2>2, <2>3 DEF Event, Events
<1>2. log' = Append(log, e) /\ truth' = Applied(truth, e)
  BY DEF Produce, AckLost, Appended
<1> HIDE DEF e
<1>3. /\ log' \in Seq(Events) /\ Len(log') = Len(log) + 1
      /\ log'[Len(log) + 1] = e
      /\ \A i \in 1 .. Len(log) : log'[i] = log[i]
      /\ 1 .. Len(log') = (1 .. Len(log)) \cup {Len(log) + 1}
  BY <1>1, <1>2, LogAppended, Types
<1>4. /\ truth' \in Projections
      /\ truth'.maxTurn >= truth.maxTurn /\ truth'.maxTurn >= e.turn
      /\ truth'.maxTurn \in {truth.maxTurn, e.turn}
  BY <1>1, <1>2, AppliedType, Types
<1>5. PICK l \in {"idle", "apply"} : GoTo(c, l)
  BY DEF Produce, AckLost
<1>6. Len(log') + Cardinality(Busy') <= MaxEvents /\ Len(log') \in 1 .. MaxEvents
  <2>1. c \in Busy
    BY <1>1 DEF Busy
  <2>2. Busy' = Busy \ {c}
    BY <1>5 DEF GoTo, Busy, TypeOK
  <2>3. Cardinality(Busy') = Cardinality(Busy) - 1 /\ Cardinality(Busy) \in Nat
        /\ Cardinality(Busy') \in Nat
    BY <2>1, <2>2, BusyLoses, BusyIsFinite, BusyShrinks
  <2>4. QED
    BY <1>3, <2>3, Types DEF RoomInv
<1>7. pos' = [pos EXCEPT ![c] = Len(log')] \/ (pos' = pos /\ l = "idle")
  BY <1>5 DEF Produce, AckLost, GoTo, TypeOK
<1>8. TypeOK'
  <2>1. pos' \in [Calls -> 0 .. MaxEvents]
    BY <1>6, <1>7, Types DEF TypeOK
  <2>2. /\ pc' = [pc EXCEPT ![c] = l] /\ writer' \in Calls \cup {NoCall}
        /\ tainted' \subseteq Objects
    BY <1>5 DEF GoTo, Produce, AckLost, MutexKept, TypeOK
  <2>3. log' \in Seq([type: AllEventTypes \cup {"task_created"}, turn: 0 .. MaxEvents])
    BY <1>3 DEF Events
  <2>4. QED
    BY <1>4, <2>1, <2>2, <2>3 DEF Produce, AckLost, TypeOK
<1>9. ObjectsInv'
  BY <1>5 DEF GoTo, Produce, AckLost, ObjectsInv, TypeOK
<1>10. RoomInv'
  BY <1>3, <1>5, <1>6, <1>7, Types DEF GoTo, RoomInv, TypeOK
<1>11. TurnsInv'
  <2>1. truth'.maxTurn < Len(log')
    BY <1>1, <1>3, <1>4, Types DEF TurnsInv
  <2>2. ASSUME NEW i \in 1 .. Len(log')
        PROVE  /\ log'[i].turn <= truth'.maxTurn
               /\ log'[i].type = "turn_started" => log'[i].turn >= 1
    <3>1. CASE i = Len(log) + 1
      BY <1>1, <1>3, <1>4, <3>1
    <3>2. CASE i \in 1 .. Len(log)
      <4>1. log'[i] = log[i] /\ log[i].turn \in 0 .. MaxEvents
        BY <1>3, <3>2, Types DEF Events
      <4>2. truth'.maxTurn \in 0 .. MaxEvents
        BY <1>4 DEF Projections
      <4>3. QED
        BY <1>4, <3>2, <4>1, <4>2, Types DEF TurnsInv
    <3>3. QED
      BY <1>3, <2>2, <3>1, <3>2
  <2>3. truth'.maxTurn \in 0 .. MaxEvents
    BY <1>4 DEF Projections
  <2>4. UNCHANGED <<proj, turn>>
    BY DEF Produce, AckLost
  <2>5. \A o \in Objects : proj'[o].maxTurn <= truth'.maxTurn
    BY <1>4, <2>3, <2>4, Types DEF TurnsInv
  <2>6. \A d \in Calls : turn'[d] <= truth'.maxTurn + 1
    BY <1>4, <2>3, <2>4, Types DEF TurnsInv
  <2>7. QED
    BY <2>1, <2>2, <2>5, <2>6 DEF TurnsInv
<1>12. AskedInv'
  BY <1>1, <1>5 DEF GoTo, Produce, AckLost, AskedInv, TypeOK
<1>13. QED
  BY <1>8, <1>9, <1>10, <1>11, <1>12

LEMMA ApplyStep ==
  ASSUME StoreInv, NEW c \in Calls, ApplyWrite(c)
  PROVE  StoreInv'
<1> USE DEF StoreInv
<1>1. log[pos[c]] \in Events /\ log[pos[c]].turn <= truth.maxTurn
      /\ (log[pos[c]].type = "turn_started" => log[pos[c]].turn >= 1)
  BY Types DEF ApplyWrite, RoomInv, TurnsInv
<1>2. proj' \in [Objects -> Projections]
      /\ \A o \in Objects : proj'[o].maxTurn <= truth.maxTurn
  <2>1. CASE cached = NoObject
    BY <2>1, Types DEF ApplyWrite, ProjectionFollows, TurnsInv
  <2>2. CASE cached # NoObject
    <3> DEFINE p == Applied(proj[cached], log[pos[c]])
    <3>1. cached \in Objects /\ proj' = [proj EXCEPT ![cached] = p]
      BY <2>2 DEF ApplyWrite, ProjectionFollows, TypeOK
    <3>2. p \in Projections /\ p.maxTurn \in {proj[cached].maxTurn, log[pos[c]].turn}
      BY <1>1, <3>1, AppliedType, Types
    <3> HIDE DEF p
    <3>3. QED
      BY <1>1, <3>1, <3>2, Types DEF TurnsInv
  <2>3. QED
    BY <2>1, <2>2
<1>3. TypeOK' /\ ObjectsInv'
  BY <1>2 DEF ApplyWrite, MutexReturned, GoTo, TypeOK, ObjectsInv
<1>4. Busy' = Busy
  BY DEF ApplyWrite, GoTo, Busy, TypeOK
<1>5. RoomInv'
  BY <1>4 DEF ApplyWrite, GoTo, RoomInv, TypeOK
<1>6. TurnsInv' /\ AskedInv'
  BY <1>2 DEF ApplyWrite, GoTo, TurnsInv, AskedInv, TypeOK
<1>7. QED
  BY <1>3, <1>5, <1>6

LEMMA StoreStep ==
  ASSUME StoreInv, [Next]_vars
  PROVE  StoreInv'
<1>1. CASE UNCHANGED vars
  <2>1. Busy' = Busy
    BY <1>1 DEF vars, call, Busy
  <2>2. QED
    BY <1>1, <2>1 DEF vars, call, StoreInv, TypeOK, ObjectsInv, RoomInv, TurnsInv,
       AskedInv
<1>2. ASSUME NEW c \in Calls, Arrive(c) \/ CallStep(c) PROVE StoreInv'
  BY <1>2, BeginStep, LoadStep, FeedStep, QueryStep, MovedStep, WriteStep, ApplyStep
     DEF CallStep
<1>3. QED
  BY <1>1, <1>2, EvictStep DEF Next

LEMMA StoreInvariant == Spec => []StoreInv
BY StoreInit, StoreStep, PTL DEF Spec

(* The variables of the store stay in their types, whatever calls run at   *)
(* once and whatever fails: no object beyond the bound is made, no         *)
(* position leaves the log, every event written is of a known type, and no *)
(* turn number outruns the log.                                            *)
THEOREM StoreTypeCorrect == Spec => []TypeOK
BY StoreInvariant, PTL DEF StoreInv

-----------------------------------------------------------------------------
(* Calls that come one after the other, with nothing but evictions and     *)
(* writes that fail in between.                                            *)

Serial ==
  /\ Calls # {} /\ \A c, d \in Calls : c = d
  /\ Faults \subseteq {"evict", "write_error"}

(* The projections of all prefixes of the log. *)
Folds(f) ==
  /\ f \in [0 .. Len(log) -> Projections]
  /\ f[0] = EmptyProjection
  /\ \A i \in 1 .. Len(log) : f[i] = Applied(f[i - 1], log[i])
  /\ f[Len(log)] = truth

(* A load has applied the prefix that it has read. *)
PrefixInv ==
  \E f : Folds(f) /\ \A c \in Calls : pc[c] = "loading" => proj[ref[c]] = f[pos[c]]

(* The cached projection is that of the whole log, but during a load, and  *)
(* between a write and its application.                                    *)
CacheInv ==
  /\ cached <= created
  /\ \A o \in Objects : o > created => proj[o] = EmptyProjection
  /\ \A c \in Calls :
       /\ pc[c] = "joined" =>
            cached = NoObject /\ pos[c] = 0 /\ target[c] = Len(log)
       /\ pc[c] = "loading" =>
            cached \in {NoObject, ref[c]} /\ ref[c] <= created /\ target[c] = Len(log)
       /\ pc[c] = "apply" =>
            /\ pos[c] = Len(log)
            /\ cached # NoObject => Applied(proj[cached], log[Len(log)]) = truth
       /\ pc[c] \notin {"joined", "loading", "apply"} =>
            (cached # NoObject => proj[cached] = truth)

(* What a call is about to write is legal, and its turn is the next one.   *)
WriteInv ==
  \A c \in Calls :
    /\ pc[c] = "lock" => GuardAllows(truth.state, op[c])
    /\ pc[c] \in {"guard", "lock"} /\ op[c] = "turn_started" =>
         turn[c] = truth.maxTurn + 1

(* The latest task event of a log. *)
Latest(L, m) ==
  /\ m \in RefTaskRecords(L)
  /\ \A j \in RefTaskRecords(L) : j <= m

StatesInv ==
  /\ log[1].type = "task_created"
  /\ \E m \in 1 .. Len(log) : Latest(log, m)
  /\ StatesAgree

SerialInv ==
  StoreInv /\ PrefixInv /\ CacheInv /\ WriteInv /\ StatesInv /\ TurnsDistinct

LEMMA SerialInit == Init => SerialInv
<1> SUFFICES ASSUME Init PROVE SerialInv
  OBVIOUS
<1>1. StoreInv
  BY StoreInit
<1> DEFINE e == Event("task_created", 0)
<1>2. /\ log = <<e>> /\ Len(log) = 1 /\ log[1] = e /\ DOMAIN log = {1}
      /\ e.type = "task_created" /\ e.turn = 0 /\ truth = EmptyProjection
  BY DEF Init, Event
<1>3. Applied(EmptyProjection, e) = EmptyProjection
  BY DEF Applied, AppliedState, EmptyProjection, Event, TargetState
<1> HIDE DEF e
<1>4. PrefixInv
  <2> DEFINE f == [i \in 0 .. Len(log) |-> EmptyProjection]
  <2>1. f \in [0 .. Len(log) -> Projections] /\ f[0] = EmptyProjection
        /\ f[Len(log)] = truth
    BY <1>2, EmptyType
  <2>2. \A i \in 1 .. Len(log) : f[i] = Applied(f[i - 1], log[i])
    BY <1>2, <1>3
  <2>3. Folds(f)
    BY <2>1, <2>2 DEF Folds
  <2>4. \A c \in Calls : pc[c] # "loading"
    BY DEF Init
  <2>5. QED
    BY <2>3, <2>4 DEF PrefixInv
<1>5. CacheInv
  BY DEF Init, CacheInv, NoObject
<1>6. WriteInv
  BY DEF Init, WriteInv
<1>7. RefTaskRecords(log) = {1}
  BY <1>2 DEF RefTaskRecords
<1>8. StatesAgree
  <2>1. (CHOOSE i \in {1} : \A j \in {1} : j <= i) = 1
    OBVIOUS
  <2>2. TargetState["task_created"] = "Created"
    BY DEF TargetState
  <2>3. RefState(log) = "Created"
    BY <1>2, <1>7, <2>1, <2>2 DEF RefState, DerivedState
  <2>4. ~ RefEnded(log)
    BY <1>2 DEF RefEnded
  <2>5. QED
    BY <1>2, <2>3, <2>4 DEF StatesAgree, EmptyProjection, Lifecycle!Terminal
<1>9. StatesInv
  <2>1. Latest(log, 1) /\ 1 \in 1 .. Len(log)
    BY <1>2, <1>7 DEF Latest
  <2>2. QED
    BY <1>2, <1>8, <2>1 DEF StatesInv
<1>10. TurnsDistinct
  BY <1>2 DEF TurnsDistinct
<1>11. QED
  BY <1>1, <1>4, <1>5, <1>6, <1>9, <1>10 DEF SerialInv

(* What serial calls do. *)
LEMMA SerialActions ==
  ASSUME Serial, Next
  PROVE  \/ Evict
         \/ \E c \in Calls :
              \/ Arrive(c) \/ EnsureHit(c) \/ EnsureMiss(c) \/ Insert(c) \/ Feed(c)
              \/ Loaded(c) \/ Query(c) \/ QueryPanic(c) \/ Guard(c) \/ Produce(c)
              \/ ProduceFailed(c) \/ ApplyWrite(c)
<1>1. \A c \in Calls : ~ LoadedShort(c) /\ ~ LoadFailed(c) /\ ~ AckLost(c)
  BY DEF Serial, LoadedShort, LoadFailed, AckLost
<1>2. QED
  BY <1>1 DEF Next, CallStep

(* A load that ends has read the whole log. *)
LEMMA LoadIsComplete ==
  ASSUME StoreInv, PrefixInv, CacheInv, NEW c \in Calls, Loaded(c)
  PROVE  proj[ref[c]] = truth
<1>1. PICK f : Folds(f) /\ \A d \in Calls : pc[d] = "loading" => proj[ref[d]] = f[pos[d]]
  BY DEF PrefixInv
<1>2. pos[c] >= Len(log) /\ pos[c] <= Len(log) /\ pos[c] \in Nat /\ Len(log) \in Nat
  BY Types DEF Loaded, CacheInv, StoreInv, RoomInv
<1>3. pos[c] = Len(log)
  BY <1>2
<1>4. QED
  BY <1>1, <1>3 DEF Loaded, Folds

LEMMA CacheStep ==
  ASSUME Serial, StoreInv, PrefixInv, CacheInv, Next
  PROVE  CacheInv'
<1> USE DEF Serial
<1>1. CASE Evict
  BY <1>1, Types DEF Evict, call, CacheInv, StoreInv, TypeOK, NoObject
<1>2. ASSUME NEW c \in Calls, Arrive(c)
      PROVE  CacheInv'
  <2>1. PICK type, n : Begin(c, type, n)
    BY <1>2 DEF Arrive
  <2>2. QED
    BY <2>1 DEF Begin, GoTo, CacheInv, StoreInv, TypeOK
<1>3. ASSUME NEW c \in Calls,
             EnsureHit(c) \/ QueryPanic(c) \/ Guard(c) \/ ProduceFailed(c) \/ Query(c)
      PROVE  CacheInv'
  <2>1. PICK l \in {"ensure", "query", "idle", "guard", "lock"} : GoTo(c, l)
    <3>1. CASE EnsureHit(c)
      BY <3>1 DEF EnsureHit, Ensured
    <3>2. CASE QueryPanic(c) \/ Guard(c) \/ ProduceFailed(c)
      BY <3>2 DEF QueryPanic, Guard, ProduceFailed
    <3>3. CASE Query(c)
      BY <3>3 DEF Query
    <3>4. QED
      BY <1>3, <3>1, <3>2, <3>3
  <2>2. pc[c] \in {"ensure", "query", "guard", "lock"}
    BY <1>3 DEF EnsureHit, QueryPanic, Guard, ProduceFailed, Query
  <2>3. UNCHANGED <<log, truth, cached, proj, created, ref, pos, target>>
    BY <1>3 DEF EnsureHit, QueryPanic, Guard, ProduceFailed, Query
  <2>4. QED
    BY <2>1, <2>2, <2>3 DEF GoTo, CacheInv, StoreInv, TypeOK
<1>4. ASSUME NEW c \in Calls, EnsureMiss(c)
      PROVE  CacheInv'
  BY <1>4 DEF EnsureMiss, GoTo, CacheInv, StoreInv, TypeOK
<1>5. ASSUME NEW c \in Calls, Insert(c)
      PROVE  CacheInv'
  <2>1. cached = NoObject /\ pos[c] = 0 /\ target[c] = Len(log)
    BY <1>5 DEF Insert, CacheInv
  <2>2. /\ created' = created + 1 /\ cached' = created + 1
        /\ ref' = [ref EXCEPT ![c] = created + 1]
    BY <1>5, <2>1 DEF Insert
  <2>3. created \in Nat
    BY Types DEF StoreInv, TypeOK
  <2>4. \A o \in Objects : o \in Nat /\ (o > created' => proj'[o] = EmptyProjection)
    BY <1>5, <2>2, <2>3 DEF Insert, CacheInv, Objects
  <2>5. pc' = [pc EXCEPT ![c] = "loading"] /\ UNCHANGED <<log, target>>
    BY <1>5 DEF Insert, GoTo
  <2>6. \A d \in Calls : /\ pc'[d] = "loading" /\ ref'[d] = cached' /\ ref'[d] <= created'
                         /\ target'[d] = Len(log')
    BY <2>1, <2>2, <2>3, <2>5 DEF StoreInv, TypeOK
  <2>7. QED
    BY <2>2, <2>3, <2>4, <2>6 DEF CacheInv
<1>6. ASSUME NEW c \in Calls, Feed(c)
      PROVE  CacheInv'
  <2>1. ref[c] \in Objects /\ ref[c] <= created /\ pc[c] = "loading"
    BY <1>6 DEF Feed, CacheInv, StoreInv, ObjectsInv, TypeOK
  <2>2. \A o \in Objects : o # ref[c] => proj'[o] = proj[o]
    BY <1>6 DEF Feed, StoreInv, TypeOK
  <2>3. \A o \in Objects : o > created => o # ref[c]
    BY <2>1, Types DEF Objects, StoreInv, TypeOK
  <2>4. QED
    BY <1>6, <2>1, <2>2, <2>3 DEF Feed, CacheInv, StoreInv
<1>7. ASSUME NEW c \in Calls, Loaded(c)
      PROVE  CacheInv'
  <2>1. PICK l \in {"ensure", "query"} : GoTo(c, l)
    BY <1>7 DEF Loaded, Ensured
  <2>2. proj[ref[c]] = truth /\ cached \in {NoObject, ref[c]}
    BY <1>7, LoadIsComplete DEF Loaded, CacheInv
  <2>3. QED
    BY <1>7, <2>1, <2>2 DEF Loaded, GoTo, CacheInv, StoreInv, TypeOK
<1>8. ASSUME NEW c \in Calls, Produce(c)
      PROVE  CacheInv'
  <2> DEFINE e == Event(op[c], turn[c])
  <2>1. log' = Append(log, e) /\ truth' = Applied(truth, e)
    BY <1>8 DEF Produce, Appended
  <2>2. Len(log') = Len(log) + 1 /\ log'[Len(log')] = e
    BY <2>1, Types DEF StoreInv
  <2>3. cached # NoObject => proj[cached] = truth
    BY <1>8 DEF Produce, CacheInv
  <2> HIDE DEF e
  <2>4. pos'[c] = Len(log') /\ pc'[c] = "apply"
    BY <1>8 DEF Produce, GoTo, StoreInv, TypeOK
  <2>5. cached' # NoObject => Applied(proj'[cached'], log'[Len(log')]) = truth'
    BY <1>8, <2>1, <2>2, <2>3 DEF Produce
  <2>6. UNCHANGED <<cached, proj, created>>
    BY <1>8 DEF Produce
  <2>7. QED
    BY <2>4, <2>5, <2>6 DEF CacheInv
<1>9. ASSUME NEW c \in Calls, ApplyWrite(c)
      PROVE  CacheInv'
  <2>1. pc'[c] = "idle" /\ UNCHANGED <<log, truth, cached, created>>
    BY <1>9 DEF ApplyWrite, GoTo, StoreInv, TypeOK
  <2>2. CASE cached = NoObject
    <3>1. proj' = proj
      BY <1>9, <2>2 DEF ApplyWrite, ProjectionFollows
    <3>2. QED
      BY <2>1, <2>2, <3>1 DEF CacheInv
  <2>3. CASE cached # NoObject
    <3>1. cached \in Objects /\ cached <= created
      BY <2>3 DEF CacheInv, StoreInv, TypeOK
    <3>2. proj' = [proj EXCEPT ![cached] = Applied(@, log[pos[c]])]
      BY <1>9, <2>3 DEF ApplyWrite, ProjectionFollows
    <3>3. pos[c] = Len(log) /\ Applied(proj[cached], log[Len(log)]) = truth
      BY <1>9, <2>3 DEF ApplyWrite, CacheInv
    <3>4. proj'[cached] = truth /\ \A o \in Objects : o # cached => proj'[o] = proj[o]
      BY <3>1, <3>2, <3>3 DEF StoreInv, TypeOK
    <3>5. \A o \in Objects : o > created => o # cached
      BY <3>1, Types DEF Objects, StoreInv, TypeOK
    <3>6. QED
      BY <2>1, <3>1, <3>4, <3>5 DEF CacheInv
  <2>4. QED
    BY <2>2, <2>3
<1>10. QED
  BY <1>1, <1>2, <1>3, <1>4, <1>5, <1>6, <1>7, <1>8, <1>9, SerialActions

LEMMA PrefixStep ==
  ASSUME Serial, StoreInv, PrefixInv, CacheInv, Next
  PROVE  PrefixInv'
<1> USE DEF Serial
<1>1. PICK f : Folds(f) /\ \A d \in Calls : pc[d] = "loading" => proj[ref[d]] = f[pos[d]]
  BY DEF PrefixInv
<1>2. ASSUME UNCHANGED <<log, truth>>,
             \A d \in Calls : pc'[d] = "loading" => proj'[ref'[d]] = f[pos'[d]]
      PROVE  PrefixInv'
  <2>1. Folds(f)'
    BY <1>1, <1>2 DEF Folds
  <2>2. QED
    BY <1>2, <2>1 DEF PrefixInv
<1>3. CASE Evict
  BY <1>1, <1>2, <1>3 DEF Evict, call
<1>4. ASSUME NEW c \in Calls,
             \/ Arrive(c) \/ EnsureHit(c) \/ EnsureMiss(c) \/ Loaded(c) \/ Query(c)
             \/ QueryPanic(c) \/ Guard(c) \/ ProduceFailed(c) \/ ApplyWrite(c)
      PROVE  PrefixInv'
  <2>1. UNCHANGED <<log, truth>>
    BY <1>4 DEF Arrive, Begin, EnsureHit, EnsureMiss, Loaded, Query, QueryPanic, Guard,
       ProduceFailed, ApplyWrite
  <2>2. PICK l \in {"ensure", "query", "guard", "lock", "idle", "joined"} : GoTo(c, l)
    <3>1. CASE Arrive(c)
      <4>1. PICK type, n : Begin(c, type, n)
        BY <3>1 DEF Arrive
      <4>2. QED
        BY <4>1 DEF Begin
    <3>2. CASE EnsureHit(c) \/ Loaded(c)
      BY <3>2 DEF EnsureHit, Loaded, Ensured
    <3>3. CASE Query(c)
      BY <3>3 DEF Query
    <3>4. CASE EnsureMiss(c) \/ QueryPanic(c) \/ Guard(c) \/ ProduceFailed(c)
                 \/ ApplyWrite(c)
      BY <3>4 DEF EnsureMiss, QueryPanic, Guard, ProduceFailed, ApplyWrite
    <3>5. QED
      BY <1>4, <3>1, <3>2, <3>3, <3>4
  <2>3. pc'[c] # "loading"
    BY <2>2 DEF GoTo, StoreInv, TypeOK
  <2>4. QED
    BY <1>2, <2>1, <2>3
<1>5. ASSUME NEW c \in Calls, Insert(c)
      PROVE  PrefixInv'
  <2>1. cached = NoObject /\ pos[c] = 0
    BY <1>5 DEF Insert, CacheInv
  <2>2. ref'[c] = created + 1 /\ created + 1 \in Objects /\ created \in Nat
    <3>1. created < MaxLoads /\ created \in 0 .. MaxLoads /\ MaxLoads \in Nat
      BY <2>1, Types DEF StoreInv, TypeOK, ObjectsInv
    <3>2. ref' = [ref EXCEPT ![c] = created + 1]
      BY <1>5, <2>1 DEF Insert
    <3>3. QED
      BY <3>1, <3>2 DEF StoreInv, TypeOK, Objects
  <2>3. proj[created + 1] = EmptyProjection
    BY <2>2 DEF CacheInv
  <2>4. UNCHANGED <<log, truth, proj, pos>>
    BY <1>5 DEF Insert
  <2>5. \A d \in Calls : proj'[ref'[d]] = f[pos'[d]]
    BY <1>1, <2>1, <2>2, <2>3, <2>4 DEF Folds
  <2>6. QED
    BY <1>2, <2>4, <2>5
<1>6. ASSUME NEW c \in Calls, Feed(c)
      PROVE  PrefixInv'
  <2>1. pos[c] \in Nat /\ pos[c] + 1 \in 1 .. Len(log) /\ ref[c] \in Objects
    BY <1>6, Types DEF Feed, StoreInv, ObjectsInv, TypeOK
  <2>2. pos'[c] = pos[c] + 1
    BY <1>6 DEF Feed, StoreInv, TypeOK
  <2>3. proj'[ref[c]] = Applied(proj[ref[c]], log[pos[c] + 1])
    BY <1>6, <2>1, <2>2, Types DEF Feed, StoreInv
  <2>4. f[pos[c] + 1] = Applied(f[pos[c]], log[pos[c] + 1])
    <3>1. (pos[c] + 1) - 1 = pos[c]
      BY <2>1
    <3>2. QED
      BY <1>1, <2>1, <3>1 DEF Folds
  <2>5. proj[ref[c]] = f[pos[c]]
    BY <1>1, <1>6 DEF Feed
  <2>6. UNCHANGED <<log, truth, ref>>
    BY <1>6 DEF Feed
  <2>7. \A d \in Calls : proj'[ref'[d]] = f[pos'[d]]
    BY <2>2, <2>3, <2>4, <2>5, <2>6
  <2>8. QED
    BY <1>2, <2>6, <2>7
<1>7. ASSUME NEW c \in Calls, Produce(c)
      PROVE  PrefixInv'
  <2> DEFINE e == Event(op[c], turn[c])
             n == Len(log)
             g == [i \in 0 .. n + 1 |-> IF i = n + 1 THEN Applied(truth, e) ELSE f[i]]
  <2>1. e \in Events /\ (e.type = "turn_started" => e.turn >= 1)
    BY <1>7 DEF Produce, Event, Events, StoreInv, AskedInv, TypeOK
  <2>2. log' = Append(log, e) /\ truth' = Applied(truth, e)
    BY <1>7 DEF Produce, Appended
  <2> HIDE DEF e
  <2>3. /\ n \in Nat /\ Len(log') = n + 1 /\ log'[n + 1] = e
        /\ \A i \in 1 .. n : log'[i] = log[i]
    BY <2>1, <2>2, LogAppended, Types DEF StoreInv
  <2>4. truth' \in Projections
    BY <2>1, <2>2, AppliedType, Types DEF StoreInv
  <2>5. g \in [0 .. Len(log') -> Projections]
    <3>1. \A i \in 0 .. n + 1 : (IF i = n + 1 THEN Applied(truth, e) ELSE f[i]) \in Projections
      BY <1>1, <2>2, <2>3, <2>4 DEF Folds
    <3>2. QED
      BY <2>3, <3>1
  <2>6. g[0] = EmptyProjection /\ g[Len(log')] = truth'
    BY <1>1, <2>2, <2>3 DEF Folds
  <2>7. ASSUME NEW i \in 1 .. Len(log')
        PROVE  g[i] = Applied(g[i - 1], log'[i])
    <3>1. CASE i = n + 1
      <4>1. g[i] = Applied(truth, e) /\ g[i - 1] = f[n]
        BY <2>3, <3>1
      <4>2. QED
        BY <1>1, <2>3, <3>1, <4>1 DEF Folds
    <3>2. CASE i \in 1 .. n
      <4>1. g[i] = f[i] /\ g[i - 1] = f[i - 1]
        BY <2>3, <3>2
      <4>2. QED
        BY <1>1, <2>3, <3>2, <4>1 DEF Folds
    <3>3. QED
      BY <2>3, <3>1, <3>2
  <2> HIDE DEF g
  <2>8. PICK h : h = g
    OBVIOUS
  <2>9. \A d \in Calls : pc'[d] # "loading"
    BY <1>7 DEF Produce, GoTo, StoreInv, TypeOK
  <2>10. Folds(h)'
    BY <2>5, <2>6, <2>7, <2>8 DEF Folds
  <2>11. QED
    BY <2>9, <2>10 DEF PrefixInv
<1>8. QED
  BY <1>3, <1>4, <1>5, <1>6, <1>7, SerialActions

LEMMA WriteInvStep ==
  ASSUME Serial, StoreInv, CacheInv, WriteInv, Next
  PROVE  WriteInv'
<1> USE DEF Serial
<1>1. CASE Evict
  BY <1>1 DEF Evict, call, WriteInv
<1>2. ASSUME NEW c \in Calls, Arrive(c)
      PROVE  WriteInv'
  <2>1. \/ \E t : t # "turn_ended" /\ Begin(c, t, 0)
        \/ \E n : Begin(c, "turn_ended", n)
    BY <1>2 DEF Arrive
  <2>2. \A d \in Calls : pc'[d] # "lock"
                         /\ (pc'[d] = "guard" => op'[d] = "turn_ended")
    BY <2>1 DEF Begin, GoTo, StoreInv, TypeOK
  <2>3. QED
    BY <2>2 DEF WriteInv
<1>3. ASSUME NEW c \in Calls,
             \/ EnsureHit(c) \/ EnsureMiss(c) \/ Insert(c) \/ Feed(c) \/ Loaded(c)
             \/ QueryPanic(c) \/ Produce(c) \/ ProduceFailed(c) \/ ApplyWrite(c)
      PROVE  WriteInv'
  <2>1. pc'[c] \notin {"guard", "lock"}
    BY <1>3 DEF EnsureHit, EnsureMiss, Insert, Feed, Loaded, Ensured, QueryPanic, Produce,
       ProduceFailed, ApplyWrite, GoTo, StoreInv, TypeOK
  <2>2. QED
    BY <2>1 DEF WriteInv
<1>4. ASSUME NEW c \in Calls, Query(c)
      PROVE  WriteInv'
  <2>1. proj[cached] = truth
    BY <1>4 DEF Query, CacheInv
  <2>2. \A d \in Calls : pc'[d] # "lock"
    BY <1>4 DEF Query, GoTo, StoreInv, TypeOK
  <2>3. ASSUME pc'[c] = "guard", op[c] = "turn_started"
        PROVE  asks[c] = "turn"
    BY <1>4, <2>3 DEF Query, GoTo, StoreInv, TypeOK
  <2>4. asks[c] = "turn" => turn'[c] = truth.maxTurn + 1
    BY <1>4, <2>1 DEF Query, NextTurn, StoreInv, TypeOK
  <2>5. UNCHANGED <<op, truth>>
    BY <1>4 DEF Query
  <2>6. QED
    BY <2>2, <2>3, <2>4, <2>5 DEF WriteInv
<1>5. ASSUME NEW c \in Calls, Guard(c)
      PROVE  WriteInv'
  <2>1. pc'[c] = "lock" => op[c] = "turn_ended" \/ GuardAllows(truth.state, op[c])
    BY <1>5 DEF Guard, GoTo, CacheInv, StoreInv, TypeOK
  <2>2. GuardAllows(truth.state, "turn_ended")
    BY DEF GuardAllows
  <2>3. UNCHANGED <<op, truth, turn>> /\ pc[c] = "guard"
    BY <1>5 DEF Guard
  <2>4. QED
    BY <2>1, <2>2, <2>3 DEF WriteInv
<1>6. QED
  BY <1>1, <1>2, <1>3, <1>4, <1>5, SerialActions

(* What serial calls write. *)
LEMMA WrittenIsLegal ==
  ASSUME StoreInv, WriteInv, NEW c \in Calls, Produce(c)
  PROVE  /\ op[c] \in AllEventTypes
         /\ op[c] = "turn_started" =>
              truth.state \in {"Ready", "Claimed"} /\ turn[c] = truth.maxTurn + 1
         /\ op[c] \in TaskEvents =>
              Lifecycle!CanTransition(truth.state, TargetState[op[c]])
<1>1. pc[c] = "lock"
  BY DEF Produce
<1>2. op[c] \in AllEventTypes
  BY <1>1 DEF StoreInv, AskedInv, TypeOK
<1>3. GuardAllows(truth.state, op[c])
      /\ (op[c] = "turn_started" => turn[c] = truth.maxTurn + 1)
  BY <1>1 DEF WriteInv
<1>4. CASE op[c] = "turn_started"
  BY <1>2, <1>3, <1>4, TypesDistinct DEF GuardAllows
<1>5. CASE op[c] \in TaskEvents
  <2>1. op[c] \notin {"turn_started", "turn_ended"}
    BY <1>5, TypesDistinct
  <2>2. QED
    BY <1>2, <1>3, <1>5, <2>1 DEF GuardAllows
<1>6. QED
  BY <1>2, <1>4, <1>5

(* Nothing leads out of an end state. *)
LEMMA TerminalIsEnd ==
  ASSUME NEW from, NEW to, Lifecycle!CanTransition(from, to)
  PROVE  from \notin Lifecycle!Terminal
BY DEF Lifecycle!CanTransition, Lifecycle!Terminal, Lifecycle!States

(* Which state LogdbdEventStore derives. *)
LEMMA LatestDecides ==
  ASSUME NEW L \in Seq(Events), Len(L) >= 1, L[1].type = "task_created",
         NEW m, Latest(L, m)
  PROVE  /\ (TargetState[L[m].type] = "Claimed"
              /\ \E j \in 1 .. Len(L) : j > m /\ L[j].type = "turn_started")
              => RefState(L) = "Executing"
         /\ ~ (TargetState[L[m].type] = "Claimed"
              /\ \E j \in 1 .. Len(L) : j > m /\ L[j].type = "turn_started")
              => RefState(L) = TargetState[L[m].type]
<1> DEFINE R == RefTaskRecords(L)
           latest == CHOOSE i \in R : \A j \in R : j <= i
<1>1. DOMAIN L = 1 .. Len(L) /\ Len(L) \in Nat
  OBVIOUS
<1>2. R \subseteq 1 .. Len(L)
  BY <1>1 DEF RefTaskRecords
<1>3. m \in R /\ \A j \in R : j <= m
  BY DEF Latest
<1>4. latest \in R /\ \A j \in R : j <= latest
  BY <1>3
<1>5. latest = m
  <2>1. latest <= m /\ m <= latest /\ latest \in Nat /\ m \in Nat
    BY <1>2, <1>3, <1>4
  <2>2. QED
    BY <2>1
<1>6. 1 \in R
  BY <1>1 DEF RefTaskRecords
<1>7. RefState(L) = DerivedState(L, R)
  BY <1>6 DEF RefState
<1>8. DerivedState(L, R) =
        IF TargetState[L[latest].type] = "Claimed"
           /\ \E j \in DOMAIN L : j > latest /\ L[j].type = "turn_started"
        THEN "Executing" ELSE TargetState[L[latest].type]
  BY DEF DerivedState
<1>9. QED
  BY <1>1, <1>5, <1>7, <1>8

LEMMA StatesStep ==
  ASSUME Serial, StoreInv, WriteInv, StatesInv, Next
  PROVE  StatesInv'
<1> USE DEF Serial
<1>1. SUFFICES ASSUME NEW c \in Calls, Produce(c) PROVE StatesInv'
  <2>1. CASE UNCHANGED <<log, truth>>
    BY <2>1 DEF StatesInv, StatesAgree
  <2>2. UNCHANGED <<log, truth>> \/ \E c \in Calls : Produce(c)
    BY SerialActions DEF Evict, Arrive, Begin, EnsureHit, EnsureMiss, Insert, Feed,
       Loaded, Query, QueryPanic, Guard, ProduceFailed, ApplyWrite
  <2>3. QED
    BY <1>1, <2>1, <2>2
<1> DEFINE e == Event(op[c], turn[c])
           n == Len(log)
<1>2. /\ e.type \in AllEventTypes /\ e \in Events
      /\ e.type = "turn_started" => truth.state \in {"Ready", "Claimed"}
      /\ e.type \in TaskEvents =>
           Lifecycle!CanTransition(truth.state, TargetState[e.type])
  <2>1. turn[c] \in 0 .. MaxEvents /\ e.type = op[c] /\ e.turn = turn[c]
    BY DEF StoreInv, TypeOK, Event
  <2>2. e \in Events
    BY <1>1, <2>1, WrittenIsLegal DEF Event, Events
  <2>3. QED
    BY <1>1, <2>1, <2>2, WrittenIsLegal
<1>3. log' = Append(log, e) /\ truth'.state = AppliedState(truth.state, e.type)
  BY <1>1, AppliedFields DEF Produce, Appended
<1> HIDE DEF e
<1>4. /\ n \in Nat /\ log \in Seq(Events) /\ log' \in Seq(Events)
      /\ Len(log') = n + 1 /\ log'[n + 1] = e
      /\ DOMAIN log = 1 .. n /\ DOMAIN log' = (1 .. n) \cup {n + 1}
      /\ 1 .. Len(log') = (1 .. n) \cup {n + 1}
      /\ \A i \in 1 .. n : log'[i] = log[i]
  <2>1. log \in Seq(Events) /\ log' \in Seq(Events)
    BY <1>2, <1>3, LogAppended, Types DEF StoreInv
  <2>2. QED
    BY <1>2, <1>3, <2>1, LogAppended
<1>5. PICK m \in 1 .. n : Latest(log, m)
  BY DEF StatesInv
<1>6. n >= 1 /\ log[1].type = "task_created" /\ log'[1].type = "task_created"
  <2>1. n >= 1
    BY <1>4, <1>5
  <2>2. QED
    BY <1>4, <2>1 DEF StatesInv
<1>7. StatesAgree
  BY DEF StatesInv
<1>8. RefEnded(log') <=>
        RefEnded(log) \/ e.type \in {"task_succeeded", "task_failed", "task_canceled"}
  BY <1>4 DEF RefEnded
<1>9. ASSUME e.type \notin TaskEvents
      PROVE  Latest(log', m)
  <2>1. RefTaskRecords(log') = RefTaskRecords(log)
    BY <1>2, <1>4, <1>9, TypesDistinct DEF RefTaskRecords
  <2>2. QED
    BY <1>5, <2>1 DEF Latest
<1>10. CASE e.type = "turn_ended"
  <2>1. Latest(log', m) /\ log'[m] = log[m]
    BY <1>4, <1>9, <1>10, TypesDistinct
  <2>2. (\E j \in 1 .. Len(log') : j > m /\ log'[j].type = "turn_started")
          <=> (\E j \in 1 .. n : j > m /\ log[j].type = "turn_started")
    BY <1>4, <1>10
  <2>3. RefState(log') = RefState(log)
    BY <1>4, <1>5, <1>6, <2>1, <2>2, LatestDecides, SMTT(30)
  <2>4. truth'.state = truth.state
    BY <1>3, <1>10 DEF AppliedState
  <2>5. QED
    BY <1>4, <1>6, <1>7, <1>8, <1>10, <2>1, <2>3, <2>4 DEF StatesInv, StatesAgree
<1>11. CASE e.type = "turn_started"
  <2>1. Latest(log', m) /\ log'[m] = log[m]
    BY <1>4, <1>9, <1>11, TypesDistinct
  <2>2. truth.state \in {"Ready", "Claimed"} /\ truth'.state = "Executing"
    BY <1>2, <1>3, <1>11 DEF AppliedState
  <2>3. \E j \in 1 .. Len(log') : j > m /\ log'[j].type = "turn_started"
    BY <1>4, <1>5, <1>11
  <2>4. RefState(log) = truth.state
    BY <1>7, <2>2 DEF StatesAgree
  <2>5. TargetState[log[m].type] \in {"Ready", "Claimed"}
    BY <1>4, <1>5, <1>6, <2>2, <2>4, LatestDecides
  <2>6. RefState(log') \in {"Executing", "Ready"}
    BY <1>4, <1>6, <2>1, <2>3, <2>5, LatestDecides
  <2>7. ~ RefEnded(log') /\ truth'.state \notin Lifecycle!Terminal
    BY <1>7, <1>8, <1>11, <2>2 DEF StatesAgree, Lifecycle!Terminal
  <2>8. QED
    BY <1>4, <1>6, <2>1, <2>2, <2>6, <2>7 DEF StatesInv, StatesAgree
<1>12. CASE e.type \in TaskEvents
  <2>1. Latest(log', n + 1)
    BY <1>4, <1>12 DEF Latest, RefTaskRecords
  <2>2. ~ \E j \in 1 .. Len(log') : j > n + 1
    BY <1>4
  <2>3. RefState(log') = TargetState[e.type]
    BY <1>4, <1>6, <2>1, <2>2, LatestDecides
  <2>4. truth'.state = TargetState[e.type]
    <3>1. e.type \notin {"turn_started", "turn_ended"}
      BY <1>12, TypesDistinct
    <3>2. QED
      BY <1>3, <3>1 DEF AppliedState
  <2>5. ~ RefEnded(log)
    BY <1>2, <1>7, <1>12, TerminalIsEnd DEF StatesAgree
  <2>6. TargetState[e.type] \in Lifecycle!Terminal <=>
          e.type \in {"task_succeeded", "task_failed", "task_canceled"}
    BY <1>12 DEF TaskEvents, TargetState, Lifecycle!Terminal
  <2>7. n + 1 \in 1 .. Len(log')
    BY <1>4
  <2>8. QED
    BY <1>6, <1>8, <2>1, <2>3, <2>4, <2>5, <2>6, <2>7 DEF StatesInv, StatesAgree
<1>13. QED
  BY <1>2, <1>10, <1>11, <1>12, TypesDistinct

LEMMA TurnsStep ==
  ASSUME Serial, StoreInv, WriteInv, TurnsDistinct, Next
  PROVE  TurnsDistinct'
<1> USE DEF Serial
<1>1. CASE UNCHANGED log
  BY <1>1 DEF TurnsDistinct
<1>2. ASSUME NEW c \in Calls, Produce(c)
      PROVE  TurnsDistinct'
  <2> DEFINE e == Event(op[c], turn[c])
             n == Len(log)
  <2>1. e \in Events /\ e.type = op[c] /\ e.turn = turn[c]
    <3>1. turn[c] \in 0 .. MaxEvents
      BY DEF StoreInv, TypeOK
    <3>2. QED
      BY <1>2, <3>1, WrittenIsLegal DEF Event, Events
  <2>2. e.type = "turn_started" => e.turn = truth.maxTurn + 1
    BY <1>2, <2>1, WrittenIsLegal
  <2>3. log' = Append(log, e)
    BY <1>2 DEF Produce, Appended
  <2> HIDE DEF e
  <2>4. /\ n \in Nat /\ log'[n + 1] = e /\ DOMAIN log = 1 .. n
        /\ DOMAIN log' = (1 .. n) \cup {n + 1}
        /\ \A i \in 1 .. n : log'[i] = log[i]
    <3>1. log \in Seq(Events) /\ log' \in Seq(Events)
      BY <2>1, <2>3, LogAppended, Types DEF StoreInv
    <3>2. QED
      BY <2>1, <2>3, <3>1, LogAppended
  <2>5. ASSUME NEW i \in 1 .. n, e.type = "turn_started"
        PROVE  log[i].turn # e.turn
    <3>1. log[i].turn <= truth.maxTurn /\ log[i].turn \in 0 .. MaxEvents
          /\ truth.maxTurn \in 0 .. MaxEvents
      BY Types DEF StoreInv, TurnsInv, Events
    <3>2. QED
      BY <2>2, <2>5, <3>1
  <2>6. QED
    BY <2>4, <2>5 DEF TurnsDistinct
<1>3. UNCHANGED log \/ \E c \in Calls : Produce(c)
  BY SerialActions DEF Evict, Arrive, Begin, EnsureHit, EnsureMiss, Insert, Feed,
     Loaded, Query, QueryPanic, Guard, ProduceFailed, ApplyWrite
<1>4. QED
  BY <1>1, <1>2, <1>3

LEMMA SerialStep ==
  ASSUME Serial, SerialInv, [Next]_vars
  PROVE  SerialInv'
<1>1. CASE Next
  BY <1>1, StoreStep, CacheStep, PrefixStep, WriteInvStep, StatesStep, TurnsStep
     DEF SerialInv
<1>2. CASE UNCHANGED vars
  <2>1. StoreInv'
    BY <1>2, StoreStep DEF SerialInv
  <2>2. PrefixInv'
    <3>1. UNCHANGED <<log, truth, proj, pc, ref, pos>>
      BY <1>2 DEF vars, call
    <3>2. QED
      BY <3>1 DEF SerialInv, PrefixInv, Folds
  <2>3. CacheInv' /\ WriteInv' /\ TurnsDistinct'
    BY <1>2 DEF vars, call, SerialInv, CacheInv, WriteInv, TurnsDistinct
  <2>4. StatesInv'
    <3>1. log' = log /\ truth' = truth
      BY <1>2 DEF vars
    <3>2. QED
      BY <3>1 DEF SerialInv, StatesInv, StatesAgree, Latest
  <2>5. QED
    BY <2>1, <2>2, <2>3, <2>4 DEF SerialInv
<1>3. QED
  BY <1>1, <1>2

LEMMA SerialInvariant == Serial => (Spec => []SerialInv)
<1>1. SUFFICES ASSUME Serial PROVE Spec => []SerialInv
  OBVIOUS
<1>2. SerialInv /\ [Next]_vars => SerialInv'
  BY <1>1, SerialStep
<1>3. QED
  BY <1>2, SerialInit, PTL DEF Spec

-----------------------------------------------------------------------------
(* The theorems on serial calls.                                           *)

(* An event that is added to the log is legal in its state: the guard of   *)
(* write_event, which reads a projection, judges the log itself, although  *)
(* the projection may have been evicted and built again since.             *)
THEOREM WritesAreLegal == Serial => (Spec => LegalWrites)
<1>1. SUFFICES ASSUME Serial PROVE Spec => LegalWrites
  OBVIOUS
<1>2. SerialInv /\ [Next]_vars => [LegalWrite]_vars
  <2> SUFFICES ASSUME SerialInv, Next PROVE LegalWrite
    OBVIOUS
  <2>1. CASE UNCHANGED log
    BY <2>1 DEF LegalWrite
  <2>2. ASSUME NEW c \in Calls, Produce(c) PROVE LegalWrite
    <3>1. log' = Append(log, Event(op[c], turn[c])) /\ log \in Seq(Events)
      BY <2>2, Types DEF Produce, Appended, SerialInv, StoreInv
    <3>2. log'[Len(log')].type = op[c]
      BY <3>1 DEF Event
    <3>3. QED
      BY <2>2, <3>2, WrittenIsLegal DEF SerialInv, LegalWrite
  <2>3. UNCHANGED log \/ \E c \in Calls : Produce(c)
    BY <1>1, SerialActions DEF Evict, Arrive, Begin, EnsureHit, EnsureMiss, Insert, Feed,
       Loaded, Query, QueryPanic, Guard, ProduceFailed, ApplyWrite
  <2>4. QED
    BY <2>1, <2>2, <2>3
<1>3. QED
  BY <1>1, <1>2, SerialInvariant, PTL DEF Spec, LegalWrites

(* The store implements the life cycle of a task: its first state maps to  *)
(* Created, and every step to a legal move of the task or to a stutter.    *)
THEOREM StoreImplementsLifecycle == Serial => (Spec => ImplementsLifecycle)
<1>1. SUFFICES ASSUME Serial PROVE Spec => ImplementsLifecycle
  OBVIOUS
<1>2. Init => Lifecycle!Init
  BY DEF Init, EmptyProjection, Lifecycle!Init
<1>3. SerialInv /\ [Next]_vars => [Lifecycle!Next]_(truth.state)
  <2> SUFFICES ASSUME SerialInv, Next
               PROVE  Lifecycle!Next \/ truth'.state = truth.state
    BY DEF vars
  <2>1. ASSUME NEW c \in Calls, Produce(c)
        PROVE  Lifecycle!Next \/ truth'.state = truth.state
    <3>1. truth'.state = AppliedState(truth.state, op[c])
      BY <2>1, AppliedFields DEF Produce, Appended, Event
    <3>2. CASE op[c] = "turn_started"
      BY <2>1, <3>1, <3>2, WrittenIsLegal
         DEF AppliedState, SerialInv, Lifecycle!Next, Lifecycle!Dispatch
    <3>3. CASE op[c] = "turn_ended"
      BY <3>1, <3>3 DEF AppliedState
    <3>4. CASE op[c] \in TaskEvents
      <4>1. op[c] \notin {"turn_started", "turn_ended"}
        BY <3>4, TypesDistinct
      <4>2. truth'.state = TargetState[op[c]]
        BY <3>1, <4>1 DEF AppliedState
      <4>3. TargetState[op[c]] \in Lifecycle!States
        BY <3>4, TargetsAreStates
      <4>4. Lifecycle!CanTransition(truth.state, TargetState[op[c]])
        BY <2>1, <3>4, WrittenIsLegal DEF SerialInv
      <4>5. Lifecycle!Move(TargetState[op[c]])
        BY <4>2, <4>4 DEF Lifecycle!Move
      <4>6. QED
        BY <4>3, <4>5 DEF Lifecycle!Next
    <3>5. op[c] \in AllEventTypes
      BY <2>1, WrittenIsLegal DEF SerialInv
    <3>6. QED
      BY <3>2, <3>3, <3>4, <3>5, TypesDistinct
  <2>2. UNCHANGED truth \/ \E c \in Calls : Produce(c)
    BY <1>1, SerialActions DEF Evict, Arrive, Begin, EnsureHit, EnsureMiss, Insert, Feed,
       Loaded, Query, QueryPanic, Guard, ProduceFailed, ApplyWrite
  <2>3. QED
    BY <2>1, <2>2
<1>4. QED
  BY <1>1, <1>2, <1>3, SerialInvariant, PTL DEF Spec, ImplementsLifecycle, Lifecycle!Spec

(* LogdbdEventStore, which looks for the latest task event, and the        *)
(* projection of BrokerEventStore give a task the same state, but for a    *)
(* turn that was started without a claim.                                  *)
THEOREM StoresAgree == Serial => (Spec => []StatesAgree)
BY SerialInvariant, PTL DEF SerialInv, StatesInv

(* No two turns of a task have the same number (start_turn).               *)
THEOREM TurnsAreDistinct == Serial => (Spec => []TurnsDistinct)
BY SerialInvariant, PTL DEF SerialInv

-----------------------------------------------------------------------------
(* Concurrent calls and all faults.  A projection may be loaded by several *)
(* calls at once while a write is still to be applied to it, so that its   *)
(* events are applied again and out of order; what matters is the suffix   *)
(* of the log that will still be applied to it.                            *)

(* The last task event of the log, and turns that started after it.        *)
StartedIn(i, j) == \E k \in i .. j : log[k].type = "turn_started"

TaskEventIn(i, j) == \E k \in i .. j : log[k].type \notin {"turn_started", "turn_ended"}

TurnEventIn(t, i, j) ==
  \E k \in i .. j : log[k].type \in {"turn_started", "turn_ended"} /\ log[k].turn = t

(* What the log says of the state: its last task event, and whether a turn *)
(* was started since.                                                      *)
StateOfLog(m) ==
  /\ m \in 1 .. Len(log)
  /\ log[m].type \notin {"turn_started", "turn_ended"}
  /\ ~TaskEventIn(m + 1, Len(log))
  /\ truth.state = IF /\ TargetState[log[m].type] \in {"Ready", "Claimed"}
                      /\ StartedIn(m + 1, Len(log))
                   THEN "Executing" ELSE TargetState[log[m].type]

(* ... and of a turn: it is active if its last event started it.           *)
LastOfTurn(t, k) ==
  /\ k \in 1 .. Len(log)
  /\ log[k].type \in {"turn_started", "turn_ended"} /\ log[k].turn = t
  /\ ~TurnEventIn(t, k + 1, Len(log))

TruthInv ==
  /\ log[1].type = "task_created"
  /\ \E m \in 1 .. Len(log) : StateOfLog(m)
  /\ \A t : ~TurnEventIn(t, 1, Len(log)) => t \notin truth.active
  /\ \A t, k : LastOfTurn(t, k) => (t \in truth.active <=> log[k].type = "turn_started")
  /\ truth.maxTurn = 0 \/ \E k \in 1 .. Len(log) : log[k].turn = truth.maxTurn

(* A projection will be that of the whole log once the events from j + 1   *)
(* on are applied to it, whatever of them was applied before.              *)
Right(p, j) ==
  /\ \/ TaskEventIn(j + 1, Len(log))
     \/ p.state = truth.state
     \/ /\ p.state \in {"Ready", "Claimed"} /\ truth.state = "Executing"
        /\ StartedIn(j + 1, Len(log))
  /\ \A t : TurnEventIn(t, j + 1, Len(log)) \/ (t \in p.active <=> t \in truth.active)
  /\ \/ p.maxTurn = truth.maxTurn
     \/ \E k \in j + 1 .. Len(log) : log[k].turn = truth.maxTurn

(* All who load the cached projection, and the write not yet applied to    *)
(* it, still have to apply the events from j + 1 on.                       *)
Ahead(j) ==
  \A c \in Calls :
    /\ pc[c] = "loading" /\ ref[c] = cached => j <= pos[c]
    /\ pc[c] = "apply" => j < pos[c]

CachedIsRight ==
  cached # NoObject /\ cached \notin tainted =>
    \A j \in 0 .. Len(log) : Ahead(j) => Right(proj[cached], j)

(* Who loads, and who writes. *)
LoadersInv ==
  /\ cached <= created
  /\ \A o \in Objects : o > created => proj[o] = EmptyProjection
  /\ \A c \in Calls :
       /\ pc[c] = "joined" => pos[c] = 0 /\ target[c] <= Len(log)
       /\ pc[c] = "loading" =>
            ref[c] <= created /\ (ref[c] \notin tainted => target[c] = Len(log))
       /\ pc[c] = "apply" => writer = c /\ pos[c] = Len(log)

SharedInv == StoreInv /\ TruthInv /\ LoadersInv /\ CachedIsRight

(* The facts about the log that the lemmas below rest on. *)
LogFacts ==
  /\ log \in Seq(Events) /\ Len(log) \in Nat
  /\ \A k \in 1 .. Len(log) : log[k] \in Events /\ log[k].turn <= truth.maxTurn
  /\ truth \in Projections /\ truth.maxTurn \in Nat

LEMMA LogIsTyped == StoreInv => LogFacts
BY Types, StoreAssumption DEF StoreInv, LogFacts, TurnsInv

LEMMA AppliedParts ==
  ASSUME NEW p \in Projections, NEW e \in Events
  PROVE  /\ e.type \notin {"turn_started", "turn_ended"} =>
              /\ Applied(p, e).state = TargetState[e.type]
              /\ Applied(p, e).active = p.active
         /\ e.type = "turn_started" =>
              /\ Applied(p, e).state =
                   IF p.state \in {"Ready", "Claimed"} THEN "Executing" ELSE p.state
              /\ Applied(p, e).active = p.active \cup {e.turn}
         /\ e.type = "turn_ended" =>
              /\ Applied(p, e).state = p.state
              /\ Applied(p, e).active = p.active \ {e.turn}
         /\ Applied(p, e).maxTurn = IF e.turn > p.maxTurn THEN e.turn ELSE p.maxTurn
BY DEF Applied, AppliedState

(* A turn that started after the last task event took the task out of the  *)
(* states it can start in.                                                 *)
LEMMA StartAfterTask ==
  ASSUME LogFacts, TruthInv, NEW h \in Nat, NEW i \in h .. Len(log),
         ~TaskEventIn(h, Len(log)), log[i].type = "turn_started"
  PROVE  truth.state \notin {"Ready", "Claimed"}
<1>1. PICK m \in 1 .. Len(log) : StateOfLog(m)
  BY DEF TruthInv
<1>2. m < h
  BY <1>1 DEF StateOfLog, TaskEventIn, LogFacts
<1>3. StartedIn(m + 1, Len(log))
  BY <1>2 DEF StartedIn, LogFacts
<1>4. QED
  BY <1>1, <1>3 DEF StateOfLog

(* An event that is still to be applied may be applied earlier, too.       *)
LEMMA AppliedEarly ==
  ASSUME LogFacts, TruthInv, NEW p \in Projections, p.maxTurn \in Nat,
         NEW j \in Nat, NEW i \in j + 1 .. Len(log), Right(p, j)
  PROVE  Right(Applied(p, log[i]), j)
<1> DEFINE e == log[i]
           q == Applied(p, e)
<1>1. i \in 1 .. Len(log) /\ e \in Events /\ e.turn \in Nat /\ e.turn <= truth.maxTurn
  BY StoreAssumption DEF LogFacts, Events
<1>2. /\ e.type \notin {"turn_started", "turn_ended"} =>
           q.state = TargetState[e.type] /\ q.active = p.active
      /\ e.type = "turn_started" =>
           /\ q.state = IF p.state \in {"Ready", "Claimed"} THEN "Executing" ELSE p.state
           /\ q.active = p.active \cup {e.turn}
      /\ e.type = "turn_ended" =>
           q.state = p.state /\ q.active = p.active \ {e.turn}
      /\ q.maxTurn = IF e.turn > p.maxTurn THEN e.turn ELSE p.maxTurn
  BY <1>1, AppliedParts
<1> HIDE DEF q
<1>3. \/ TaskEventIn(j + 1, Len(log))
      \/ q.state = truth.state
      \/ /\ q.state \in {"Ready", "Claimed"} /\ truth.state = "Executing"
         /\ StartedIn(j + 1, Len(log))
  <2>1. CASE e.type \notin {"turn_started", "turn_ended"}
    BY <2>1 DEF TaskEventIn
  <2>2. CASE e.type = "turn_started" /\ ~TaskEventIn(j + 1, Len(log))
    <3>1. truth.state \notin {"Ready", "Claimed"}
      BY <2>2, StartAfterTask
    <3>2. QED
      BY <1>2, <2>2, <3>1 DEF Right
  <2>3. CASE e.type = "turn_ended"
    BY <1>2, <2>3 DEF Right
  <2>4. QED
    BY <2>1, <2>2, <2>3
<1>4. ASSUME NEW t
      PROVE  TurnEventIn(t, j + 1, Len(log)) \/ (t \in q.active <=> t \in truth.active)
  <2>1. CASE e.type \notin {"turn_started", "turn_ended"} \/ t # e.turn
    BY <1>2, <2>1 DEF Right
  <2>2. CASE e.type \in {"turn_started", "turn_ended"} /\ t = e.turn
    BY <2>2 DEF TurnEventIn
  <2>3. QED
    BY <2>1, <2>2
<1>5. q.maxTurn = truth.maxTurn \/ \E k \in j + 1 .. Len(log) : log[k].turn = truth.maxTurn
  BY <1>1, <1>2 DEF Right, LogFacts
<1>6. QED
  BY <1>3, <1>4, <1>5 DEF Right, q

(* The next event, applied by the one who is furthest behind, brings a     *)
(* projection one event on.                                                *)
LEMMA AppliedNext ==
  ASSUME LogFacts, TruthInv, NEW p \in Projections, p.maxTurn \in Nat,
         p.maxTurn <= truth.maxTurn,
         NEW i \in 1 .. Len(log), Right(p, i - 1)
  PROVE  Right(Applied(p, log[i]), i)
<1> DEFINE e == log[i]
           q == Applied(p, e)
<1>1. e \in Events /\ e.turn \in Nat /\ e.turn <= truth.maxTurn
      /\ Len(log) \in Nat /\ i - 1 \in Nat /\ (i - 1) + 1 = i
  BY StoreAssumption DEF LogFacts, Events
<1>2. /\ e.type \notin {"turn_started", "turn_ended"} =>
           q.state = TargetState[e.type] /\ q.active = p.active
      /\ e.type = "turn_started" =>
           /\ q.state = IF p.state \in {"Ready", "Claimed"} THEN "Executing" ELSE p.state
           /\ q.active = p.active \cup {e.turn}
      /\ e.type = "turn_ended" =>
           q.state = p.state /\ q.active = p.active \ {e.turn}
      /\ q.maxTurn = IF e.turn > p.maxTurn THEN e.turn ELSE p.maxTurn
  BY <1>1, AppliedParts
<1> HIDE DEF q
<1>3. \/ TaskEventIn(i + 1, Len(log))
      \/ q.state = truth.state
      \/ /\ q.state \in {"Ready", "Claimed"} /\ truth.state = "Executing"
         /\ StartedIn(i + 1, Len(log))
  <2> SUFFICES ASSUME ~TaskEventIn(i + 1, Len(log))
               PROVE  \/ q.state = truth.state
                      \/ /\ q.state \in {"Ready", "Claimed"} /\ truth.state = "Executing"
                         /\ StartedIn(i + 1, Len(log))
    OBVIOUS
  <2>1. CASE e.type \notin {"turn_started", "turn_ended"}
    <3>1. PICK m \in 1 .. Len(log) : StateOfLog(m)
      BY DEF TruthInv
    <3>2. m = i
      BY <1>1, <2>1, <3>1 DEF StateOfLog, TaskEventIn
    <3>3. QED
      BY <1>2, <2>1, <3>1, <3>2 DEF StateOfLog
  <2>2. ASSUME e.type \in {"turn_started", "turn_ended"}
        PROVE  ~TaskEventIn(i, Len(log))
    BY <1>1, <2>2 DEF TaskEventIn
  <2>3. CASE e.type = "turn_started"
    <3>1. truth.state \notin {"Ready", "Claimed"}
      BY <1>1, <2>2, <2>3, StartAfterTask
    <3>2. QED
      BY <1>1, <1>2, <2>2, <2>3, <3>1 DEF Right
  <2>4. CASE e.type = "turn_ended"
    <3>1. StartedIn(i, Len(log)) => StartedIn(i + 1, Len(log))
      BY <1>1, <2>4 DEF StartedIn
    <3>2. QED
      BY <1>1, <1>2, <2>2, <2>4, <3>1 DEF Right
  <2>5. QED
    BY <2>1, <2>3, <2>4
<1>4. ASSUME NEW t
      PROVE  TurnEventIn(t, i + 1, Len(log)) \/ (t \in q.active <=> t \in truth.active)
  <2>1. CASE e.type \notin {"turn_started", "turn_ended"} \/ t # e.turn
    <3>1. TurnEventIn(t, i, Len(log)) => TurnEventIn(t, i + 1, Len(log))
      BY <1>1, <2>1 DEF TurnEventIn
    <3>2. QED
      BY <1>1, <1>2, <2>1, <3>1 DEF Right
  <2>2. CASE /\ e.type \in {"turn_started", "turn_ended"} /\ t = e.turn
             /\ ~TurnEventIn(t, i + 1, Len(log))
    <3>1. LastOfTurn(t, i)
      BY <2>2 DEF LastOfTurn
    <3>2. t \in truth.active <=> e.type = "turn_started"
      BY <3>1 DEF TruthInv
    <3>3. QED
      BY <1>2, <2>2, <3>2
  <2>3. QED
    BY <2>1, <2>2
<1>5. q.maxTurn = truth.maxTurn \/ \E k \in i + 1 .. Len(log) : log[k].turn = truth.maxTurn
  <2>1. CASE e.turn = truth.maxTurn \/ p.maxTurn = truth.maxTurn
    BY <1>1, <1>2, <2>1 DEF LogFacts
  <2>2. CASE e.turn # truth.maxTurn /\ p.maxTurn # truth.maxTurn
    BY <1>1, <2>2 DEF Right
  <2>3. QED
    BY <2>1, <2>2
<1>6. QED
  BY <1>3, <1>4, <1>5 DEF Right, q

(* A projection that has nothing left to be applied is that of the log. *)
LEMMA RightAtTheEnd ==
  ASSUME LogFacts, NEW p \in Projections, Right(p, Len(log))
  PROVE  p = truth
<1>1. Len(log) \in Nat /\ Len(log) + 1 > Len(log)
  BY DEF LogFacts
<1>2. p.state = truth.state /\ p.maxTurn = truth.maxTurn
  BY <1>1 DEF Right, TaskEventIn, StartedIn
<1>3. \A t : t \in p.active <=> t \in truth.active
  BY <1>1 DEF Right, TurnEventIn
<1>4. p.active = truth.active
  BY <1>3 DEF Projections, LogFacts
<1>5. QED
  BY <1>2, <1>4 DEF Projections, LogFacts

(* With the whole log still to be applied anything will do that knows of   *)
(* no other turns: a projection that is loaded from the start.             *)
LEMMA EmptyIsRight ==
  ASSUME LogFacts, TruthInv
  PROVE  Right(EmptyProjection, 0)
<1>1. TaskEventIn(1, Len(log))
  BY DEF TruthInv, TaskEventIn, StateOfLog
<1>2. \A t : TurnEventIn(t, 1, Len(log)) \/ (t \in {} <=> t \in truth.active)
  BY DEF TruthInv
<1>3. QED
  BY <1>1, <1>2 DEF Right, EmptyProjection, TruthInv

(* An event that is added to the log is still to be applied. *)
LEMMA AppendedIsRight ==
  ASSUME LogFacts, NEW p \in Projections, p = truth, NEW e \in Events,
         log' = Append(log, e), truth' = Applied(truth, e),
         NEW j \in 0 .. Len(log)
  PROVE  Right(p, j)'
<1>1. /\ Len(log) \in Nat /\ Len(log') = Len(log) + 1 /\ log'[Len(log) + 1] = e
      /\ Len(log) + 1 \in j + 1 .. Len(log')
      /\ e.turn \in Nat
  BY StoreAssumption DEF LogFacts, Events
<1>2. /\ e.type \notin {"turn_started", "turn_ended"} =>
           truth'.active = p.active
      /\ e.type = "turn_started" =>
           /\ truth'.state =
                IF p.state \in {"Ready", "Claimed"} THEN "Executing" ELSE p.state
           /\ truth'.active = p.active \cup {e.turn}
      /\ e.type = "turn_ended" =>
           truth'.state = p.state /\ truth'.active = p.active \ {e.turn}
      /\ truth'.maxTurn = IF e.turn > p.maxTurn THEN e.turn ELSE p.maxTurn
  BY AppliedParts
<1>3. \/ TaskEventIn(j + 1, Len(log))'
      \/ p.state = truth'.state
      \/ /\ p.state \in {"Ready", "Claimed"} /\ truth'.state = "Executing"
         /\ StartedIn(j + 1, Len(log))'
  BY <1>1, <1>2 DEF TaskEventIn, StartedIn
<1>4. ASSUME NEW t
      PROVE  TurnEventIn(t, j + 1, Len(log))' \/ (t \in p.active <=> t \in truth'.active)
  BY <1>1, <1>2 DEF TurnEventIn
<1>5. p.maxTurn = truth'.maxTurn
      \/ \E k \in j + 1 .. Len(log') : log'[k].turn = truth'.maxTurn
  BY <1>1, <1>2
<1>6. QED
  BY <1>3, <1>4, <1>5 DEF Right

(* What the log says of its projection, once an event is added to both.    *)
LEMMA TruthAppended ==
  ASSUME LogFacts, TruthInv, NEW e \in Events, log' = Append(log, e),
         truth' = Applied(truth, e)
  PROVE  TruthInv'
<1>0. PICK n \in Nat : n = Len(log)
  BY DEF LogFacts
<1>1. /\ n \in Nat /\ Len(log') = n + 1 /\ log'[n + 1] = e
      /\ \A k \in 1 .. n : log'[k] = log[k]
      /\ e.turn \in Nat
  BY <1>0, StoreAssumption DEF LogFacts, Events
<1>2. /\ e.type \notin {"turn_started", "turn_ended"} =>
           truth'.state = TargetState[e.type] /\ truth'.active = truth.active
      /\ e.type = "turn_started" =>
           /\ truth'.state =
                IF truth.state \in {"Ready", "Claimed"} THEN "Executing" ELSE truth.state
           /\ truth'.active = truth.active \cup {e.turn}
      /\ e.type = "turn_ended" =>
           truth'.state = truth.state /\ truth'.active = truth.active \ {e.turn}
      /\ truth'.maxTurn = IF e.turn > truth.maxTurn THEN e.turn ELSE truth.maxTurn
  BY AppliedParts DEF LogFacts
<1>3. PICK m \in 1 .. n : StateOfLog(m)
  BY <1>0 DEF TruthInv
<1>4. 1 <= n /\ log'[1].type = "task_created"
  BY <1>1, <1>3 DEF TruthInv
<1>5. \E k \in 1 .. n + 1 : StateOfLog(k)'
  <2>1. CASE e.type \notin {"turn_started", "turn_ended"}
    <3>1. StateOfLog(n + 1)'
      BY <1>1, <1>2, <2>1 DEF StateOfLog, TaskEventIn, StartedIn
    <3>2. QED
      BY <1>1, <3>1
  <2>2. CASE e.type \in {"turn_started", "turn_ended"}
    <3>1. TaskEventIn(m + 1, Len(log))' <=> TaskEventIn(m + 1, Len(log))
      BY <1>0, <1>1, <2>2 DEF TaskEventIn
    <3>2. StartedIn(m + 1, Len(log))' <=>
            StartedIn(m + 1, Len(log)) \/ e.type = "turn_started"
      BY <1>0, <1>1, <1>3 DEF StartedIn
    <3>3. log'[m] = log[m]
      BY <1>1
    <3>4. StateOfLog(m)'
      BY <1>0, <1>1, <1>2, <1>3, <2>2, <3>1, <3>2, <3>3 DEF StateOfLog
    <3>5. QED
      BY <1>1, <3>4
  <2>3. QED
    BY <2>1, <2>2
<1>6. ASSUME NEW t, ~TurnEventIn(t, 1, Len(log))'
      PROVE  t \notin truth'.active
  <2>1. ~TurnEventIn(t, 1, Len(log))
    BY <1>0, <1>1, <1>6 DEF TurnEventIn
  <2>2. ~(e.type \in {"turn_started", "turn_ended"} /\ t = e.turn)
    BY <1>1, <1>6 DEF TurnEventIn
  <2>3. QED
    BY <1>2, <2>1, <2>2 DEF TruthInv
<1>7. ASSUME NEW t, NEW k, LastOfTurn(t, k)'
      PROVE  t \in truth'.active <=> log'[k].type = "turn_started"
  <2>1. CASE k = n + 1
    BY <1>1, <1>2, <1>7, <2>1 DEF LastOfTurn
  <2>2. CASE k # n + 1
    <3>1. k \in 1 .. n /\ log'[k] = log[k]
      BY <1>1, <1>7, <2>2 DEF LastOfTurn
    <3>2. ~(e.type \in {"turn_started", "turn_ended"} /\ t = e.turn)
      BY <1>1, <1>7, <3>1 DEF LastOfTurn, TurnEventIn
    <3>3. ~TurnEventIn(t, k + 1, Len(log))
      BY <1>0, <1>1, <1>7, <3>1 DEF LastOfTurn, TurnEventIn
    <3>4. LastOfTurn(t, k)
      BY <1>0, <1>7, <3>1, <3>3 DEF LastOfTurn
    <3>5. QED
      BY <1>2, <3>1, <3>2, <3>4 DEF TruthInv
  <2>3. QED
    BY <2>1, <2>2
<1>8. truth'.maxTurn = 0 \/ \E k \in 1 .. n + 1 : log'[k].turn = truth'.maxTurn
  <2>1. CASE truth'.maxTurn = e.turn
    BY <1>1, <2>1
  <2>2. CASE truth'.maxTurn = truth.maxTurn
    BY <1>0, <1>1, <2>2 DEF TruthInv
  <2>3. QED
    BY <1>2, <2>1, <2>2
<1>9. QED
  BY <1>1, <1>4, <1>5, <1>6, <1>7, <1>8 DEF TruthInv

LEMMA ObjectTypes ==
  ASSUME StoreInv, NEW o \in Objects
  PROVE  proj[o] \in Projections /\ proj[o].maxTurn \in Nat
         /\ proj[o].maxTurn <= truth.maxTurn
BY Types DEF StoreInv, TurnsInv

LEMMA SharedInit == Init => SharedInv
<1> SUFFICES ASSUME Init PROVE SharedInv
  OBVIOUS
<1> DEFINE e == Event("task_created", 0)
<1>1. /\ log = <<e>> /\ Len(log) = 1 /\ log[1] = e
      /\ e.type = "task_created" /\ e.turn = 0 /\ truth = EmptyProjection
  BY DEF Init, Event
<1> HIDE DEF e
<1>2. StoreInv
  BY StoreInit
<1>3. TruthInv
  <2>1. StateOfLog(1)
    BY <1>1 DEF StateOfLog, TaskEventIn, StartedIn, TargetState, EmptyProjection
  <2>2. \A t, k : ~LastOfTurn(t, k)
    BY <1>1 DEF LastOfTurn
  <2>3. QED
    BY <1>1, <2>1, <2>2 DEF TruthInv, EmptyProjection
<1>4. LoadersInv
  BY StoreAssumption DEF LoadersInv, Init, NoObject, Objects
<1>5. CachedIsRight
  BY DEF CachedIsRight, Init
<1>6. QED
  BY <1>2, <1>3, <1>4, <1>5 DEF SharedInv

(* A step that leaves the log alone.                                       *)
LEMMA TruthFrame ==
  ASSUME TruthInv, log' = log, truth' = truth
  PROVE  TruthInv'
<1>1. /\ \A i, j : StartedIn(i, j)' <=> StartedIn(i, j)
      /\ \A i, j : TaskEventIn(i, j)' <=> TaskEventIn(i, j)
      /\ \A t, i, j : TurnEventIn(t, i, j)' <=> TurnEventIn(t, i, j)
  BY DEF StartedIn, TaskEventIn, TurnEventIn
<1>2. /\ \A m : StateOfLog(m)' <=> StateOfLog(m)
      /\ \A t, k : LastOfTurn(t, k)' <=> LastOfTurn(t, k)
  BY <1>1 DEF StateOfLog, LastOfTurn
<1>3. QED
  BY <1>1, <1>2 DEF TruthInv

(* A step that changes neither the log nor a projection, and after which   *)
(* nobody is further behind than before.                                   *)
LEMMA SharedFrame ==
  ASSUME SharedInv, UNCHANGED <<log, truth, cached, proj>>,
         tainted \subseteq tainted',
         cached # NoObject /\ cached \notin tainted' =>
           \A j \in 0 .. Len(log) : Ahead(j)' => Ahead(j)
  PROVE  TruthInv' /\ CachedIsRight'
<1>1. TruthInv'
  BY TruthFrame DEF SharedInv
<1>2. CachedIsRight'
  <2> SUFFICES ASSUME cached' # NoObject, cached' \notin tainted',
                      NEW j \in 0 .. Len(log'), Ahead(j)'
               PROVE  Right(proj[cached], j)'
    BY DEF CachedIsRight
  <2>1. Right(proj[cached], j)
    BY DEF SharedInv, CachedIsRight
  <2>2. QED
    BY <2>1 DEF Right, TaskEventIn, StartedIn, TurnEventIn
<1>3. QED
  BY <1>1, <1>2

(* A call that neither loads nor has a write to apply, before and after.   *)
LEMMA SharedIdle ==
  ASSUME SharedInv, NEW c \in Calls, NEW l \in {"idle", "ensure", "query", "guard", "lock"},
         GoTo(c, l), pc[c] \notin {"loading", "apply"},
         UNCHANGED <<log, truth, cached, created, proj, writer, ref, pos, target, tainted>>
  PROVE  TruthInv' /\ LoadersInv' /\ CachedIsRight'
<1>1. \A d \in Calls : pc'[d] = IF d = c THEN l ELSE pc[d]
  BY DEF GoTo, SharedInv, StoreInv, TypeOK
<1>2. \A j : Ahead(j)' => Ahead(j)
  BY <1>1 DEF Ahead
<1>3. LoadersInv'
  BY <1>1 DEF SharedInv, LoadersInv
<1>4. QED
  BY <1>2, <1>3, SharedFrame

LEMMA SharedMoves ==
  ASSUME SharedInv, NEW c \in Calls,
         \/ Arrive(c) \/ EnsureHit(c) \/ Query(c) \/ QueryPanic(c) \/ Guard(c)
         \/ ProduceFailed(c)
  PROVE  TruthInv' /\ LoadersInv' /\ CachedIsRight'
<1> USE SharedIdle
<1>1. ASSUME NEW type, NEW n, Begin(c, type, n)
      PROVE  TruthInv' /\ LoadersInv' /\ CachedIsRight'
  BY <1>1 DEF Begin
<1>2. CASE EnsureHit(c)
  BY <1>2 DEF EnsureHit, Ensured
<1>3. CASE Query(c)
  <2>1. PICK l \in {"idle", "ensure", "query", "guard", "lock"} : GoTo(c, l)
    BY <1>3 DEF Query
  <2>2. QED
    BY <1>3, <2>1 DEF Query
<1>4. CASE QueryPanic(c)
  BY <1>4 DEF QueryPanic
<1>5. CASE Guard(c)
  BY <1>5 DEF Guard
<1>6. CASE ProduceFailed(c)
  BY <1>6 DEF ProduceFailed
<1>7. QED
  BY <1>1, <1>2, <1>3, <1>4, <1>5, <1>6 DEF Arrive

(* A call finds nothing in the cache and joins the stream. *)
LEMMA SharedMiss ==
  ASSUME SharedInv, NEW c \in Calls, EnsureMiss(c)
  PROVE  TruthInv' /\ LoadersInv' /\ CachedIsRight'
<1>1. \A d \in Calls :
         /\ pc'[d] = IF d = c THEN "joined" ELSE pc[d]
         /\ pos'[d] = IF d = c THEN 0 ELSE pos[d]
         /\ target'[d] = IF d = c THEN Len(log) ELSE target[d]
  BY DEF EnsureMiss, GoTo, SharedInv, StoreInv, TypeOK
<1>2. Len(log) \in Nat
  BY LogIsTyped DEF SharedInv, LogFacts
<1>3. LoadersInv'
  BY <1>1, <1>2 DEF SharedInv, LoadersInv, EnsureMiss
<1>4. cached = NoObject
  BY DEF EnsureMiss
<1>5. QED
  BY <1>3, <1>4, SharedFrame DEF EnsureMiss

(* A load that ends has applied the whole log, or spoils the projection.   *)
LEMMA SharedLoaded ==
  ASSUME SharedInv, NEW c \in Calls, Loaded(c) \/ LoadedShort(c) \/ LoadFailed(c)
  PROVE  TruthInv' /\ LoadersInv' /\ CachedIsRight'
<1>1. PICK l \in {"idle", "ensure", "query"} : GoTo(c, l)
  BY DEF Loaded, LoadedShort, LoadFailed, Ensured
<1>2. /\ pc[c] = "loading"
      /\ UNCHANGED <<log, truth, cached, created, proj, writer, ref, pos, target>>
      /\ tainted \subseteq tainted'
  BY DEF Loaded, LoadedShort, LoadFailed
<1>3. \A d \in Calls : pc'[d] = IF d = c THEN l ELSE pc[d]
  BY <1>1 DEF GoTo, SharedInv, StoreInv, TypeOK
<1>4. LoadersInv'
  BY <1>2, <1>3 DEF SharedInv, LoadersInv
<1>5. ref[c] \notin tainted' => pos[c] >= Len(log)
  <2>1. CASE Loaded(c)
    BY <1>2, <2>1 DEF Loaded, SharedInv, LoadersInv
  <2>2. CASE LoadedShort(c) \/ LoadFailed(c)
    BY <2>2 DEF LoadedShort, LoadFailed
  <2>3. QED
    BY <2>1, <2>2
<1>6. ASSUME cached \notin tainted', NEW j \in 0 .. Len(log), Ahead(j)'
      PROVE  Ahead(j)
  <2>1. Len(log) \in Nat /\ pos[c] \in Nat
    BY LogIsTyped, Types DEF SharedInv, LogFacts, StoreInv
  <2>2. QED
    BY <1>2, <1>3, <1>5, <1>6, <2>1 DEF Ahead
<1>7. QED
  BY <1>2, <1>4, <1>6, SharedFrame

LEMMA SharedEvict ==
  ASSUME SharedInv, Evict
  PROVE  TruthInv' /\ LoadersInv' /\ CachedIsRight'
<1>1. TruthInv'
  BY TruthFrame DEF Evict, SharedInv
<1>2. LoadersInv'
  <2>1. created \in Nat
    BY StoreAssumption DEF SharedInv, StoreInv, TypeOK
  <2>2. QED
    BY <2>1 DEF Evict, SharedInv, LoadersInv, call, NoObject
<1>3. CachedIsRight'
  BY DEF Evict, CachedIsRight
<1>4. QED
  BY <1>1, <1>2, <1>3

(* A new projection is empty and has all of the log before it; one that    *)
(* another load has put there has, from now on, all of it before it again. *)
LEMMA SharedInsert ==
  ASSUME SharedInv, NEW c \in Calls, Insert(c)
  PROVE  TruthInv' /\ LoadersInv' /\ CachedIsRight'
<1> USE DEF SharedInv
<1>1. /\ pc[c] = "joined" /\ pos[c] = 0 /\ target[c] <= Len(log)
      /\ UNCHANGED <<log, truth, proj, pos, target, writer>>
      /\ created' = IF cached = NoObject THEN created + 1 ELSE created
      /\ cached' = IF cached = NoObject THEN created' ELSE cached
      /\ tainted' = IF Len(log) > target[c] THEN tainted \cup {cached'} ELSE tainted
  BY DEF Insert, LoadersInv
<1>2. \A d \in Calls : /\ pc'[d] = IF d = c THEN "loading" ELSE pc[d]
                       /\ ref'[d] = IF d = c THEN cached' ELSE ref[d]
  BY DEF Insert, GoTo, StoreInv, TypeOK
<1>3. /\ created \in Nat /\ cached \in Nat /\ created' \in Nat /\ cached' \in Nat
      /\ cached' <= created' /\ created <= created'
      /\ target[c] \in Nat /\ Len(log) \in Nat
  BY <1>1, StoreAssumption, Types DEF StoreInv, TypeOK, LoadersInv, NoObject, Objects
<1>4. TruthInv'
  BY <1>1, TruthFrame
<1>5. LoadersInv'
  <2>1. \A o \in Objects : o > created' => proj'[o] = EmptyProjection
    BY <1>1, <1>3 DEF LoadersInv, Objects
  <2>2. ASSUME NEW d \in Calls
        PROVE  /\ pc'[d] = "joined" => pos'[d] = 0 /\ target'[d] <= Len(log')
               /\ pc'[d] = "apply" => writer' = d /\ pos'[d] = Len(log')
    BY <1>1, <1>2 DEF LoadersInv
  <2>3. ASSUME NEW d \in Calls, pc'[d] = "loading"
        PROVE  ref'[d] <= created' /\ (ref'[d] \notin tainted' => target'[d] = Len(log'))
    <3>1. CASE d = c
      BY <1>1, <1>2, <1>3, <3>1
    <3>2. CASE d # c
      <4>1. ref[d] \in Nat /\ ref[d] <= created
        BY <1>2, <2>3, <3>2, StoreAssumption DEF LoadersInv, StoreInv, TypeOK, Objects, NoObject
      <4>2. QED
        BY <1>1, <1>2, <1>3, <2>3, <3>2, <4>1 DEF LoadersInv
    <3>3. QED
      BY <3>1, <3>2
  <2>4. QED
    BY <1>3, <2>1, <2>2, <2>3 DEF LoadersInv
<1>6. CachedIsRight'
  <2> SUFFICES ASSUME cached' \notin tainted', NEW j \in 0 .. Len(log), Ahead(j)'
               PROVE  Right(proj[cached], j)'
    BY <1>1 DEF CachedIsRight
  <2>1. j = 0
    BY <1>1, <1>2 DEF Ahead
  <2>2. Right(proj[cached'], 0)
    <3>1. CASE cached = NoObject
      <4>1. cached' = created + 1 /\ cached' \in Objects
        BY <1>1, <1>3, <3>1, StoreAssumption DEF StoreInv, ObjectsInv, Objects, TypeOK
      <4>2. proj[cached'] = EmptyProjection
        BY <1>3, <4>1 DEF LoadersInv
      <4>3. QED
        BY <4>2, EmptyIsRight, LogIsTyped
    <3>2. CASE cached # NoObject
      <4>1. Ahead(0)
        BY StoreAssumption, Types DEF Ahead, LoadersInv, StoreInv, RoomInv, TypeOK
      <4>2. cached' = cached /\ cached \notin tainted
        BY <1>1, <3>2
      <4>3. QED
        BY <1>3, <3>2, <4>1, <4>2 DEF CachedIsRight
    <3>3. QED
      BY <3>1, <3>2
  <2>3. QED
    BY <1>1, <2>1, <2>2 DEF Right, TaskEventIn, StartedIn, TurnEventIn
<1>7. QED
  BY <1>4, <1>5, <1>6

(* The next record of a load: applied for the first time by whoever is     *)
(* furthest behind, and once more than needed by anybody else.             *)
LEMMA SharedFeed ==
  ASSUME SharedInv, NEW c \in Calls, Feed(c)
  PROVE  TruthInv' /\ LoadersInv' /\ CachedIsRight'
<1> USE DEF SharedInv
<1> DEFINE i == pos[c] + 1
           o == ref[c]
<1>1. /\ pc[c] = "loading" /\ pos[c] < Len(log)
      /\ UNCHANGED <<log, truth, cached, created, writer, pc, ref, target, tainted>>
      /\ o \in Objects /\ o <= created /\ created \in Nat
  BY StoreAssumption DEF Feed, StoreInv, ObjectsInv, TypeOK, LoadersInv, Objects, NoObject
<1>2. LogFacts /\ pos[c] \in Nat /\ i \in 1 .. Len(log) /\ i - 1 = pos[c]
      /\ Len(log) \in Nat
  <2>1. LogFacts
    BY LogIsTyped
  <2>2. pos[c] \in Nat /\ Len(log) \in Nat
    BY <2>1, Types DEF StoreInv, LogFacts
  <2>3. QED
    BY <1>1, <2>1, <2>2
<1>3. /\ \A d \in Calls : pos'[d] = IF d = c THEN i ELSE pos[d]
      /\ \A x \in Objects : proj'[x] = IF x = o THEN Applied(proj[o], log[i]) ELSE proj[x]
  <2>1. pos' = [pos EXCEPT ![c] = i] /\ pos \in [Calls -> 0 .. MaxEvents]
    BY DEF Feed, StoreInv, TypeOK
  <2>2. pos'[c] = i
    BY <2>1
  <2>3. proj' = [proj EXCEPT ![o] = Applied(proj[o], log[i])]
    BY <2>2 DEF Feed
  <2>4. QED
    BY <2>1, <2>3, Types DEF StoreInv
<1>4. TruthInv'
  BY <1>1, TruthFrame
<1> HIDE DEF i, o
<1>5. LoadersInv'
  BY <1>1, <1>3 DEF LoadersInv, Objects
<1>6. CachedIsRight'
  <2> SUFFICES ASSUME cached # NoObject, cached \notin tainted,
                      NEW j \in 0 .. Len(log), Ahead(j)'
               PROVE  Right(proj'[cached], j)
    BY <1>1 DEF CachedIsRight, Right, TaskEventIn, StartedIn, TurnEventIn
  <2>1. cached \in Objects
    BY DEF StoreInv, TypeOK
  <2>2. CASE cached # o
    <3>1. Ahead(j)
      BY <1>1, <1>3, <2>2 DEF Ahead, o
    <3>2. QED
      BY <1>3, <2>1, <2>2, <3>1 DEF CachedIsRight
  <2>3. CASE cached = o
    <3> DEFINE p == proj[o]
    <3>1. /\ p \in Projections /\ p.maxTurn \in Nat /\ p.maxTurn <= truth.maxTurn
          /\ proj'[cached] = Applied(p, log[i])
      BY <1>1, <1>3, <2>3, ObjectTypes
    <3>2. CASE j < i
      <4>1. Ahead(j)
        BY <1>1, <1>2, <1>3, <3>2 DEF Ahead
      <4>2. Right(p, j)
        BY <2>3, <4>1 DEF CachedIsRight
      <4>3. j \in Nat /\ i \in j + 1 .. Len(log)
        BY <1>2, <3>2
      <4>4. QED
        BY <1>2, <3>1, <4>2, <4>3, AppliedEarly
    <3>3. CASE j >= i
      <4>1. j = i
        BY <1>1, <1>2, <1>3, <2>3, <3>3 DEF Ahead, o
      <4>2. Ahead(i - 1)
        <5>1. ASSUME NEW d \in Calls
              PROVE  /\ pc[d] = "loading" /\ ref[d] = cached => i - 1 <= pos[d]
                     /\ pc[d] = "apply" => i - 1 < pos[d]
          <6>1. pos[d] \in Nat
            BY Types DEF StoreInv
          <6>2. QED
            BY <1>1, <1>2, <1>3, <4>1, <6>1 DEF Ahead
        <5>2. QED
          BY <5>1 DEF Ahead
      <4>3. Right(p, i - 1)
        BY <1>2, <2>3, <4>2 DEF CachedIsRight
      <4>4. QED
        BY <1>2, <3>1, <4>1, <4>3, AppliedNext
    <3>4. QED
      BY <1>2, <3>2, <3>3
  <2>4. QED
    BY <2>2, <2>3
<1>7. QED
  BY <1>4, <1>5, <1>6

(* An event that a call writes is typed, and grows the log by one. *)
LEMMA SharedAppend ==
  ASSUME SharedInv, NEW c \in Calls, pc[c] = "lock", Appended(c)
  PROVE  /\ Event(op[c], turn[c]) \in Events
         /\ log' = Append(log, Event(op[c], turn[c]))
         /\ truth' = Applied(truth, Event(op[c], turn[c]))
         /\ TruthInv' /\ Len(log) \in Nat /\ Len(log') = Len(log) + 1
<1> DEFINE e == Event(op[c], turn[c])
<1>1. e \in Events
  BY DEF SharedInv, StoreInv, AskedInv, TypeOK, Events, Event
<1>2. log' = Append(log, e) /\ truth' = Applied(truth, e)
  BY DEF Appended
<1>3. LogFacts
  BY LogIsTyped DEF SharedInv
<1> HIDE DEF e
<1>4. TruthInv'
  BY <1>1, <1>2, <1>3, TruthAppended DEF SharedInv
<1>5. Len(log) \in Nat /\ Len(log') = Len(log) + 1
  BY <1>1, <1>2, <1>3 DEF LogFacts
<1>6. QED
  BY <1>1, <1>2, <1>4, <1>5 DEF e

(* The event reaches the log and the cached projection has it to come;     *)
(* whatever is being loaded meanwhile is spoilt.                           *)
LEMMA SharedProduce ==
  ASSUME SharedInv, NEW c \in Calls, Produce(c)
  PROVE  TruthInv' /\ LoadersInv' /\ CachedIsRight'
<1> USE DEF SharedInv
<1> DEFINE e == Event(op[c], turn[c])
<1>1. /\ pc[c] = "lock" /\ writer = NoCall /\ writer' = c /\ Appended(c)
      /\ UNCHANGED <<cached, proj, created, ref, target>>
      /\ tainted' = tainted \cup {o \in Objects : Loading(o)}
  BY DEF Produce, MutexKept
<1>2. /\ e \in Events /\ log' = Append(log, e) /\ truth' = Applied(truth, e)
      /\ TruthInv' /\ Len(log) \in Nat /\ Len(log') = Len(log) + 1
  BY <1>1, SharedAppend
<1>3. \A d \in Calls : /\ pc'[d] = IF d = c THEN "apply" ELSE pc[d]
                       /\ pos'[d] = IF d = c THEN Len(log') ELSE pos[d]
  BY DEF Produce, GoTo, StoreInv, TypeOK
<1> HIDE DEF e
<1>4. \A d \in Calls : pc[d] # "apply"
  BY <1>1, StoreAssumption DEF LoadersInv
<1>5. \A d \in Calls : pc[d] = "loading" => ref[d] \in tainted'
  <2>1. \A d \in Calls : pc[d] = "loading" => ref[d] \in Objects /\ Loading(ref[d])
    BY DEF Loading, StoreInv, ObjectsInv, TypeOK
  <2>2. QED
    BY <1>1, <2>1
<1>6. LoadersInv'
  <2>1. cached' <= created' /\ \A o \in Objects : o > created' => proj'[o] = EmptyProjection
    BY <1>1 DEF LoadersInv
  <2>2. ASSUME NEW d \in Calls
        PROVE  /\ pc'[d] = "joined" => pos'[d] = 0 /\ target'[d] <= Len(log')
               /\ pc'[d] = "loading" =>
                    ref'[d] <= created' /\ (ref'[d] \notin tainted' => target'[d] = Len(log'))
               /\ pc'[d] = "apply" => writer' = d /\ pos'[d] = Len(log')
    <3>1. target[d] \in Nat
      BY StoreAssumption DEF StoreInv, TypeOK
    <3>2. QED
      BY <1>1, <1>2, <1>3, <1>4, <1>5, <3>1 DEF LoadersInv
  <2>3. QED
    BY <2>1, <2>2 DEF LoadersInv
<1>7. CachedIsRight'
  <2> SUFFICES ASSUME cached # NoObject, cached \notin tainted',
                      NEW j \in 0 .. Len(log'), Ahead(j)'
               PROVE  Right(proj[cached], j)'
    BY <1>1 DEF CachedIsRight
  <2>1. \A d \in Calls : ~(pc[d] = "loading" /\ ref[d] = cached)
    BY <1>5
  <2>2. Ahead(Len(log))
    BY <1>4, <2>1 DEF Ahead
  <2>3. Right(proj[cached], Len(log))
    BY <1>1, <1>2, <2>2 DEF CachedIsRight
  <2>4. LogFacts /\ cached \in Objects
    BY LogIsTyped DEF StoreInv, TypeOK
  <2>5. proj[cached] \in Projections
    BY <2>4, ObjectTypes
  <2>6. proj[cached] = truth
    BY <2>3, <2>4, <2>5, RightAtTheEnd
  <2>7. j \in 0 .. Len(log)
    BY <1>2, <1>3 DEF Ahead
  <2>8. PICK p \in Projections : p = proj[cached]
    BY <2>5
  <2>9. Right(p, j)'
    BY <1>2, <2>4, <2>6, <2>7, <2>8, AppendedIsRight
  <2>10. QED
    BY <1>1, <2>8, <2>9 DEF Right
<1>8. QED
  BY <1>2, <1>6, <1>7

(* The event reached the log, but its writer does not know: whatever is    *)
(* cached or being loaded lacks it from now on.                            *)
LEMMA SharedAckLost ==
  ASSUME SharedInv, NEW c \in Calls, AckLost(c)
  PROVE  TruthInv' /\ LoadersInv' /\ CachedIsRight'
<1> USE DEF SharedInv
<1>1. /\ pc[c] = "lock" /\ writer = NoCall /\ Appended(c)
      /\ UNCHANGED <<cached, proj, created, writer, ref, pos, target>>
      /\ tainted' = tainted \cup {o \in Objects : o = cached \/ Loading(o)}
  BY DEF AckLost
<1>2. TruthInv' /\ Len(log) \in Nat /\ Len(log') = Len(log) + 1
  BY <1>1, SharedAppend
<1>3. \A d \in Calls : pc'[d] = IF d = c THEN "idle" ELSE pc[d]
  BY DEF AckLost, GoTo, StoreInv, TypeOK
<1>4. \A d \in Calls : pc[d] # "apply"
  BY <1>1, StoreAssumption DEF LoadersInv
<1>5. \A d \in Calls : pc[d] = "loading" => ref[d] \in tainted'
  <2>1. \A d \in Calls : pc[d] = "loading" => ref[d] \in Objects /\ Loading(ref[d])
    BY DEF Loading, StoreInv, ObjectsInv, TypeOK
  <2>2. QED
    BY <1>1, <2>1
<1>6. LoadersInv'
  <2>1. ASSUME NEW d \in Calls
        PROVE  target[d] \in Nat
    BY StoreAssumption DEF StoreInv, TypeOK
  <2>2. QED
    BY <1>1, <1>2, <1>3, <1>4, <1>5, <2>1 DEF LoadersInv
<1>7. CachedIsRight'
  <2>1. cached # NoObject => cached \in tainted'
    BY <1>1 DEF StoreInv, TypeOK
  <2>2. QED
    BY <1>1, <2>1 DEF CachedIsRight
<1>8. QED
  BY <1>2, <1>6, <1>7

(* The write is applied to whatever is in the cache by then: a projection  *)
(* that is otherwise complete, or one that will see it again in its load.  *)
LEMMA SharedApply ==
  ASSUME SharedInv, NEW c \in Calls, ApplyWrite(c)
  PROVE  TruthInv' /\ LoadersInv' /\ CachedIsRight'
<1> USE DEF SharedInv
<1>1. /\ pc[c] = "apply" /\ writer = c /\ pos[c] = Len(log)
      /\ UNCHANGED <<log, truth, cached, created, ref, pos, target, tainted>>
      /\ proj' = ProjectionFollows(c)
  BY DEF ApplyWrite, LoadersInv
<1>2. \A d \in Calls : pc'[d] = IF d = c THEN "idle" ELSE pc[d]
  BY DEF ApplyWrite, GoTo, StoreInv, TypeOK
<1>3. \A d \in Calls : d # c => pc[d] # "apply"
  BY <1>1 DEF LoadersInv
<1>4. LogFacts
  BY LogIsTyped
<1>5. Len(log) \in Nat /\ Len(log) >= 1 /\ created \in Nat
  BY <1>1, <1>4, StoreAssumption DEF StoreInv, RoomInv, LogFacts, TypeOK
<1>6. TruthInv'
  BY <1>1, TruthFrame
<1>7. cached # NoObject =>
        /\ cached \in Objects /\ cached <= created
        /\ \A o \in Objects : proj'[o] = IF o = cached
                                         THEN Applied(proj[cached], log[Len(log)])
                                         ELSE proj[o]
  BY <1>1, Types DEF ProjectionFollows, LoadersInv, StoreInv, TypeOK
<1>8. LoadersInv'
  <2>1. \A o \in Objects : o > created' => proj'[o] = EmptyProjection
    <3>1. CASE cached = NoObject
      BY <1>1, <3>1 DEF LoadersInv, ProjectionFollows
    <3>2. CASE cached # NoObject
      BY <1>1, <1>5, <1>7, <3>2 DEF LoadersInv, Objects
    <3>3. QED
      BY <3>1, <3>2
  <2>2. QED
    BY <1>1, <1>2, <1>3, <2>1 DEF LoadersInv
<1>9. CachedIsRight'
  <2> SUFFICES ASSUME cached # NoObject, cached \notin tainted,
                      NEW j \in 0 .. Len(log), Ahead(j)'
               PROVE  Right(proj'[cached], j)
    BY <1>1 DEF CachedIsRight, Right, TaskEventIn, StartedIn, TurnEventIn
  <2> DEFINE p == proj[cached]
             n == Len(log)
  <2>1. /\ p \in Projections /\ p.maxTurn \in Nat /\ p.maxTurn <= truth.maxTurn
        /\ proj'[cached] = Applied(p, log[n])
    BY <1>7, ObjectTypes
  <2>2. ASSUME NEW i \in 0 .. n - 1, i <= j
        PROVE  Right(p, i)
    <3>1. ASSUME NEW d \in Calls
          PROVE  /\ pc[d] = "loading" /\ ref[d] = cached => i <= pos[d]
                 /\ pc[d] = "apply" => i < pos[d]
      <4>1. pos[d] \in Nat
        BY Types DEF StoreInv
      <4>2. QED
        BY <1>1, <1>2, <1>3, <1>5, <2>2, <4>1 DEF Ahead
    <3>2. Ahead(i) /\ i \in 0 .. Len(log)
      BY <1>5, <3>1 DEF Ahead
    <3>3. QED
      BY <3>2 DEF CachedIsRight
  <2> HIDE DEF p
  <2>3. CASE j < n
    <3>1. j \in Nat /\ n \in j + 1 .. Len(log) /\ j \in 0 .. n - 1
      BY <1>5, <2>3
    <3>2. Right(p, j)
      BY <2>2, <3>1
    <3>3. QED
      BY <1>4, <2>1, <3>1, <3>2, AppliedEarly
  <2>4. CASE j = n
    <3>1. n \in 1 .. Len(log) /\ n - 1 \in 0 .. n - 1 /\ n - 1 <= j
      BY <1>5, <2>4
    <3>2. Right(p, n - 1)
      BY <2>2, <3>1
    <3>3. QED
      BY <1>4, <2>1, <2>4, <3>1, <3>2, AppliedNext
  <2>5. QED
    BY <1>5, <2>3, <2>4
<1>10. QED
  BY <1>6, <1>8, <1>9

LEMMA SharedNext == SharedInv /\ [Next]_vars => SharedInv'
<1> SUFFICES ASSUME SharedInv, [Next]_vars PROVE SharedInv'
  OBVIOUS
<1>1. StoreInv'
  BY StoreStep DEF SharedInv
<1>2. ASSUME NEW c \in Calls, Arrive(c) \/ CallStep(c)
      PROVE  TruthInv' /\ LoadersInv' /\ CachedIsRight'
  <2>1. CASE \/ Arrive(c) \/ EnsureHit(c) \/ Query(c) \/ QueryPanic(c) \/ Guard(c)
             \/ ProduceFailed(c)
    BY <2>1, SharedMoves
  <2>2. CASE EnsureMiss(c)
    BY <2>2, SharedMiss
  <2>3. CASE Insert(c)
    BY <2>3, SharedInsert
  <2>4. CASE Feed(c)
    BY <2>4, SharedFeed
  <2>5. CASE Loaded(c) \/ LoadedShort(c) \/ LoadFailed(c)
    BY <2>5, SharedLoaded
  <2>6. CASE Produce(c)
    BY <2>6, SharedProduce
  <2>7. CASE AckLost(c)
    BY <2>7, SharedAckLost
  <2>8. CASE ApplyWrite(c)
    BY <2>8, SharedApply
  <2>9. QED
    BY <1>2, <2>1, <2>2, <2>3, <2>4, <2>5, <2>6, <2>7, <2>8 DEF CallStep
<1>3. ASSUME Evict
      PROVE  TruthInv' /\ LoadersInv' /\ CachedIsRight'
  BY <1>3, SharedEvict
<1>4. ASSUME UNCHANGED vars
      PROVE  TruthInv' /\ LoadersInv' /\ CachedIsRight'
  <2>1. UNCHANGED <<log, truth, cached, created, proj, writer, pc, ref, pos, target, tainted>>
    BY <1>4 DEF vars, call
  <2>2. LoadersInv'
    BY <2>1 DEF SharedInv, LoadersInv
  <2>3. \A j : Ahead(j)' => Ahead(j)
    BY <2>1 DEF Ahead
  <2>4. QED
    BY <2>1, <2>2, <2>3, SharedFrame
<1>5. TruthInv' /\ LoadersInv' /\ CachedIsRight'
  BY <1>2, <1>3, <1>4 DEF Next
<1>6. QED
  BY <1>1, <1>5 DEF SharedInv

(* The cache tells the truth, with any number of calls at a time and       *)
(* whatever of the faults befalls them: a projection that nobody loads and *)
(* no write is still to be applied to is that of the whole log, unless a   *)
(* load of it was cut short, overtaken by a write, or a write to it was    *)
(* lost on the way back (ensure_projection_loaded, write_event).           *)
THEOREM CacheIsTheLog == Spec => []CacheAgrees
<1>1. SharedInv => CacheAgrees
  <2> SUFFICES ASSUME SharedInv, cached # NoObject, cached \notin tainted,
                      ~Loading(cached), \A c \in Calls : pc[c] # "apply"
               PROVE  proj[cached] = truth
    BY DEF CacheAgrees
  <2>1. LogFacts /\ cached \in Objects
    BY LogIsTyped DEF SharedInv, StoreInv, TypeOK
  <2>2. Ahead(Len(log))
    BY DEF Ahead, Loading
  <2>3. Right(proj[cached], Len(log))
    BY <2>1, <2>2 DEF SharedInv, CachedIsRight, LogFacts
  <2>4. proj[cached] \in Projections
    BY <2>1, ObjectTypes DEF SharedInv
  <2>5. QED
    BY <2>1, <2>3, <2>4, RightAtTheEnd
<1>2. QED
  BY <1>1, SharedInit, SharedNext, PTL DEF Spec
=============================================================================
