------------------------------ MODULE TaskStore ------------------------------
(***************************************************************************)
(* The store of fixus, for one task: service calls that check a cached     *)
(* projection and then write (src/service.rs), the write guard and the     *)
(* writer mutex of BrokerEventStore (src/broker_store.rs), the task's      *)
(* projection and its cache with concurrent, evictable, possibly           *)
(* incomplete loads (src/projection.rs).                                   *)
(*                                                                         *)
(* The broker is the environment: an append-only log per task, read from   *)
(* its start by each load, which ends on a CaughtUp frame.  Other tasks    *)
(* appear only as evictions.  Step and session events change neither the   *)
(* state nor the turns of a projection and are left out.                   *)
(***************************************************************************)
EXTENDS Integers, Sequences, FiniteSets

CONSTANTS
  Calls,      (* the concurrent calls into the store                        *)
  EventTypes, (* the events that calls try to write, of AllEventTypes       *)
  MaxEvents,  (* bound: length of the task's log                            *)
  MaxLoads,   (* bound: projections ever created for the task               *)
  Faults      (* which of AllFaults the environment commits                 *)

TaskEvents == {"task_ready", "task_claimed", "task_blocked", "task_succeeded",
               "task_failed", "task_canceled"}

(* The four terminal events of a turn act alike on a projection. *)
AllEventTypes == TaskEvents \cup {"turn_started", "turn_ended"}

(* "short_load": a load ends before the log does (its singleton session is *)
(* taken over by another load, its 15 s deadline passes, or CaughtUp       *)
(* overtakes the broker's forwarder).  "lost_ack": the broker appended,    *)
(* the writer saw an error.                                                *)
AllFaults == {"evict", "short_load", "load_error", "write_error", "lost_ack"}

Objects == 1 .. MaxLoads     \* projections: Arc<RwLock<TaskProjection>>
NoObject == 0
NoCall == "no_call"

ASSUME StoreAssumption ==
  /\ IsFiniteSet(Calls) /\ NoCall \notin Calls
  /\ EventTypes \subseteq AllEventTypes
  /\ MaxEvents \in Nat \ {0}
  /\ MaxLoads \in Nat \ {0}
  /\ Faults \subseteq AllFaults

VARIABLES
  log,      (* the task's stream at the broker                              *)
  truth,    (* history: the projection of the whole log                     *)
  cached,   (* ProjectionCache: the object the task's entry refers to       *)
  proj,     (* the objects                                                  *)
  created,  (* how many objects were created                                *)
  writer,   (* the call that holds the writer mutex                         *)
  pc,       (* where each call is                                           *)
  asks,     (* what it wants of the projection: "exists", "state", "turn"   *)
  op,       (* the event it wants to write; "read" for a plain query        *)
  turn,     (* the turn it starts or ends                                   *)
  ref,      (* the object its load fills                                    *)
  pos,      (* how far its load, or the event it appended, is in the log    *)
  target,   (* the length its load has at least to reach                    *)
  tainted   (* history: objects whose load was incomplete or disturbed      *)

call == <<pc, asks, op, turn, ref, pos, target>>
vars == <<log, truth, cached, proj, created, writer, call, tainted>>

-----------------------------------------------------------------------------
(* The state machine and the projection.                                   *)

Lifecycle == INSTANCE TaskLifecycle WITH state <- truth.state

TargetState ==
  [task_created |-> "Created", task_ready |-> "Ready",
   task_claimed |-> "Claimed", task_blocked |-> "Blocked",
   task_succeeded |-> "Succeeded", task_failed |-> "Failed",
   task_canceled |-> "Canceled", turn_started |-> "Executing"]

Event(type, n) == [type |-> type, turn |-> n]

(* TaskProjection::new *)
EmptyProjection == [state |-> "Created", maxTurn |-> 0, active |-> {}]

(* TaskProjection::apply trusts the events: a task event sets the state    *)
(* whatever it was, only turn_started looks at it.                         *)
AppliedState(s, type) ==
  CASE type = "turn_started" -> IF s \in {"Ready", "Claimed"} THEN "Executing" ELSE s
    [] type = "turn_ended"   -> s
    [] OTHER                 -> TargetState[type]

Applied(p, e) ==
  [state   |-> AppliedState(p.state, e.type),
   maxTurn |-> IF e.turn > p.maxTurn THEN e.turn ELSE p.maxTurn,
   active  |-> CASE e.type = "turn_started" -> p.active \cup {e.turn}
                 [] e.type = "turn_ended"   -> p.active \ {e.turn}
                 [] OTHER                   -> p.active]

(* validate_task_event_transition, for a cached projection.  With none in  *)
(* the cache only task_created may be written, which no call here writes.  *)
GuardUnaware(from, type) == TRUE             \* variant: no guard on write

GuardAllows(from, type) ==
  CASE type = "turn_ended"   -> TRUE
    [] type = "turn_started" -> from \in {"Ready", "Claimed"}
    [] OTHER                 -> Lifecycle!CanTransition(from, TargetState[type])

NextNotAdvanced(p) == p.maxTurn                \* variant: no + 1

(* start_turn: get_max_turn_id + 1. *)
NextTurn(p) == p.maxTurn + 1

(* The same questions put to LogdbdEventStore (src/storage.rs), which asks  *)
(* the log: the state is that of the latest task event, but "Executing"    *)
(* when a turn was started after a claim.                                  *)
RefTaskRecords(L) == {i \in DOMAIN L : L[i].type \in TaskEvents \cup {"task_created"}}

DerivedUnordered(L, records) ==              \* variant: any turn counts
  LET latest == CHOOSE i \in records : \A j \in records : j <= i
      base == TargetState[L[latest].type]
  IN  IF base = "Claimed" /\ \E j \in DOMAIN L : L[j].type = "turn_started"
      THEN "Executing" ELSE base

DerivedState(L, records) ==
  LET latest == CHOOSE i \in records : \A j \in records : j <= i
      base == TargetState[L[latest].type]
  IN  IF base = "Claimed" /\ \E j \in DOMAIN L : j > latest /\ L[j].type = "turn_started"
      THEN "Executing" ELSE base

(* get_task finds nothing without task_created. *)
RefState(L) ==
  LET records == RefTaskRecords(L)
  IN  IF \E i \in records : L[i].type = "task_created"
      THEN DerivedState(L, records) ELSE "none"

RefEnded(L) ==
  \E i \in DOMAIN L : L[i].type \in {"task_succeeded", "task_failed", "task_canceled"}

-----------------------------------------------------------------------------
Init ==
  /\ log     = <<Event("task_created", 0)>>
  /\ truth   = EmptyProjection
  /\ cached  = NoObject
  /\ proj    = [o \in Objects |-> EmptyProjection]
  /\ created = 0
  /\ writer  = NoCall
  /\ pc      = [c \in Calls |-> "idle"]
  /\ asks    = [c \in Calls |-> "state"]
  /\ op      = [c \in Calls |-> "read"]
  /\ turn    = [c \in Calls |-> 0]
  /\ ref     = [c \in Calls |-> NoObject]
  /\ pos     = [c \in Calls |-> 0]
  /\ target  = [c \in Calls |-> 0]
  /\ tainted = {}

GoTo(c, l) == pc' = [pc EXCEPT ![c] = l]

Loading(o) == \E c \in Calls : pc[c] = "loading" /\ ref[c] = o

(* The bound on the log leaves room for every call under way. *)
RoomForCall == Len(log) + Cardinality({c \in Calls : pc[c] # "idle"}) < MaxEvents

(* A call arrives.  Ending a turn writes without looking; a transition and *)
(* a query ask for the state, start_turn first asks whether the task is    *)
(* there.                                                                  *)
Begin(c, type, n) ==
  /\ pc[c] = "idle" /\ RoomForCall
  /\ op' = [op EXCEPT ![c] = type]
  /\ turn' = [turn EXCEPT ![c] = n]
  /\ asks' = [asks EXCEPT ![c] = IF type = "turn_started" THEN "exists" ELSE "state"]
  /\ GoTo(c, IF type = "turn_ended" THEN "guard" ELSE "ensure")
  /\ UNCHANGED <<log, truth, cached, proj, created, writer, ref, pos, target,
                 tainted>>

(* The projection is there, or so it seems: task_exists answers true and   *)
(* start_turn asks on, anything else fetches the projection.               *)
Ensured(c) ==
  IF asks[c] = "exists"
  THEN GoTo(c, "ensure") /\ asks' = [asks EXCEPT ![c] = "state"]
  ELSE GoTo(c, "query") /\ UNCHANGED asks

(* ensure_projection found the task in the cache. *)
EnsureHit(c) ==
  /\ pc[c] = "ensure" /\ cached # NoObject
  /\ Ensured(c)
  /\ UNCHANGED <<log, truth, cached, proj, created, writer, op, turn, ref, pos,
                 target, tainted>>

(* ... or not: catch_up joins the stream, ... *)
EnsureMiss(c) ==
  /\ pc[c] = "ensure" /\ cached = NoObject
  /\ target' = [target EXCEPT ![c] = Len(log)]
  /\ pos' = [pos EXCEPT ![c] = 0]
  /\ GoTo(c, "joined")
  /\ UNCHANGED <<log, truth, cached, proj, created, writer, asks, op, turn, ref,
                 tainted>>

(* ... puts an empty projection into the cache, where everybody sees it,   *)
(* or takes the one another load has put there meanwhile, ...              *)
Insert(c) ==
  /\ pc[c] = "joined"
  /\ created' = IF cached = NoObject THEN created + 1 ELSE created
  /\ cached' = IF cached = NoObject THEN created' ELSE cached
  /\ ref' = [ref EXCEPT ![c] = cached']
  /\ tainted' = IF Len(log) > target[c] THEN tainted \cup {cached'} ELSE tainted
  /\ GoTo(c, "loading")
  /\ UNCHANGED <<log, truth, proj, writer, asks, op, turn, pos, target>>

(* ... applies the stream's records one after the other, ... *)
Feed(c) ==
  /\ pc[c] = "loading" /\ pos[c] < Len(log)
  /\ pos' = [pos EXCEPT ![c] = @ + 1]
  /\ proj' = [proj EXCEPT ![ref[c]] = Applied(@, log[pos'[c]])]
  /\ UNCHANGED <<log, truth, cached, created, writer, pc, asks, op, turn, ref,
                 target, tainted>>

(* ... and stops at CaughtUp, which the broker sends at its head (at least *)
(* the head there was at the join) and which arrives after the records     *)
(* that preceded it.                                                       *)
Loaded(c) ==
  /\ pc[c] = "loading" /\ pos[c] >= target[c]
  /\ Ensured(c)
  /\ UNCHANGED <<log, truth, cached, proj, created, writer, op, turn, ref, pos,
                 target, tainted>>

LoadedShort(c) ==
  /\ "short_load" \in Faults
  /\ pc[c] = "loading" /\ pos[c] < target[c]
  /\ tainted' = tainted \cup {ref[c]}
  /\ Ensured(c)
  /\ UNCHANGED <<log, truth, cached, proj, created, writer, op, turn, ref, pos,
                 target>>

(* The stream failed and what was loaded stays in the cache: the call      *)
(* fails, but for task_exists, which is tried again.                       *)
LoadFailed(c) ==
  /\ "load_error" \in Faults
  /\ pc[c] = "loading"
  /\ tainted' = tainted \cup {ref[c]}
  /\ GoTo(c, IF asks[c] = "exists" THEN "ensure" ELSE "idle")
  /\ UNCHANGED <<log, truth, cached, proj, created, writer, asks, op, turn, ref,
                 pos, target>>

(* The capacity of the LRU was used up by other tasks, or a concurrent     *)
(* resolve_task_type invalidated the entry.                                *)
Evict ==
  /\ "evict" \in Faults
  /\ cached # NoObject /\ created < MaxLoads
  /\ cached' = NoObject
  /\ UNCHANGED <<log, truth, proj, created, writer, call, tainted>>

(* with_projection after ensure_projection: the entry is fetched again.    *)
(* transition_task goes on to write if the transition is legal; start_turn *)
(* goes on, unless the task has ended, to ask for the largest turn.        *)
Query(c) ==
  /\ pc[c] = "query" /\ cached # NoObject
  /\ LET p == proj[cached]
         starts == op[c] = "turn_started"
     IN
     /\ turn' = IF asks[c] = "turn" THEN [turn EXCEPT ![c] = NextTurn(p)] ELSE turn
     /\ asks' = IF starts THEN [asks EXCEPT ![c] = "turn"] ELSE asks
     /\ GoTo(c, CASE op[c] = "read" -> "idle"
                  [] starts /\ asks[c] = "turn" -> "guard"
                  [] starts /\ asks[c] # "turn" ->
                       IF p.state \in Lifecycle!Terminal THEN "idle" ELSE "ensure"
                  [] OTHER -> IF Lifecycle!CanTransition(p.state, TargetState[op[c]])
                              THEN "guard" ELSE "idle")
  /\ UNCHANGED <<log, truth, cached, proj, created, writer, op, ref, pos, target,
                 tainted>>

(* The entry that was ensured is gone: the unwrap panics. *)
QueryPanic(c) ==
  /\ pc[c] = "query" /\ cached = NoObject
  /\ GoTo(c, "idle")
  /\ UNCHANGED <<log, truth, cached, proj, created, writer, asks, op, turn, ref,
                 pos, target, tainted>>

-----------------------------------------------------------------------------
(* write_event: the guard reads the cache before the writer mutex is taken *)
Guard(c) ==
  /\ pc[c] = "guard"
  /\ GoTo(c, IF \/ op[c] = "turn_ended"
                \/ cached # NoObject /\ GuardAllows(proj[cached].state, op[c])
             THEN "lock" ELSE "idle")
  /\ UNCHANGED <<log, truth, cached, proj, created, writer, asks, op, turn, ref,
                 pos, target, tainted>>

(* The event reaches the log. *)
Appended(c) ==
  /\ log' = Append(log, Event(op[c], turn[c]))
  /\ truth' = Applied(truth, Event(op[c], turn[c]))

(* The mutex is kept until the projection is updated. *)
MutexDropped(c) == NoCall                      \* variant: dropped after produce

MutexKept(c) == c

Produce(c) ==
  /\ pc[c] = "lock" /\ writer = NoCall
  /\ Appended(c)
  /\ writer' = MutexKept(c)
  /\ pos' = [pos EXCEPT ![c] = Len(log')]
  /\ tainted' = tainted \cup {o \in Objects : Loading(o)}
  /\ GoTo(c, "apply")
  /\ UNCHANGED <<cached, proj, created, asks, op, turn, ref, target>>

(* produce returned an error, and nothing was appended, ... *)
ProduceFailed(c) ==
  /\ "write_error" \in Faults
  /\ pc[c] = "lock" /\ writer = NoCall
  /\ GoTo(c, "idle")
  /\ UNCHANGED <<log, truth, cached, proj, created, writer, asks, op, turn, ref,
                 pos, target, tainted>>

(* ... or the event is in the log all the same. *)
AckLost(c) ==
  /\ "lost_ack" \in Faults
  /\ pc[c] = "lock" /\ writer = NoCall
  /\ Appended(c)
  /\ tainted' = tainted \cup {o \in Objects : o = cached \/ Loading(o)}
  /\ GoTo(c, "idle")
  /\ UNCHANGED <<cached, proj, created, writer, asks, op, turn, ref, pos, target>>

ProjectionLeft(c) == proj                      \* variant: cache not updated

ProjectionFollows(c) ==
  IF cached = NoObject THEN proj
  ELSE [proj EXCEPT ![cached] = Applied(@, log[pos[c]])]

MutexStuck(c) ==                               \* variant: kept on a cold cache
  IF cached = NoObject THEN writer ELSE NoCall

MutexReturned(c) == IF writer = c THEN NoCall ELSE writer

(* The projection follows, if the task is in the cache; the mutex goes. *)
ApplyWrite(c) ==
  /\ pc[c] = "apply"
  /\ proj' = ProjectionFollows(c)
  /\ writer' = MutexReturned(c)
  /\ GoTo(c, "idle")
  /\ UNCHANGED <<log, truth, cached, created, asks, op, turn, ref, pos, target,
                 tainted>>

-----------------------------------------------------------------------------
CallStep(c) ==
  \/ EnsureHit(c) \/ EnsureMiss(c) \/ Insert(c) \/ Feed(c) \/ Loaded(c)
  \/ LoadedShort(c) \/ LoadFailed(c) \/ Query(c) \/ QueryPanic(c)
  \/ Guard(c) \/ Produce(c) \/ ProduceFailed(c) \/ AckLost(c) \/ ApplyWrite(c)

(* A turn is ended by its number, from the path of the request or from the *)
(* task-end record: one that was started.                                  *)
Arrive(c) ==
  \/ \E type \in {"read"} \cup (EventTypes \ {"turn_ended"}) : Begin(c, type, 0)
  \/ /\ "turn_ended" \in EventTypes
     /\ \E n \in 1 .. truth.maxTurn : Begin(c, "turn_ended", n)

Next ==
  \/ \E c \in Calls : Arrive(c) \/ CallStep(c)
  \/ Evict

Spec == Init /\ [][Next]_vars
FairSpec == Spec /\ \A c \in Calls : WF_vars(CallStep(c))

-----------------------------------------------------------------------------
Projections ==
  [state: Lifecycle!States, maxTurn: 0 .. MaxEvents, active: SUBSET (1 .. MaxEvents)]

TypeOK ==
  /\ log \in Seq([type: AllEventTypes \cup {"task_created"}, turn: 0 .. MaxEvents])
  /\ truth \in Projections
  /\ cached \in Objects \cup {NoObject}
  /\ proj \in [Objects -> Projections]
  /\ created \in 0 .. MaxLoads
  /\ writer \in Calls \cup {NoCall}
  /\ pc \in [Calls -> {"idle", "ensure", "joined", "loading", "query", "guard",
                      "lock", "apply"}]
  /\ asks \in [Calls -> {"exists", "state", "turn"}]
  /\ op \in [Calls -> AllEventTypes \cup {"read"}]
  /\ turn \in [Calls -> 0 .. MaxEvents]
  /\ ref \in [Calls -> Objects \cup {NoObject}]
  /\ pos \in [Calls -> 0 .. MaxEvents]
  /\ target \in [Calls -> 0 .. MaxEvents]
  /\ tainted \subseteq Objects

(* The cache tells the truth: once no load and no write is under way, a    *)
(* cached projection equals that of the whole log, unless its load ended   *)
(* early, failed, or ran while an event was written.  Projections are      *)
(* never built again by themselves, so one that is wrong stays wrong.      *)
CacheAgrees ==
  cached # NoObject /\ cached \notin tainted /\ ~Loading(cached)
    /\ (\A c \in Calls : pc[c] # "apply")
  => proj[cached] = truth

(* As long as calls come one after the other the store implements the      *)
(* life cycle, whatever is evicted or fails to be written in between.      *)
ImplementsLifecycle == Lifecycle!Spec

(* ... and every event is legal in the state of the log it is added to;    *)
(* for turn_started only the guard of write_event sees to that.            *)
LegalWrite ==
  log' # log =>
    LET type == log'[Len(log')].type IN
    /\ type = "turn_started" => truth.state \in {"Ready", "Claimed"}
    /\ type \in TaskEvents =>
         Lifecycle!CanTransition(truth.state, TargetState[type])

LegalWrites == [][LegalWrite]_vars

(* ... and the two stores mean the same by a log of legal events: the one  *)
(* folds it, the other looks for its latest task event (derive_task_state, *)
(* is_task_ended).  Only a turn that started without a claim tells them    *)
(* apart: the task executes, and is still Ready for LogdbdEventStore.      *)
StatesAgree ==
  /\ \/ RefState(log) = truth.state
     \/ RefState(log) = "Ready" /\ truth.state = "Executing"
  /\ RefEnded(log) <=> truth.state \in Lifecycle!Terminal

(* ... and no turn number is given out twice, although it is taken from a  *)
(* projection that may have been rebuilt (start_turn: MAX(turn_id) + 1).   *)
TurnsDistinct ==
  \A i, j \in DOMAIN log :
     log[i].type = "turn_started" /\ log[j].type = "turn_started"
       /\ log[i].turn = log[j].turn => i = j

(* Every call into the store returns: no eviction, short or failed load,   *)
(* or lost write leaves it waiting for the writer mutex or for a load.     *)
CallsReturn == \A c \in Calls : pc[c] # "idle" ~> pc[c] = "idle"

(* The comment on the guard in write_event claims that it makes the        *)
(* terminal event of a task unique.                                        *)
EndsOnce ==
  Cardinality({i \in DOMAIN log :
     log[i].type \in {"task_succeeded", "task_failed", "task_canceled"}}) <= 1

=============================================================================
