------------------------------ MODULE ToolPath ------------------------------
(***************************************************************************)
(* From a tool call to the client's screen: the tools bank reports a step  *)
(* on the topic task-end, the orchestrator's lifecycle consumer writes it  *)
(* into the stream of the task, and the stream gateway shows it.           *)
(*                                                                         *)
(* Of the orchestrator only this consumer is here (Recovery has what its   *)
(* handlers do to the task, and what becomes of a topic that is read       *)
(* again), and of the turn its first and its last event, which come when   *)
(* the orchestrator writes them.                                           *)
(***************************************************************************)
EXTENDS ToolsBank, StreamGateway

CONSTANT
  Turns         (* turns of the task                                        *)

ASSUME PathAssumption == Followed \in Turns

VARIABLES
  turnOf,   (* X-Fixus-Turn-Id of each call                                 *)
  epos      (* how far the lifecycle consumer is in taskEnd                 *)

pathVars == <<bankVars, gatewayVars, turnOf, epos>>

NoStep == "no step"

PathInit ==
  /\ BankInit /\ GatewayInit
  /\ turnOf \in [Calls -> Turns]
  /\ epos = 0

(* write_event of the store: the record is at the end of the stream. *)
WrittenToStream(type, turn, step) ==
  stream' = Append(stream, [type |-> type, turn |-> turn, step |-> step])

(* The orchestrator starts the turn before an agent can call a tool (what  *)
(* the bank does earlier touches nothing else and is not interleaved).     *)
TurnStarts ==
  /\ stream = <<>>
  /\ WrittenToStream("turn_started", Followed, NoStep)
  /\ UNCHANGED <<bankVars, connection, turnOf, epos>>

(* It ends the turn once, whatever is still under way in the bank. *)
TurnEnds ==
  /\ stream # <<>> /\ ~ \E i \in 1 .. Len(stream) : Ends(i)
  /\ WrittenToStream("turn_completed", Followed, NoStep)
  /\ UNCHANGED <<bankVars, connection, turnOf, epos>>

StepWrittenUnread ==                           \* variant: turn_id not read
  /\ epos < Len(taskEnd)
  /\ epos' = epos + 1
  /\ LET e == taskEnd[epos + 1] IN WrittenToStream(e.type, Followed, e.step)
  /\ UNCHANGED <<bankVars, connection, turnOf>>

(* run_lifecycle_consumer: handle_tool_invoked, _completed, _failed. *)
StepWritten ==
  /\ epos < Len(taskEnd)
  /\ epos' = epos + 1
  /\ LET e == taskEnd[epos + 1] IN WrittenToStream(e.type, turnOf[e.step], e.step)
  /\ UNCHANGED <<bankVars, connection, turnOf>>

(* A write that fails is forgotten: the record is committed all the same. *)
StepLost ==
  /\ epos < Len(taskEnd)
  /\ epos' = epos + 1
  /\ UNCHANGED <<bankVars, gatewayVars, turnOf>>

PathNext ==
  \/ stream # <<>> /\ BankNext /\ UNCHANGED <<gatewayVars, turnOf, epos>>
  \/ GatewayNext /\ UNCHANGED <<bankVars, turnOf, epos>>
  \/ TurnStarts \/ TurnEnds \/ StepWritten \/ StepLost

(* Handlers that can go on do, a deadline passes, a subscription delivers. *)
(* Nothing is asked of the sandbox, the client or the agent.               *)
PathFairness ==
  /\ \A c \in Calls : WF_pathVars(stream # <<>> /\ CallStep(c)
                                  /\ UNCHANGED <<gatewayVars, turnOf, epos>>)
  /\ WF_pathVars(GatewayStep /\ UNCHANGED <<bankVars, turnOf, epos>>)

PathSpec == PathInit /\ [][PathNext]_pathVars
FairPathSpec == PathSpec /\ PathFairness

-----------------------------------------------------------------------------
(* Properties.                                                             *)

(* The variables of the bank, the gateway and the consumer between them    *)
(* stay in their types.                                                    *)
PathTypeOK ==
  /\ BankTypeOK /\ GatewayTypeOK
  /\ turnOf \in [Calls -> Turns] /\ epos \in 0 .. Len(taskEnd)

(* What the client is shown of the steps was so: a tool_completed of a     *)
(* step that went to the sandbox is shown only after the sandbox reported  *)
(* a result of it, and only to the followers of the call's own turn; a     *)
(* timeout, a lost answer or a client that went away never turns into the  *)
(* completion of a step that nobody ran.                                   *)
ShownIsReported ==
  \A k \in 1 .. Len(shown) :
    LET e == stream[shown[k]] IN
    e.type = "tool_completed" =>
      /\ turnOf[e.step] = Followed
      /\ registry.index[tool[e.step]] = Sandbox =>
           \E i \in 1 .. Len(results) : results[i].step = e.step
=============================================================================
