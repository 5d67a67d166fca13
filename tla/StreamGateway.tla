--------------------------- MODULE StreamGateway ---------------------------
(***************************************************************************)
(* The stream gateway (src/bin/fixus-stream): a client follows one turn of *)
(* a task over SSE.  The gateway subscribes to the task's stream, replays  *)
(* the turn's events that are already there, and goes on with the live     *)
(* tail, up to the end of the turn.                                        *)
(*                                                                         *)
(* The broker and the writers of the stream are the environment.  The      *)
(* token channel (Redis) is fanned into the same response and has no part  *)
(* in the order of events.                                                 *)
(***************************************************************************)
EXTENDS Integers, Sequences

CONSTANTS
  Followed,      (* the turn the client follows                             *)
  GatewayFaults  (* which of AllGatewayFaults happen                        *)

(* "subscribe_error", "scan_error": the call to the broker fails.          *)
(* "stream_error": the subscription breaks off.  "client_gone": the        *)
(* response can no longer be sent to.                                      *)
AllGatewayFaults == {"subscribe_error", "scan_error", "stream_error", "client_gone"}

ASSUME GatewayAssumption == GatewayFaults \subseteq AllGatewayFaults

TerminalEvents ==
  {"turn_completed", "turn_failed", "turn_canceled", "turn_blocked"}

(* SUBSCRIBE_EVENT_TYPES *)
Subscribed ==
  {"turn_started", "llm_invoked", "llm_completed", "llm_failed",
   "tool_invoked", "tool_completed", "tool_failed"} \cup TerminalEvents

VARIABLES
  stream,     (* the task's stream: records with a type and a turn          *)
  place,      (* where the handler is                                       *)
  from,       (* history: what came before it may never be shown            *)
  replay,     (* the positions still to be sent of the replay               *)
  lastSeq,    (* last_history_seq                                           *)
  tail,       (* the last position the subscription delivered               *)
  shown,      (* what the client was sent: positions, in order              *)
  done        (* how often it was sent "done" or "error"                    *)

gatewayVars ==
  <<stream, place, from, replay, lastSeq, tail, shown, done>>
connection == <<place, from, replay, lastSeq, tail, shown, done>>

GatewayInit ==
  /\ stream = <<>>
  /\ place = "absent"
  /\ from = 0 /\ replay = {} /\ lastSeq = 0 /\ tail = 0
  /\ shown = <<>> /\ done = 0

GatewayFault(f) == f \in GatewayFaults

Leave(l) == place' = l

-----------------------------------------------------------------------------
(* stream_handler                                                          *)

Subscribe ==
  /\ place = "absent"
  /\ from' = Len(stream) /\ tail' = Len(stream)
  /\ Leave("scan")
  /\ UNCHANGED <<stream, replay, lastSeq, shown, done>>

SubscribeFails ==
  /\ GatewayFault("subscribe_error")
  /\ place = "absent"
  /\ done' = done + 1
  /\ Leave("refused")
  /\ UNCHANGED <<stream, from, replay, lastSeq, tail, shown>>

OfTurn(i) == stream[i].turn = Followed

Ends(i) == OfTurn(i) /\ stream[i].type \in TerminalEvents

WholeTurn ==                                   \* variant: not cut at its end
  {i \in 1 .. Len(stream) : OfTurn(i)}

(* plan_history_replay: the turn's records, up to the first that ends the  *)
(* turn; they are sent by sequence number.                                 *)
Replayed ==
  {i \in 1 .. Len(stream) : OfTurn(i) /\ \A j \in 1 .. i - 1 : ~Ends(j)}

LastOf(r) == IF r = {} THEN 0 ELSE CHOOSE i \in r : \A j \in r : j <= i

Scan ==
  /\ place = "scan"
  /\ from' = 0
  /\ replay' = Replayed
  /\ lastSeq' = LastOf(Replayed)
  /\ Leave("replay")
  /\ UNCHANGED <<stream, tail, shown, done>>

(* scan_all failed: only the live tail is left. *)
ScanFails ==
  /\ GatewayFault("scan_error")
  /\ place = "scan"
  /\ Leave("live")
  /\ UNCHANGED <<stream, from, replay, lastSeq, tail, shown, done>>

Replay ==
  /\ place = "replay"
  /\ \E i \in replay : /\ \A j \in replay : i <= j
                      /\ shown' = Append(shown, i) /\ replay' = replay \ {i}
  /\ UNCHANGED <<stream, place, from, lastSeq, tail, done>>

ReplayThenTail ==                              \* variant: hit_terminal ignored
  /\ place = "replay" /\ replay = {}
  /\ Leave("live")
  /\ UNCHANGED <<stream, from, replay, lastSeq, tail, shown, done>>

(* The replay had the end of the turn, or the live tail follows. *)
ReplayEnds ==
  /\ place = "replay" /\ replay = {}
  /\ IF lastSeq # 0 /\ Ends(lastSeq)
     THEN done' = done + 1 /\ Leave("done")
     ELSE UNCHANGED done /\ Leave("live")
  /\ UNCHANGED <<stream, from, replay, lastSeq, tail, shown>>

EmitAll(i) == TRUE                             \* variant: no deduplication

ShouldEmitLive(i) == i > lastSeq

LiveGoesOn ==                                  \* variant: "done", but no break
  /\ place = "live"
  /\ tail < Len(stream)
  /\ tail' = tail + 1
  /\ LET i == tail + 1 IN
     IF stream[i].type \in Subscribed /\ ShouldEmitLive(i) /\ OfTurn(i)
     THEN /\ shown' = Append(shown, i)
          /\ done' = IF Ends(i) THEN done + 1 ELSE done
     ELSE UNCHANGED <<shown, done>>
  /\ UNCHANGED <<stream, place, from, replay, lastSeq>>

(* The next record of the subscription: skipped, or sent, and the end of   *)
(* the turn ends the response.                                             *)
Live ==
  /\ place = "live"
  /\ tail < Len(stream)
  /\ tail' = tail + 1
  /\ LET i == tail + 1 IN
     IF stream[i].type \in Subscribed /\ ShouldEmitLive(i) /\ OfTurn(i)
     THEN /\ shown' = Append(shown, i)
          /\ IF Ends(i) THEN done' = done + 1 /\ Leave("done")
             ELSE UNCHANGED <<done, place>>
     ELSE UNCHANGED <<shown, done, place>>
  /\ UNCHANGED <<stream, from, replay, lastSeq>>

(* The subscription breaks: "done" is sent although the turn goes on. *)
StreamBreaks ==
  /\ GatewayFault("stream_error")
  /\ place = "live"
  /\ done' = done + 1
  /\ Leave("broken")
  /\ UNCHANGED <<stream, from, replay, lastSeq, tail, shown>>

ClientGone ==
  /\ GatewayFault("client_gone")
  /\ place \in {"replay", "live"}
  /\ Leave("gone")
  /\ UNCHANGED <<stream, from, replay, lastSeq, tail, shown, done>>

GatewayStep ==
  Subscribe \/ SubscribeFails \/ Scan \/ ScanFails \/ Replay \/ ReplayEnds \/ Live

GatewayNext == GatewayStep \/ StreamBreaks \/ ClientGone

-----------------------------------------------------------------------------
(* Properties.                                                             *)

GatewayTypeOK ==
  /\ place \in {"absent", "refused", "scan", "replay", "live", "done", "broken",
                "gone"}
  /\ from \in 0 .. Len(stream)
  /\ lastSeq \in 0 .. Len(stream) /\ tail \in from .. Len(stream)
  /\ shown \in Seq(1 .. Len(stream)) /\ replay \subseteq 1 .. Len(stream)
  /\ done \in {0, 1}

WasShown(i) == \E k \in 1 .. Len(shown) : shown[k] = i

(* The replay and the live tail meet, whatever was written between the     *)
(* subscription and scan_all: what the client saw is in the order of the   *)
(* stream, each event once, and before the last event shown nothing of the *)
(* turn is missing.  Without a history that holds from the subscription on. *)
ShownIsStream ==
  /\ \A i, j \in 1 .. Len(shown) : i < j => shown[i] < shown[j]
  /\ \A k \in 1 .. Len(shown) : \A i \in 1 .. shown[k] - 1 :
       (OfTurn(i) /\ stream[i].type \in Subscribed /\ i > from) => WasShown(i)

(* The response ends with the end of the turn: nothing of the turn is      *)
(* shown after its first terminal event, and after "done" of a connection  *)
(* that did not break the client has seen that event.                      *)
DoneIsEnd ==
  /\ \A k \in 1 .. Len(shown) - 1 : ~Ends(shown[k])
  /\ place = "done" => shown # <<>> /\ Ends(shown[Len(shown)])

(* A client that stays sees the end of a turn that ends, unless it came    *)
(* only after the end and the history could not be read.                   *)
EndIsShown ==
  (/\ place \in {"replay", "live"}
   /\ \E i \in 1 .. Len(stream) : Ends(i) /\ i > from)
    ~> place \in {"done", "broken", "gone"}
=============================================================================
