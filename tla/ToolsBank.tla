----------------------------- MODULE ToolsBank -----------------------------
(***************************************************************************)
(* The tools bank (src/bin/tools-bank): the registry of adapters, one call *)
(* of a tool from the MCP request to its answer, the step records it puts  *)
(* on the topic task-end, the round trip to the sandbox over tool-invoke   *)
(* and tool-result, and the consumer that matches results with waiting     *)
(* calls.                                                                  *)
(*                                                                         *)
(* The sandbox is the environment: it runs what it finds on tool-invoke,   *)
(* late, more than once or never, and reports each time (a report that     *)
(* comes again after a lost commit is one more report).  A step id is a    *)
(* new UUID per call, so a call stands for its step.                       *)
(***************************************************************************)
EXTENDS Integers, Sequences, FiniteSets

CONSTANTS
  Calls,         (* tools/call requests                                     *)
  ToolNames,     (* names a call may ask for                                *)
  Builtins,      (* the builtin tools of the catalog                        *)
  ExtraFile,     (* the entries of the operator's extras file: a name each, *)
                 (* or Malformed                                            *)
  HttpAdapters,  (* the tools of each configured HTTP adapter, in order     *)
  MaxResults,    (* bound: records of tool-result                           *)
  BankFaults     (* which of AllBankFaults happen                           *)

(* "produce_error": a produce fails.  "lost_ack": it fails although the    *)
(* broker appended.  "timeout": the deadline of a call passes.             *)
(* "disconnect": the client goes away and the handler's future with it.    *)
(* "rejoin": the result consumer joins again and gets what it had not      *)
(* committed a second time.                                                *)
AllBankFaults == {"produce_error", "lost_ack", "timeout", "disconnect", "rejoin"}

Malformed == "malformed"

ASSUME BankAssumption ==
  /\ Builtins \subseteq ToolNames
  /\ ExtraFile \in Seq(ToolNames \cup {Malformed})
  /\ HttpAdapters \in Seq(SUBSET ToolNames)
  /\ MaxResults \in Nat
  /\ BankFaults \subseteq AllBankFaults

-----------------------------------------------------------------------------
(* The extras of the catalog.                                              *)

(* parse_extra_catalog, and main on its error: one entry that is malformed *)
(* or named twice, and the file counts for nothing.                        *)
ExtrasLoaded ==
  IF \E i \in DOMAIN ExtraFile :
       \/ ExtraFile[i] = Malformed
       \/ \E j \in 1 .. i - 1 : ExtraFile[j] = ExtraFile[i]
  THEN {}
  ELSE {ExtraFile[i] : i \in DOMAIN ExtraFile}

KeptExtras == ExtrasLoaded \ Builtins          \* filter_collisions

SandboxTools == Builtins \cup KeptExtras       \* SandboxAdapter::tools

-----------------------------------------------------------------------------
(* ToolRegistry: adapters in order of registration, an index by tool.      *)

Sandbox == 1                                   \* registered first
NoAdapter == 0

EmptyRegistry == [adapters |-> <<>>, index |-> [n \in ToolNames |-> NoAdapter]]

RegisterOver(reg, tools) ==                    \* variant: no collision check
  [adapters |-> Append(reg.adapters, tools),
   index    |-> [n \in ToolNames |->
                   IF n \in tools THEN Len(reg.adapters) + 1 ELSE reg.index[n]]]

(* register: an adapter with a name that is taken is refused as a whole.   *)
Register(reg, tools) ==
  IF \E n \in tools : reg.index[n] # NoAdapter THEN reg
  ELSE [adapters |-> Append(reg.adapters, tools),
        index    |-> [n \in ToolNames |->
                        IF n \in tools THEN Len(reg.adapters) + 1 ELSE reg.index[n]]]

(* parse_one_http_adapter: an entry without tools is no adapter. *)
EntryRegistered(reg, tools) == IF tools = {} THEN reg ELSE Register(reg, tools)

VARIABLES
  registry,    (* ToolRegistry                                              *)
  unread,      (* the HTTP adapters build_registry has still to register    *)
  pc,          (* where each call is                                        *)
  tool,        (* the tool it asks for                                      *)
  opened,      (* opening_ok                                                *)
  outcome,     (* what registry.invoke returned                             *)
  answer,      (* what the MCP client was told                              *)
  pending,     (* the calls with a sender in the pending map                *)
  channel,     (* what their oneshot channels hold                          *)
  taskEnd,     (* the bank's records on the topic task-end                  *)
  invokes,     (* the calls on the stream tool-invoke                       *)
  results,     (* the stream tool-result                                    *)
  rpos         (* how far the result consumer is in it                      *)

bankCalls   == <<pc, tool, opened, outcome, answer>>
bankStreams == <<taskEnd, invokes, results>>
bankVars == <<registry, unread, bankCalls, pending, channel, bankStreams, rpos>>

Nothing == "nothing"
Results == {"success", "failure"}              \* ToolResult.success

BankInit ==
  /\ registry = Register(EmptyRegistry, SandboxTools)
  /\ unread = HttpAdapters
  /\ pc = [c \in Calls |-> "absent"]
  /\ tool \in [Calls -> ToolNames]
  /\ opened = [c \in Calls |-> FALSE]
  /\ outcome = [c \in Calls |-> Nothing]
  /\ answer = [c \in Calls |-> Nothing]
  /\ pending = {}
  /\ channel = [c \in Calls |-> Nothing]
  /\ taskEnd = <<>> /\ invokes = {} /\ results = <<>> /\ rpos = 0

BankFault(f) == f \in BankFaults

GoTo(c, l) == pc' = [pc EXCEPT ![c] = l]

(* build_registry, before the first request: a collision is skipped. *)
RegisterHttp ==
  /\ unread # <<>>
  /\ registry' = EntryRegistered(registry, Head(unread))
  /\ unread' = Tail(unread)
  /\ UNCHANGED <<bankCalls, pending, channel, bankStreams, rpos>>

-----------------------------------------------------------------------------
(* tools_call                                                              *)

Record(type, c) == [type |-> type, step |-> c]

(* emit_task_end: the record is there and it says so, or neither, or the   *)
(* record is there and it says it failed.                                  *)
Emitted(type, c, said) ==
  \/ said /\ taskEnd' = Append(taskEnd, Record(type, c))
  \/ ~said /\ BankFault("produce_error") /\ UNCHANGED taskEnd
  \/ ~said /\ BankFault("lost_ack") /\ taskEnd' = Append(taskEnd, Record(type, c))

(* handle_mcp takes the call; tool_invoked goes out before anything is run. *)
Open(c) ==
  /\ unread = <<>>
  /\ pc[c] = "absent"
  /\ \E ok \in BOOLEAN :
       Emitted("tool_invoked", c, ok) /\ opened' = [opened EXCEPT ![c] = ok]
  /\ GoTo(c, "route")
  /\ UNCHANGED <<registry, unread, tool, outcome, answer, pending, channel,
                 invokes, results, rpos>>

Returned(c, o) == outcome' = [outcome EXCEPT ![c] = o] /\ GoTo(c, "close")

(* ToolRegistry::invoke *)
RouteNowhere(c) ==
  /\ pc[c] = "route" /\ registry.index[tool[c]] = NoAdapter
  /\ Returned(c, "not_found")
  /\ UNCHANGED <<registry, unread, tool, opened, answer, pending, channel,
                 bankStreams, rpos>>

(* HttpActionAdapter::invoke: any response is a result, none is an error. *)
RouteHttp(c) ==
  /\ pc[c] = "route" /\ registry.index[tool[c]] \notin {NoAdapter, Sandbox}
  /\ \E o \in Results \cup {"adapter_error"} : Returned(c, o)
  /\ UNCHANGED <<registry, unread, tool, opened, answer, pending, channel,
                 bankStreams, rpos>>

(* SandboxAdapter::invoke: the sender is in the map before the produce. *)
RouteSandbox(c) ==
  /\ pc[c] = "route" /\ registry.index[tool[c]] = Sandbox
  /\ pending' = pending \cup {c}
  /\ GoTo(c, "produce")
  /\ UNCHANGED <<registry, unread, tool, opened, outcome, answer, channel,
                 bankStreams, rpos>>

Produce(c) ==
  /\ pc[c] = "produce"
  /\ invokes' = invokes \cup {c}
  /\ GoTo(c, "wait")
  /\ UNCHANGED <<registry, unread, tool, opened, outcome, answer, pending,
                 channel, taskEnd, results, rpos>>

ProduceFails(c) ==
  /\ pc[c] = "produce"
  /\ \/ BankFault("produce_error") /\ UNCHANGED invokes
     \/ BankFault("lost_ack") /\ invokes' = invokes \cup {c}
  /\ pending' = pending \ {c}
  /\ Returned(c, "adapter_error")
  /\ UNCHANGED <<registry, unread, tool, opened, answer, channel, taskEnd,
                 results, rpos>>

(* timeout() polls the channel before the clock. *)
ResultReceived(c) ==
  /\ pc[c] = "wait" /\ channel[c] # Nothing
  /\ Returned(c, channel[c])
  /\ UNCHANGED <<registry, unread, tool, opened, answer, pending, channel,
                 bankStreams, rpos>>

TimeoutNever(c) == FALSE /\ UNCHANGED bankVars  \* variant: no deadline

TimeoutKeepsSender(c) ==                       \* variant: the entry stays
  /\ BankFault("timeout")
  /\ pc[c] = "wait" /\ channel[c] = Nothing
  /\ Returned(c, "adapter_error")
  /\ UNCHANGED <<registry, unread, tool, opened, answer, pending, channel,
                 bankStreams, rpos>>

Timeout(c) ==
  /\ BankFault("timeout")
  /\ pc[c] = "wait" /\ channel[c] = Nothing
  /\ pending' = pending \ {c}
  /\ Returned(c, "adapter_error")
  /\ UNCHANGED <<registry, unread, tool, opened, answer, channel, bankStreams,
                 rpos>>

CloseAnyway(c) ==                              \* variant: opening_ok ignored
  /\ pc[c] = "close"
  /\ LET type == IF outcome[c] \in Results THEN "tool_completed" ELSE "tool_failed"
     IN  \E said \in BOOLEAN : Emitted(type, c, said)
  /\ GoTo(c, "reply")
  /\ UNCHANGED <<registry, unread, tool, opened, outcome, answer, pending,
                 channel, invokes, results, rpos>>

(* The second half of the step, unless the first is missing: a result of   *)
(* the tool, failed or not, is tool_completed, everything else tool_failed. *)
Close(c) ==
  /\ pc[c] = "close"
  /\ LET type == IF outcome[c] \in Results THEN "tool_completed" ELSE "tool_failed"
     IN  IF opened[c] THEN \E said \in BOOLEAN : Emitted(type, c, said)
         ELSE UNCHANGED taskEnd
  /\ GoTo(c, "reply")
  /\ UNCHANGED <<registry, unread, tool, opened, outcome, answer, pending,
                 channel, invokes, results, rpos>>

(* The MCP response: a result with isError, or error -32602, or -32603. *)
Reply(c) ==
  /\ pc[c] = "reply"
  /\ answer' = [answer EXCEPT ![c] = outcome[c]]
  /\ GoTo(c, "answered")
  /\ UNCHANGED <<registry, unread, tool, opened, outcome, pending, channel,
                 bankStreams, rpos>>

(* The client is gone: the handler is dropped where it waits.  Its sender, *)
(* if it has one, stays in the map.                                        *)
Disconnect(c) ==
  /\ BankFault("disconnect")
  /\ pc[c] \in {"route", "produce", "wait", "close", "reply"}
  /\ GoTo(c, "dropped")
  /\ UNCHANGED <<registry, unread, tool, opened, outcome, answer, pending,
                 channel, bankStreams, rpos>>

-----------------------------------------------------------------------------
(* The sandbox, and the result consumer.                                   *)

SandboxRuns(c) ==
  /\ c \in invokes
  /\ Len(results) < MaxResults
  /\ \E r \in Results : results' = Append(results, [step |-> c, result |-> r])
  /\ UNCHANGED <<registry, unread, bankCalls, pending, channel, taskEnd, invokes,
                 rpos>>

ConsumeKeepsSender ==                          \* variant: get, not remove
  /\ rpos < Len(results)
  /\ rpos' = rpos + 1
  /\ LET r == results[rpos + 1] IN
     channel' = IF r.step \in pending THEN [channel EXCEPT ![r.step] = r.result]
                ELSE channel
  /\ UNCHANGED <<registry, unread, bankCalls, bankStreams, pending>>

(* try_consume_results: the sender of the step leaves the map and gets the *)
(* result; with none, or with nobody listening, the result is dropped.     *)
ConsumeResult ==
  /\ rpos < Len(results)
  /\ rpos' = rpos + 1
  /\ LET r == results[rpos + 1] IN
     /\ channel' = IF r.step \in pending THEN [channel EXCEPT ![r.step] = r.result]
                   ELSE channel
     /\ pending' = pending \ {r.step}
  /\ UNCHANGED <<registry, unread, bankCalls, bankStreams>>

(* run_result_consumer, after errors or the end of the stream: the same    *)
(* group goes on from its last commit.                                     *)
RejoinResults ==
  /\ BankFault("rejoin")
  /\ \E committed \in 0 .. rpos - 1 : rpos' = committed
  /\ UNCHANGED <<registry, unread, bankCalls, bankStreams, pending, channel>>

-----------------------------------------------------------------------------
CallStep(c) ==
  \/ Open(c) \/ RouteNowhere(c) \/ RouteHttp(c) \/ RouteSandbox(c)
  \/ Produce(c) \/ ProduceFails(c) \/ ResultReceived(c) \/ Timeout(c)
  \/ Close(c) \/ Reply(c)

BankNext ==
  \/ RegisterHttp
  \/ \E c \in Calls : CallStep(c) \/ Disconnect(c) \/ SandboxRuns(c)
  \/ ConsumeResult \/ RejoinResults

BankSpec == BankInit /\ [][BankNext]_bankVars

(* Handlers that can go on do, and a deadline passes.  Nothing is asked of *)
(* the sandbox.                                                            *)
BankFairness == WF_bankVars(RegisterHttp) /\ \A c \in Calls : WF_bankVars(CallStep(c))

-----------------------------------------------------------------------------
(* Properties.                                                             *)

BankTypeOK ==
  /\ registry.index \in [ToolNames -> 0 .. Len(HttpAdapters) + 1]
  /\ pc \in [Calls -> {"absent", "route", "produce", "wait", "close", "reply",
                       "answered", "dropped"}]
  /\ tool \in [Calls -> ToolNames] /\ opened \in [Calls -> BOOLEAN]
  /\ outcome \in [Calls -> Results \cup {Nothing, "adapter_error", "not_found"}]
  /\ answer \in [Calls -> Results \cup {Nothing, "adapter_error", "not_found"}]
  /\ pending \subseteq Calls /\ invokes \subseteq Calls
  /\ channel \in [Calls -> Results \cup {Nothing}]
  /\ taskEnd \in Seq([type : {"tool_invoked", "tool_completed", "tool_failed"},
                     step : Calls])
  /\ results \in Seq([step : Calls, result : Results])
  /\ rpos \in 0 .. Len(results)

(* ToolRegistry: what is listed is what is routed to.  Every tool of a     *)
(* registered adapter is found at that adapter, and no collision of names  *)
(* takes a tool from the adapter that had it.                              *)
ListedIsRouted ==
  /\ \A i \in 1 .. Len(registry.adapters) :
       \A n \in registry.adapters[i] : registry.index[n] = i
  /\ \A n \in ToolNames :
       registry.index[n] # NoAdapter => n \in registry.adapters[registry.index[n]]

Places(c, types) == {i \in 1 .. Len(taskEnd) : taskEnd[i].step = c
                                              /\ taskEnd[i].type \in types}

(* emit_task_end and opening_ok: whatever produce fails or only seems to,  *)
(* a step is opened at most once and closed at most once, after that.  It  *)
(* is what Recovery takes for granted of those who report to task-end.     *)
StepsPaired ==
  \A c \in Calls :
    LET opens  == Places(c, {"tool_invoked"})
        closes == Places(c, {"tool_completed", "tool_failed"})
    IN  /\ Cardinality(opens) <= 1 /\ Cardinality(closes) <= 1
        /\ \A j \in closes : \E i \in opens : i < j

(* The pending map holds the calls that wait for a result, no more and no  *)
(* fewer: no result slips through between the produce and the wait, and of *)
(* the calls that no longer wait only those whose handler was dropped are  *)
(* left behind.                                                            *)
PendingIsAwaited ==
  /\ \A c \in Calls : pc[c] = "wait" => c \in pending \/ channel[c] # Nothing
  /\ pending \subseteq {c \in Calls : pc[c] \in {"produce", "wait", "dropped"}}

(* A call answers with the first result the sandbox reported for its step: *)
(* neither a repeated result nor one that is late changes the answer, and  *)
(* the record of the step in task-end says the same.                       *)
FirstResultWins ==
  \A c \in Calls :
    (registry.index[tool[c]] = Sandbox /\ outcome[c] \in Results) =>
      \E i \in 1 .. Len(results) :
        /\ results[i] = [step |-> c, result |-> outcome[c]]
        /\ \A j \in 1 .. i - 1 : results[j].step # c

(* Every call that is taken is answered, unless its client goes away.      *)
CallsAnswered ==
  \A c \in Calls : (pc[c] = "route") ~> (pc[c] \in {"answered", "dropped"})
=============================================================================
