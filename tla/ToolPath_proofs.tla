--------------------------- MODULE ToolPath_proofs --------------------------
(* Theorems about the tools bank, the stream gateway and the path from one *)
(* to the other, for every set of calls, turns and adapters, every number  *)
(* of results and every combination of faults.                             *)
EXTENDS ToolPath, FoldLemmas, SequenceTheorems

-----------------------------------------------------------------------------
(* The registry.                                                           *)

(* A registry in which what is listed and what is routed to agree. *)
Consistent(reg) ==
  /\ reg \in [adapters : Seq(SUBSET ToolNames), index : [ToolNames -> Nat]]
  /\ \A i \in 1 .. Len(reg.adapters) : \A n \in reg.adapters[i] : reg.index[n] = i
  /\ \A n \in ToolNames : reg.index[n] <= Len(reg.adapters)
  /\ \A n \in ToolNames :
       reg.index[n] # NoAdapter => n \in reg.adapters[reg.index[n]]

(* The bounds say that the index of the next adapter is in its type. *)
RegistryInv ==
  /\ Consistent(registry)
  /\ unread \in Seq(SUBSET ToolNames)
  /\ Len(registry.adapters) >= 1
  /\ Len(registry.adapters) + Len(unread) <= Len(HttpAdapters) + 1

(* Registering keeps what is listed and what is routed to the same, and    *)
(* never moves a tool from its adapter.                                    *)
LEMMA RegisterKeeps ==
  ASSUME NEW reg, Consistent(reg), NEW tools \in SUBSET ToolNames
  PROVE  /\ Consistent(Register(reg, tools))
         /\ Len(Register(reg, tools).adapters) \in
              {Len(reg.adapters), Len(reg.adapters) + 1}
<1> DEFINE new == Register(reg, tools)
<1> USE DEF Consistent
<1>1. CASE \E n \in tools : reg.index[n] # NoAdapter
  BY <1>1 DEF Register
<1>2. CASE \A n \in tools : reg.index[n] = NoAdapter
  <2> DEFINE k == Len(reg.adapters) + 1
  <2>1. /\ new.adapters = Append(reg.adapters, tools)
        /\ new.index = [n \in ToolNames |-> IF n \in tools THEN k ELSE reg.index[n]]
        /\ new = [adapters |-> new.adapters, index |-> new.index]
    BY <1>2 DEF Register
  <2>2. /\ new.adapters \in Seq(SUBSET ToolNames)
        /\ Len(new.adapters) = k /\ k \in Nat
        /\ new.adapters[k] = tools
        /\ \A i \in 1 .. Len(reg.adapters) : new.adapters[i] = reg.adapters[i]
    BY <2>1
  <2>3. new \in [adapters : Seq(SUBSET ToolNames), index : [ToolNames -> Nat]]
    <3>1. new.index \in [ToolNames -> Nat]
      BY <2>1, <2>2
    <3> HIDE DEF k
    <3>2. QED
      BY <3>1, <2>1, <2>2
  <2>4. ASSUME NEW i \in 1 .. Len(new.adapters), NEW n \in new.adapters[i]
        PROVE  new.index[n] = i
    <3>1. CASE i = k
      BY <3>1, <2>1, <2>2
    <3>2. CASE i # k
      <4>1. i \in 1 .. Len(reg.adapters) /\ n \in reg.adapters[i]
        BY <3>2, <2>2
      <4>2. reg.index[n] = i /\ n \in ToolNames
        BY <4>1
      <4>3. n \notin tools
        BY <4>1, <4>2, <1>2 DEF NoAdapter
      <4>4. QED
        BY <4>2, <4>3, <2>1
    <3>3. QED
      BY <3>1, <3>2
  <2>5. ASSUME NEW n \in ToolNames
        PROVE  /\ new.index[n] <= Len(new.adapters)
               /\ new.index[n] # NoAdapter => n \in new.adapters[new.index[n]]
    <3>1. CASE n \in tools
      BY <3>1, <2>1, <2>2
    <3>2. CASE n \notin tools
      <4>1. new.index[n] = reg.index[n]
        BY <3>2, <2>1
      <4>2. reg.index[n] # NoAdapter => reg.index[n] \in 1 .. Len(reg.adapters)
        BY DEF NoAdapter
      <4>3. QED
        BY <4>1, <4>2, <2>2
    <3>3. QED
      BY <3>1, <3>2
  <2>6. QED
    BY <2>2, <2>3, <2>4, <2>5
<1>3. QED
  BY <1>1, <1>2

(* An operator's file adds tools that exist, or nothing. *)
LEMMA SandboxToolsExist == SandboxTools \in SUBSET ToolNames
<1>1. KeptExtras \subseteq ToolNames
  <2> SUFFICES ASSUME NEW n \in ExtrasLoaded PROVE n \in ToolNames
    BY DEF KeptExtras
  <2>1. PICK i \in DOMAIN ExtraFile : n = ExtraFile[i] /\ ExtraFile[i] # Malformed
    BY DEF ExtrasLoaded
  <2>2. ExtraFile[i] \in ToolNames \cup {Malformed}
    BY <2>1, BankAssumption
  <2>3. QED
    BY <2>1, <2>2
<1>2. QED
  BY <1>1, BankAssumption DEF SandboxTools

LEMMA RegistryInit == BankInit => RegistryInv
<1> SUFFICES ASSUME BankInit PROVE RegistryInv
  OBVIOUS
<1>1. /\ <<>> \in Seq(SUBSET ToolNames) /\ Len(<<>>) = 0
      /\ EmptyRegistry \in [adapters : Seq(SUBSET ToolNames), index : [ToolNames -> Nat]]
      /\ EmptyRegistry.adapters = <<>>
      /\ \A n \in ToolNames : EmptyRegistry.index[n] = NoAdapter
  BY DEF EmptyRegistry, NoAdapter
<1>2. SandboxTools \in SUBSET ToolNames /\ HttpAdapters \in Seq(SUBSET ToolNames)
  BY BankAssumption, SandboxToolsExist
<1>3. registry = Register(EmptyRegistry, SandboxTools) /\ unread = HttpAdapters
  BY DEF BankInit
<1>4. Len(registry.adapters) = 1
  <2>1. registry.adapters = Append(EmptyRegistry.adapters, SandboxTools)
    BY <1>1, <1>2, <1>3 DEF Register
  <2>2. QED
    BY <1>1, <1>2, <2>1
<1>5. Consistent(EmptyRegistry)
  BY <1>1 DEF Consistent, NoAdapter
<1>6. Consistent(registry)
  BY <1>2, <1>3, <1>5, RegisterKeeps
<1>2a. QED
  BY <1>2, <1>3, <1>4, <1>6 DEF RegistryInv

LEMMA RegistryStep == RegistryInv /\ [BankNext]_bankVars => RegistryInv'
<1> SUFFICES ASSUME RegistryInv, [BankNext]_bankVars PROVE RegistryInv'
  OBVIOUS
<1>1. CASE RegisterHttp
  <2>1. /\ unread \in Seq(SUBSET ToolNames) /\ unread # <<>>
        /\ registry' = EntryRegistered(registry, Head(unread)) /\ unread' = Tail(unread)
    BY <1>1 DEF RegisterHttp, RegistryInv
  <2>2. /\ Head(unread) \in SUBSET ToolNames
        /\ Tail(unread) \in Seq(SUBSET ToolNames)
        /\ Len(Tail(unread)) = Len(unread) - 1 /\ Len(unread) \in Nat
    BY <2>1
  <2>3. /\ Consistent(registry')
        /\ Len(registry'.adapters) \in {Len(registry.adapters), Len(registry.adapters) + 1}
    <3>1. CASE Head(unread) = {}
      BY <2>1, <3>1 DEF RegistryInv, EntryRegistered
    <3>2. CASE Head(unread) # {}
      BY <2>1, <2>2, <3>2, RegisterKeeps DEF RegistryInv, EntryRegistered
    <3>3. QED
      BY <3>1, <3>2
  <2>4. Len(registry.adapters) \in Nat /\ Len(HttpAdapters) \in Nat
    BY BankAssumption DEF RegistryInv, Consistent
  <2>5. /\ Len(registry'.adapters) >= 1
        /\ Len(registry'.adapters) + Len(unread') <= Len(HttpAdapters) + 1
    BY <2>1, <2>2, <2>3, <2>4 DEF RegistryInv
  <2>6. QED
    BY <2>1, <2>2, <2>3, <2>5 DEF RegistryInv, Consistent
<1>2. CASE UNCHANGED <<registry, unread>>
  BY <1>2 DEF RegistryInv, Consistent
<1>3. QED
  BY <1>1, <1>2 DEF BankNext, CallStep, Open, RouteNowhere, RouteHttp,
     RouteSandbox, Produce, ProduceFails, ResultReceived, Timeout, Close, Reply,
     Disconnect, SandboxRuns, ConsumeResult, RejoinResults, bankVars

(* Whatever adapters are configured, in whatever order, every tool that is *)
(* listed is routed to the adapter that lists it (ToolRegistry::register). *)
THEOREM RegistryIsConsistent == BankSpec => []ListedIsRouted
<1>1. RegistryInv => ListedIsRouted
  BY DEF RegistryInv, Consistent, ListedIsRouted
<1>2. QED
  BY <1>1, RegistryInit, RegistryStep, PTL DEF BankSpec

-----------------------------------------------------------------------------
(* Types.                                                                  *)

Answers == Results \cup {Nothing, "adapter_error", "not_found"}
EndRecords == [type : {"tool_invoked", "tool_completed", "tool_failed"}, step : Calls]
ResultRecords == [step : Calls, result : Results]

LEMMA TypeInit == BankInit /\ RegistryInv => BankTypeOK
<1> SUFFICES ASSUME BankInit, RegistryInv PROVE BankTypeOK
  OBVIOUS
<1>1. registry.index \in [ToolNames -> 0 .. Len(HttpAdapters) + 1]
  BY BankAssumption DEF RegistryInv, Consistent
<1>2. taskEnd \in Seq(EndRecords) /\ results \in Seq(ResultRecords) /\ Len(results) = 0
  BY DEF BankInit
<1>3. QED
  BY <1>1, <1>2 DEF BankInit, BankTypeOK, Results, Nothing, EndRecords, ResultRecords

(* What a produce to task-end leaves there. *)
LEMMA EmittedType ==
  ASSUME BankTypeOK, NEW c \in Calls, NEW said \in BOOLEAN,
         NEW type \in {"tool_invoked", "tool_completed", "tool_failed"},
         Emitted(type, c, said)
  PROVE  taskEnd' \in Seq(EndRecords)
<1>1. Record(type, c) \in EndRecords /\ taskEnd \in Seq(EndRecords)
  BY DEF Record, EndRecords, BankTypeOK
<1>2. Append(taskEnd, Record(type, c)) \in Seq(EndRecords)
  BY <1>1
<1>3. QED
  BY <1>1, <1>2 DEF Emitted

LEMMA TypeStep ==
  BankTypeOK /\ RegistryInv /\ RegistryInv' /\ [BankNext]_bankVars => BankTypeOK'
<1> SUFFICES ASSUME BankTypeOK, RegistryInv, RegistryInv', [BankNext]_bankVars
             PROVE  BankTypeOK'
  OBVIOUS
<1> USE DEF BankTypeOK, EndRecords, ResultRecords
<1>1. CASE RegisterHttp
  <2>1. registry'.index \in [ToolNames -> 0 .. Len(HttpAdapters) + 1]
    <3>1. /\ registry'.index \in [ToolNames -> Nat] /\ Len(registry'.adapters) \in Nat
          /\ \A n \in ToolNames : registry'.index[n] <= Len(registry'.adapters)
      BY DEF RegistryInv, Consistent
    <3>2. Len(registry'.adapters) <= Len(HttpAdapters) + 1
      <4>1. /\ Len(registry'.adapters) + Len(unread') <= Len(HttpAdapters) + 1
            /\ Len(unread') \in Nat /\ Len(HttpAdapters) \in Nat
        BY BankAssumption DEF RegistryInv
      <4>2. QED
        BY <3>1, <4>1
    <3>3. QED
      BY <3>1, <3>2, BankAssumption
  <2>2. QED
    BY <1>1, <2>1 DEF RegisterHttp, bankCalls, bankStreams
<1>2. ASSUME NEW c \in Calls, CallStep(c) \/ Disconnect(c) \/ SandboxRuns(c)
      PROVE  BankTypeOK'
  <2>1. CASE Open(c)
    <3>1. PICK ok \in BOOLEAN : /\ Emitted("tool_invoked", c, ok)
                                /\ opened' = [opened EXCEPT ![c] = ok]
      BY <2>1 DEF Open
    <3>2. taskEnd' \in Seq(EndRecords)
      BY <3>1, EmittedType
    <3>3. opened' \in [Calls -> BOOLEAN]
      BY <3>1
    <3>4. QED
      BY <2>1, <3>2, <3>3 DEF Open, GoTo
  <2>2. CASE RouteNowhere(c)
    BY <2>2 DEF RouteNowhere, Returned, GoTo, bankStreams
  <2>3. CASE RouteHttp(c)
    BY <2>3 DEF RouteHttp, Returned, GoTo, bankStreams
  <2>4. CASE RouteSandbox(c)
    BY <2>4 DEF RouteSandbox, GoTo, bankStreams
  <2>5. CASE Produce(c)
    BY <2>5 DEF Produce, GoTo
  <2>6. CASE ProduceFails(c)
    BY <2>6 DEF ProduceFails, Returned, GoTo
  <2>7. CASE ResultReceived(c)
    <3>1. channel[c] \in Results
      BY <2>7 DEF ResultReceived
    <3>2. outcome' = [outcome EXCEPT ![c] = channel[c]] /\ pc' = [pc EXCEPT ![c] = "close"]
      BY <2>7 DEF ResultReceived, Returned, GoTo
    <3>3. outcome' \in [Calls -> Results \cup {Nothing, "adapter_error", "not_found"}]
      BY <3>1, <3>2
    <3>4. QED
      BY <2>7, <3>2, <3>3 DEF ResultReceived, bankStreams
  <2>8. CASE Timeout(c)
    BY <2>8 DEF Timeout, Returned, GoTo, bankStreams
  <2>9. CASE Close(c)
    <3>1. taskEnd' \in Seq(EndRecords)
      <4> DEFINE type == IF outcome[c] \in Results THEN "tool_completed" ELSE "tool_failed"
      <4>1. CASE opened[c]
        BY <2>9, <4>1, EmittedType DEF Close
      <4>2. CASE ~opened[c]
        BY <2>9, <4>2 DEF Close
      <4>3. QED
        BY <4>1, <4>2
    <3>2. QED
      BY <2>9, <3>1 DEF Close, GoTo
  <2>10. CASE Reply(c)
    BY <2>10 DEF Reply, GoTo, bankStreams
  <2>11. CASE Disconnect(c)
    BY <2>11 DEF Disconnect, GoTo, bankStreams
  <2>12. CASE SandboxRuns(c)
    <3>1. PICK r \in Results : results' = Append(results, [step |-> c, result |-> r])
      BY <2>12 DEF SandboxRuns
    <3>2. [step |-> c, result |-> r] \in ResultRecords
      OBVIOUS
    <3>3. results' \in Seq(ResultRecords) /\ Len(results') = Len(results) + 1
      BY <3>1, <3>2
    <3>4. rpos' \in 0 .. Len(results')
      BY <2>12, <3>3 DEF SandboxRuns
    <3>5. QED
      BY <2>12, <3>3, <3>4 DEF SandboxRuns, bankCalls
  <2>13. QED
    BY <1>2, <2>1, <2>2, <2>3, <2>4, <2>5, <2>6, <2>7, <2>8, <2>9, <2>10, <2>11,
       <2>12 DEF CallStep
<1>3. CASE ConsumeResult
  <2> DEFINE r == results[rpos + 1]
  <2>1. r \in ResultRecords
    <3>1. rpos \in 0 .. Len(results) /\ rpos < Len(results)
      BY <1>3 DEF ConsumeResult
    <3>2. results \in Seq(ResultRecords)
      OBVIOUS
    <3>3. Len(results) \in Nat
      BY <3>2
    <3> HIDE DEF BankTypeOK, ResultRecords
    <3>4. rpos + 1 \in 1 .. Len(results)
      BY <3>1, <3>3
    <3>5. QED
      BY <3>2, <3>4
  <2>2. /\ rpos' \in 0 .. Len(results) /\ results' = results
    BY <1>3 DEF ConsumeResult, bankStreams
  <2>3. channel' \in [Calls -> Results \cup {Nothing}] /\ pending' \subseteq Calls
    BY <1>3, <2>1 DEF ConsumeResult
  <2>4. QED
    BY <1>3, <2>2, <2>3 DEF ConsumeResult, bankCalls, bankStreams
<1>4. CASE RejoinResults
  <2>1. rpos' \in 0 .. Len(results)
    <3>1. Len(results) \in Nat /\ rpos \in 0 .. Len(results)
      OBVIOUS
    <3>2. PICK committed \in 0 .. rpos - 1 : rpos' = committed
      BY <1>4 DEF RejoinResults
    <3>3. QED
      BY ONLY <3>1, <3>2
  <2>2. QED
    BY <1>4, <2>1 DEF RejoinResults, bankCalls, bankStreams
<1>5. CASE UNCHANGED bankVars
  BY <1>5 DEF bankVars, bankCalls, bankStreams
<1>6. QED
  BY <1>1, <1>2, <1>3, <1>4, <1>5 DEF BankNext

(* The variables of the bank stay in their types; the index of the         *)
(* registry never points past the configured adapters.                     *)
THEOREM BankTypeCorrect == BankSpec => []BankTypeOK
<1>1. BankInit => BankTypeOK /\ RegistryInv
  BY TypeInit, RegistryInit
<1>2. BankTypeOK /\ RegistryInv /\ [BankNext]_bankVars => BankTypeOK' /\ RegistryInv'
  BY TypeStep, RegistryStep
<1>3. QED
  BY <1>1, <1>2, PTL DEF BankSpec

-----------------------------------------------------------------------------
(* The records of a step on task-end.                                      *)

Opens(c)  == Places(c, {"tool_invoked"})
Closes(c) == Places(c, {"tool_completed", "tool_failed"})
Unclosed  == {"absent", "route", "produce", "wait", "close"}

(* A call that is not open yet has left nothing, one that has not passed   *)
(* Close has closed nothing, and one that believes its opening is there is *)
(* right.                                                                  *)
StepInv ==
  \A c \in Calls :
    /\ pc[c] = "absent" => Opens(c) = {}
    /\ pc[c] \in Unclosed => Closes(c) = {}
    /\ opened[c] => Opens(c) # {}
    /\ \A i, j \in Opens(c) : i = j
    /\ \A i, j \in Closes(c) : i = j
    /\ \A j \in Closes(c) : \E i \in Opens(c) : i < j

(* What an append adds to the places of a step. *)
LEMMA PlacesAppend ==
  ASSUME taskEnd \in Seq(EndRecords), NEW c, NEW type,
         taskEnd' = Append(taskEnd, Record(type, c)), NEW d, NEW types
  PROVE  /\ Len(taskEnd) \in Nat
         /\ (d = c /\ type \in types)
              => Places(d, types)' = Places(d, types) \cup {Len(taskEnd) + 1}
         /\ (d # c \/ type \notin types) => Places(d, types)' = Places(d, types)
<1>1. /\ Len(taskEnd) \in Nat /\ Len(taskEnd') = Len(taskEnd) + 1
      /\ taskEnd'[Len(taskEnd) + 1] = Record(type, c)
      /\ \A i \in 1 .. Len(taskEnd) : taskEnd'[i] = taskEnd[i]
  OBVIOUS
<1>2. Record(type, c).type = type /\ Record(type, c).step = c
  BY DEF Record
<1>3. 1 .. Len(taskEnd') = (1 .. Len(taskEnd)) \cup {Len(taskEnd) + 1}
  BY <1>1
<1>4. QED
  BY <1>1, <1>2, <1>3 DEF Places

LEMMA OpenAppend ==
  ASSUME taskEnd \in Seq(EndRecords), NEW c \in Calls,
         taskEnd' = Append(taskEnd, Record("tool_invoked", c)), NEW d \in Calls
  PROVE  /\ d = c => Opens(d)' = Opens(d) \cup {Len(taskEnd) + 1}
         /\ d # c => Opens(d)' = Opens(d)
         /\ Closes(d)' = Closes(d)
<1> DEFINE closing == {"tool_completed", "tool_failed"}
<1>1. /\ d = c => Places(d, {"tool_invoked"})'
                    = Places(d, {"tool_invoked"}) \cup {Len(taskEnd) + 1}
      /\ d # c => Places(d, {"tool_invoked"})' = Places(d, {"tool_invoked"})
  BY PlacesAppend
<1>2. "tool_invoked" \notin closing
  OBVIOUS
<1> HIDE DEF closing
<1>3. Places(d, closing)' = Places(d, closing)
  BY <1>2, PlacesAppend
<1>4. QED
  BY <1>1, <1>3 DEF Opens, Closes, closing

LEMMA CloseAppend ==
  ASSUME taskEnd \in Seq(EndRecords), NEW c \in Calls,
         NEW type \in {"tool_completed", "tool_failed"},
         taskEnd' = Append(taskEnd, Record(type, c)), NEW d \in Calls
  PROVE  /\ d = c => Closes(d)' = Closes(d) \cup {Len(taskEnd) + 1}
         /\ d # c => Closes(d)' = Closes(d)
         /\ Opens(d)' = Opens(d)
<1> DEFINE closing == {"tool_completed", "tool_failed"}
<1> DEFINE opening == {"tool_invoked"}
<1>1. type \notin opening /\ type \in closing
  OBVIOUS
<1> HIDE DEF closing, opening
<1>2. /\ d = c => Places(d, closing)' = Places(d, closing) \cup {Len(taskEnd) + 1}
      /\ d # c => Places(d, closing)' = Places(d, closing)
  BY <1>1, PlacesAppend
<1>3. Places(d, opening)' = Places(d, opening)
  BY <1>1, PlacesAppend
<1>4. QED
  BY <1>2, <1>3 DEF Opens, Closes, closing, opening

LEMMA PlacesBound ==
  ASSUME taskEnd \in Seq(EndRecords), NEW c, NEW types
  PROVE  \A i \in Places(c, types) : i \in Nat /\ i < Len(taskEnd) + 1
BY DEF Places

LEMMA StepInit == BankInit => StepInv
<1> SUFFICES ASSUME BankInit, NEW c \in Calls
             PROVE  Opens(c) = {} /\ Closes(c) = {} /\ ~opened[c]
  BY DEF StepInv
<1>1. Len(taskEnd) = 0
  BY DEF BankInit
<1>2. QED
  BY <1>1 DEF BankInit, Opens, Closes, Places

(* A step that writes nothing and takes no call back. *)
LEMMA StepKept ==
  ASSUME StepInv, UNCHANGED <<taskEnd, opened>>,
         \A c \in Calls : /\ pc'[c] = "absent" => pc[c] = "absent"
                          /\ pc'[c] \in Unclosed => pc[c] \in Unclosed
  PROVE  StepInv'
BY DEF StepInv, Opens, Closes, Places

LEMMA StepOpen ==
  ASSUME BankTypeOK, StepInv, NEW c \in Calls, Open(c)
  PROVE  StepInv'
<1>1. PICK ok \in BOOLEAN : /\ Emitted("tool_invoked", c, ok)
                            /\ opened' = [opened EXCEPT ![c] = ok]
  BY DEF Open
<1>2. /\ pc[c] = "absent" /\ pc' = [pc EXCEPT ![c] = "route"]
      /\ taskEnd \in Seq(EndRecords)
      /\ \A d \in Calls : pc'[d] = IF d = c THEN "route" ELSE pc[d]
  BY DEF Open, GoTo, BankTypeOK, EndRecords
<1>2a. opened'[c] = ok /\ \A d \in Calls : d # c => opened'[d] = opened[d]
  BY <1>1 DEF BankTypeOK
<1>3. Opens(c) = {} /\ Closes(c) = {}
  BY <1>2 DEF StepInv, Unclosed
<1>4. CASE UNCHANGED taskEnd
  <2>1. ~ok
    <3>1. Len(taskEnd) \in Nat
          /\ \A e : Len(Append(taskEnd, e)) = Len(taskEnd) + 1
      BY <1>2
    <3>2. taskEnd # Append(taskEnd, Record("tool_invoked", c))
      BY <3>1
    <3>3. QED
      BY <1>1, <3>2, <1>4 DEF Emitted
  <2>2. \A d \in Calls : UNCHANGED <<Opens(d), Closes(d)>>
    BY <1>4 DEF Opens, Closes, Places
  <2>3. \A d \in Calls : opened'[d] => opened[d]
    BY <2>1, <1>2a
  <2>4. QED
    BY <2>2, <2>3, <1>2, <1>3 DEF StepInv, Unclosed
<1>5. CASE taskEnd' = Append(taskEnd, Record("tool_invoked", c))
  <2>1. /\ Opens(c)' = Opens(c) \cup {Len(taskEnd) + 1}
        /\ \A d \in Calls : Closes(d)' = Closes(d)
        /\ \A d \in Calls : d # c => Opens(d)' = Opens(d)
    BY <1>2, <1>5, OpenAppend
  <2>2. Opens(c)' = {Len(taskEnd) + 1} /\ Closes(c)' = {}
    BY <2>1, <1>3
  <2>3. \A d \in Calls : d # c => (opened'[d] => opened[d])
    BY <1>2a
  <2>4. \A d \in Calls : d # c => UNCHANGED <<Opens(d), Closes(d), pc[d]>>
    BY <2>1, <1>2
  <2>5. QED
    BY <2>2, <2>3, <2>4, <1>2 DEF StepInv, Unclosed
<1>6. QED
  BY <1>1, <1>4, <1>5 DEF Emitted

LEMMA StepClose ==
  ASSUME BankTypeOK, StepInv, NEW c \in Calls, Close(c)
  PROVE  StepInv'
<1> DEFINE type == IF outcome[c] \in Results THEN "tool_completed" ELSE "tool_failed"
<1>1. /\ pc[c] = "close" /\ pc' = [pc EXCEPT ![c] = "reply"] /\ opened' = opened
      /\ taskEnd \in Seq(EndRecords)
      /\ \A d \in Calls : pc'[d] = IF d = c THEN "reply" ELSE pc[d]
  BY DEF Close, GoTo, BankTypeOK, EndRecords
<1>2. CASE UNCHANGED taskEnd
  <2>1. \A d \in Calls : /\ pc'[d] = "absent" => pc[d] = "absent"
                         /\ pc'[d] \in Unclosed => pc[d] \in Unclosed
    BY <1>1 DEF Unclosed
  <2>2. QED
    BY <1>1, <1>2, <2>1, StepKept
<1>3. CASE opened[c] /\ taskEnd' = Append(taskEnd, Record(type, c))
  <2> HIDE DEF type
  <2>1. /\ Closes(c)' = Closes(c) \cup {Len(taskEnd) + 1}
        /\ \A d \in Calls : Opens(d)' = Opens(d)
        /\ \A d \in Calls : d # c => Closes(d)' = Closes(d)
    <3>1. type \in {"tool_completed", "tool_failed"}
      BY DEF type
    <3>2. QED
      BY <3>1, <1>1, <1>3, CloseAppend
  <2>2. Opens(c) # {} /\ Closes(c) = {}
    BY <1>1, <1>3 DEF StepInv, Unclosed
  <2>3. Closes(c)' = {Len(taskEnd) + 1}
    BY <2>1, <2>2
  <2>4. \A i \in Opens(c) : i < Len(taskEnd) + 1
    BY <1>1, PlacesBound DEF Opens
  <2>5. \A d \in Calls : d # c => UNCHANGED <<Opens(d), Closes(d), opened[d], pc[d]>>
    BY <2>1, <1>1
  <2>6. QED
    BY <2>1, <2>2, <2>3, <2>4, <2>5, <1>1 DEF StepInv, Unclosed
<1>4. QED
  BY <1>2, <1>3 DEF Close, Emitted

LEMMA StepStep == BankTypeOK /\ StepInv /\ [BankNext]_bankVars => StepInv'
<1> SUFFICES ASSUME BankTypeOK, StepInv, [BankNext]_bankVars PROVE StepInv'
  OBVIOUS
<1>1. CASE RegisterHttp \/ ConsumeResult \/ RejoinResults \/ UNCHANGED bankVars
  BY <1>1, StepKept DEF RegisterHttp, ConsumeResult, RejoinResults, bankVars,
                        bankCalls, bankStreams
<1>2. ASSUME NEW c \in Calls, CallStep(c) \/ Disconnect(c) \/ SandboxRuns(c)
      PROVE  StepInv'
  <2>1. CASE RouteNowhere(c) \/ RouteHttp(c) \/ RouteSandbox(c) \/ Produce(c)
             \/ ProduceFails(c) \/ ResultReceived(c) \/ Timeout(c) \/ Reply(c)
             \/ Disconnect(c)
    <3>1. UNCHANGED <<taskEnd, opened>>
      BY <2>1 DEF RouteNowhere, RouteHttp, RouteSandbox, Produce, ProduceFails,
         ResultReceived, Timeout, Reply, Disconnect, bankStreams
    <3>2. \E l \in {"produce", "wait", "close", "answered", "dropped"} :
            pc' = [pc EXCEPT ![c] = l] /\ (l \in Unclosed => pc[c] \in Unclosed)
      BY <2>1 DEF RouteNowhere, RouteHttp, RouteSandbox, Produce, ProduceFails,
         ResultReceived, Timeout, Reply, Disconnect, Returned, GoTo, Unclosed
    <3>3. \A d \in Calls : /\ pc'[d] = "absent" => pc[d] = "absent"
                           /\ pc'[d] \in Unclosed => pc[d] \in Unclosed
      BY <3>2 DEF BankTypeOK
    <3>4. QED
      BY <3>1, <3>3, StepKept
  <2>2. CASE SandboxRuns(c)
    BY <2>2, StepKept DEF SandboxRuns, bankCalls
  <2>3. QED
    BY <1>2, <2>1, <2>2, StepOpen, StepClose DEF CallStep
<1>3. QED
  BY <1>1, <1>2 DEF BankNext

(* A set with at most one element. *)
LEMMA AtMostOne ==
  ASSUME NEW S, \A i, j \in S : i = j
  PROVE  Cardinality(S) <= 1
<1>1. CASE S = {}
  BY <1>1, FS_EmptySet
<1>2. CASE S # {}
  <2>1. PICK x \in S : TRUE
    BY <1>2
  <2>2. S = {x}
    BY <2>1
  <2>3. QED
    BY <2>2, FS_Singleton
<1>3. QED
  BY <1>1, <1>2

(* Whatever produce fails, or fails after the broker took the record,      *)
(* task-end never shows a step opened twice, closed twice, or closed       *)
(* without its opening before it.                                          *)
THEOREM EveryStepIsPaired == BankSpec => []StepsPaired
<1>1. StepInv => StepsPaired
  BY AtMostOne DEF StepInv, StepsPaired, Opens, Closes
<1>2. BankInit => BankTypeOK /\ RegistryInv /\ StepInv
  BY TypeInit, RegistryInit, StepInit
<1>3. BankTypeOK /\ RegistryInv /\ StepInv /\ [BankNext]_bankVars
        => BankTypeOK' /\ RegistryInv' /\ StepInv'
  BY TypeStep, RegistryStep, StepStep
<1>4. QED
  BY <1>1, <1>2, <1>3, PTL DEF BankSpec

-----------------------------------------------------------------------------
(* Waiting calls and their results.                                        *)

(* What FirstResultWins asks of one answer. *)
First(c, r) ==
  \E i \in 1 .. Len(results) :
    /\ results[i] = [step |-> c, result |-> r]
    /\ \A j \in 1 .. i - 1 : results[j].step # c

(* The consumer has met no result of the step yet. *)
Unmet(c) == \A i \in 1 .. rpos : results[i].step # c

(* A call that has not been routed has nothing anywhere, so that the sender *)
(* it puts into the map meets every result of its step.                    *)
CallInv(c) ==
  /\ pc[c] # "absent" => unread = <<>>
  /\ pc[c] = "absent" => outcome[c] = Nothing
  /\ pc[c] \in {"absent", "route"} =>
       c \notin invokes /\ c \notin pending /\ channel[c] = Nothing
  /\ c \in pending => /\ channel[c] = Nothing
                      /\ pc[c] \in {"produce", "wait", "dropped"}
                      /\ Unmet(c)
  /\ pc[c] \in {"produce", "wait"} => c \in pending \/ channel[c] # Nothing
  /\ channel[c] # Nothing => First(c, channel[c])
  /\ (registry.index[tool[c]] = Sandbox /\ outcome[c] \in Results)
        => First(c, outcome[c])

ResultInv ==
  /\ \A i \in 1 .. Len(results) : results[i].step \in invokes
  /\ \A c \in Calls : CallInv(c)

LEMMA ResultInit == BankInit /\ BankTypeOK => ResultInv
<1> SUFFICES ASSUME BankInit, BankTypeOK PROVE ResultInv
  OBVIOUS
<1>1. Len(results) = 0
  BY DEF BankInit
<1>2. Nothing \notin Results
  BY DEF Nothing, Results
<1>3. ASSUME NEW c \in Calls PROVE CallInv(c)
  BY <1>2 DEF BankInit, CallInv
<1>4. QED
  BY <1>1, <1>3 DEF ResultInv

(* A step of one call: what the others see is what they saw. *)
LEMMA OthersKept ==
  ASSUME BankTypeOK, NEW c \in Calls, CallInv(c),
         UNCHANGED <<registry, unread, tool, results, rpos>>,
         UNCHANGED <<pc[c], outcome[c], channel[c]>>,
         c \in pending' <=> c \in pending,
         c \in invokes' <=> c \in invokes
  PROVE  CallInv(c)'
<1>1. Unmet(c)' = Unmet(c)
  BY DEF Unmet
<1>2. First(c, channel[c])' = First(c, channel[c])
  BY DEF First
<1>3. First(c, outcome[c])' = First(c, outcome[c])
  BY DEF First
<1>4. QED
  BY <1>1, <1>2, <1>3 DEF CallInv

(* The steps of the handler of one call. *)
LEMMA ResultCall ==
  ASSUME BankTypeOK, ResultInv, NEW c \in Calls,
         CallStep(c) \/ Disconnect(c)
  PROVE  ResultInv'
<1>1. /\ UNCHANGED <<registry, unread, tool, results, rpos>>
      /\ invokes \subseteq invokes' /\ invokes' \subseteq invokes \cup {c}
      /\ \A d \in Calls \ {c} : /\ UNCHANGED <<pc[d], outcome[d], channel[d]>>
                                /\ d \in pending' <=> d \in pending
  BY DEF CallStep, Open, RouteNowhere, RouteHttp, RouteSandbox, Produce,
     ProduceFails, ResultReceived, Timeout, Close, Reply, Disconnect, Returned,
     GoTo, bankStreams, BankTypeOK
<1>2. \A i \in 1 .. Len(results') : results'[i].step \in invokes'
  BY <1>1 DEF ResultInv
<1>3. ASSUME NEW d \in Calls \ {c} PROVE CallInv(d)'
  <2>1. /\ UNCHANGED <<pc[d], outcome[d], channel[d]>>
        /\ d \in pending' <=> d \in pending
        /\ d \in invokes' <=> d \in invokes
        /\ d \in Calls /\ CallInv(d)
    <3>1. d \in Calls /\ d # c /\ CallInv(d)
      BY DEF ResultInv
    <3>2. d \in invokes' <=> d \in invokes
      BY <3>1, <1>1
    <3>3. UNCHANGED <<pc[d], outcome[d], channel[d]>>
      BY <1>1
    <3>4. d \in pending' <=> d \in pending
      BY <1>1
    <3>5. QED
      BY <3>1, <3>2, <3>3, <3>4
  <2>2. QED
    BY <2>1, <1>1, OthersKept
<1>4. /\ CallInv(c)
      /\ Unmet(c)' = Unmet(c)
      /\ \A r : First(c, r)' = First(c, r)
  BY <1>1 DEF ResultInv, Unmet, First
<1>5. c \notin invokes => Unmet(c)
  BY DEF ResultInv, Unmet, BankTypeOK
<1>6. Nothing \notin Results /\ "adapter_error" \notin Results /\ "not_found" \notin Results
  BY DEF Nothing, Results
<1>7. channel[c] \in Results \cup {Nothing}
  BY DEF BankTypeOK
<1>8. CallInv(c)'
  <2> USE <1>1, <1>4, <1>6 DEF CallInv, BankTypeOK
  <2>1. CASE Open(c)
    BY <2>1 DEF Open, GoTo
  <2>2. CASE RouteNowhere(c)
    BY <2>2 DEF RouteNowhere, Returned, GoTo, bankStreams
  <2>3. CASE RouteHttp(c)
    BY <2>3 DEF RouteHttp, Returned, GoTo, bankStreams
  <2>4. CASE RouteSandbox(c)
    BY <2>4, <1>5 DEF RouteSandbox, GoTo, bankStreams
  <2>5. CASE Produce(c)
    BY <2>5 DEF Produce, GoTo
  <2>6. CASE ProduceFails(c)
    BY <2>6 DEF ProduceFails, Returned, GoTo
  <2>7. CASE ResultReceived(c)
    BY <2>7, <1>7 DEF ResultReceived, Returned, GoTo, bankStreams
  <2>8. CASE Timeout(c)
    BY <2>8 DEF Timeout, Returned, GoTo, bankStreams
  <2>9. CASE Close(c)
    BY <2>9 DEF Close, GoTo
  <2>10. CASE Reply(c)
    BY <2>10 DEF Reply, GoTo, bankStreams
  <2>11. CASE Disconnect(c)
    BY <2>11 DEF Disconnect, GoTo, bankStreams
  <2>12. QED
    BY <2>1, <2>2, <2>3, <2>4, <2>5, <2>6, <2>7, <2>8, <2>9, <2>10, <2>11
       DEF CallStep
<1>9. QED
  BY <1>2, <1>3, <1>8 DEF ResultInv

(* One more result of a step that was invoked. *)
LEMMA ResultRuns ==
  ASSUME BankTypeOK, ResultInv, NEW s \in Calls, SandboxRuns(s)
  PROVE  ResultInv'
<1>1. PICK r \in Results : results' = Append(results, [step |-> s, result |-> r])
  BY DEF SandboxRuns
<1>2. UNCHANGED <<registry, unread, pc, tool, outcome, channel, pending, invokes, rpos>>
  BY DEF SandboxRuns, bankCalls
<1>3. /\ Len(results) \in Nat /\ Len(results') = Len(results) + 1
      /\ results'[Len(results) + 1] = [step |-> s, result |-> r]
      /\ \A i \in 1 .. Len(results) : results'[i] = results[i]
      /\ rpos \in 0 .. Len(results)
  BY <1>1 DEF BankTypeOK
<1>4. \A i \in 1 .. Len(results') : results'[i].step \in invokes'
  <2>1. s \in invokes
    BY DEF SandboxRuns
  <2>2. QED
    BY <2>1, <1>2, <1>3 DEF ResultInv
<1>5. ASSUME NEW c \in Calls PROVE CallInv(c)'
  <2>1. Unmet(c) => Unmet(c)'
    BY <1>2, <1>3 DEF Unmet
  <2>2. ASSUME NEW q, First(c, q) PROVE First(c, q)'
    BY <2>2, <1>3 DEF First
  <2>3. QED
    BY <2>1, <2>2, <1>2 DEF ResultInv, CallInv
<1>6. QED
  BY <1>4, <1>5 DEF ResultInv

LEMMA ResultConsumed ==
  ASSUME BankTypeOK, ResultInv, ConsumeResult
  PROVE  ResultInv'
<1> DEFINE r == results[rpos + 1]
<1>1. /\ rpos \in Nat /\ rpos + 1 \in 1 .. Len(results) /\ rpos' = rpos + 1
  BY DEF ConsumeResult, BankTypeOK
<1>2. r \in ResultRecords
  <2>1. results \in Seq(ResultRecords)
    BY DEF BankTypeOK, ResultRecords
  <2>2. QED
    BY <1>1, <2>1
<1>3. r = [step |-> r.step, result |-> r.result] /\ r.step \in Calls /\ r.result \in Results
  BY <1>2 DEF ResultRecords
<1>4. /\ UNCHANGED <<registry, unread, pc, tool, outcome, invokes, results>>
      /\ pending' = pending \ {r.step}
      /\ channel' = IF r.step \in pending THEN [channel EXCEPT ![r.step] = r.result]
                    ELSE channel
  BY DEF ConsumeResult, bankCalls, bankStreams
<1> HIDE DEF r
<1>5. \A c \in Calls : \A q : First(c, q)' = First(c, q)
  BY <1>4 DEF First
<1>6. ASSUME NEW c \in Calls, c = r.step, c \in pending PROVE CallInv(c)'
  <2>1. /\ channel'[c] = r.result /\ c \notin pending' /\ r.result # Nothing
        /\ Unmet(c) /\ CallInv(c)
    BY <1>6, <1>3, <1>4 DEF ResultInv, CallInv, BankTypeOK, Results, Nothing
  <2>2. First(c, r.result)
    <3>1. results[rpos + 1] = [step |-> c, result |-> r.result]
      BY <1>3, <1>6 DEF r
    <3>2. \A j \in 1 .. (rpos + 1) - 1 : results[j].step # c
      BY <2>1, <1>1 DEF Unmet
    <3>3. QED
      BY <3>1, <3>2, <1>1 DEF First
  <2>3. QED
    BY <2>1, <2>2, <1>4, <1>5, <1>6 DEF CallInv
<1>7. ASSUME NEW c \in Calls, ~(c = r.step /\ c \in pending) PROVE CallInv(c)'
  <2>1. channel'[c] = channel[c] /\ (c \in pending' <=> c \in pending) /\ CallInv(c)
    BY <1>7, <1>4 DEF ResultInv, BankTypeOK
  <2>2. c \in pending /\ Unmet(c) => Unmet(c)'
    <3> SUFFICES ASSUME c \in pending, Unmet(c), NEW i \in 1 .. rpos + 1
                 PROVE  results[i].step # c
      BY <1>1, <1>4 DEF Unmet
    <3>1. CASE i = rpos + 1
      BY <3>1, <1>7 DEF r
    <3>2. CASE i # rpos + 1
      <4>1. i \in 1 .. rpos
        BY <3>2, <1>1
      <4>2. QED
        BY <4>1 DEF Unmet
    <3>3. QED
      BY <3>1, <3>2
  <2>3. QED
    BY <2>1, <2>2, <1>4, <1>5 DEF CallInv
<1>8. \A i \in 1 .. Len(results') : results'[i].step \in invokes'
  BY <1>4 DEF ResultInv
<1>9. QED
  BY <1>6, <1>7, <1>8 DEF ResultInv

(* What comes again was met before, so no call that waits can be its owner. *)
LEMMA ResultsRejoined ==
  ASSUME BankTypeOK, ResultInv, RejoinResults
  PROVE  ResultInv'
<1>1. PICK committed \in 0 .. rpos - 1 : rpos' = committed
  BY DEF RejoinResults
<1>2. /\ UNCHANGED <<registry, unread, pc, tool, outcome, channel, pending, invokes,
                    results>>
      /\ rpos \in Nat
  BY DEF RejoinResults, bankCalls, bankStreams, BankTypeOK
<1>3. 1 .. rpos' \subseteq 1 .. rpos
  BY <1>1, <1>2
<1>4. ASSUME NEW c \in Calls PROVE CallInv(c)'
  <2>1. CallInv(c)
    BY DEF ResultInv
  <2>2. Unmet(c) => Unmet(c)'
    BY <1>2, <1>3 DEF Unmet
  <2>3. /\ First(c, channel[c])' = First(c, channel[c])
        /\ First(c, outcome[c])' = First(c, outcome[c])
    BY <1>2 DEF First
  <2>4. QED
    BY <1>2, <2>1, <2>2, <2>3 DEF CallInv
<1>5. QED
  BY <1>2, <1>4 DEF ResultInv

LEMMA ResultStep == BankTypeOK /\ ResultInv /\ [BankNext]_bankVars => ResultInv'
<1> SUFFICES ASSUME BankTypeOK, ResultInv, [BankNext]_bankVars PROVE ResultInv'
  OBVIOUS
<1>1. CASE RegisterHttp
  <2>1. /\ unread # <<>>
        /\ UNCHANGED <<pc, tool, outcome, channel, pending, invokes, results, rpos>>
    BY <1>1 DEF RegisterHttp, bankCalls, bankStreams
  <2>2. ASSUME NEW c \in Calls PROVE CallInv(c)'
    <3>1. CallInv(c) /\ Nothing \notin Results
      BY DEF ResultInv, Nothing, Results
    <3>2. First(c, channel[c])' = First(c, channel[c]) /\ Unmet(c)' = Unmet(c)
      BY <2>1 DEF First, Unmet
    <3>3. QED
      BY <2>1, <3>1, <3>2 DEF CallInv
  <2>3. QED
    BY <2>1, <2>2 DEF ResultInv
<1>2. CASE UNCHANGED bankVars
  <2>1. UNCHANGED <<registry, unread, pc, tool, outcome, channel, pending, invokes,
                    results, rpos>>
    BY <1>2 DEF bankVars, bankCalls, bankStreams
  <2>2. \A c \in Calls : CallInv(c)'
    BY <2>1, OthersKept DEF ResultInv
  <2>3. QED
    BY <2>1, <2>2 DEF ResultInv
<1>3. QED
  BY <1>1, <1>2, ResultCall, ResultRuns, ResultConsumed, ResultsRejoined DEF BankNext

(* The inductive invariant of the bank. *)
BankInv == BankTypeOK /\ RegistryInv /\ ResultInv

LEMMA BankInvariant == BankSpec => []BankInv
<1>1. BankInit => BankInv
  BY TypeInit, RegistryInit, ResultInit DEF BankInv
<1>2. BankInv /\ [BankNext]_bankVars => BankInv'
  BY TypeStep, RegistryStep, ResultStep DEF BankInv
<1>3. QED
  BY <1>1, <1>2, PTL DEF BankSpec

(* The pending map holds the calls that wait for a result: none of them    *)
(* waits without a sender or a result, and only a handler that was dropped *)
(* leaves its sender behind.                                               *)
THEOREM PendingIsWaitedFor == BankSpec => []PendingIsAwaited
<1>1. BankInv => PendingIsAwaited
  BY DEF BankInv, BankTypeOK, ResultInv, CallInv, PendingIsAwaited
<1>2. QED
  BY <1>1, BankInvariant, PTL

(* However often and however late the sandbox reports, a call answers with *)
(* the first result of its step.                                           *)
THEOREM FirstResultIsTheAnswer == BankSpec => []FirstResultWins
<1>1. BankInv => FirstResultWins
  BY DEF BankInv, ResultInv, CallInv, First, FirstResultWins
<1>2. QED
  BY <1>1, BankInvariant, PTL

-----------------------------------------------------------------------------
(* The stream gateway.                                                     *)

ShownInOrder == \A i, j \in 1 .. Len(shown) : i < j => shown[i] < shown[j]

NothingMissing ==
  \A k \in 1 .. Len(shown) : \A i \in 1 .. shown[k] - 1 :
    (OfTurn(i) /\ stream[i].type \in Subscribed /\ i > from) => WasShown(i)

OnlyLastEnds == \A k \in 1 .. Len(shown) - 1 : ~Ends(shown[k])

(* While the history is sent: what is left of it is after what was shown,  *)
(* nothing of the turn up to its last record is in neither, and a history  *)
(* that has no end of the turn has all that the subscription is past.      *)
ReplayInv ==
  /\ from = 0
  /\ \A i \in replay : /\ i <= lastSeq /\ OfTurn(i)
                       /\ \A k \in 1 .. Len(shown) : shown[k] < i
  /\ \A k \in 1 .. Len(shown) : shown[k] <= lastSeq
  /\ \A i \in 1 .. lastSeq : OfTurn(i) => i \in replay \/ WasShown(i)
  /\ \A i \in 1 .. lastSeq - 1 : ~Ends(i)
  /\ (lastSeq = 0 \/ ~Ends(lastSeq)) => \A i \in 1 .. tail : OfTurn(i) => i <= lastSeq

(* While the tail is followed: all of the turn is shown up to where the    *)
(* history and the subscription are, and no end of it was among that.      *)
LiveInv ==
  /\ \A k \in 1 .. Len(shown) : /\ shown[k] <= lastSeq \/ shown[k] <= tail
                                /\ ~Ends(shown[k])
  /\ \A i \in 1 .. Len(stream) :
       (/\ i > from /\ (i <= lastSeq \/ i <= tail)
        /\ OfTurn(i) /\ stream[i].type \in Subscribed) => WasShown(i)

GatewayInv ==
  /\ GatewayTypeOK /\ ShownInOrder /\ NothingMissing /\ OnlyLastEnds
  /\ \A k \in 1 .. Len(shown) : OfTurn(shown[k])
  /\ place \in {"absent", "scan"} => shown = <<>> /\ lastSeq = 0
  /\ place \in {"absent", "scan", "replay", "live"} => done = 0
  /\ place = "scan" => tail = from
  /\ place = "replay" => ReplayInv
  /\ place = "live" => LiveInv
  /\ place = "done" => shown # <<>> /\ Ends(shown[Len(shown)])

(* The records of the stream stay, whatever is added to it. *)
StreamGrows ==
  /\ Len(stream) \in Nat /\ Len(stream') \in Nat /\ Len(stream) <= Len(stream')
  /\ \A i \in 1 .. Len(stream) : stream'[i] = stream[i]

LEMMA GatewayInitially == GatewayInit => GatewayInv
<1>1. SUFFICES ASSUME GatewayInit PROVE GatewayInv
  OBVIOUS
<1>2. /\ stream = <<>> /\ place = "absent" /\ from = 0 /\ replay = {} /\ lastSeq = 0
      /\ tail = 0 /\ shown = <<>> /\ done = 0 /\ Len(stream) = 0 /\ Len(shown) = 0
  BY <1>1 DEF GatewayInit
<1>3. GatewayTypeOK
  BY <1>2 DEF GatewayTypeOK
<1>4. QED
  BY <1>2, <1>3 DEF GatewayInv, ShownInOrder, NothingMissing, OnlyLastEnds

(* What is written into the stream, or nothing, while the gateway rests. *)
LEMMA GatewayRests ==
  ASSUME GatewayInv, StreamGrows, UNCHANGED connection
  PROVE  GatewayInv'
<1>1. UNCHANGED <<place, from, replay, lastSeq, tail, shown, done>>
  BY DEF connection
<1>2. /\ shown \in Seq(1 .. Len(stream)) /\ replay \subseteq 1 .. Len(stream)
      /\ lastSeq \in 0 .. Len(stream) /\ tail \in 0 .. Len(stream) /\ from \in 0 .. Len(stream)
      /\ \A k \in 1 .. Len(shown) : shown[k] \in 1 .. Len(stream)
  BY DEF GatewayInv, GatewayTypeOK, StreamGrows
<1>3. GatewayTypeOK'
  <2>1. shown' \in Seq(1 .. Len(stream'))
    BY <1>1, <1>2 DEF StreamGrows
  <2>2. QED
    BY <1>1, <1>2, <2>1 DEF GatewayInv, GatewayTypeOK, StreamGrows
<1>4. \A i \in 1 .. Len(stream) : stream'[i] = stream[i]
  BY DEF StreamGrows
<1>6. ShownInOrder' /\ OnlyLastEnds' /\ NothingMissing'
  <2>1. ShownInOrder'
    BY <1>1 DEF GatewayInv, ShownInOrder
  <2>2. OnlyLastEnds'
    <3>1. Len(shown) \in Nat /\ \A k \in 1 .. Len(shown) - 1 : k \in 1 .. Len(shown)
      BY <1>2
    <3>2. \A k \in 1 .. Len(shown) - 1 : shown[k] \in 1 .. Len(stream)
      BY <1>2, <3>1
    <3>3. QED
      BY <1>1, <1>4, <3>2 DEF GatewayInv, OnlyLastEnds, OfTurn, Ends
  <2>3. NothingMissing'
    <3>1. \A k \in 1 .. Len(shown) : \A i \in 1 .. shown[k] - 1 : i \in 1 .. Len(stream)
      BY <1>2 DEF StreamGrows
    <3>2. QED
      BY <1>1, <1>4, <3>1 DEF GatewayInv, NothingMissing, OfTurn, Ends, WasShown
  <2>4. QED
    BY <2>1, <2>2, <2>3
<1>7. \A k \in 1 .. Len(shown') : OfTurn(shown[k])'
  BY <1>1, <1>2, <1>4 DEF GatewayInv, OfTurn, Ends, WasShown
<1>8. place' = "replay" => ReplayInv'
  <2>1. SUFFICES ASSUME place = "replay", ReplayInv PROVE ReplayInv'
    BY <1>1 DEF GatewayInv
  <2>2. /\ \A i \in 1 .. lastSeq : i \in 1 .. Len(stream)
        /\ \A i \in 1 .. tail : i \in 1 .. Len(stream)
        /\ \A i \in 1 .. lastSeq - 1 : i \in 1 .. Len(stream)
    BY <1>2 DEF StreamGrows
  <2>3. lastSeq # 0 => lastSeq \in 1 .. Len(stream)
    BY <1>2
  <2>4. from' = 0 /\ \A k \in 1 .. Len(shown') : shown'[k] <= lastSeq'
    BY <1>1, <2>1 DEF ReplayInv
  <2>5. \A i \in replay' : /\ i <= lastSeq' /\ OfTurn(i)'
                           /\ \A k \in 1 .. Len(shown') : shown'[k] < i
    BY <1>1, <1>2, <1>4, <2>1 DEF ReplayInv, OfTurn, Ends, WasShown
  <2>6. \A i \in 1 .. lastSeq' : OfTurn(i)' => i \in replay' \/ WasShown(i)'
    BY <1>1, <1>4, <2>1, <2>2 DEF ReplayInv, OfTurn, Ends, WasShown
  <2>7. \A i \in 1 .. lastSeq' - 1 : ~Ends(i)'
    BY <1>1, <1>4, <2>1, <2>2 DEF ReplayInv, OfTurn, Ends, WasShown
  <2>8. (lastSeq' = 0 \/ ~Ends(lastSeq)') =>
          \A i \in 1 .. tail' : OfTurn(i)' => i <= lastSeq'
    BY <1>1, <1>4, <2>1, <2>2, <2>3 DEF ReplayInv, OfTurn, Ends, WasShown
  <2>9. QED
    BY <2>4, <2>5, <2>6, <2>7, <2>8 DEF ReplayInv
<1>9. place' = "live" => LiveInv'
  <2>1. SUFFICES ASSUME place = "live", LiveInv PROVE LiveInv'
    BY <1>1 DEF GatewayInv
  <2>2. \A k \in 1 .. Len(shown') : /\ shown'[k] <= lastSeq' \/ shown'[k] <= tail'
                                    /\ ~Ends(shown[k])'
    BY <1>1, <1>2, <1>4, <2>1 DEF LiveInv, OfTurn, Ends, WasShown
  <2>3. \A i \in 1 .. Len(stream') :
          (/\ i > from' /\ (i <= lastSeq' \/ i <= tail')
           /\ OfTurn(i)' /\ stream'[i].type \in Subscribed) => WasShown(i)'
    <3>1. SUFFICES ASSUME NEW i \in 1 .. Len(stream'), i > from, i <= lastSeq \/ i <= tail,
                          OfTurn(i)', stream'[i].type \in Subscribed
                   PROVE  WasShown(i)
      BY <1>1 DEF WasShown
    <3>2. i \in 1 .. Len(stream)
      BY <1>2, <3>1 DEF StreamGrows
    <3>3. QED
      BY <1>4, <2>1, <3>1, <3>2 DEF LiveInv, OfTurn, Ends, WasShown
  <2>4. QED
    BY <2>2, <2>3 DEF LiveInv
<1>10. place' = "done" => shown' # <<>> /\ Ends(shown[Len(shown)])'
  <2>1. shown # <<>> => shown[Len(shown)] \in 1 .. Len(stream)
    BY <1>2
  <2>2. QED
    BY <1>1, <1>4, <2>1 DEF GatewayInv, OfTurn, Ends, WasShown
<1>11. /\ place' \in {"absent", "scan"} => shown' = <<>> /\ lastSeq' = 0
       /\ place' \in {"absent", "scan", "replay", "live"} => done' = 0
       /\ place' = "scan" => tail' = from'
  BY <1>1 DEF GatewayInv
<1>12. QED
  BY <1>3, <1>6, <1>7, <1>8, <1>9, <1>10, <1>11 DEF GatewayInv

(* A position after all that was shown is shown next. *)
LEMMA ShowNext ==
  ASSUME GatewayInv, Len(stream) \in Nat, UNCHANGED <<stream, from>>,
         NEW i \in 1 .. Len(stream), OfTurn(i),
         shown' = Append(shown, i),
         \A k \in 1 .. Len(shown) : shown[k] < i /\ ~Ends(shown[k]),
         \A j \in 1 .. i - 1 :
           (OfTurn(j) /\ stream[j].type \in Subscribed /\ j > from) => WasShown(j)
  PROVE  /\ shown' \in Seq(1 .. Len(stream)) /\ shown' # <<>>
         /\ Len(shown') = Len(shown) + 1 /\ Len(shown) \in Nat
         /\ shown'[Len(shown) + 1] = i
         /\ \A k \in 1 .. Len(shown) : shown'[k] = shown[k]
         /\ ShownInOrder' /\ NothingMissing' /\ OnlyLastEnds'
         /\ \A k \in 1 .. Len(shown') : OfTurn(shown[k])'
         /\ \A j \in 1 .. Len(stream) : WasShown(j) \/ j = i => WasShown(j)'
<1>1. /\ shown \in Seq(1 .. Len(stream)) /\ Len(shown) \in Nat
      /\ \A k \in 1 .. Len(shown) : shown[k] \in 1 .. Len(stream)
  BY DEF GatewayInv, GatewayTypeOK
<1>2. /\ shown' \in Seq(1 .. Len(stream)) /\ Len(shown') = Len(shown) + 1
      /\ shown'[Len(shown) + 1] = i
      /\ \A k \in 1 .. Len(shown) : shown'[k] = shown[k]
  BY <1>1, AppendProperties
<1>3. shown' # <<>>
  BY <1>1, <1>2
<1>4. \A k \in 1 .. Len(shown') : k \in 1 .. Len(shown) \/ k = Len(shown) + 1
  BY <1>1, <1>2
<1>5. ShownInOrder'
  BY <1>1, <1>2, <1>4 DEF ShownInOrder, GatewayInv
<1>6. \A j \in 1 .. Len(stream) : WasShown(j) \/ j = i => WasShown(j)'
  <2>1. \A k \in 1 .. Len(shown) : k \in 1 .. Len(shown')
    BY <1>1, <1>2
  <2>2. Len(shown) + 1 \in 1 .. Len(shown')
    BY <1>1, <1>2
  <2>3. QED
    BY <1>2, <2>1, <2>2 DEF WasShown
<1>7. NothingMissing'
  <2>1. SUFFICES ASSUME NEW k \in 1 .. Len(shown'), NEW j \in 1 .. shown'[k] - 1,
                        OfTurn(j), stream[j].type \in Subscribed, j > from
                 PROVE  WasShown(j)'
    BY DEF NothingMissing, OfTurn
  <2>2. CASE k \in 1 .. Len(shown)
    <3>1. WasShown(j) /\ j \in 1 .. Len(stream)
      BY <1>1, <1>2, <2>1, <2>2 DEF GatewayInv, NothingMissing
    <3>2. QED
      BY <1>6, <3>1
  <2>3. CASE k = Len(shown) + 1
    <3>1. WasShown(j) /\ j \in 1 .. Len(stream)
      BY <1>2, <2>1, <2>3
    <3>2. QED
      BY <1>6, <3>1
  <2>4. QED
    BY <1>4, <2>2, <2>3
<1>8. OnlyLastEnds'
  <2>1. \A k \in 1 .. Len(shown') - 1 : k \in 1 .. Len(shown)
    BY <1>1, <1>2
  <2>2. QED
    BY <1>2, <2>1 DEF OnlyLastEnds, Ends, OfTurn
<1>9. \A k \in 1 .. Len(shown') : OfTurn(shown[k])'
  BY <1>2, <1>4 DEF GatewayInv, OfTurn
<1>10. QED
  BY <1>1, <1>2, <1>3, <1>5, <1>6, <1>7, <1>8, <1>9

(* plan_history_replay: the last record of the plan is its only end of the *)
(* turn, and a plan without one has all of the turn that is there.         *)
LEMMA PlanIsComplete ==
  ASSUME Len(stream) \in Nat
  PROVE  LET last == LastOf(Replayed) IN
         /\ last \in 0 .. Len(stream)
         /\ \A i \in Replayed : i <= last
         /\ \A i \in 1 .. last : OfTurn(i) => i \in Replayed
         /\ \A i \in 1 .. last - 1 : ~Ends(i)
         /\ (last = 0 \/ ~Ends(last)) =>
              \A i \in 1 .. Len(stream) : OfTurn(i) => i <= last
<1> DEFINE R == Replayed
           last == LastOf(R)
           N == Len(stream)
<1>1. R \in SUBSET (1 .. N)
  BY DEF Replayed
<1>2. last \in 0 .. N /\ (\A i \in R : i <= last) /\ (last # 0 => last \in R)
  <2>1. CASE R = {}
    BY <2>1 DEF LastOf
  <2>2. CASE R # {}
    <3>1. \E i \in R : \A j \in R : j <= i
      BY <1>1, <2>2, GreatestElement
    <3>2. last \in R /\ \A j \in R : j <= last
      BY <2>2, <3>1 DEF LastOf
    <3> HIDE DEF last, R
    <3>3. QED
      BY <1>1, <3>2
  <2>3. QED
    BY <2>1, <2>2
<1>3. \A i \in 1 .. last - 1 : ~Ends(i)
  <2>1. CASE last = 0
    BY <2>1
  <2>2. CASE last # 0
    BY <1>2, <2>2 DEF Replayed
  <2>3. QED
    BY <2>1, <2>2
<1>4. \A i \in 1 .. last : OfTurn(i) => i \in R
  <2>1. SUFFICES ASSUME NEW i \in 1 .. last, OfTurn(i) PROVE i \in R
    OBVIOUS
  <2>2. i \in 1 .. N /\ \A j \in 1 .. i - 1 : j \in 1 .. last - 1
    BY <1>2, <2>1
  <2>3. QED
    BY <1>3, <2>1, <2>2 DEF Replayed
<1>5. ASSUME last = 0 \/ ~Ends(last), NEW i \in 1 .. N, OfTurn(i)
      PROVE  i <= last
  <2>1. SUFFICES ASSUME i \notin R PROVE FALSE
    BY <1>2
  <2> DEFINE E == {j \in 1 .. i - 1 : Ends(j)}
  <2>2. E # {}
    BY <1>5, <2>1 DEF Replayed
  <2>3. E \in SUBSET (1 .. N)
    BY <1>5
  <2>4. PICK e \in E : \A j \in E : e <= j
    <3> HIDE DEF E
    <3>1. QED
      BY <2>2, <2>3, LeastElement
  <2>5. e \in 1 .. N /\ Ends(e) /\ OfTurn(e)
    BY <2>3, <2>4 DEF Ends
  <2>6. \A j \in 1 .. e - 1 : ~Ends(j)
    BY <1>5, <2>4, <2>5
  <2>7. e \in R
    BY <2>5, <2>6 DEF Replayed
  <2>8. last = e
    <3>1. e <= last /\ last \in R /\ last \in 1 .. N
      BY <1>1, <1>2, <2>5, <2>7
    <3>2. ~ (e < last)
      <4>1. \A j \in 1 .. last - 1 : ~Ends(j)
        BY <1>3
      <4>2. QED
        BY <2>5, <3>1, <4>1
    <3>3. QED
      BY <2>5, <3>1, <3>2
  <2>9. QED
    BY <1>5, <2>5, <2>8
<1>6. QED
  BY <1>2, <1>3, <1>4, <1>5

(* The handler comes and goes, and nothing is shown. *)
LEMMA GatewayLeaves ==
  ASSUME GatewayInv, Len(stream) \in Nat,
         Subscribe \/ SubscribeFails \/ ScanFails \/ StreamBreaks \/ ClientGone
  PROVE  GatewayInv'
<1>1. UNCHANGED <<stream, replay, lastSeq, shown>>
  BY DEF Subscribe, SubscribeFails, ScanFails, StreamBreaks, ClientGone
<1>2. /\ shown \in Seq(1 .. Len(stream)) /\ replay \subseteq 1 .. Len(stream)
      /\ lastSeq \in 0 .. Len(stream) /\ tail \in from .. Len(stream)
      /\ from \in 0 .. Len(stream) /\ done \in {0, 1}
  BY DEF GatewayInv, GatewayTypeOK
<1>3. ShownInOrder' /\ OnlyLastEnds' /\ \A k \in 1 .. Len(shown') : OfTurn(shown[k])'
  BY <1>1 DEF GatewayInv, ShownInOrder, OnlyLastEnds, OfTurn, Ends
<1>4. CASE Subscribe
  <2>1. /\ place = "absent" /\ place' = "scan" /\ from' = Len(stream) /\ tail' = Len(stream)
        /\ UNCHANGED done
    BY <1>4 DEF Subscribe, Leave
  <2>2. shown = <<>> /\ lastSeq = 0 /\ done = 0 /\ Len(shown) = 0
    BY <2>1 DEF GatewayInv
  <2>3. GatewayTypeOK'
    BY <1>1, <1>2, <2>1, <2>2 DEF GatewayTypeOK
  <2>4. NothingMissing'
    BY <1>1, <2>2 DEF NothingMissing
  <2>5. QED
    BY <1>1, <1>3, <2>1, <2>2, <2>3, <2>4 DEF GatewayInv
<1>5. CASE SubscribeFails
  <2>1. /\ place = "absent" /\ place' = "refused" /\ done' = done + 1
        /\ UNCHANGED <<from, tail>>
    BY <1>5 DEF SubscribeFails, Leave
  <2>2. done = 0
    BY <2>1 DEF GatewayInv
  <2>3. GatewayTypeOK'
    BY <1>1, <1>2, <2>1, <2>2 DEF GatewayTypeOK
  <2>4. NothingMissing'
    BY <1>1, <2>1 DEF GatewayInv, NothingMissing, WasShown, OfTurn
  <2>5. QED
    BY <1>1, <1>3, <2>1, <2>3, <2>4 DEF GatewayInv
<1>6. CASE ScanFails
  <2>1. /\ place = "scan" /\ place' = "live" /\ UNCHANGED <<from, tail, done>>
    BY <1>6 DEF ScanFails, Leave
  <2>2. shown = <<>> /\ lastSeq = 0 /\ done = 0 /\ tail = from /\ Len(shown) = 0
    BY <2>1 DEF GatewayInv
  <2>3. GatewayTypeOK'
    BY <1>1, <1>2, <2>1, <2>2 DEF GatewayTypeOK
  <2>4. NothingMissing'
    BY <1>1, <2>1 DEF GatewayInv, NothingMissing, WasShown, OfTurn
  <2>5. LiveInv'
    BY <1>1, <1>2, <2>1, <2>2 DEF LiveInv
  <2>6. QED
    BY <1>1, <1>3, <2>1, <2>2, <2>3, <2>4, <2>5 DEF GatewayInv
<1>7. CASE StreamBreaks \/ ClientGone
  <2>1. /\ place \in {"replay", "live"} /\ place' \in {"broken", "gone"}
        /\ UNCHANGED <<from, tail>> /\ done' \in {done, done + 1}
    BY <1>7 DEF StreamBreaks, ClientGone, Leave
  <2>2. done = 0
    BY <2>1 DEF GatewayInv
  <2>3. GatewayTypeOK'
    BY <1>1, <1>2, <2>1, <2>2 DEF GatewayTypeOK
  <2>4. NothingMissing'
    BY <1>1, <2>1 DEF GatewayInv, NothingMissing, WasShown, OfTurn
  <2>5. QED
    BY <1>3, <2>1, <2>3, <2>4 DEF GatewayInv
<1>8. QED
  BY <1>4, <1>5, <1>6, <1>7

(* scan_all and the plan of the replay. *)
LEMMA GatewayScans ==
  ASSUME GatewayInv, Len(stream) \in Nat, Scan
  PROVE  GatewayInv'
<1> DEFINE last == LastOf(Replayed)
<1>1. /\ place = "scan" /\ place' = "replay" /\ from' = 0 /\ replay' = Replayed
      /\ lastSeq' = last /\ UNCHANGED <<stream, tail, shown, done>>
  BY DEF Scan, Leave
<1>2. shown = <<>> /\ done = 0 /\ Len(shown) = 0 /\ tail \in 0 .. Len(stream)
  BY <1>1 DEF GatewayInv, GatewayTypeOK
<1>3. /\ last \in 0 .. Len(stream)
      /\ \A i \in Replayed : i <= last
      /\ \A i \in 1 .. last : OfTurn(i) => i \in Replayed
      /\ \A i \in 1 .. last - 1 : ~Ends(i)
      /\ (last = 0 \/ ~Ends(last)) => \A i \in 1 .. Len(stream) : OfTurn(i) => i <= last
  BY PlanIsComplete
<1> HIDE DEF last
<1>4. GatewayTypeOK'
  BY <1>1, <1>2, <1>3 DEF GatewayInv, GatewayTypeOK, Replayed
<1>5. ShownInOrder' /\ NothingMissing' /\ OnlyLastEnds'
  BY <1>1, <1>2 DEF ShownInOrder, NothingMissing, OnlyLastEnds
<1>6. ReplayInv'
  <2>1. \A i \in Replayed : i <= last /\ OfTurn(i)
    BY <1>3 DEF Replayed
  <2>2. \A i \in 1 .. tail : i \in 1 .. Len(stream)
    BY <1>2
  <2>3. QED
    BY <1>1, <1>2, <1>3, <2>1, <2>2 DEF ReplayInv, OfTurn, Ends
<1>7. QED
  BY <1>1, <1>2, <1>4, <1>5, <1>6 DEF GatewayInv

(* One record of the plan is sent. *)
LEMMA GatewayReplays ==
  ASSUME GatewayInv, Len(stream) \in Nat, Replay
  PROVE  GatewayInv'
<1>1. PICK i \in replay : /\ \A j \in replay : i <= j
                          /\ shown' = Append(shown, i) /\ replay' = replay \ {i}
  BY DEF Replay
<1>2. place = "replay" /\ UNCHANGED <<stream, place, from, lastSeq, tail, done>> /\ ReplayInv
  BY DEF Replay, GatewayInv
<1>3. /\ replay \subseteq 1 .. Len(stream) /\ lastSeq \in 0 .. Len(stream)
      /\ tail \in 0 .. Len(stream) /\ i \in 1 .. Len(stream) /\ i <= lastSeq /\ OfTurn(i)
      /\ \A k \in 1 .. Len(shown) : shown[k] \in 1 .. Len(stream) /\ shown[k] < i
  BY <1>1, <1>2 DEF GatewayInv, GatewayTypeOK, ReplayInv
<1>4. \A k \in 1 .. Len(shown) : ~Ends(shown[k])
  <2>1. \A k \in 1 .. Len(shown) : shown[k] \in 1 .. lastSeq - 1
    BY <1>3
  <2>2. QED
    BY <1>2, <2>1 DEF ReplayInv
<1>5. \A j \in 1 .. i - 1 : OfTurn(j) => WasShown(j)
  BY <1>1, <1>2, <1>3 DEF ReplayInv
<1>6. /\ shown' \in Seq(1 .. Len(stream)) /\ shown' # <<>>
      /\ Len(shown') = Len(shown) + 1 /\ Len(shown) \in Nat
      /\ shown'[Len(shown) + 1] = i
      /\ \A k \in 1 .. Len(shown) : shown'[k] = shown[k]
      /\ ShownInOrder' /\ NothingMissing' /\ OnlyLastEnds'
      /\ \A k \in 1 .. Len(shown') : OfTurn(shown[k])'
      /\ \A j \in 1 .. Len(stream) : WasShown(j) \/ j = i => WasShown(j)'
  BY <1>1, <1>2, <1>3, <1>4, <1>5, ShowNext
<1>7. \A k \in 1 .. Len(shown') : k \in 1 .. Len(shown) \/ k = Len(shown) + 1
  BY <1>6
<1>8. GatewayTypeOK'
  BY <1>1, <1>2, <1>6 DEF GatewayInv, GatewayTypeOK
<1>9. ReplayInv'
  <2>1. \A k \in 1 .. Len(shown') : shown'[k] <= i
    <3>1. TAKE k \in 1 .. Len(shown')
    <3>2. CASE k \in 1 .. Len(shown)
      BY <1>3, <1>6, <3>2
    <3>3. CASE k = Len(shown) + 1
      BY <1>3, <1>6, <3>3
    <3>4. QED
      BY <1>7, <3>2, <3>3
  <2>2. \A j \in replay' : /\ j <= lastSeq /\ OfTurn(j)
                           /\ \A k \in 1 .. Len(shown') : shown'[k] < j
    <3>1. SUFFICES ASSUME NEW j \in replay', NEW k \in 1 .. Len(shown')
                   PROVE  j <= lastSeq /\ OfTurn(j) /\ shown'[k] < j
      <4>1. \A j \in replay' : j <= lastSeq /\ OfTurn(j)
        BY <1>1, <1>2 DEF ReplayInv
      <4>2. QED
        BY <4>1
    <3>2. j \in replay /\ j # i /\ j \in 1 .. Len(stream) /\ i <= j
      BY <1>1, <1>3
    <3>3. i < j /\ shown'[k] <= i
      BY <1>3, <2>1, <3>2
    <3>4. shown'[k] \in 1 .. Len(stream)
      BY <1>3, <1>6, <1>7
    <3>5. QED
      BY <1>2, <1>3, <3>2, <3>3, <3>4 DEF ReplayInv
  <2>3. \A j \in 1 .. lastSeq : OfTurn(j) => j \in replay' \/ WasShown(j)'
    <3>1. \A j \in 1 .. lastSeq : j \in 1 .. Len(stream)
      BY <1>3
    <3>2. QED
      BY <1>1, <1>2, <1>6, <3>1 DEF ReplayInv
  <2>4. \A k \in 1 .. Len(shown') : shown'[k] <= lastSeq
    BY <1>2, <1>3, <1>6, <1>7 DEF ReplayInv
  <2>5. \A j \in 1 .. lastSeq - 1 : ~Ends(j)
    BY <1>2 DEF ReplayInv
  <2>6. (lastSeq = 0 \/ ~Ends(lastSeq)) => \A j \in 1 .. tail : OfTurn(j) => j <= lastSeq
    BY <1>2 DEF ReplayInv
  <2>7. from = 0
    BY <1>2 DEF ReplayInv
  <2>8. QED
    BY <1>2, <2>2, <2>3, <2>4, <2>5, <2>6, <2>7 DEF ReplayInv, OfTurn, Ends
<1>10. done' = 0
  BY <1>2 DEF GatewayInv
<1>11. QED
  BY <1>2, <1>6, <1>8, <1>9, <1>10 DEF GatewayInv

(* The plan is sent: the turn has ended in it, or the tail follows. *)
LEMMA GatewayReplayed ==
  ASSUME GatewayInv, Len(stream) \in Nat, ReplayEnds
  PROVE  GatewayInv'
<1>1. /\ place = "replay" /\ replay = {} /\ ReplayInv /\ done = 0
      /\ UNCHANGED <<stream, from, replay, lastSeq, tail, shown>>
  BY DEF ReplayEnds, GatewayInv
<1>2. /\ lastSeq \in 0 .. Len(stream) /\ tail \in 0 .. Len(stream) /\ from = 0
      /\ shown \in Seq(1 .. Len(stream)) /\ Len(shown) \in Nat
      /\ \A k \in 1 .. Len(shown) : shown[k] \in 1 .. Len(stream)
  BY <1>1 DEF GatewayInv, GatewayTypeOK, ReplayInv
<1>3. ShownInOrder' /\ NothingMissing' /\ OnlyLastEnds' /\ \A k \in 1 .. Len(shown') : OfTurn(shown[k])'
  BY <1>1 DEF GatewayInv, ShownInOrder, NothingMissing, OnlyLastEnds, WasShown, OfTurn, Ends
<1>4. CASE lastSeq # 0 /\ Ends(lastSeq)
  <2>1. place' = "done" /\ done' = 1
    BY <1>1, <1>4 DEF ReplayEnds, Leave
  <2>2. GatewayTypeOK'
    BY <1>1, <2>1 DEF GatewayInv, GatewayTypeOK
  <2>3. OfTurn(lastSeq) /\ lastSeq \in 1 .. lastSeq
    BY <1>2, <1>4 DEF Ends
  <2>4. PICK k \in 1 .. Len(shown) : shown[k] = lastSeq
    BY <1>1, <2>3 DEF ReplayInv, WasShown
  <2>5. k = Len(shown)
    <3>1. SUFFICES ASSUME k # Len(shown) PROVE FALSE
      OBVIOUS
    <3>2. Len(shown) \in 1 .. Len(shown) /\ k < Len(shown)
      BY <1>2, <3>1
    <3>3. shown[k] < shown[Len(shown)] /\ shown[Len(shown)] <= lastSeq
      BY <1>1, <3>2 DEF GatewayInv, ShownInOrder, ReplayInv
    <3>4. QED
      BY <1>2, <2>4, <3>2, <3>3
  <2>6. shown' # <<>> /\ Ends(shown[Len(shown)])'
    <3>1. shown # <<>>
      BY <1>2, <2>4
    <3>2. shown[Len(shown)] = lastSeq
      BY <2>4, <2>5
    <3>3. QED
      BY <1>1, <1>4, <3>1, <3>2 DEF Ends, OfTurn
  <2>7. QED
    BY <1>3, <2>1, <2>2, <2>6 DEF GatewayInv
<1>5. CASE lastSeq = 0 \/ ~Ends(lastSeq)
  <2>1. place' = "live" /\ done' = 0
    BY <1>1, <1>5 DEF ReplayEnds, Leave
  <2>2. GatewayTypeOK'
    BY <1>1, <2>1 DEF GatewayInv, GatewayTypeOK
  <2>3. \A k \in 1 .. Len(shown) : shown[k] <= lastSeq /\ ~Ends(shown[k])
    <3>1. TAKE k \in 1 .. Len(shown)
    <3>2. shown[k] <= lastSeq /\ shown[k] \in 1 .. Len(stream)
      BY <1>1, <1>2 DEF ReplayInv
    <3>3. CASE shown[k] = lastSeq
      BY <1>2, <1>5, <3>2, <3>3
    <3>4. CASE shown[k] # lastSeq
      <4>1. shown[k] \in 1 .. lastSeq - 1
        BY <1>2, <3>2, <3>4
      <4>2. QED
        BY <1>1, <3>2, <4>1 DEF ReplayInv
    <3>5. QED
      BY <3>3, <3>4
  <2>4. \A i \in 1 .. Len(stream) : (i <= lastSeq \/ i <= tail) /\ OfTurn(i) => WasShown(i)
    <3>1. SUFFICES ASSUME NEW i \in 1 .. Len(stream), i <= lastSeq \/ i <= tail, OfTurn(i)
                   PROVE  WasShown(i)
      OBVIOUS
    <3>2. i <= lastSeq
      BY <1>1, <1>2, <1>5, <3>1 DEF ReplayInv
    <3>3. i \in 1 .. lastSeq
      BY <1>2, <3>1, <3>2
    <3>4. QED
      BY <1>1, <3>1, <3>3 DEF ReplayInv
  <2>5. LiveInv'
    BY <1>1, <2>3, <2>4 DEF LiveInv, OfTurn, Ends, WasShown
  <2>6. QED
    BY <1>3, <2>1, <2>2, <2>5 DEF GatewayInv
<1>6. QED
  BY <1>4, <1>5

(* One record of the subscription. *)
LEMMA GatewayTails ==
  ASSUME GatewayInv, Len(stream) \in Nat, Live
  PROVE  GatewayInv'
<1> DEFINE i == tail + 1
<1>1. /\ place = "live" /\ tail < Len(stream) /\ tail' = i /\ LiveInv /\ done = 0
      /\ UNCHANGED <<stream, from, replay, lastSeq>>
  BY DEF Live, GatewayInv
<1>2. /\ tail \in from .. Len(stream) /\ from \in 0 .. Len(stream)
      /\ lastSeq \in 0 .. Len(stream) /\ i \in 1 .. Len(stream) /\ i \in from .. Len(stream)
      /\ Len(shown) \in Nat
      /\ \A k \in 1 .. Len(shown) : shown[k] \in 1 .. Len(stream)
  BY <1>1 DEF GatewayInv, GatewayTypeOK
<1>3. CASE stream[i].type \in Subscribed /\ ShouldEmitLive(i) /\ OfTurn(i)
  <2>1. /\ shown' = Append(shown, i)
        /\ IF Ends(i) THEN done' = done + 1 /\ place' = "done"
           ELSE UNCHANGED <<done, place>>
    BY <1>3 DEF Live, Leave
  <2>2. i > lastSeq
    BY <1>3 DEF ShouldEmitLive
  <2>3. \A k \in 1 .. Len(shown) : shown[k] < i /\ ~Ends(shown[k])
    BY <1>1, <1>2, <2>2 DEF LiveInv
  <2>4. \A j \in 1 .. i - 1 :
          (OfTurn(j) /\ stream[j].type \in Subscribed /\ j > from) => WasShown(j)
    <3>1. \A j \in 1 .. i - 1 : j \in 1 .. Len(stream) /\ j <= tail
      BY <1>2
    <3>2. QED
      BY <1>1, <3>1 DEF LiveInv
  <2> HIDE DEF i
  <2>5. /\ shown' \in Seq(1 .. Len(stream)) /\ shown' # <<>>
        /\ Len(shown') = Len(shown) + 1 /\ shown'[Len(shown) + 1] = i
        /\ \A k \in 1 .. Len(shown) : shown'[k] = shown[k]
        /\ ShownInOrder' /\ NothingMissing' /\ OnlyLastEnds'
        /\ \A k \in 1 .. Len(shown') : OfTurn(shown[k])'
        /\ \A j \in 1 .. Len(stream) : WasShown(j) \/ j = i => WasShown(j)'
    BY <1>1, <1>2, <1>3, <2>1, <2>3, <2>4, ShowNext
  <2>6. GatewayTypeOK'
    BY <1>1, <1>2, <2>1, <2>5 DEF GatewayInv, GatewayTypeOK
  <2>7. CASE Ends(i)
    <3>1. place' = "done" /\ Ends(shown[Len(shown)])'
      BY <1>1, <2>1, <2>5, <2>7 DEF Ends, OfTurn
    <3>2. QED
      BY <2>5, <2>6, <3>1 DEF GatewayInv
  <2>8. CASE ~Ends(i)
    <3>1. place' = "live" /\ done' = 0
      BY <1>1, <2>1, <2>8
    <3>2. \A k \in 1 .. Len(shown') : k \in 1 .. Len(shown) \/ k = Len(shown) + 1
      BY <1>2, <2>5
    <3>3. \A k \in 1 .. Len(shown') : shown'[k] <= i /\ ~Ends(shown'[k])
      <4>1. TAKE k \in 1 .. Len(shown')
      <4>2. CASE k \in 1 .. Len(shown)
        BY <1>2, <2>3, <2>5, <4>2
      <4>3. CASE k = Len(shown) + 1
        BY <1>2, <2>5, <2>8, <4>3
      <4>4. QED
        BY <3>2, <4>2, <4>3
    <3>4. \A j \in 1 .. Len(stream) :
            (/\ j > from /\ (j <= lastSeq \/ j <= i)
             /\ OfTurn(j) /\ stream[j].type \in Subscribed) => WasShown(j)'
      <4>1. \A j \in 1 .. Len(stream) : j <= i => j = i \/ j <= tail
        BY <1>2 DEF i
      <4>2. QED
        BY <1>1, <2>5, <4>1 DEF LiveInv
    <3>5. LiveInv'
      BY <1>1, <3>3, <3>4 DEF LiveInv, Ends, OfTurn
    <3>6. QED
      BY <2>5, <2>6, <3>1, <3>5 DEF GatewayInv
  <2>9. QED
    BY <2>7, <2>8
<1>4. CASE ~ (stream[i].type \in Subscribed /\ ShouldEmitLive(i) /\ OfTurn(i))
  <2>1. UNCHANGED <<shown, done, place>>
    BY <1>4 DEF Live
  <2>2. GatewayTypeOK'
    BY <1>1, <1>2, <2>1 DEF GatewayInv, GatewayTypeOK
  <2>3. ShownInOrder' /\ NothingMissing' /\ OnlyLastEnds' /\ \A k \in 1 .. Len(shown') : OfTurn(shown[k])'
    BY <1>1, <2>1 DEF GatewayInv, ShownInOrder, NothingMissing, OnlyLastEnds, WasShown, OfTurn, Ends
  <2>4. \A k \in 1 .. Len(shown) : /\ shown[k] <= lastSeq \/ shown[k] <= tail'
                                   /\ ~Ends(shown[k])
    BY <1>1, <1>2 DEF LiveInv
  <2>5. \A j \in 1 .. Len(stream) :
          (/\ j > from /\ (j <= lastSeq \/ j <= tail')
           /\ OfTurn(j) /\ stream[j].type \in Subscribed) => WasShown(j)
    <3>1. SUFFICES ASSUME NEW j \in 1 .. Len(stream), j > from, j <= lastSeq \/ j <= tail',
                          OfTurn(j), stream[j].type \in Subscribed
                   PROVE  WasShown(j)
      OBVIOUS
    <3>2. j <= lastSeq \/ j <= tail
      BY <1>1, <1>2, <1>4, <3>1 DEF ShouldEmitLive
    <3>3. QED
      BY <1>1, <3>1, <3>2 DEF LiveInv
  <2>6. LiveInv'
    BY <1>1, <2>1, <2>4, <2>5 DEF LiveInv, OfTurn, Ends, WasShown
  <2>7. QED
    BY <1>1, <2>1, <2>2, <2>3, <2>6 DEF GatewayInv
<1>5. QED
  BY <1>3, <1>4

LEMMA GatewaySteps ==
  ASSUME GatewayInv, Len(stream) \in Nat, GatewayNext
  PROVE  GatewayInv'
BY GatewayLeaves, GatewayScans, GatewayReplays, GatewayReplayed, GatewayTails
   DEF GatewayNext, GatewayStep

(* What the runs check of the gateway. *)
LEMMA GatewayProperties == GatewayInv => GatewayTypeOK /\ ShownIsStream /\ DoneIsEnd
BY DEF GatewayInv, ShownInOrder, NothingMissing, OnlyLastEnds, ShownIsStream, DoneIsEnd

-----------------------------------------------------------------------------
(* From the sandbox to the screen.                                         *)

(* The calls whose results, if the sandbox runs them, are on tool-result. *)
ReportedSteps ==
  {c \in Calls : /\ pc[c] # "absent"
                 /\ registry.index[tool[c]] = Sandbox =>
                      \E i \in 1 .. Len(results) : results[i].step = c}

CompletedInv ==
  \A i \in 1 .. Len(taskEnd) :
    taskEnd[i].type = "tool_completed" => taskEnd[i].step \in ReportedSteps

(* A call stays among them: by then every adapter is registered. *)
LEMMA ReportedStays ==
  ASSUME BankInv, [BankNext]_bankVars
  PROVE  ReportedSteps \subseteq ReportedSteps'
<1>1. SUFFICES ASSUME NEW d \in ReportedSteps PROVE d \in ReportedSteps'
  OBVIOUS
<1>2. /\ d \in Calls /\ pc[d] # "absent" /\ unread = <<>>
      /\ registry.index[tool[d]] = Sandbox =>
           \E i \in 1 .. Len(results) : results[i].step = d
  BY <1>1 DEF ReportedSteps, BankInv, ResultInv, CallInv
<1>3. pc \in [Calls -> {"absent", "route", "produce", "wait", "close", "reply",
                        "answered", "dropped"}]
  BY DEF BankInv, BankTypeOK
<1>4. UNCHANGED <<registry, tool>>
  BY <1>2 DEF BankNext, bankVars, bankCalls, RegisterHttp, CallStep, Open, RouteNowhere,
              RouteHttp, RouteSandbox, Produce, ProduceFails, ResultReceived, Timeout, Close,
              Reply, Disconnect, SandboxRuns, ConsumeResult, RejoinResults
<1>5. pc'[d] # "absent"
  BY <1>2, <1>3 DEF BankNext, bankVars, bankCalls, RegisterHttp, CallStep, Open, RouteNowhere,
              RouteHttp, RouteSandbox, Produce, ProduceFails, ResultReceived, Timeout, Close,
              Reply, Disconnect, SandboxRuns, ConsumeResult, RejoinResults, GoTo, Returned
<1>6. /\ Len(results) \in Nat /\ Len(results') \in Nat /\ Len(results) <= Len(results')
      /\ \A i \in 1 .. Len(results) : results'[i] = results[i]
  <2>1. results \in Seq([step : Calls, result : Results])
    BY DEF BankInv, BankTypeOK
  <2>2. CASE \E c \in Calls : SandboxRuns(c)
    <3>1. PICK c \in Calls, r \in Results :
            results' = Append(results, [step |-> c, result |-> r])
      BY <2>2 DEF SandboxRuns
    <3>2. [step |-> c, result |-> r] \in [step : Calls, result : Results]
      OBVIOUS
    <3>3. QED
      BY <2>1, <3>1, <3>2, AppendProperties
  <2>3. CASE ~ \E c \in Calls : SandboxRuns(c)
    <3>1. UNCHANGED results
      BY <2>3 DEF BankNext, bankVars, bankStreams, RegisterHttp, CallStep, Open, RouteNowhere,
              RouteHttp, RouteSandbox, Produce, ProduceFails, ResultReceived, Timeout, Close,
              Reply, Disconnect, ConsumeResult, RejoinResults
    <3>2. QED
      BY <2>1, <3>1
  <2>4. QED
    BY <2>2, <2>3
<1>7. \A i \in 1 .. Len(results) : i \in 1 .. Len(results')
  BY <1>6
<1>8. QED
  BY <1>2, <1>4, <1>5, <1>6, <1>7 DEF ReportedSteps

(* The records of task-end stay, and those that are added are typed, and   *)
(* tell of a result what the sandbox told of it.                           *)
LEMMA TaskEndGrows ==
  ASSUME BankInv, BankTypeOK', [BankNext]_bankVars
  PROVE  /\ Len(taskEnd) \in Nat /\ Len(taskEnd') \in Nat /\ Len(taskEnd) <= Len(taskEnd')
         /\ \A i \in 1 .. Len(taskEnd) : taskEnd'[i] = taskEnd[i]
         /\ CompletedInv => CompletedInv'
<1>1. taskEnd \in Seq(EndRecords) /\ taskEnd' \in Seq(EndRecords)
  BY DEF BankInv, BankTypeOK, EndRecords
<1>2. ReportedSteps \subseteq ReportedSteps'
  BY ReportedStays
<1>3. CASE UNCHANGED taskEnd
  BY <1>1, <1>2, <1>3 DEF CompletedInv
<1>4. ASSUME NEW type, NEW c \in Calls, taskEnd' = Append(taskEnd, Record(type, c)),
             type = "tool_completed" => c \in ReportedSteps'
      PROVE  /\ Len(taskEnd) \in Nat /\ Len(taskEnd') \in Nat /\ Len(taskEnd) <= Len(taskEnd')
             /\ \A i \in 1 .. Len(taskEnd) : taskEnd'[i] = taskEnd[i]
             /\ CompletedInv => CompletedInv'
  <2>1. /\ Len(taskEnd) \in Nat /\ Len(taskEnd') = Len(taskEnd) + 1
        /\ \A i \in 1 .. Len(taskEnd) : taskEnd'[i] = taskEnd[i]
        /\ taskEnd'[Len(taskEnd) + 1] = Record(type, c)
    BY <1>1, <1>4
  <2>2. Record(type, c).type = type /\ Record(type, c).step = c
    BY DEF Record
  <2>3. \A i \in 1 .. Len(taskEnd') : i \in 1 .. Len(taskEnd) \/ i = Len(taskEnd) + 1
    BY <2>1
  <2>4. CompletedInv => CompletedInv'
    BY <1>2, <1>4, <2>1, <2>2, <2>3 DEF CompletedInv
  <2>5. QED
    BY <2>1, <2>4
<1>5. CASE \E c \in Calls : Open(c)
  <2>1. PICK c \in Calls : Open(c)
    BY <1>5
  <2>2. UNCHANGED taskEnd \/ taskEnd' = Append(taskEnd, Record("tool_invoked", c))
    BY <2>1 DEF Open, Emitted
  <2>3. QED
    BY <1>3, <1>4, <2>2
<1>6. CASE \E c \in Calls : Close(c)
  <2>1. PICK c \in Calls : Close(c)
    BY <1>6
  <2> DEFINE type == IF outcome[c] \in Results THEN "tool_completed" ELSE "tool_failed"
  <2>2. UNCHANGED taskEnd \/ taskEnd' = Append(taskEnd, Record(type, c))
    BY <2>1 DEF Close, Emitted
  <2>3. type = "tool_completed" => c \in ReportedSteps
    <3>1. SUFFICES ASSUME outcome[c] \in Results PROVE c \in ReportedSteps
      OBVIOUS
    <3>2. pc[c] = "close"
      BY <2>1 DEF Close
    <3>3. registry.index[tool[c]] = Sandbox => First(c, outcome[c])
      BY <3>1 DEF BankInv, ResultInv, CallInv
    <3>4. First(c, outcome[c]) => \E i \in 1 .. Len(results) : results[i].step = c
      BY DEF First
    <3>5. QED
      BY <3>2, <3>3, <3>4 DEF ReportedSteps
  <2> HIDE DEF type
  <2>4. QED
    BY <1>2, <1>3, <1>4, <2>2, <2>3
<1>7. CASE ~ (\E c \in Calls : Open(c) \/ Close(c))
  <2>1. UNCHANGED taskEnd
    BY <1>7 DEF BankNext, bankVars, bankStreams, RegisterHttp, CallStep, RouteNowhere,
              RouteHttp, RouteSandbox, Produce, ProduceFails, ResultReceived, Timeout,
              Reply, Disconnect, SandboxRuns, ConsumeResult, RejoinResults
  <2>2. QED
    BY <1>3, <2>1
<1>8. QED
  BY <1>5, <1>6, <1>7

StreamEvents ==
  [type : {"turn_started", "turn_completed", "tool_invoked", "tool_completed", "tool_failed"},
   turn : Turns, step : Calls \cup {NoStep}]

(* What the lifecycle consumer wrote of a completed step was so. *)
StreamInv ==
  /\ stream \in Seq(StreamEvents)
  /\ \A i \in 1 .. Len(stream) :
       stream[i].type = "tool_completed" =>
         stream[i].step \in ReportedSteps /\ stream[i].turn = turnOf[stream[i].step]

PathInv ==
  /\ BankInv /\ CompletedInv /\ GatewayInv /\ StreamInv
  /\ turnOf \in [Calls -> Turns] /\ epos \in 0 .. Len(taskEnd)

LEMMA PathInitially == PathInit => PathInv
<1>1. SUFFICES ASSUME PathInit PROVE PathInv
  OBVIOUS
<1>2. BankInv /\ GatewayInv
  BY <1>1, TypeInit, RegistryInit, ResultInit, GatewayInitially DEF PathInit, BankInv
<1>3. Len(taskEnd) = 0 /\ Len(stream) = 0 /\ stream \in Seq(StreamEvents)
  BY <1>1 DEF PathInit, BankInit, GatewayInit
<1>4. QED
  BY <1>1, <1>2, <1>3 DEF PathInit, PathInv, CompletedInv, StreamInv

(* One more record in the stream, and the bank at rest. *)
LEMMA PathWrites ==
  ASSUME PathInv, UNCHANGED <<bankVars, turnOf>>, UNCHANGED connection,
         epos' \in 0 .. Len(taskEnd),
         NEW e \in StreamEvents, stream' = Append(stream, e),
         e.type = "tool_completed" => e.step \in ReportedSteps /\ e.turn = turnOf[e.step]
  PROVE  PathInv'
<1>1. /\ stream \in Seq(StreamEvents) /\ stream' \in Seq(StreamEvents)
      /\ Len(stream) \in Nat /\ Len(stream') = Len(stream) + 1
      /\ \A i \in 1 .. Len(stream) : stream'[i] = stream[i]
      /\ stream'[Len(stream) + 1] = e
  BY AppendProperties DEF PathInv, StreamInv
<1>2. StreamGrows
  BY <1>1 DEF StreamGrows
<1>3. GatewayInv'
  BY <1>2, GatewayRests DEF PathInv
<1>4. BankInv'
  BY TypeStep, RegistryStep, ResultStep DEF PathInv, BankInv
<1>5. ReportedSteps' = ReportedSteps /\ CompletedInv'
  BY DEF PathInv, ReportedSteps, CompletedInv, bankVars, bankCalls, bankStreams
<1>6. StreamInv'
  <2>1. \A i \in 1 .. Len(stream') : i \in 1 .. Len(stream) \/ i = Len(stream) + 1
    BY <1>1
  <2>2. QED
    BY <1>1, <1>5, <2>1 DEF PathInv, StreamInv
<1>7. UNCHANGED <<taskEnd, turnOf>>
  BY DEF bankVars, bankStreams
<1>8. QED
  BY <1>3, <1>4, <1>5, <1>6, <1>7 DEF PathInv

(* No record in the stream. *)
LEMMA PathRests ==
  ASSUME PathInv, UNCHANGED <<stream, turnOf>>, [BankNext]_bankVars, GatewayInv',
         epos' \in 0 .. Len(taskEnd)
  PROVE  PathInv'
<1>1. BankInv'
  BY TypeStep, RegistryStep, ResultStep DEF PathInv, BankInv
<1>2. /\ Len(taskEnd) \in Nat /\ Len(taskEnd') \in Nat /\ Len(taskEnd) <= Len(taskEnd')
      /\ CompletedInv'
  BY <1>1, TaskEndGrows DEF PathInv, BankInv
<1>3. ReportedSteps \subseteq ReportedSteps'
  BY ReportedStays DEF PathInv
<1>4. StreamInv'
  BY <1>3 DEF PathInv, StreamInv
<1>5. epos' \in 0 .. Len(taskEnd')
  BY <1>2
<1>6. QED
  BY <1>1, <1>2, <1>4, <1>5 DEF PathInv

LEMMA PathStep == PathInv /\ [PathNext]_pathVars => PathInv'
<1>1. SUFFICES ASSUME PathInv, [PathNext]_pathVars PROVE PathInv'
  OBVIOUS
<1>2. Len(stream) \in Nat /\ epos \in 0 .. Len(taskEnd) /\ taskEnd \in Seq(EndRecords)
  BY <1>1 DEF PathInv, StreamInv, BankInv, BankTypeOK, EndRecords
<1>3. Followed \in Turns
  BY PathAssumption
<1>4. CASE BankNext /\ UNCHANGED <<gatewayVars, turnOf, epos>>
  <2>1. UNCHANGED <<stream, turnOf, epos>> /\ UNCHANGED connection
    BY <1>4 DEF gatewayVars, connection
  <2>2. StreamGrows
    BY <1>2, <2>1 DEF StreamGrows
  <2>3. GatewayInv'
    BY <1>1, <2>1, <2>2, GatewayRests DEF PathInv
  <2>4. QED
    BY <1>1, <1>2, <1>4, <2>1, <2>3, PathRests
<1>5. CASE GatewayNext /\ UNCHANGED <<bankVars, turnOf, epos>>
  <2>1. UNCHANGED <<stream, turnOf, epos>>
    BY <1>5 DEF GatewayNext, GatewayStep, Subscribe, SubscribeFails, Scan, ScanFails, Replay,
                ReplayEnds, Live, StreamBreaks, ClientGone
  <2>2. GatewayInv'
    BY <1>1, <1>2, <1>5, GatewaySteps DEF PathInv
  <2>3. QED
    BY <1>1, <1>2, <1>5, <2>1, <2>2, PathRests
<1>6. CASE TurnStarts \/ TurnEnds
  <2>1. PICK type \in {"turn_started", "turn_completed"} :
          stream' = Append(stream, [type |-> type, turn |-> Followed, step |-> NoStep])
    BY <1>6 DEF TurnStarts, TurnEnds, WrittenToStream
  <2> DEFINE e == [type |-> type, turn |-> Followed, step |-> NoStep]
  <2>2. e \in StreamEvents /\ e.type # "tool_completed" /\ stream' = Append(stream, e)
    BY <1>3, <2>1 DEF StreamEvents
  <2>3. UNCHANGED <<bankVars, turnOf>> /\ UNCHANGED connection /\ epos' \in 0 .. Len(taskEnd)
    BY <1>2, <1>6 DEF TurnStarts, TurnEnds
  <2> HIDE DEF e
  <2>4. QED
    BY <1>1, <2>2, <2>3, PathWrites
<1>7. CASE StepWritten
  <2> DEFINE r == taskEnd[epos + 1]
             e == [type |-> r.type, turn |-> turnOf[r.step], step |-> r.step]
  <2>1. /\ epos < Len(taskEnd) /\ epos' = epos + 1 /\ stream' = Append(stream, e)
        /\ UNCHANGED <<bankVars, turnOf>> /\ UNCHANGED connection
    BY <1>7 DEF StepWritten, WrittenToStream
  <2>2. epos + 1 \in 1 .. Len(taskEnd) /\ epos' \in 0 .. Len(taskEnd)
    BY <1>2, <2>1
  <2>3. r \in EndRecords
    BY <1>2, <2>2
  <2>4. r.type \in {"tool_invoked", "tool_completed", "tool_failed"} /\ r.step \in Calls
    BY <2>3 DEF EndRecords
  <2>5. turnOf[r.step] \in Turns
    BY <1>1, <2>4 DEF PathInv
  <2>6. r.type = "tool_completed" => r.step \in ReportedSteps
    BY <1>1, <2>2 DEF PathInv, CompletedInv
  <2> HIDE DEF r
  <2>7. /\ e \in StreamEvents
        /\ e.type = "tool_completed" => e.step \in ReportedSteps /\ e.turn = turnOf[e.step]
    BY <2>4, <2>5, <2>6 DEF StreamEvents
  <2> HIDE DEF e
  <2>8. QED
    BY <1>1, <2>1, <2>2, <2>7, PathWrites
<1>8. CASE StepLost \/ UNCHANGED pathVars
  <2>1. /\ UNCHANGED <<stream, turnOf>> /\ UNCHANGED connection /\ UNCHANGED bankVars
        /\ epos' \in 0 .. Len(taskEnd)
    BY <1>2, <1>8 DEF StepLost, pathVars, gatewayVars, connection
  <2>2. StreamGrows
    BY <1>2, <2>1 DEF StreamGrows
  <2>3. GatewayInv'
    BY <1>1, <2>1, <2>2, GatewayRests DEF PathInv
  <2>4. QED
    BY <1>1, <2>1, <2>3, PathRests
<1>9. QED
  BY <1>1, <1>4, <1>5, <1>6, <1>7, <1>8 DEF PathNext

LEMMA PathInvariant == PathSpec => []PathInv
BY PathInitially, PathStep, PTL DEF PathSpec

-----------------------------------------------------------------------------
(* The bank does in the whole path what it does alone: neither the         *)
(* lifecycle consumer nor the gateway ever touches its state, so that all  *)
(* the theorems about BankSpec hold of the composition.                    *)
THEOREM PathImplementsBank == PathSpec => BankSpec
<1>1. PathInit => BankInit
  BY DEF PathInit
<1>2. [PathNext]_pathVars => [BankNext]_bankVars
  BY DEF PathNext, pathVars, TurnStarts, TurnEnds, StepWritten, StepLost
<1>3. QED
  BY <1>1, <1>2, PTL DEF PathSpec, BankSpec

(* What the bank, the gateway and the lifecycle consumer hold is typed,    *)
(* however they interleave.                                                *)
THEOREM PathTypeCorrect == PathSpec => []PathTypeOK
<1>1. PathInv => PathTypeOK
  BY GatewayProperties DEF PathInv, BankInv, PathTypeOK
<1>2. QED
  BY <1>1, PathInvariant, PTL

(* stream_handler subscribes before it scans: the client is shown the      *)
(* turn in the order of the stream, each record once and none left out,    *)
(* whatever is written between the subscription, the scan and the end of   *)
(* the replay.                                                             *)
THEOREM ReplayMeetsTail == PathSpec => []ShownIsStream
<1>1. PathInv => ShownIsStream
  BY GatewayProperties DEF PathInv
<1>2. QED
  BY <1>1, PathInvariant, PTL

(* plan_history_replay and the break of the live loop: nothing of the turn *)
(* is shown after its end, and "done" of a whole response follows the end. *)
THEOREM DoneMeansEnd == PathSpec => []DoneIsEnd
<1>1. PathInv => DoneIsEnd
  BY GatewayProperties DEF PathInv
<1>2. QED
  BY <1>1, PathInvariant, PTL

(* From emit_task_end over the lifecycle consumer to the gateway: a step   *)
(* of the sandbox that the client sees completed was run and reported, and *)
(* it is a step of the turn that the client follows.                       *)
THEOREM NothingInvented == PathSpec => []ShownIsReported
<1>1. ASSUME PathInv PROVE ShownIsReported
  <2>1. SUFFICES ASSUME NEW k \in 1 .. Len(shown),
                        stream[shown[k]].type = "tool_completed"
                 PROVE  /\ turnOf[stream[shown[k]].step] = Followed
                        /\ registry.index[tool[stream[shown[k]].step]] = Sandbox =>
                             \E i \in 1 .. Len(results) :
                               results[i].step = stream[shown[k]].step
    BY DEF ShownIsReported
  <2>2. shown[k] \in 1 .. Len(stream) /\ OfTurn(shown[k])
    BY <1>1 DEF PathInv, GatewayInv, GatewayTypeOK
  <2>3. /\ stream[shown[k]].step \in ReportedSteps
        /\ stream[shown[k]].turn = turnOf[stream[shown[k]].step]
    BY <1>1, <2>1, <2>2 DEF PathInv, StreamInv
  <2>4. QED
    BY <2>2, <2>3 DEF OfTurn, ReportedSteps
<1>2. QED
  BY <1>1, PathInvariant, PTL
=============================================================================
