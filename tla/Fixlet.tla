------------------------------- MODULE Fixlet -------------------------------
(***************************************************************************)
(* A fixlet (src/bin/fixlet/router.rs): it claims turns from the broker,   *)
(* runs each as a session of one long-lived agent process and reports on   *)
(* task-end.  Its main loop holds one active turn; the agent writes lines  *)
(* to a pipe, of which a prompt's final response carries no turn.          *)
(*                                                                         *)
(* A delivery is one turn.begin record: a turn that is dispatched again is *)
(* another delivery.  The agent is the environment, and so is whoever      *)
(* publishes: a delivery may come while an earlier one is neither reported *)
(* nor given up.  A produce to task-end succeeds.                          *)
(***************************************************************************)
EXTENDS Integers, Sequences

CONSTANTS
  Deliveries,  (* the turn.begin records                                    *)
  Faults       (* which of AllFaults the environment commits                *)

(* "exit": the agent process exits.  "refuse": it answers session/new with *)
(* an error.  "agent_error": it answers a prompt with one.  "stop": its    *)
(* final response has a stopReason other than end_turn.  "crash": the      *)
(* fixlet itself is restarted.                                             *)
AllFaults == {"spawn_error", "exit", "refuse", "agent_error", "stop", "crash"}

NoTurn == "no_turn"

ASSUME FixletAssumption ==
  /\ NoTurn \notin Deliveries
  /\ Faults \subseteq AllFaults

VARIABLES
  claimed,  (* the deliveries that were claimed, and committed as such      *)
  inbox,    (* the channel from the claim subscriber to the main loop       *)
  active,   (* active_turn                                                  *)
  step,     (* active_turn has its step_id                                  *)
  acc,      (* MessageAccumulator: whose chunks are in it                   *)
  pc,       (* the main loop: in its "select", or awaiting a "session"      *)
  child,    (* agent_child and the two pipes: "none", or the process is     *)
            (* "running" or "exited"                                        *)
  stdout,   (* the lines of the agent that were not read yet                *)
  asked,    (* the agent has a session/new to answer                        *)
  prompts,  (* what the agent did with the prompt of each delivery          *)
  taskEnd,  (* the records produced to task-end                             *)
  lost,     (* history: deliveries that the agent or a crash gave up        *)
  overlapped (* history: one was claimed while another was not settled      *)

loop  == <<active, step, acc, pc>>
agent == <<child, stdout, asked, prompts>>
seen  == <<lost, overlapped>>
vars  == <<claimed, inbox, loop, agent, taskEnd, seen>>

Line(kind, t) == [kind |-> kind, turn |-> t]

(* A record of task-end; a done record also says which prompt's end caused *)
(* it and whose text it carries.                                           *)
Record(kind, t) == [kind |-> kind, turn |-> t, by |-> t, text |-> {}]
Done(t, u)      == [kind |-> "done", turn |-> t, by |-> u, text |-> acc]

ReportedIn(log, t) ==
  \E i \in DOMAIN log : log[i].turn = t /\ log[i].kind \in {"done", "error"}

Settled(t) == t \in lost \/ ReportedIn(taskEnd, t)

-----------------------------------------------------------------------------
Init ==
  /\ claimed = {}
  /\ inbox   = <<>>
  /\ active  = NoTurn
  /\ step    = FALSE
  /\ acc     = {}
  /\ pc      = "select"
  /\ child   = "none"
  /\ stdout  = <<>>
  /\ asked   = FALSE
  /\ prompts = [t \in Deliveries |-> "none"]
  /\ taskEnd = <<>>
  /\ lost    = {}
  /\ overlapped = FALSE

(* claim_turns: the record is committed, then forwarded, whether or not    *)
(* the main loop has a turn.                                               *)
Claim(t) ==
  /\ t \notin claimed
  /\ claimed' = claimed \cup {t}
  /\ inbox' = Append(inbox, t)
  /\ overlapped' = (overlapped \/ \E u \in claimed : ~Settled(u))
  /\ UNCHANGED <<loop, agent, taskEnd, lost>>

-----------------------------------------------------------------------------
(* handle_execute_turn_from_broker.                                        *)

AccumulatorKept(t) == acc                      \* variant: reset is forgotten

AccumulatorReset(t) == {}

(* The turn becomes the active one, whatever was active before. *)
Activate(t) ==
  /\ pc = "select" /\ inbox # <<>> /\ t = Head(inbox)
  /\ inbox' = Tail(inbox)
  /\ active' = t
  /\ step' = FALSE
  /\ acc' = AccumulatorReset(t)

(* The agent is spawned unless there is one, and asked for a session. *)
TakeTurn(t) ==
  /\ Activate(t)
  /\ child' = IF child = "none" THEN "running" ELSE child
  /\ asked' = TRUE
  /\ pc' = "session"
  /\ UNCHANGED <<claimed, stdout, prompts, taskEnd, seen>>

SpawnFailed(t) ==
  /\ "spawn_error" \in Faults
  /\ child = "none"
  /\ Activate(t)
  /\ taskEnd' = Append(taskEnd, Record("error", t))
  /\ UNCHANGED <<claimed, pc, agent, seen>>

StepForgotten(t) == FALSE                      \* variant: ctx is not stored again

StepMinted(t) == TRUE

(* The answer to session/new: the step is announced, the prompt is sent.   *)
SessionReady ==
  /\ pc = "session" /\ stdout # <<>> /\ Head(stdout).kind = "session"
  /\ stdout' = Tail(stdout)
  /\ step' = StepMinted(active)
  /\ taskEnd' = Append(taskEnd, Record("llm_invoked", active))
  /\ prompts' = IF child = "running" THEN [prompts EXCEPT ![active] = "asked"]
                ELSE prompts
  /\ pc' = "select"
  /\ UNCHANGED <<claimed, inbox, active, acc, child, asked, seen>>

LineHandled ==                                 \* variant: an old end is taken for
  /\ pc = "session" /\ stdout # <<>>           \* the turn that is being opened
  /\ Head(stdout).kind \in {"chunk", "final"}
  /\ stdout' = Tail(stdout)
  /\ taskEnd' = IF Head(stdout).kind = "chunk" THEN taskEnd
                ELSE Append(taskEnd, Done(active, Head(stdout).turn))
  /\ UNCHANGED <<claimed, inbox, loop, child, asked, prompts, seen>>

(* Every other line is read and forgotten, whatever turn it is about. *)
LineSkipped ==
  /\ pc = "session" /\ stdout # <<>> /\ Head(stdout).kind # "session"
  /\ stdout' = Tail(stdout)
  /\ UNCHANGED <<claimed, inbox, loop, child, asked, prompts, taskEnd, seen>>

EofSilent(t) == taskEnd                        \* variant: returns before it reports

EofReported(t) == Append(taskEnd, Record("error", t))

(* The agent's stdout is closed; the turn stays active. *)
SessionEof ==
  /\ pc = "session" /\ stdout = <<>> /\ child = "exited"
  /\ child' = "none"
  /\ asked' = FALSE
  /\ taskEnd' = EofReported(active)
  /\ pc' = "select"
  /\ UNCHANGED <<claimed, inbox, active, step, acc, stdout, prompts, seen>>

-----------------------------------------------------------------------------
(* handle_agent_message.  The active turn stays active after its end.      *)

ReadLine(kind) ==
  /\ pc = "select" /\ stdout # <<>> /\ Head(stdout).kind = kind
  /\ stdout' = Tail(stdout)
  /\ UNCHANGED <<claimed, inbox, active, step, pc, child, asked, prompts, seen>>

Chunk ==
  /\ ReadLine("chunk")
  /\ acc' = IF active = NoTurn THEN acc ELSE acc \cup {Head(stdout).turn}
  /\ UNCHANGED taskEnd

(* The pair of the step is closed, and the turn reported done. *)
FinalMessage ==
  /\ ReadLine("final")
  /\ taskEnd' = IF active = NoTurn THEN taskEnd
                ELSE (IF step THEN Append(taskEnd, Record("llm_completed", active))
                      ELSE taskEnd) \o <<Done(active, Head(stdout).turn)>>
  /\ UNCHANGED acc

(* An error response closes the step and reports nothing of the turn. *)
AgentError ==
  /\ ReadLine("error")
  /\ taskEnd' = IF active # NoTurn /\ step
                THEN Append(taskEnd, Record("llm_failed", active)) ELSE taskEnd
  /\ UNCHANGED acc

(* Any other response is ignored. *)
Ignored == ReadLine("stopped") /\ UNCHANGED <<acc, taskEnd>>

(* The exit of the process may be seen before its last lines are read. *)
ExitSeen ==
  /\ pc = "select" /\ child = "exited"
  /\ taskEnd' = IF active = NoTurn THEN taskEnd
                ELSE (IF step THEN Append(taskEnd, Record("llm_failed", active))
                      ELSE taskEnd) \o <<Record("error", active)>>
  /\ child' = "none"
  /\ stdout' = <<>>
  /\ asked' = FALSE
  /\ active' = NoTurn
  /\ step' = FALSE
  /\ UNCHANGED <<claimed, inbox, acc, pc, prompts, seen>>

-----------------------------------------------------------------------------
(* The agent process.                                                      *)

Working(t) == child = "running" /\ prompts[t] \in {"asked", "said"}

Says(line) ==
  /\ child = "running"
  /\ stdout' = Append(stdout, line)
  /\ UNCHANGED <<claimed, inbox, loop, child, taskEnd>>

OpenSession ==
  /\ asked /\ Says(Line("session", active))
  /\ asked' = FALSE
  /\ UNCHANGED <<prompts, seen>>

RefuseSession ==
  /\ "refuse" \in Faults
  /\ asked /\ Says(Line("error", active))
  /\ asked' = FALSE
  /\ UNCHANGED <<prompts, seen>>

Speak(t) ==
  /\ prompts[t] = "asked" /\ Says(Line("chunk", t))
  /\ prompts' = [prompts EXCEPT ![t] = "said"]
  /\ UNCHANGED <<asked, seen>>

Answer(t) ==
  /\ Working(t) /\ Says(Line("final", t))
  /\ prompts' = [prompts EXCEPT ![t] = "over"]
  /\ UNCHANGED <<asked, seen>>

GiveUp(t) ==
  /\ Working(t)
  /\ \/ "agent_error" \in Faults /\ Says(Line("error", t))
     \/ "stop" \in Faults /\ Says(Line("stopped", t))
  /\ prompts' = [prompts EXCEPT ![t] = "over"]
  /\ lost' = lost \cup {t}
  /\ UNCHANGED <<asked, overlapped>>

Over == [t \in Deliveries |-> IF prompts[t] = "none" THEN "none" ELSE "over"]

Exit ==
  /\ "exit" \in Faults
  /\ child = "running"
  /\ child' = "exited"
  /\ prompts' = Over
  /\ UNCHANGED <<claimed, inbox, loop, stdout, asked, taskEnd, seen>>

(* The fixlet starts anew: what was claimed is not delivered again. *)
Crash ==
  /\ "crash" \in Faults
  /\ lost' = lost \cup {t \in claimed : ~ReportedIn(taskEnd, t)}
  /\ inbox' = <<>>
  /\ active' = NoTurn /\ step' = FALSE /\ acc' = {} /\ pc' = "select"
  /\ child' = "none" /\ stdout' = <<>> /\ asked' = FALSE
  /\ prompts' = Over
  /\ UNCHANGED <<claimed, taskEnd, overlapped>>

-----------------------------------------------------------------------------
LoopStep ==
  \/ \E t \in Deliveries : TakeTurn(t) \/ SpawnFailed(t)
  \/ SessionReady \/ LineSkipped \/ SessionEof
  \/ Chunk \/ FinalMessage \/ AgentError \/ Ignored \/ ExitSeen

AgentReply == OpenSession \/ \E t \in Deliveries : Answer(t) \/ GiveUp(t)

AgentStep == AgentReply \/ RefuseSession \/ Exit \/ \E t \in Deliveries : Speak(t)

Next ==
  \/ \E t \in Deliveries : Claim(t)
  \/ LoopStep \/ AgentStep \/ Crash

Spec == Init /\ [][Next]_vars

(* The main loop is one tokio task; the agent answers what it was asked.   *)
FairSpec == Spec /\ WF_vars(LoopStep) /\ WF_vars(AgentReply)

-----------------------------------------------------------------------------
TypeOK ==
  /\ claimed \subseteq Deliveries
  /\ inbox \in Seq(Deliveries)
  /\ active \in Deliveries \cup {NoTurn}
  /\ step \in BOOLEAN
  /\ acc \subseteq Deliveries
  /\ pc \in {"select", "session"}
  /\ child \in {"none", "running", "exited"}
  /\ stdout \in Seq([kind: {"session", "chunk", "final", "error", "stopped"},
                     turn: Deliveries])
  /\ asked \in BOOLEAN
  /\ prompts \in [Deliveries -> {"none", "asked", "said", "over"}]
  /\ taskEnd \in Seq([kind: {"llm_invoked", "llm_completed", "llm_failed",
                             "done", "error"},
                      turn: Deliveries, by: Deliveries, text: SUBSET Deliveries])
  /\ lost \subseteq Deliveries
  /\ overlapped \in BOOLEAN

(* What is said of one process that serves many tasks, each turn with a    *)
(* session of its own (handle_execute_turn_from_broker): a done record is  *)
(* caused by the end of that delivery's prompt and carries nobody else's   *)
(* text.  The code keeps it only while claims do not overlap:              *)
(* handle_agent_message takes what it reads for the active turn.           *)
NoCrossedAnswer ==
  \A i \in DOMAIN taskEnd :
     LET r == taskEnd[i] IN
     r.kind = "done" => r.by = r.turn /\ r.text \subseteq {r.turn}

(* A turn is done with its own answer, although neither the agent's lines  *)
(* nor the accumulator know the turn and the process is reused after       *)
(* failures: an overlap of claims is the one way to mix reports up.        *)
OwnAnswer == ~overlapped => NoCrossedAnswer

(* What is left of it when turns overlap: a turn may be reported with the  *)
(* end and the text of another one, but only of one whose step was         *)
(* announced before its own, never of a later one: handle_agent_message    *)
(* takes what it reads for the turn that was announced last.               *)
NoLaterAnswer ==
  \A i \in DOMAIN taskEnd :
     LET r == taskEnd[i] IN
     r.kind = "done" =>
       \E k \in 1 .. i - 1 :
          /\ taskEnd[k] = Record("llm_invoked", r.turn)
          /\ \A u \in r.text \cup {r.by} :
               \E j \in 1 .. k : taskEnd[j] = Record("llm_invoked", u)

(* No done record without its pair: it directly follows an llm_completed,  *)
(* which closes an llm_invoked of the same turn, also when turns overlap   *)
(* or the agent was replaced (the if around llm_completed is never false). *)
DonePaired ==
  \A i \in DOMAIN taskEnd :
     LET t == taskEnd[i].turn IN
     taskEnd[i].kind = "done" =>
       \E j \in 1 .. i - 2 : /\ taskEnd[j] = Record("llm_invoked", t)
                             /\ taskEnd[i - 1] = Record("llm_completed", t)

(* An agent that refused session/new is waited for until it exits: the     *)
(* main loop reads nothing else meanwhile, and there is no deadline.       *)
Deaf ==
  /\ pc = "session" /\ child = "running" /\ ~asked
  /\ \A i \in DOMAIN stdout : stdout[i].kind # "session"

(* Every turn that was claimed is reported, or the agent gave it up (an    *)
(* error or another stop reason ends a prompt without a report), or the    *)
(* fixlet crashed after the commit, or it went deaf, or the next turn took *)
(* its place in the main loop while claims overlapped.                     *)
TurnsReported ==
  \A t \in Deliveries :
     t \in claimed ~> (Settled(t) \/ Deaf \/ overlapped)

=============================================================================
