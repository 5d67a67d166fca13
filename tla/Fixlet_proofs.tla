--------------------------- MODULE Fixlet_proofs ---------------------------
(* Theorems about Fixlet, for every set of deliveries and every           *)
(* combination of faults.                                                  *)
EXTENDS Fixlet, SequenceTheorems, TLAPS

Records ==
  [kind: {"llm_invoked", "llm_completed", "llm_failed", "done", "error"},
   turn: Deliveries, by: Deliveries, text: SUBSET Deliveries]

Lines == [kind: {"session", "chunk", "final", "error", "stopped"},
          turn: Deliveries]

USE DEF seen

-----------------------------------------------------------------------------
(* Lemmas on the two kinds of sequence.                                    *)

(* A record, or a done record, is one that task-end may hold. *)
LEMMA RecordsType ==
  ASSUME TypeOK, NEW t \in Deliveries, NEW u \in Deliveries
  PROVE  /\ \A k \in {"llm_invoked", "llm_completed", "llm_failed", "error"} :
              Record(k, t) \in Records
         /\ Done(t, u) \in Records
BY DEF TypeOK, Records, Record, Done

(* Appending with \o is appending. *)
LEMMA ConcatOne ==
  ASSUME NEW S, NEW s \in Seq(S), NEW q \in S
  PROVE  s \o <<q>> = Append(s, q)
OBVIOUS

(* What the main loop sees of the pipe after it read a line. *)
LEMMA TailLines ==
  ASSUME NEW S, NEW s \in Seq(S), s # <<>>
  PROVE  /\ Head(s) = s[1] /\ 1 \in DOMAIN s /\ Head(s) \in S
         /\ Tail(s) \in Seq(S)
         /\ Len(Tail(s)) = Len(s) - 1
         /\ \A i \in DOMAIN Tail(s) : i + 1 \in DOMAIN s /\ Tail(s)[i] = s[i + 1]
OBVIOUS

(* What the agent adds to it. *)
LEMMA AppendLines ==
  ASSUME NEW S, NEW s \in Seq(S), NEW q \in S
  PROVE  /\ Append(s, q) \in Seq(S)
         /\ Len(Append(s, q)) = Len(s) + 1
         /\ DOMAIN s = 1 .. Len(s)
         /\ DOMAIN Append(s, q) = 1 .. Len(s) + 1
         /\ Append(s, q)[Len(s) + 1] = q
         /\ \A i \in DOMAIN s : Append(s, q)[i] = s[i]
OBVIOUS

(* A record reports the turn it names if it is a done or an error. *)
LEMMA ReportedAppend ==
  ASSUME NEW log \in Seq(Records), NEW r \in Records, NEW t
  PROVE  ReportedIn(Append(log, r), t) <=>
           \/ ReportedIn(log, t)
           \/ r.turn = t /\ r.kind \in {"done", "error"}
<1> DEFINE new == Append(log, r)
<1>1. /\ DOMAIN log = 1 .. Len(log) /\ DOMAIN new = 1 .. Len(log) + 1
      /\ new[Len(log) + 1] = r
      /\ \A i \in DOMAIN log : new[i] = log[i]
      /\ Len(log) \in Nat
  BY AppendLines
<1>2. ASSUME ReportedIn(new, t)
      PROVE  ReportedIn(log, t) \/ (r.turn = t /\ r.kind \in {"done", "error"})
  <2>1. PICK i \in DOMAIN new : new[i].turn = t /\ new[i].kind \in {"done", "error"}
    BY <1>2 DEF ReportedIn
  <2>2. CASE i = Len(log) + 1
    BY <2>1, <2>2, <1>1
  <2>3. CASE i # Len(log) + 1
    <3>1. i \in DOMAIN log /\ new[i] = log[i]
      BY <2>3, <1>1
    <3>2. QED
      BY <2>1, <3>1 DEF ReportedIn
  <2>4. QED
    BY <2>2, <2>3
<1>3. ASSUME ReportedIn(log, t)
      PROVE  ReportedIn(new, t)
  <2>1. PICK i \in DOMAIN log : log[i].turn = t /\ log[i].kind \in {"done", "error"}
    BY <1>3 DEF ReportedIn
  <2>2. i \in DOMAIN new /\ new[i] = log[i]
    BY <1>1
  <2>3. QED
    BY <2>1, <2>2 DEF ReportedIn
<1>4. ASSUME r.turn = t /\ r.kind \in {"done", "error"}
      PROVE  ReportedIn(new, t)
  <2>1. Len(log) + 1 \in DOMAIN new
    BY <1>1
  <2>2. new[Len(log) + 1] = r
    BY <1>1
  <2>3. QED
    BY <1>4, <2>1, <2>2 DEF ReportedIn
<1>5. QED
  BY <1>2, <1>3, <1>4

-----------------------------------------------------------------------------
(* Types.  That active_turn is a turn wherever the handler of a delivery   *)
(* uses it, and that what the agent is asked for has a turn, is part of    *)
(* the induction.                                                          *)

(* session/new is asked and answered once per delivery: its answer is in   *)
(* the pipe only while handle_execute_turn_from_broker waits for it.       *)
OneSession ==
  /\ pc = "session" => active # NoTurn
  /\ asked => pc = "session"
  /\ pc = "select" \/ asked =>
       \A i \in DOMAIN stdout : stdout[i].kind # "session"
  /\ \A i, j \in DOMAIN stdout :
       stdout[i].kind = "session" /\ stdout[j].kind = "session" => i = j

BaseInv == TypeOK /\ OneSession

(* What Activate leaves behind is well-typed (the head of the channel). *)
LEMMA ActivateType ==
  ASSUME TypeOK, NEW t \in Deliveries, Activate(t)
  PROVE  /\ inbox' \in Seq(Deliveries)
         /\ active' \in Deliveries \cup {NoTurn}
         /\ step' \in BOOLEAN
         /\ acc' \subseteq Deliveries
<1>1. inbox' \in Seq(Deliveries)
  BY TailLines DEF TypeOK, Activate
<1>2. QED
  BY <1>1 DEF Activate, AccumulatorReset

(* What ReadLine leaves behind is well-typed, and so was the line. *)
LEMMA ReadLineType ==
  ASSUME TypeOK, NEW k, ReadLine(k)
  PROVE  stdout' \in Seq(Lines) /\ Head(stdout) \in Lines
<1>1. stdout \in Seq(Lines) /\ stdout # <<>>
  BY DEF TypeOK, Lines, ReadLine
<1>2. QED
  BY <1>1, TailLines DEF ReadLine

(* One or two more records keep the log of task-end typed. *)
LEMMA ReportsType ==
  ASSUME TypeOK, NEW b \in BOOLEAN, NEW r \in Records, NEW q \in Records
  PROVE  /\ taskEnd \in Seq(Records)
         /\ Append(taskEnd, r) \in Seq(Records)
         /\ (IF b THEN Append(taskEnd, r) ELSE taskEnd) \in Seq(Records)
         /\ (IF b THEN Append(taskEnd, r) ELSE taskEnd) \o <<q>> \in Seq(Records)
<1>1. taskEnd \in Seq(Records)
  BY DEF TypeOK, Records
<1>2. Append(taskEnd, r) \in Seq(Records)
  BY <1>1, AppendLines
<1>3. (IF b THEN Append(taskEnd, r) ELSE taskEnd) \in Seq(Records)
  BY <1>1, <1>2
<1>4. <<q>> \in Seq(Records)
  OBVIOUS
<1>5. QED
  BY <1>1, <1>2, <1>3, <1>4, ConcatProperties

(* A line that the agent says keeps the pipe typed. *)
LEMMA SaysType ==
  ASSUME TypeOK, NEW l \in Lines, Says(l)
  PROVE  stdout' \in Seq(Lines)
<1>1. stdout \in Seq(Lines)
  BY DEF TypeOK, Lines
<1>2. QED
  BY <1>1, AppendLines DEF Says

(* One step of Next keeps every variable typed. *)
LEMMA TypeNext ==
  ASSUME BaseInv, [Next]_vars
  PROVE  TypeOK'
<1> USE FixletAssumption DEF TypeOK, BaseInv
<1> DEFINE Phases == {"none", "asked", "said", "over"}
<1>0. /\ stdout \in Seq(Lines) /\ taskEnd \in Seq(Records)
      /\ \A t \in Deliveries, k \in {"session", "chunk", "final", "error", "stopped"} :
            Line(k, t) \in Lines
      /\ pc = "session" \/ asked => active \in Deliveries
  BY DEF Lines, Records, Line, OneSession
<1>nil. <<>> \in Seq(Lines) /\ <<>> \in Seq(Deliveries)
  OBVIOUS
<1>1. ASSUME NEW t \in Deliveries, Claim(t) PROVE TypeOK'
  BY <1>1, AppendLines DEF Claim, loop, agent
<1>2. ASSUME NEW t \in Deliveries, TakeTurn(t) PROVE TypeOK'
  BY <1>2, ActivateType DEF TakeTurn
<1>3. ASSUME NEW t \in Deliveries, SpawnFailed(t) PROVE TypeOK'
  <2>1. taskEnd' \in Seq(Records)
    BY <1>3, RecordsType, ReportsType DEF SpawnFailed
  <2>2. QED
    BY <1>3, <2>1, ActivateType DEF SpawnFailed, agent, Records
<1>4. CASE SessionReady
  <2>1. taskEnd' \in Seq(Records)
    BY <1>0, <1>4, RecordsType, ReportsType DEF SessionReady
  <2>2. stdout' \in Seq(Lines)
    BY <1>0, <1>4, TailLines DEF SessionReady
  <2>3. prompts' \in [Deliveries -> Phases]
    BY <1>4 DEF SessionReady
  <2>4. QED
    BY <1>4, <2>1, <2>2, <2>3 DEF SessionReady, StepMinted, Lines, Records
<1>5. CASE LineSkipped
  <2>1. stdout' \in Seq(Lines)
    BY <1>0, <1>5, TailLines DEF LineSkipped
  <2>2. QED
    BY <1>5, <2>1 DEF LineSkipped, loop, Lines
<1>6. CASE SessionEof
  <2>1. taskEnd' \in Seq(Records)
    BY <1>0, <1>6, RecordsType, ReportsType DEF SessionEof, EofReported
  <2>2. QED
    BY <1>6, <2>1 DEF SessionEof, Records
<1>7. CASE Chunk
  <2>1. stdout' \in Seq(Lines) /\ Head(stdout).turn \in Deliveries
    BY <1>7, ReadLineType DEF Chunk, Lines
  <2>2. QED
    BY <1>7, <2>1 DEF Chunk, ReadLine, Lines
<1>8. CASE FinalMessage
  <2>1. stdout' \in Seq(Lines) /\ Head(stdout).turn \in Deliveries
    BY <1>8, ReadLineType DEF FinalMessage, Lines
  <2>2. taskEnd' \in Seq(Records)
    <3>1. CASE active = NoTurn
      BY <1>0, <1>8, <3>1 DEF FinalMessage
    <3>2. CASE active # NoTurn
      <4>1. active \in Deliveries
        BY <3>2
      <4>2. /\ Record("llm_completed", active) \in Records
            /\ Done(active, Head(stdout).turn) \in Records
        BY <4>1, <2>1, RecordsType
      <4>3. QED
        BY <1>8, <3>2, <4>2, ReportsType DEF FinalMessage
    <3>3. QED
      BY <3>1, <3>2
  <2>3. QED
    BY <1>8, <2>1, <2>2 DEF FinalMessage, ReadLine, Lines, Records
<1>9. CASE AgentError
  <2>1. stdout' \in Seq(Lines)
    BY <1>9, ReadLineType DEF AgentError
  <2>2. taskEnd' \in Seq(Records)
    BY <1>0, <1>9, RecordsType, ReportsType DEF AgentError
  <2>3. QED
    BY <1>9, <2>1, <2>2 DEF AgentError, ReadLine, Lines, Records
<1>10. CASE Ignored
  <2>1. stdout' \in Seq(Lines)
    BY <1>10, ReadLineType DEF Ignored
  <2>2. QED
    BY <1>10, <2>1 DEF Ignored, ReadLine, Lines
<1>11. CASE ExitSeen
  <2>1. taskEnd' \in Seq(Records)
    <3>1. CASE active = NoTurn
      <4>1. taskEnd' = taskEnd
        BY <1>11, <3>1 DEF ExitSeen
      <4>2. QED
        BY ONLY <1>0, <4>1
    <3>2. CASE active # NoTurn
      <4>1. /\ Record("llm_failed", active) \in Records
            /\ Record("error", active) \in Records
        BY <3>2, RecordsType
      <4>2. QED
        BY <1>11, <3>2, <4>1, ReportsType DEF ExitSeen
    <3>3. QED
      BY <3>1, <3>2
  <2>2. QED
    BY <1>11, <1>nil, <2>1 DEF ExitSeen, Lines, Records
<1>12. CASE OpenSession
  <2>1. stdout' \in Seq(Lines)
    BY <1>0, <1>12, SaysType DEF OpenSession
  <2>2. QED
    BY <1>12, <2>1 DEF OpenSession, Says, loop, Lines
<1>13. CASE RefuseSession
  <2>1. stdout' \in Seq(Lines)
    BY <1>0, <1>13, SaysType DEF RefuseSession
  <2>2. QED
    BY <1>13, <2>1 DEF RefuseSession, Says, loop, Lines
<1>14. ASSUME NEW t \in Deliveries, Speak(t) PROVE TypeOK'
  <2>1. stdout' \in Seq(Lines)
    BY <1>0, <1>14, SaysType DEF Speak
  <2>2. QED
    BY <1>14, <2>1 DEF Speak, Says, loop, Lines
<1>15. ASSUME NEW t \in Deliveries, Answer(t) PROVE TypeOK'
  <2>1. stdout' \in Seq(Lines)
    BY <1>0, <1>15, SaysType DEF Answer
  <2>2. QED
    BY <1>15, <2>1 DEF Answer, Says, loop, Lines
<1>16. ASSUME NEW t \in Deliveries, GiveUp(t) PROVE TypeOK'
  <2>1. stdout' \in Seq(Lines)
    BY <1>0, <1>16, SaysType DEF GiveUp
  <2>2. QED
    BY <1>16, <2>1 DEF GiveUp, Says, loop, Lines
<1>17. CASE Exit
  <2>1. prompts' \in [Deliveries -> Phases]
    BY <1>17 DEF Exit, Over
  <2>2. QED
    BY <1>17, <2>1 DEF Exit, loop
<1>18. CASE Crash
  <2>1. prompts' \in [Deliveries -> Phases]
    BY <1>18 DEF Crash, Over
  <2>2. QED
    BY <1>18, <1>nil, <2>1 DEF Crash, Lines
<1>19. CASE UNCHANGED vars
  BY <1>19 DEF vars, loop, agent
<1>20. QED
  BY <1>1, <1>2, <1>3, <1>4, <1>5, <1>6, <1>7, <1>8, <1>9, <1>10, <1>11,
     <1>12, <1>13, <1>14, <1>15, <1>16, <1>17, <1>18, <1>19
     DEF Next, LoopStep, AgentStep, AgentReply

(* At most one answer to session/new is in the pipe, if none may not be. *)
AtMostOne(s, none) ==
  /\ none => \A i \in DOMAIN s : s[i].kind # "session"
  /\ \A i, j \in DOMAIN s :
       s[i].kind = "session" /\ s[j].kind = "session" => i = j

(* Reading a line keeps it so, and reading the answer leaves none. *)
LEMMA AtMostOneTail ==
  ASSUME NEW s \in Seq(Lines), s # <<>>, NEW none, AtMostOne(s, none)
  PROVE  /\ AtMostOne(Tail(s), none)
         /\ Head(s).kind = "session" => ~none /\ AtMostOne(Tail(s), TRUE)
<1>1. /\ Head(s) = s[1] /\ 1 \in DOMAIN s
      /\ \A i \in DOMAIN Tail(s) : i + 1 \in DOMAIN s /\ Tail(s)[i] = s[i + 1]
      /\ DOMAIN Tail(s) \subseteq Nat \ {0}
  <2>1. /\ Head(s) = s[1] /\ 1 \in DOMAIN s
        /\ \A i \in DOMAIN Tail(s) : i + 1 \in DOMAIN s /\ Tail(s)[i] = s[i + 1]
    BY TailLines
  <2>2. DOMAIN Tail(s) = 1 .. Len(Tail(s)) /\ Len(Tail(s)) \in Nat
    BY TailLines
  <2>3. QED
    BY <2>1, <2>2
<1>2. none => \A i \in DOMAIN Tail(s) : Tail(s)[i].kind # "session"
  BY <1>1 DEF AtMostOne
<1>3. \A i, j \in DOMAIN Tail(s) :
        Tail(s)[i].kind = "session" /\ Tail(s)[j].kind = "session" => i = j
  <2>1. SUFFICES ASSUME NEW i \in DOMAIN Tail(s), NEW j \in DOMAIN Tail(s),
                        Tail(s)[i].kind = "session", Tail(s)[j].kind = "session"
                 PROVE  i = j
    OBVIOUS
  <2>2. i + 1 = j + 1
    BY <1>1, <2>1 DEF AtMostOne
  <2>3. QED
    BY <1>1, <2>2
<1>4. ASSUME Head(s).kind = "session"
      PROVE  ~none /\ \A i \in DOMAIN Tail(s) : Tail(s)[i].kind # "session"
  <2>1. ~none
    BY <1>1, <1>4 DEF AtMostOne
  <2>2. ASSUME NEW i \in DOMAIN Tail(s), Tail(s)[i].kind = "session"
        PROVE  FALSE
    <3>1. i + 1 = 1
      BY <1>1, <1>4, <2>2 DEF AtMostOne
    <3>2. QED
      BY <1>1, <3>1
  <2>3. QED
    BY <2>1, <2>2
<1>5. QED
  BY <1>2, <1>3, <1>4 DEF AtMostOne

(* So does any other line of the agent, and the answer if there was none. *)
LEMMA AtMostOneAppend ==
  ASSUME NEW s \in Seq(Lines), NEW l \in Lines, NEW none, AtMostOne(s, none)
  PROVE  /\ l.kind # "session" => AtMostOne(Append(s, l), none)
         /\ AtMostOne(s, TRUE) => AtMostOne(Append(s, l), FALSE)
<1>1. /\ DOMAIN s = 1 .. Len(s) /\ DOMAIN Append(s, l) = 1 .. Len(s) + 1
      /\ Append(s, l)[Len(s) + 1] = l
      /\ \A i \in DOMAIN s : Append(s, l)[i] = s[i]
      /\ Len(s) \in Nat
  BY AppendLines
<1>2. \A i \in DOMAIN Append(s, l) : i \in DOMAIN s \/ i = Len(s) + 1
  BY <1>1
<1>3. QED
  BY <1>1, <1>2 DEF AtMostOne

LEMMA OneSessionIs ==
  OneSession <=> /\ pc = "session" => active # NoTurn
                 /\ asked => pc = "session"
                 /\ AtMostOne(stdout, pc = "select" \/ asked)
BY DEF OneSession, AtMostOne

(* One step of Next keeps the pipe's session answer where it is expected. *)
LEMMA SessionNext ==
  ASSUME BaseInv, [Next]_vars
  PROVE  OneSession'
<1> DEFINE Waits == pc = "select" \/ asked
<1>0. /\ stdout \in Seq(Lines) /\ NoTurn \notin Deliveries
      /\ asked \in BOOLEAN /\ pc \in {"select", "session"}
  BY FixletAssumption DEF BaseInv, TypeOK, Lines
<1>s. /\ pc = "session" => active # NoTurn
      /\ asked => pc = "session"
      /\ AtMostOne(stdout, Waits)
  BY OneSessionIs DEF BaseInv
<1>n. \A none : AtMostOne(<<>>, none)
  BY DEF AtMostOne
<1>1. ASSUME NEW t \in Deliveries, Claim(t) PROVE OneSession'
  BY <1>1 DEF Claim, loop, agent, OneSession, BaseInv
<1>2. ASSUME NEW t \in Deliveries, TakeTurn(t) PROVE OneSession'
  BY <1>0, <1>2 DEF TakeTurn, Activate, OneSession, BaseInv
<1>3. ASSUME NEW t \in Deliveries, SpawnFailed(t) PROVE OneSession'
  BY <1>0, <1>3 DEF SpawnFailed, Activate, agent, OneSession, BaseInv
<1>4. CASE SessionReady
  <2>1. AtMostOne(stdout', TRUE) /\ ~asked
    BY <1>0, <1>s, <1>4, AtMostOneTail DEF SessionReady
  <2>2. QED
    BY <1>4, <1>0, <2>1 DEF SessionReady, OneSession, AtMostOne
<1>5. CASE LineSkipped
  <2>1. AtMostOne(stdout', Waits)
    BY <1>0, <1>s, <1>5, AtMostOneTail DEF LineSkipped
  <2>2. QED
    BY <1>5, <1>s, <2>1 DEF LineSkipped, loop, OneSession, AtMostOne
<1>6. CASE SessionEof
  BY <1>6, <1>n DEF SessionEof, OneSession
<1>7. ASSUME NEW k, ReadLine(k) PROVE OneSession'
  <2>1. AtMostOne(stdout', Waits)
    BY <1>0, <1>s, <1>7, AtMostOneTail DEF ReadLine
  <2>2. QED
    BY <1>7, <1>s, <2>1 DEF ReadLine, OneSession, AtMostOne
<1>8. CASE ExitSeen
  BY <1>8, <1>n DEF ExitSeen, OneSession
<1>9. CASE OpenSession
  <2>1. Line("session", active) \in Lines /\ pc = "session" /\ asked
    BY <1>9, <1>0, <1>s DEF OpenSession, Lines, Line, BaseInv, TypeOK
  <2>2. AtMostOne(stdout', FALSE)
    BY <1>0, <1>s, <1>9, <2>1, AtMostOneAppend DEF OpenSession, Says
  <2>3. QED
    BY <1>9, <1>s, <2>1, <2>2 DEF OpenSession, Says, loop, OneSession, AtMostOne
<1>10. ASSUME NEW l \in Lines, l.kind # "session", Says(l), asked' => asked
       PROVE  OneSession'
  <2>1. AtMostOne(stdout', Waits)
    BY <1>0, <1>s, <1>10, AtMostOneAppend DEF Says
  <2>2. (asked' => asked) /\ pc' = pc /\ active' = active
    BY <1>10, <1>0 DEF Says, loop
  <2>3. QED
    BY <1>s, <2>1, <2>2 DEF OneSession, AtMostOne
<1>11. \A t \in Deliveries : \A k \in {"chunk", "final", "error", "stopped"} :
          Line(k, t) \in Lines /\ Line(k, t).kind # "session"
  BY DEF Line, Lines
<1>12. CASE RefuseSession
  <2>1. active \in Deliveries
    BY <1>12, <1>s DEF RefuseSession, BaseInv, TypeOK
  <2>2. QED
    BY <1>12, <1>10, <1>11, <2>1 DEF RefuseSession
<1>13. ASSUME NEW t \in Deliveries, Speak(t) PROVE OneSession'
  BY <1>13, <1>10, <1>11 DEF Speak
<1>14. ASSUME NEW t \in Deliveries, Answer(t) PROVE OneSession'
  BY <1>14, <1>10, <1>11 DEF Answer
<1>15. ASSUME NEW t \in Deliveries, GiveUp(t) PROVE OneSession'
  BY <1>15, <1>10, <1>11 DEF GiveUp
<1>16. CASE Exit
  BY <1>16 DEF Exit, loop, OneSession, BaseInv
<1>17. CASE Crash
  BY <1>17, <1>n DEF Crash, OneSession
<1>18. CASE UNCHANGED vars
  BY <1>18 DEF vars, loop, agent, OneSession, BaseInv
<1>19. CASE Chunk
  BY <1>19, <1>7 DEF Chunk
<1>20. CASE FinalMessage
  BY <1>20, <1>7 DEF FinalMessage
<1>21. CASE AgentError
  BY <1>21, <1>7 DEF AgentError
<1>22. CASE Ignored
  BY <1>22, <1>7 DEF Ignored
<1>23. QED
  BY <1>1, <1>2, <1>3, <1>4, <1>5, <1>6, <1>8, <1>9, <1>12, <1>13, <1>14,
     <1>15, <1>16, <1>17, <1>18, <1>19, <1>20, <1>21, <1>22
     DEF Next, LoopStep, AgentStep, AgentReply

LEMMA BaseInit == Init => BaseInv
<1>1. <<>> \in Seq(Lines) /\ <<>> \in Seq(Deliveries) /\ <<>> \in Seq(Records)
  OBVIOUS
<1>2. Init => TypeOK
  BY <1>1 DEF Init, TypeOK, Lines, Records
<1>3. Init => OneSession
  BY DEF Init, OneSession
<1>4. QED
  BY <1>2, <1>3 DEF BaseInv

LEMMA BaseCorrect == Spec => []BaseInv
<1>1. BaseInv /\ [Next]_vars => BaseInv'
  BY TypeNext, SessionNext DEF BaseInv
<1>2. QED
  BY BaseInit, <1>1, PTL DEF Spec

(* Type correctness of the fixlet, overlapping deliveries included: no     *)
(* handler uses active_turn, or asks the agent for anything, without one.  *)
THEOREM FixletTypes == Spec => []TypeOK
<1>1. BaseInv => TypeOK
  BY DEF BaseInv
<1>2. QED
  BY BaseCorrect, <1>1, PTL

-----------------------------------------------------------------------------
(* No done record without its pair.                                        *)

(* Between two iterations of its select the loop with an agent at hand has *)
(* a turn whose step was announced; in handle_execute_turn_from_broker it  *)
(* has an agent.                                                           *)
StepKnown ==
  /\ pc = "select" /\ child # "none" => step
  /\ pc = "session" => child # "none"
  /\ child = "none" => stdout = <<>>
  /\ step => /\ active # NoTurn
             /\ \E j \in DOMAIN taskEnd : taskEnd[j] = Record("llm_invoked", active)

PairInv == BaseInv /\ StepKnown /\ DonePaired

Announced(log, t) == \E j \in DOMAIN log : log[j] = Record("llm_invoked", t)

Paired(log) ==
  \A i \in DOMAIN log :
     log[i].kind = "done" =>
       \E j \in 1 .. i - 2 :
          /\ log[j] = Record("llm_invoked", log[i].turn)
          /\ log[i - 1] = Record("llm_completed", log[i].turn)

(* A record that is not a done keeps the pairs and the announcements. *)
LEMMA PairedOther ==
  ASSUME NEW log \in Seq(Records), NEW r \in Records, r.kind # "done", Paired(log)
  PROVE  /\ Append(log, r) \in Seq(Records)
         /\ Paired(Append(log, r))
         /\ \A t : Announced(log, t) => Announced(Append(log, r), t)
         /\ \A t : r = Record("llm_invoked", t) => Announced(Append(log, r), t)
<1> DEFINE new == Append(log, r)
<1>1. /\ DOMAIN log = 1 .. Len(log) /\ DOMAIN new = 1 .. Len(log) + 1
      /\ new[Len(log) + 1] = r
      /\ \A i \in DOMAIN log : new[i] = log[i]
      /\ Len(log) \in Nat /\ new \in Seq(Records)
  BY AppendLines
<1> HIDE DEF new
<1>2. Paired(new)
  <2>1. SUFFICES ASSUME NEW i \in DOMAIN new, new[i].kind = "done"
                 PROVE  \E j \in 1 .. i - 2 :
                           /\ new[j] = Record("llm_invoked", new[i].turn)
                           /\ new[i - 1] = Record("llm_completed", new[i].turn)
    BY DEF Paired
  <2>2. i \in DOMAIN log /\ new[i] = log[i]
    BY <1>1, <2>1
  <2>3. PICK j \in 1 .. i - 2 :
               /\ log[j] = Record("llm_invoked", log[i].turn)
               /\ log[i - 1] = Record("llm_completed", log[i].turn)
    BY <2>1, <2>2 DEF Paired
  <2>4. j \in DOMAIN log /\ i - 1 \in DOMAIN log
    BY <1>1, <2>2, <2>3
  <2>5. new[j] = log[j] /\ new[i - 1] = log[i - 1]
    BY <1>1, <2>4
  <2>6. QED
    BY <2>2, <2>3, <2>5
<1>3. \A j \in DOMAIN log : j \in DOMAIN new /\ new[j] = log[j]
  BY <1>1
<1>4. Len(log) + 1 \in DOMAIN new /\ new[Len(log) + 1] = r
  BY <1>1
<1>5. QED
  BY <1>1, <1>2, <1>3, <1>4 DEF Announced, new

(* A done that follows its llm_completed, announced before, is paired. *)
LEMMA PairedDone ==
  ASSUME NEW log \in Seq(Records), NEW t \in Deliveries, NEW d \in Records,
         d.turn = t, Paired(log), Announced(log, t),
         Record("llm_completed", t) \in Records
  PROVE  LET new == Append(Append(log, Record("llm_completed", t)), d) IN
         Paired(new) /\ \A u : Announced(log, u) => Announced(new, u)
<1> DEFINE mid == Append(log, Record("llm_completed", t))
<1> DEFINE new == Append(mid, d)
<1>1. /\ mid \in Seq(Records) /\ Paired(mid)
      /\ \A u : Announced(log, u) => Announced(mid, u)
  BY PairedOther DEF Record
<1>2. /\ DOMAIN log = 1 .. Len(log) /\ DOMAIN mid = 1 .. Len(log) + 1
      /\ Len(mid) = Len(log) + 1 /\ Len(log) \in Nat
      /\ mid[Len(log) + 1] = Record("llm_completed", t)
      /\ \A i \in DOMAIN log : mid[i] = log[i]
  BY AppendLines
<1> HIDE DEF mid
<1>3. /\ DOMAIN new = 1 .. Len(log) + 2 /\ new[Len(log) + 2] = d
      /\ \A i \in DOMAIN mid : new[i] = mid[i]
  <2>1. /\ DOMAIN new = 1 .. Len(mid) + 1 /\ new[Len(mid) + 1] = d
        /\ \A i \in DOMAIN mid : new[i] = mid[i]
    BY <1>1, AppendLines
  <2>2. Len(mid) + 1 = Len(log) + 2
    BY <1>2
  <2>3. QED
    BY <2>1, <2>2
<1> HIDE DEF new
<1>4. \A u : Announced(log, u) => Announced(new, u)
  <2>1. \A j \in DOMAIN mid : j \in DOMAIN new /\ new[j] = mid[j]
    BY <1>2, <1>3
  <2>2. QED
    BY <1>1, <2>1 DEF Announced
<1>5. Paired(new)
  <2>1. SUFFICES ASSUME NEW i \in DOMAIN new, new[i].kind = "done"
                 PROVE  \E j \in 1 .. i - 2 :
                           /\ new[j] = Record("llm_invoked", new[i].turn)
                           /\ new[i - 1] = Record("llm_completed", new[i].turn)
    BY DEF Paired
  <2>2. CASE i = Len(log) + 2
    <3>1. PICK j \in DOMAIN log : log[j] = Record("llm_invoked", t)
      BY DEF Announced
    <3>2. j \in DOMAIN mid /\ Len(log) + 1 \in DOMAIN mid
      BY <1>2
    <3>3. new[j] = log[j] /\ new[Len(log) + 1] = Record("llm_completed", t)
      BY <1>2, <1>3, <3>2
    <3>4. j \in 1 .. i - 2 /\ i - 1 = Len(log) + 1
      BY <1>2, <2>2
    <3>5. new[i].turn = t
      BY <1>3, <2>2
    <3>6. QED
      BY <3>1, <3>3, <3>4, <3>5
  <2>3. CASE i # Len(log) + 2
    <3>1. i \in DOMAIN mid /\ new[i] = mid[i]
      BY <1>2, <1>3, <2>3
    <3>2. PICK j \in 1 .. i - 2 :
                 /\ mid[j] = Record("llm_invoked", mid[i].turn)
                 /\ mid[i - 1] = Record("llm_completed", mid[i].turn)
      BY <1>1, <2>1, <3>1 DEF Paired
    <3>3. j \in DOMAIN mid /\ i - 1 \in DOMAIN mid
      BY <1>2, <3>1, <3>2
    <3>4. new[j] = mid[j] /\ new[i - 1] = mid[i - 1]
      BY <1>3, <3>3
    <3>5. QED
      BY <3>1, <3>2, <3>4
  <2>4. QED
    BY <2>2, <2>3
<1>6. QED
  BY <1>4, <1>5 DEF new, mid

(* With an agent at hand the two handlers that end a turn find its step,   *)
(* and append two records.                                                 *)
LEMMA EndsInPairs ==
  ASSUME PairInv
  PROVE  /\ FinalMessage =>
              /\ active \in Deliveries /\ step
              /\ Announced(taskEnd, active)
              /\ Done(active, Head(stdout).turn) \in Records
              /\ taskEnd' = Append(Append(taskEnd, Record("llm_completed", active)),
                                   Done(active, Head(stdout).turn))
         /\ ExitSeen =>
              /\ active \in Deliveries /\ step
              /\ taskEnd' = Append(Append(taskEnd, Record("llm_failed", active)),
                                   Record("error", active))
         /\ AgentError =>
              /\ active \in Deliveries
              /\ taskEnd' = Append(taskEnd, Record("llm_failed", active))
<1>1. ASSUME pc = "select", child # "none"
      PROVE  active \in Deliveries /\ step /\ Announced(taskEnd, active)
  BY <1>1 DEF PairInv, StepKnown, BaseInv, TypeOK, Announced
<1>2. child = "none" => stdout = <<>>
  BY DEF PairInv, StepKnown
<1>3. taskEnd \in Seq(Records) /\ TypeOK
  BY DEF PairInv, BaseInv, TypeOK, Records
<1>4. ASSUME NEW k, ReadLine(k) PROVE pc = "select" /\ child # "none"
  BY <1>2, <1>4 DEF ReadLine
<1>5. ASSUME FinalMessage
      PROVE  /\ active \in Deliveries /\ step
             /\ Announced(taskEnd, active)
             /\ Done(active, Head(stdout).turn) \in Records
             /\ taskEnd' = Append(Append(taskEnd, Record("llm_completed", active)),
                                  Done(active, Head(stdout).turn))
  <2>1. active \in Deliveries /\ step /\ Announced(taskEnd, active)
    BY <1>1, <1>4, <1>5 DEF FinalMessage
  <2>2. Head(stdout).turn \in Deliveries
    BY <1>3, <1>5, ReadLineType DEF FinalMessage, Lines
  <2>3. /\ Record("llm_completed", active) \in Records
        /\ Done(active, Head(stdout).turn) \in Records
    BY <1>3, <2>1, <2>2, RecordsType
  <2>4. taskEnd' = Append(taskEnd, Record("llm_completed", active))
                     \o <<Done(active, Head(stdout).turn)>>
    BY <1>5, <2>1, FixletAssumption DEF FinalMessage
  <2>5. QED
    BY <1>3, <2>1, <2>3, <2>4, AppendLines, ConcatOne
<1>6. ASSUME ExitSeen
      PROVE  /\ active \in Deliveries /\ step
             /\ taskEnd' = Append(Append(taskEnd, Record("llm_failed", active)),
                                  Record("error", active))
  <2>1. active \in Deliveries /\ step
    BY <1>1, <1>6 DEF ExitSeen
  <2>2. /\ Record("llm_failed", active) \in Records
        /\ Record("error", active) \in Records
    BY <1>3, <2>1, RecordsType
  <2>3. taskEnd' = Append(taskEnd, Record("llm_failed", active))
                     \o <<Record("error", active)>>
    BY <1>6, <2>1, FixletAssumption DEF ExitSeen
  <2>4. QED
    BY <1>3, <2>1, <2>2, <2>3, AppendLines, ConcatOne
<1>7. ASSUME AgentError
      PROVE  /\ active \in Deliveries
             /\ taskEnd' = Append(taskEnd, Record("llm_failed", active))
  <2>1. active \in Deliveries /\ step
    BY <1>1, <1>4, <1>7 DEF AgentError
  <2>2. QED
    BY <1>7, <2>1, FixletAssumption DEF AgentError
<1>8. QED
  BY <1>5, <1>6, <1>7

LEMMA StepKnownIs ==
  StepKnown <=> /\ pc = "select" /\ child # "none" => step
                /\ pc = "session" => child # "none"
                /\ child = "none" => stdout = <<>>
                /\ step => active # NoTurn /\ Announced(taskEnd, active)
BY DEF StepKnown, Announced

(* One step of Next keeps the pairs, and the step with the active turn. *)
LEMMA PairNext ==
  ASSUME PairInv, [Next]_vars
  PROVE  StepKnown' /\ DonePaired'
<1> DEFINE Goal == StepKnown' /\ DonePaired'
<1>0. /\ stdout \in Seq(Lines) /\ taskEnd \in Seq(Records) /\ TypeOK
      /\ Paired(taskEnd) /\ NoTurn \notin Deliveries
      /\ pc \in {"select", "session"} /\ step \in BOOLEAN
      /\ child \in {"none", "running", "exited"}
  BY FixletAssumption DEF PairInv, BaseInv, TypeOK, Lines, Records, DonePaired, Paired
<1>s. /\ pc = "select" /\ child # "none" => step
      /\ pc = "session" => child # "none"
      /\ child = "none" => stdout = <<>>
      /\ step => active # NoTurn /\ Announced(taskEnd, active)
      /\ pc = "session" => active \in Deliveries
      /\ asked => pc = "session"
  BY StepKnownIs DEF PairInv, BaseInv, OneSession, TypeOK
<1>p. Paired(taskEnd') => DonePaired'
  BY DEF Paired, DonePaired
<1>k. /\ pc' = "select" /\ child' # "none" => step'
      /\ pc' = "session" => child' # "none"
      /\ child' = "none" => stdout' = <<>>
      /\ step' => active' # NoTurn /\ Announced(taskEnd', active')
      => StepKnown'
  BY DEF StepKnown, Announced
<1>r. \A t \in Deliveries, k \in {"llm_invoked", "llm_completed", "llm_failed", "error"} :
        Record(k, t) \in Records /\ Record(k, t).kind = k /\ Record(k, t).turn = t
  BY <1>0, RecordsType DEF Record
(* Actions that report nothing. *)
<1>1. ASSUME NEW t \in Deliveries, Claim(t) PROVE Goal
  BY <1>0, <1>s, <1>p, <1>k, <1>1 DEF Claim, loop, agent
<1>2. ASSUME NEW t \in Deliveries, TakeTurn(t) PROVE Goal
  BY <1>0, <1>s, <1>p, <1>k, <1>2 DEF TakeTurn, Activate
<1>3. CASE LineSkipped
  BY <1>0, <1>s, <1>p, <1>k, <1>3 DEF LineSkipped, loop
<1>4. CASE Chunk
  BY <1>0, <1>s, <1>p, <1>k, <1>4 DEF Chunk, ReadLine
<1>5. CASE Ignored
  BY <1>0, <1>s, <1>p, <1>k, <1>5 DEF Ignored, ReadLine
<1>6. ASSUME NEW l, Says(l) PROVE Goal
  BY <1>0, <1>s, <1>p, <1>k, <1>6 DEF Says, loop
<1>7. CASE Exit
  BY <1>0, <1>s, <1>p, <1>k, <1>7 DEF Exit, loop
<1>8. CASE Crash
  BY <1>0, <1>s, <1>p, <1>k, <1>8 DEF Crash
<1>9. CASE UNCHANGED vars
  BY <1>0, <1>s, <1>p, <1>k, <1>9 DEF vars, loop, agent
(* Actions that report. *)
<1>10. ASSUME NEW t \in Deliveries, SpawnFailed(t) PROVE Goal
  <2>1. Paired(taskEnd')
    BY <1>0, <1>r, <1>10, PairedOther DEF SpawnFailed
  <2>2. QED
    BY <1>0, <1>s, <1>p, <1>k, <1>10, <2>1 DEF SpawnFailed, Activate, agent
<1>11. CASE SessionReady
  <2>1. Paired(taskEnd') /\ Announced(taskEnd', active)
    BY <1>0, <1>s, <1>r, <1>11, PairedOther DEF SessionReady
  <2>2. QED
    BY <1>0, <1>s, <1>p, <1>k, <1>11, <2>1 DEF SessionReady, StepMinted
<1>12. CASE SessionEof
  <2>1. /\ Paired(taskEnd')
        /\ \A t : Announced(taskEnd, t) => Announced(taskEnd', t)
    BY <1>0, <1>s, <1>r, <1>12, PairedOther DEF SessionEof, EofReported
  <2>2. QED
    BY <1>0, <1>s, <1>p, <1>k, <1>12, <2>1 DEF SessionEof
<1>13. CASE FinalMessage
  <2>1. /\ Paired(taskEnd')
        /\ \A t : Announced(taskEnd, t) => Announced(taskEnd', t)
    <3>1. Done(active, Head(stdout).turn).turn = active
      BY DEF Done
    <3>2. /\ active \in Deliveries
          /\ Announced(taskEnd, active)
          /\ Done(active, Head(stdout).turn) \in Records
          /\ taskEnd' = Append(Append(taskEnd, Record("llm_completed", active)),
                               Done(active, Head(stdout).turn))
      BY <1>13, EndsInPairs
    <3>3. Record("llm_completed", active) \in Records
      BY <1>r, <3>2
    <3>4. QED
      BY <1>0, <3>1, <3>2, <3>3, PairedDone
  <2>2. QED
    BY <1>0, <1>s, <1>p, <1>k, <1>13, <2>1 DEF FinalMessage, ReadLine
<1>14. CASE AgentError
  <2>1. /\ Paired(taskEnd')
        /\ \A t : Announced(taskEnd, t) => Announced(taskEnd', t)
    <3>1. /\ active \in Deliveries
          /\ taskEnd' = Append(taskEnd, Record("llm_failed", active))
      BY <1>14, EndsInPairs
    <3>2. QED
      BY <1>0, <1>r, <3>1, PairedOther
  <2>2. QED
    BY <1>0, <1>s, <1>p, <1>k, <1>14, <2>1 DEF AgentError, ReadLine
<1>15. CASE ExitSeen
  <2>1. Paired(taskEnd')
    <3> DEFINE mid == Append(taskEnd, Record("llm_failed", active))
    <3>1. active \in Deliveries /\ taskEnd' = Append(mid, Record("error", active))
      BY <1>15, EndsInPairs
    <3>2. mid \in Seq(Records) /\ Paired(mid)
      BY <1>0, <1>r, <3>1, PairedOther
    <3>3. QED
      BY <1>r, <3>1, <3>2, PairedOther
  <2>2. QED
    BY <1>0, <1>s, <1>p, <1>k, <1>15, <2>1 DEF ExitSeen
<1>16. QED
  BY <1>1, <1>2, <1>3, <1>4, <1>5, <1>6, <1>7, <1>8, <1>9, <1>10, <1>11,
     <1>12, <1>13, <1>14, <1>15
     DEF Next, LoopStep, AgentStep, AgentReply, OpenSession, RefuseSession,
         Speak, Answer, GiveUp

LEMMA PairCorrect == Spec => []PairInv
<1>1. Init => PairInv
  BY BaseInit DEF Init, PairInv, StepKnown, DonePaired
<1>2. PairInv /\ [Next]_vars => PairInv'
  BY TypeNext, SessionNext, PairNext DEF PairInv, BaseInv
<1>3. QED
  BY <1>1, <1>2, PTL DEF Spec

(* A done record always closes a step that was announced, deliveries that  *)
(* overlap and agents that were replaced included: the guards around the   *)
(* llm_completed record are never false when a final message is handled.   *)
THEOREM DonesArePaired == Spec => []DonePaired
<1>1. PairInv => DonePaired
  BY DEF PairInv
<1>2. QED
  BY PairCorrect, <1>1, PTL

-----------------------------------------------------------------------------
(* What is left of it when claims overlap: whatever the agent has written  *)
(* of a prompt, or the accumulator holds, is of a turn whose step was      *)
(* announced, and the step of the active turn was announced last.          *)

LastAnnounced(log, t) ==
  \E k \in DOMAIN log :
     /\ log[k] = Record("llm_invoked", t)
     /\ \A j \in DOMAIN log : log[j].kind = "llm_invoked" => j <= k

Earlier(log) ==
  \A i \in DOMAIN log :
     log[i].kind = "done" =>
       \E k \in 1 .. i - 1 :
          /\ log[k] = Record("llm_invoked", log[i].turn)
          /\ \A u \in log[i].text \cup {log[i].by} :
               \E j \in 1 .. k : log[j] = Record("llm_invoked", u)

PromptsTold(p, log) == \A t \in Deliveries : p[t] # "none" => Announced(log, t)

PipeTold(s, log) ==
  \A i \in DOMAIN s : s[i].kind \in {"chunk", "final"} => Announced(log, s[i].turn)

TextTold(a, log) == \A u \in a : Announced(log, u)

OfAnnounced ==
  /\ PromptsTold(prompts, taskEnd)
  /\ PipeTold(stdout, taskEnd)
  /\ TextTold(acc, taskEnd)
  /\ step => LastAnnounced(taskEnd, active)

EarlierInv == PairInv /\ OfAnnounced /\ Earlier(taskEnd)

(* A record that is not an announcement changes none; an announcement is   *)
(* the last one.                                                           *)
LEMMA AnnouncedAppend ==
  ASSUME NEW log \in Seq(Records), NEW r \in Records
  PROVE  /\ \A u : Announced(log, u) => Announced(Append(log, r), u)
         /\ r.kind # "llm_invoked" =>
              \A t : LastAnnounced(log, t) => LastAnnounced(Append(log, r), t)
         /\ \A t : r = Record("llm_invoked", t) =>
              /\ Announced(Append(log, r), t)
              /\ LastAnnounced(Append(log, r), t)
<1> DEFINE new == Append(log, r)
<1>1. /\ DOMAIN log = 1 .. Len(log) /\ DOMAIN new = 1 .. Len(log) + 1
      /\ new[Len(log) + 1] = r /\ Len(log) \in Nat
      /\ \A i \in DOMAIN log : new[i] = log[i]
  BY AppendLines
<1>2. \A i \in DOMAIN new : i \in DOMAIN log \/ i = Len(log) + 1
  BY <1>1
<1>3. \A i \in DOMAIN log : i \in DOMAIN new /\ new[i] = log[i]
  BY <1>1
<1>4. Len(log) + 1 \in DOMAIN new /\ \A i \in DOMAIN new : i <= Len(log) + 1
  BY <1>1
<1>5. new[Len(log) + 1] = r
  BY <1>1
<1> HIDE DEF new
<1>6. \A u : Announced(log, u) => Announced(new, u)
  BY <1>3 DEF Announced
<1>7. ASSUME r.kind # "llm_invoked", NEW t, LastAnnounced(log, t)
      PROVE  LastAnnounced(new, t)
  <2>1. PICK k \in DOMAIN log :
               /\ log[k] = Record("llm_invoked", t)
               /\ \A j \in DOMAIN log : log[j].kind = "llm_invoked" => j <= k
    BY <1>7 DEF LastAnnounced
  <2>2. \A j \in DOMAIN new : new[j].kind = "llm_invoked" => j \in DOMAIN log
    BY <1>2, <1>5, <1>7
  <2>3. QED
    BY <1>3, <2>1, <2>2 DEF LastAnnounced
<1>8. ASSUME NEW t, r = Record("llm_invoked", t)
      PROVE  Announced(new, t) /\ LastAnnounced(new, t)
  BY <1>4, <1>5, <1>8 DEF Announced, LastAnnounced
<1>9. QED
  BY <1>6, <1>7, <1>8 DEF new

(* A done record whose turn was announced last, with the end and the text  *)
(* of turns that were announced, keeps all done records so.                *)
LEMMA EarlierAppend ==
  ASSUME NEW log \in Seq(Records), NEW r \in Records, Earlier(log),
         r.kind = "done" => /\ LastAnnounced(log, r.turn)
                            /\ \A u \in r.text \cup {r.by} : Announced(log, u)
  PROVE  Earlier(Append(log, r))
<1> DEFINE new == Append(log, r)
<1>1. /\ DOMAIN log = 1 .. Len(log) /\ DOMAIN new = 1 .. Len(log) + 1
      /\ new[Len(log) + 1] = r /\ Len(log) \in Nat
      /\ \A i \in DOMAIN log : new[i] = log[i]
  BY AppendLines
<1> HIDE DEF new
<1> SUFFICES ASSUME NEW i \in DOMAIN new, new[i].kind = "done"
             PROVE  \E k \in 1 .. i - 1 :
                       /\ new[k] = Record("llm_invoked", new[i].turn)
                       /\ \A u \in new[i].text \cup {new[i].by} :
                            \E j \in 1 .. k : new[j] = Record("llm_invoked", u)
  BY DEF Earlier, new
<1>2. CASE i \in DOMAIN log
  <2>1. new[i] = log[i] /\ i \in Nat /\ i <= Len(log)
    BY <1>1, <1>2
  <2>2. PICK k \in 1 .. i - 1 :
               /\ log[k] = Record("llm_invoked", log[i].turn)
               /\ \A u \in log[i].text \cup {log[i].by} :
                    \E j \in 1 .. k : log[j] = Record("llm_invoked", u)
    BY <1>2, <2>1 DEF Earlier
  <2>3. \A j \in 1 .. k : new[j] = log[j]
    BY <1>1, <2>1, <2>2
  <2>4. k \in 1 .. k
    BY <2>1, <2>2
  <2>5. QED
    BY <2>1, <2>2, <2>3, <2>4
<1>3. CASE i \notin DOMAIN log
  <2>1. i = Len(log) + 1 /\ new[i] = r
    BY <1>1, <1>3
  <2>2. PICK k \in DOMAIN log :
               /\ log[k] = Record("llm_invoked", r.turn)
               /\ \A j \in DOMAIN log : log[j].kind = "llm_invoked" => j <= k
    BY <2>1 DEF LastAnnounced
  <2>3. k \in 1 .. i - 1 /\ new[k] = Record("llm_invoked", r.turn)
    BY <1>1, <2>1, <2>2
  <2>4. ASSUME NEW u \in r.text \cup {r.by}
        PROVE  \E j \in 1 .. k : new[j] = Record("llm_invoked", u)
    <3>1. PICK j \in DOMAIN log : log[j] = Record("llm_invoked", u)
      BY <2>1 DEF Announced
    <3>2. log[j].kind = "llm_invoked"
      BY <3>1 DEF Record
    <3>3. j \in 1 .. k /\ new[j] = log[j]
      BY <1>1, <2>2, <3>2
    <3>4. QED
      BY <3>1, <3>3
  <2>5. QED
    BY <2>1, <2>3, <2>4
<1>4. QED
  BY <1>2, <1>3

(* One step keeps it so, claims that overlap and all faults included. *)
LEMMA EarlierNext ==
  ASSUME EarlierInv, [Next]_vars
  PROVE  OfAnnounced' /\ Earlier(taskEnd)'
<1> DEFINE Goal == OfAnnounced' /\ Earlier(taskEnd)'
<1> DEFINE Grown(te) == /\ Earlier(te)
                        /\ \A u : Announced(taskEnd, u) => Announced(te, u)
<1> DEFINE Last(te) == \A t : LastAnnounced(taskEnd, t) => LastAnnounced(te, t)
<1>0. /\ stdout \in Seq(Lines) /\ taskEnd \in Seq(Records) /\ TypeOK
      /\ prompts \in [Deliveries -> {"none", "asked", "said", "over"}]
      /\ NoTurn \notin Deliveries /\ step \in BOOLEAN
  BY FixletAssumption DEF EarlierInv, PairInv, BaseInv, TypeOK, Lines, Records
<1>s. /\ pc = "session" => active \in Deliveries
      /\ asked => active \in Deliveries
  BY DEF EarlierInv, PairInv, BaseInv, OneSession, TypeOK
<1>a. /\ PromptsTold(prompts, taskEnd) /\ PipeTold(stdout, taskEnd)
      /\ TextTold(acc, taskEnd)
      /\ step => LastAnnounced(taskEnd, active)
      /\ Earlier(taskEnd)
  BY DEF EarlierInv, OfAnnounced
<1>g. Grown(taskEnd) /\ Last(taskEnd)
  BY <1>a
<1>r. \A t \in Deliveries, k \in {"llm_invoked", "llm_completed", "llm_failed", "error"} :
        Record(k, t) \in Records /\ Record(k, t).kind = k /\ Record(k, t).turn = t
  BY <1>0, RecordsType DEF Record
<1>t. ASSUME stdout # <<>>
      PROVE  Head(stdout) = stdout[1] /\ 1 \in DOMAIN stdout
  BY <1>0, <1>t, TailLines
<1>tl. ASSUME stdout # <<>>, NEW te, PipeTold(stdout, te)
       PROVE  PipeTold(Tail(stdout), te)
  <2>1. \A i \in DOMAIN Tail(stdout) :
          i + 1 \in DOMAIN stdout /\ Tail(stdout)[i] = stdout[i + 1]
    BY <1>0, <1>tl, TailLines
  <2>2. QED
    BY <1>tl, <2>1 DEF PipeTold
<1>m. ASSUME NEW te, \A u : Announced(taskEnd, u) => Announced(te, u)
      PROVE  PromptsTold(prompts, te) /\ PipeTold(stdout, te) /\ TextTold(acc, te)
  BY <1>a, <1>m DEF PromptsTold, PipeTold, TextTold
(* One and two more records. *)
<1>one. ASSUME NEW r \in Records, r.kind # "done"
        PROVE  /\ Grown(Append(taskEnd, r)) /\ Append(taskEnd, r) \in Seq(Records)
               /\ r.kind # "llm_invoked" => Last(Append(taskEnd, r))
  <2>1. Append(taskEnd, r) \in Seq(Records)
    BY <1>0
  <2>2. QED
    BY <1>0, <1>a, <1>one, <2>1, AnnouncedAppend, EarlierAppend
(* How the parts of OfAnnounced follow from the change of each variable. *)
<1>k. ASSUME Grown(taskEnd'),
             PromptsTold(prompts', taskEnd'), PipeTold(stdout', taskEnd'),
             TextTold(acc', taskEnd'),
             step' => LastAnnounced(taskEnd', active')
      PROVE  Goal
  BY <1>k DEF OfAnnounced
<1>n. \A te : PipeTold(<<>>, te) /\ TextTold({}, te)
  BY DEF PipeTold, TextTold
<1>gm. \A te : Grown(te) => /\ PromptsTold(prompts, te) /\ PipeTold(stdout, te)
                            /\ TextTold(acc, te)
  BY <1>m
<1> SUFFICES Goal
  OBVIOUS
<1> HIDE DEF Goal, Grown, Last
<1>1. ASSUME NEW t \in Deliveries, Claim(t) PROVE Goal
  BY <1>a, <1>g, <1>k, <1>1 DEF Claim, loop, agent
<1>2. ASSUME NEW t \in Deliveries, TakeTurn(t) PROVE Goal
  BY <1>a, <1>g, <1>n, <1>k, <1>2 DEF TakeTurn, Activate, AccumulatorReset
<1>3. ASSUME NEW t \in Deliveries, SpawnFailed(t) PROVE Goal
  <2>1. Grown(taskEnd')
    BY <1>3, <1>r, <1>one DEF SpawnFailed
  <2>2. QED
    BY <1>n, <1>gm, <1>k, <1>3, <2>1
       DEF SpawnFailed, Activate, AccumulatorReset, agent
<1>4. CASE SessionReady
  <2>1. active \in Deliveries /\ stdout # <<>>
    BY <1>s, <1>4 DEF SessionReady
  <2>2. taskEnd' = Append(taskEnd, Record("llm_invoked", active))
    BY <1>4 DEF SessionReady
  <2>3. Grown(taskEnd')
    BY <1>r, <1>one, <2>1, <2>2
  <2>4. Announced(taskEnd', active) /\ LastAnnounced(taskEnd', active)
    BY <1>0, <1>r, <2>1, <2>2, AnnouncedAppend
  <2>5. PromptsTold(prompts', taskEnd')
    <3>1. \A t \in Deliveries : t # active => prompts'[t] = prompts[t]
      BY <1>0, <1>4 DEF SessionReady
    <3>2. QED
      BY <1>gm, <2>3, <2>4, <3>1 DEF PromptsTold
  <2>6. /\ stdout' = Tail(stdout) /\ acc' = acc /\ active' = active
    BY <1>4 DEF SessionReady
  <2>7. QED
    BY <1>gm, <1>tl, <1>k, <2>1, <2>3, <2>4, <2>5, <2>6
<1>5. CASE LineSkipped
  <2>1. /\ stdout # <<>> /\ stdout' = Tail(stdout)
        /\ UNCHANGED <<active, step, acc, prompts, taskEnd>>
    BY <1>5 DEF LineSkipped, loop
  <2>2. QED
    BY <1>a, <1>g, <1>tl, <1>k, <2>1
<1>6. CASE SessionEof
  <2>1. /\ pc = "session" /\ taskEnd' = Append(taskEnd, Record("error", active))
        /\ UNCHANGED <<active, step, acc, stdout, prompts>>
    BY <1>6 DEF SessionEof, EofReported
  <2>2. Grown(taskEnd') /\ Last(taskEnd')
    BY <1>r, <1>s, <1>one, <2>1
  <2>3. step => LastAnnounced(taskEnd', active)
    BY <1>a, <2>2 DEF Last
  <2>4. QED
    BY <1>gm, <1>k, <2>1, <2>2, <2>3
<1>7. ASSUME NEW kind, ReadLine(kind), Grown(taskEnd'), Last(taskEnd'),
             TextTold(acc', taskEnd')
      PROVE  Goal
  <2>1. /\ stdout # <<>> /\ stdout' = Tail(stdout)
        /\ UNCHANGED <<active, step, prompts>>
    BY <1>7 DEF ReadLine
  <2>2. step => LastAnnounced(taskEnd', active)
    BY <1>a, <1>7 DEF Last
  <2>3. QED
    BY <1>gm, <1>tl, <1>k, <1>7, <2>1, <2>2
(* What the head of the pipe is of. *)
<1>h. ASSUME NEW kind \in {"chunk", "final"}, ReadLine(kind)
      PROVE  Announced(taskEnd, Head(stdout).turn)
  BY <1>a, <1>t, <1>h DEF ReadLine, PipeTold
<1>8. CASE Chunk
  <2>1. ReadLine("chunk") /\ taskEnd' = taskEnd
    BY <1>8 DEF Chunk
  <2>2. Announced(taskEnd, Head(stdout).turn)
    BY <1>h, <2>1
  <2>3. TextTold(acc', taskEnd')
    BY <1>a, <1>8, <2>1, <2>2 DEF Chunk, TextTold
  <2>4. QED
    BY <1>g, <1>7, <2>1, <2>3
<1>9. CASE FinalMessage
  <2> DEFINE mid == Append(taskEnd, Record("llm_completed", active))
  <2> DEFINE d == Done(active, Head(stdout).turn)
  <2>1. ReadLine("final") /\ acc' = acc
    BY <1>9 DEF FinalMessage
  <2>2. /\ active \in Deliveries /\ step /\ d \in Records
        /\ taskEnd' = Append(mid, d)
    BY <1>9, EndsInPairs DEF EarlierInv
  <2>3. mid \in Seq(Records) /\ Grown(mid) /\ Last(mid)
    BY <1>r, <1>one, <2>2
  <2>4. /\ d.kind = "done" /\ d.turn = active
        /\ d.by = Head(stdout).turn /\ d.text = acc
    BY DEF Done
  <2> HIDE DEF mid, d
  <2>5. Announced(mid, Head(stdout).turn)
    BY <1>h, <2>1, <2>3 DEF Grown
  <2>6. \A u \in d.text \cup {d.by} : Announced(mid, u)
    BY <1>gm, <2>3, <2>4, <2>5 DEF TextTold
  <2>7. LastAnnounced(mid, d.turn)
    BY <1>a, <2>2, <2>3, <2>4 DEF Last
  <2>8. Earlier(taskEnd')
    BY <2>2, <2>3, <2>6, <2>7, EarlierAppend DEF Grown
  <2>9. Grown(taskEnd') /\ Last(taskEnd')
    BY <2>2, <2>3, <2>4, <2>8, AnnouncedAppend DEF Grown, Last
  <2>10. QED
    BY <1>gm, <1>7, <2>1, <2>9
<1>10. CASE AgentError
  <2>1. ReadLine("error") /\ acc' = acc
    BY <1>10 DEF AgentError
  <2>2. /\ active \in Deliveries
        /\ taskEnd' = Append(taskEnd, Record("llm_failed", active))
    BY <1>10, EndsInPairs DEF EarlierInv
  <2>3. Grown(taskEnd') /\ Last(taskEnd')
    BY <1>r, <1>one, <2>2
  <2>4. QED
    BY <1>gm, <1>7, <2>1, <2>3
<1>11. CASE Ignored
  <2>1. ReadLine("stopped") /\ acc' = acc /\ taskEnd' = taskEnd
    BY <1>11 DEF Ignored
  <2>2. QED
    BY <1>a, <1>g, <1>7, <2>1
<1>12. CASE ExitSeen
  <2> DEFINE mid == Append(taskEnd, Record("llm_failed", active))
  <2>1. active \in Deliveries /\ taskEnd' = Append(mid, Record("error", active))
    BY <1>12, EndsInPairs DEF EarlierInv
  <2>2. mid \in Seq(Records) /\ Grown(mid)
    BY <1>r, <1>one, <2>1
  <2>3. Record("error", active) \in Records /\ Record("error", active).kind # "done"
    BY <1>r, <2>1
  <2> HIDE DEF mid
  <2>4. Grown(taskEnd')
    BY <2>1, <2>2, <2>3, AnnouncedAppend, EarlierAppend DEF Grown
  <2>5. stdout' = <<>> /\ step' = FALSE /\ UNCHANGED <<acc, prompts>>
    BY <1>12 DEF ExitSeen
  <2>6. QED
    BY <1>n, <1>gm, <1>k, <2>4, <2>5
(* What the agent says of a prompt, it says of one it was asked for. *)
<1>13. ASSUME NEW l \in Lines, Says(l),
              l.kind \in {"chunk", "final"} => Announced(taskEnd, l.turn),
              PromptsTold(prompts', taskEnd)
       PROVE  Goal
  <2>1. /\ stdout' = Append(stdout, l)
        /\ UNCHANGED <<active, step, acc, taskEnd>>
    BY <1>13 DEF Says, loop
  <2>2. /\ \A i \in DOMAIN stdout' : i \in DOMAIN stdout \/ i = Len(stdout) + 1
        /\ \A i \in DOMAIN stdout : stdout'[i] = stdout[i]
        /\ stdout'[Len(stdout) + 1] = l
    <3>1. /\ DOMAIN stdout = 1 .. Len(stdout) /\ Len(stdout) \in Nat
          /\ DOMAIN stdout' = 1 .. Len(stdout) + 1
          /\ \A i \in DOMAIN stdout : stdout'[i] = stdout[i]
          /\ stdout'[Len(stdout) + 1] = l
      BY <1>0, <2>1, AppendLines
    <3>2. QED
      BY <3>1
  <2>3. PipeTold(stdout', taskEnd)
    BY <1>a, <1>13, <2>2 DEF PipeTold
  <2>4. QED
    BY <1>a, <1>g, <1>k, <1>13, <2>1, <2>3
<1>l. \A t \in Deliveries, k \in {"session", "chunk", "final", "error", "stopped"} :
        Line(k, t) \in Lines /\ Line(k, t).kind = k /\ Line(k, t).turn = t
  BY DEF Line, Lines
<1>14. CASE OpenSession \/ RefuseSession
  <2>1. active \in Deliveries /\ prompts' = prompts
    BY <1>s, <1>14 DEF OpenSession, RefuseSession
  <2>2. PICK k \in {"session", "error"} : Says(Line(k, active))
    BY <1>14 DEF OpenSession, RefuseSession
  <2>3. QED
    BY <1>a, <1>l, <1>13, <2>1, <2>2
<1>15. ASSUME NEW t \in Deliveries, Speak(t) \/ Answer(t) \/ GiveUp(t) PROVE Goal
  <2>1. prompts[t] # "none" /\ Announced(taskEnd, t)
    BY <1>a, <1>15 DEF Speak, Answer, GiveUp, Working, PromptsTold
  <2>2. \A u \in Deliveries : prompts'[u] # "none" => prompts[u] # "none"
    BY <1>0, <1>15, <2>1 DEF Speak, Answer, GiveUp
  <2>3. PromptsTold(prompts', taskEnd)
    BY <1>a, <2>2 DEF PromptsTold
  <2>4. PICK k \in {"chunk", "final", "error", "stopped"} : Says(Line(k, t))
    BY <1>15 DEF Speak, Answer, GiveUp
  <2>5. QED
    BY <1>l, <1>13, <2>1, <2>3, <2>4
<1>o. PromptsTold(Over, taskEnd)
  BY <1>a DEF Over, PromptsTold
<1>16. CASE Exit
  BY <1>a, <1>g, <1>o, <1>k, <1>16 DEF Exit, loop
<1>17. CASE Crash
  BY <1>a, <1>g, <1>n, <1>o, <1>k, <1>17 DEF Crash
<1>18. CASE UNCHANGED vars
  BY <1>a, <1>g, <1>k, <1>18 DEF vars, loop, agent
<1>19. QED
  BY <1>1, <1>2, <1>3, <1>4, <1>5, <1>6, <1>8, <1>9, <1>10, <1>11, <1>12,
     <1>14, <1>15, <1>16, <1>17, <1>18
     DEF Next, LoopStep, AgentStep, AgentReply

(* A turn is never reported with the end or the text of one announced      *)
(* after it, for any number of deliveries that overlap in any way and all  *)
(* faults: what a second claim spoils is the report of the later turn.     *)
THEOREM AnswersAreNotLater == Spec => []NoLaterAnswer
<1>1. Init => EarlierInv
  <2>1. Init => PairInv
    BY BaseInit DEF Init, PairInv, StepKnown, DonePaired
  <2>2. Init => OfAnnounced /\ Earlier(taskEnd)
    BY DEF Init, OfAnnounced, Earlier, PromptsTold, PipeTold, TextTold
  <2>3. QED
    BY <2>1, <2>2 DEF EarlierInv
<1>2. EarlierInv /\ [Next]_vars => EarlierInv'
  BY TypeNext, SessionNext, PairNext, EarlierNext DEF EarlierInv, PairInv, BaseInv
<1>3. EarlierInv => NoLaterAnswer
  BY DEF EarlierInv, Earlier, NoLaterAnswer
<1>4. QED
  BY <1>1, <1>2, <1>3, PTL DEF Spec

-----------------------------------------------------------------------------
(* Own answers, for deliveries that do not overlap: at most one delivery   *)
(* is pending, and it is either still in the channel or the active one;    *)
(* only the active turn's prompt is being worked at; the answer to         *)
(* session/new comes after all older lines, so that whatever the select    *)
(* reads is about the active turn.                                         *)

Pending(t) == t \in claimed /\ ~Settled(t)

NewOnes ==
  \A t \in Deliveries : t \notin claimed => prompts[t] = "none" /\ ~Settled(t)

OnePending == \A t, u \in Deliveries : Pending(t) /\ Pending(u) => t = u

InChannel ==
  /\ active # NoTurn => active \in claimed
  /\ inbox # <<>> =>
       \E t \in Deliveries : /\ inbox = <<t>> /\ Pending(t)
                             /\ t # active /\ prompts[t] = "none"

AtWork ==
  \A t \in Deliveries :
     prompts[t] \in {"asked", "said"} =>
       t = active /\ pc = "select" /\ child = "running" /\ Pending(t)

InSession ==
  pc = "session" =>
    /\ Pending(active) /\ prompts[active] = "none"
    /\ inbox = <<>> /\ acc = {}
    /\ \A i \in DOMAIN stdout : stdout[i].kind = "session" => i = Len(stdout)

InSelect ==
  pc = "select" =>
    /\ \A i \in DOMAIN stdout :
         /\ stdout[i].turn = active
         /\ stdout[i].kind = "final" => prompts[active] = "over"
    /\ active # NoTurn => acc \subseteq {active}

SerialState ==
  NewOnes /\ OnePending /\ InChannel /\ AtWork /\ InSession /\ InSelect

SerialInv == PairInv /\ SerialState /\ NoCrossedAnswer

(* What a record does to the set of settled deliveries. *)
LEMMA SettledBy ==
  ASSUME NEW r \in Records, taskEnd \in Seq(Records),
         taskEnd' = Append(taskEnd, r), UNCHANGED lost, NEW t
  PROVE  Settled(t)' <=> \/ Settled(t)
                         \/ r.turn = t /\ r.kind \in {"done", "error"}
BY ReportedAppend DEF Settled

LEMMA SettledByTwo ==
  ASSUME NEW r \in Records, NEW q \in Records, taskEnd \in Seq(Records),
         taskEnd' = Append(Append(taskEnd, r), q), UNCHANGED lost, NEW t,
         r.kind \notin {"done", "error"}
  PROVE  Settled(t)' <=> \/ Settled(t)
                         \/ q.turn = t /\ q.kind \in {"done", "error"}
<1>1. Append(taskEnd, r) \in Seq(Records)
  BY AppendLines
<1>2. QED
  BY <1>1, ReportedAppend DEF Settled

(* The clauses are about the state of the loop, of the agent and of the    *)
(* pending deliveries only.                                                *)
LEMMA SerialFrame ==
  ASSUME SerialState, UNCHANGED <<claimed, inbox, active, acc, pc, child, stdout, prompts>>,
         \A t : Settled(t)' <=> Settled(t)
  PROVE  SerialState'
BY DEF SerialState, NewOnes, OnePending, InChannel, AtWork, InSession, InSelect, Pending

(* One step that is not the main loop's keeps the serial clauses. *)
LEMMA SerialEnvironment ==
  ASSUME SerialInv, ~overlapped',
         \/ \E t \in Deliveries : Claim(t)
         \/ AgentStep
         \/ Crash
  PROVE  SerialState'
<1>0. /\ stdout \in Seq(Lines) /\ taskEnd \in Seq(Records)
      /\ NoTurn \notin Deliveries /\ inbox \in Seq(Deliveries)
      /\ prompts \in [Deliveries -> {"none", "asked", "said", "over"}]
      /\ pc \in {"select", "session"} /\ claimed \subseteq Deliveries
      /\ active \in Deliveries \cup {NoTurn}
  BY FixletAssumption DEF SerialInv, PairInv, BaseInv, TypeOK, Lines, Records
<1>s. /\ asked => /\ pc = "session"
                  /\ \A i \in DOMAIN stdout : stdout[i].kind # "session"
      /\ SerialState
  BY DEF SerialInv, PairInv, BaseInv, OneSession
<1> USE DEF SerialState, Pending
<1>1. ASSUME NEW t \in Deliveries, Claim(t) PROVE SerialState'
  <2>1. \A u : ~Pending(u)
    BY <1>1 DEF Claim
  <2>2. inbox = <<>> /\ pc = "select" /\ active # t
    BY <1>0, <1>1, <1>s, <2>1 DEF Claim, InChannel, InSession
  <2>3. /\ claimed' = claimed \cup {t} /\ inbox' = <<t>>
        /\ UNCHANGED <<active, acc, pc, child, stdout, prompts>>
        /\ \A u : Settled(u)' <=> Settled(u)
    BY <1>1, <2>2 DEF Claim, loop, agent, Settled
  <2>4. prompts[t] = "none" /\ ~Settled(t)
    BY <1>1, <1>s DEF Claim, NewOnes
  <2>5. NewOnes' /\ OnePending'
    BY <1>s, <2>1, <2>3 DEF NewOnes, OnePending
  <2>6. InChannel'
    BY <1>s, <2>2, <2>3, <2>4 DEF InChannel
  <2>7. AtWork' /\ InSession' /\ InSelect'
    BY <1>s, <2>2, <2>3 DEF AtWork, InSession, InSelect
  <2>8. QED
    BY <2>5, <2>6, <2>7
<1>2. CASE OpenSession
  <2>1. pc = "session"
    BY <1>2, <1>s DEF OpenSession
  <2>2. Line("session", active) \in Lines
    BY <1>0, <2>1 DEF SerialInv, PairInv, BaseInv, OneSession, Lines, Line
  <2>3. /\ UNCHANGED <<claimed, inbox, active, acc, pc, child, prompts>>
        /\ \A u : Settled(u)' <=> Settled(u)
    BY <1>2 DEF OpenSession, Says, loop, Settled
  <2>4. \A i \in DOMAIN stdout' : stdout'[i].kind = "session" => i = Len(stdout')
    <3>1. stdout' = Append(stdout, Line("session", active))
      BY <1>2 DEF OpenSession, Says
    <3>2. \A i \in DOMAIN stdout : stdout[i].kind # "session"
      BY <1>2, <1>s DEF OpenSession
    <3>3. QED
      BY <1>0, <2>2, <3>1, <3>2, AppendLines
  <2>5. NewOnes' /\ OnePending' /\ InChannel'
    BY <1>s, <2>3 DEF NewOnes, OnePending, InChannel
  <2>6. AtWork' /\ InSession' /\ InSelect'
    BY <1>s, <2>1, <2>3, <2>4 DEF AtWork, InSession, InSelect
  <2>7. QED
    BY <2>5, <2>6
<1>3. CASE RefuseSession
  <2>1. pc = "session"
    BY <1>3, <1>s DEF RefuseSession
  <2>2. Line("error", active) \in Lines /\ Line("error", active).kind # "session"
    BY <1>0, <2>1 DEF SerialInv, PairInv, BaseInv, OneSession, Lines, Line
  <2>3. /\ UNCHANGED <<claimed, inbox, active, acc, pc, child, prompts>>
        /\ \A u : Settled(u)' <=> Settled(u)
    BY <1>3 DEF RefuseSession, Says, loop, Settled
  <2>4. \A i \in DOMAIN stdout' : stdout'[i].kind = "session" => i = Len(stdout')
    <3>1. stdout' = Append(stdout, Line("error", active))
      BY <1>3 DEF RefuseSession, Says
    <3>2. \A i \in DOMAIN stdout : stdout[i].kind # "session"
      BY <1>3, <1>s DEF RefuseSession
    <3>3. QED
      BY <1>0, <2>2, <3>1, <3>2, AppendLines
  <2>5. NewOnes' /\ OnePending' /\ InChannel'
    BY <1>s, <2>3 DEF NewOnes, OnePending, InChannel
  <2>6. AtWork' /\ InSession' /\ InSelect'
    BY <1>s, <2>1, <2>3, <2>4 DEF AtWork, InSession, InSelect
  <2>7. QED
    BY <2>5, <2>6
(* The three ways in which the agent goes on with a prompt. *)
<1>4. ASSUME NEW t \in Deliveries, NEW k, NEW p \in {"said", "over"},
             Says(Line(k, t)), k \in {"chunk", "final", "error", "stopped"},
             prompts[t] \in {"asked", "said"},
             prompts' = [prompts EXCEPT ![t] = p],
             k = "final" => p = "over",
             \/ lost' = lost
             \/ lost' = lost \cup {t} /\ p = "over"
      PROVE  SerialState'
  <2>1. t = active /\ pc = "select" /\ Pending(t) /\ child = "running"
    BY <1>4, <1>s DEF AtWork
  <2>2. inbox = <<>>
    BY <1>s, <2>1 DEF InChannel, OnePending
  <2>3. /\ UNCHANGED <<claimed, inbox, active, acc, pc, child, taskEnd>>
        /\ stdout' = Append(stdout, Line(k, t))
    BY <1>4 DEF Says, loop
  <2>4. /\ \A u : Settled(u) => Settled(u)'
        /\ \A u : u # t => (Settled(u)' <=> Settled(u))
        /\ p # "over" => (Settled(t)' <=> Settled(t))
    BY <1>4, <2>3 DEF Settled
  <2>5. /\ prompts'[t] = p
        /\ \A u \in Deliveries : u # t => prompts'[u] = prompts[u]
    BY <1>0, <1>4
  <2>6. Line(k, t) \in Lines /\ Line(k, t).turn = t /\ Line(k, t).kind = k
    BY <1>4 DEF Lines, Line
  <2>7. \A i \in DOMAIN stdout' :
          /\ stdout'[i].turn = active
          /\ stdout'[i].kind = "final" => prompts'[active] = "over"
    <3>1. \A i \in DOMAIN stdout : stdout[i].turn = active /\ stdout[i].kind # "final"
      BY <1>4, <1>s, <2>1 DEF InSelect
    <3>2. QED
      BY <1>0, <1>4, <2>1, <2>3, <2>5, <2>6, <3>1, AppendLines
  <2>8. NewOnes' /\ OnePending'
    BY <1>s, <2>1, <2>3, <2>4, <2>5 DEF NewOnes, OnePending
  <2>9. AtWork' /\ InChannel'
    BY <1>4, <1>s, <2>1, <2>2, <2>3, <2>4, <2>5 DEF AtWork, InChannel
  <2>10. InSession' /\ InSelect'
    BY <1>s, <2>1, <2>3, <2>7 DEF InSession, InSelect
  <2>11. QED
    BY <2>8, <2>9, <2>10
<1>5. ASSUME NEW t \in Deliveries, Speak(t) PROVE SerialState'
  BY <1>4, <1>5 DEF Speak
<1>6. ASSUME NEW t \in Deliveries, Answer(t) PROVE SerialState'
  BY <1>4, <1>6 DEF Answer, Working
<1>7. ASSUME NEW t \in Deliveries, GiveUp(t) PROVE SerialState'
  BY <1>4, <1>7 DEF GiveUp, Working
(* The agent or the fixlet ends: nothing is worked at any more. *)
<1>8. ASSUME prompts' = Over
      PROVE  \A t \in Deliveries : /\ prompts'[t] \notin {"asked", "said"}
                                   /\ prompts[t] = "none" => prompts'[t] = "none"
                                   /\ prompts[t] = "over" => prompts'[t] = "over"
  BY <1>8 DEF Over
<1>9. CASE Exit
  <2>1. /\ UNCHANGED <<claimed, inbox, active, acc, pc, stdout>>
        /\ \A u : Settled(u)' <=> Settled(u)
    BY <1>9 DEF Exit, loop, Settled
  <2>2. \A t \in Deliveries : /\ prompts'[t] \notin {"asked", "said"}
                              /\ prompts[t] = "none" => prompts'[t] = "none"
                              /\ prompts[t] = "over" => prompts'[t] = "over"
    BY <1>8, <1>9 DEF Exit
  <2>3. NewOnes' /\ OnePending'
    BY <1>s, <2>1, <2>2 DEF NewOnes, OnePending
  <2>4. InChannel' /\ AtWork'
    BY <1>s, <2>1, <2>2 DEF InChannel, AtWork
  <2>5. InSession'
    BY <1>0, <1>s, <2>1, <2>2 DEF InSession
  <2>6. InSelect'
    <3>1. stdout # <<>> => active \in Deliveries
      BY <1>9 DEF Exit, SerialInv, PairInv, BaseInv, StepKnown, OneSession, TypeOK
    <3>2. \A i \in DOMAIN stdout : active \in Deliveries
      BY <1>0, <3>1
    <3>3. QED
      BY <1>s, <2>1, <2>2, <3>2 DEF InSelect
  <2>7. QED
    BY <2>3, <2>4, <2>5, <2>6
<1>10. CASE Crash
  <2>1. /\ UNCHANGED <<claimed, taskEnd>> /\ inbox' = <<>>
        /\ active' = NoTurn /\ pc' = "select" /\ stdout' = <<>>
        /\ lost' = lost \cup {t \in claimed : ~ReportedIn(taskEnd, t)}
    BY <1>10 DEF Crash
  <2>2. /\ \A t \in claimed : Settled(t)'
        /\ \A t \in Deliveries : t \notin claimed => (Settled(t)' <=> Settled(t))
    BY <2>1 DEF Settled
  <2>3. \A t \in Deliveries : /\ prompts'[t] \notin {"asked", "said"}
                              /\ prompts[t] = "none" => prompts'[t] = "none"
    BY <1>8, <1>10 DEF Crash
  <2>4. NewOnes' /\ OnePending'
    BY <1>s, <2>1, <2>2, <2>3 DEF NewOnes, OnePending
  <2>5. InChannel' /\ AtWork' /\ InSession' /\ InSelect'
    BY <2>1, <2>3 DEF InChannel, AtWork, InSession, InSelect
  <2>6. QED
    BY <2>4, <2>5
<1>11. QED
  BY <1>1, <1>2, <1>3, <1>5, <1>6, <1>7, <1>9, <1>10 DEF AgentStep, AgentReply

(* A line that was read is about the active turn, and so are the others.   *)
LEMMA LineRead ==
  ASSUME SerialInv, NEW k, ReadLine(k)
  PROVE  /\ active \in Deliveries /\ Head(stdout).turn = active
         /\ Head(stdout).kind = k
         /\ k = "final" => prompts[active] = "over"
         /\ acc \subseteq {active}
         /\ \A i \in DOMAIN stdout' :
              /\ stdout'[i].turn = active
              /\ stdout'[i].kind = "final" => prompts[active] = "over"
<1>1. stdout \in Seq(Lines) /\ stdout # <<>> /\ pc = "select"
      /\ stdout' = Tail(stdout) /\ Head(stdout).kind = k
  BY DEF SerialInv, PairInv, BaseInv, TypeOK, Lines, ReadLine
<1>2. active \in Deliveries
  BY <1>1 DEF SerialInv, PairInv, StepKnown, BaseInv, TypeOK
<1>3. /\ \A i \in DOMAIN stdout :
           /\ stdout[i].turn = active
           /\ stdout[i].kind = "final" => prompts[active] = "over"
      /\ acc \subseteq {active}
  BY <1>1, <1>2, FixletAssumption DEF SerialInv, SerialState, InSelect
<1>4. QED
  BY <1>1, <1>2, <1>3, TailLines

(* One step of the main loop keeps the serial clauses. *)
LEMMA SerialLoop ==
  ASSUME SerialInv, LoopStep
  PROVE  SerialState'
<1>0. /\ stdout \in Seq(Lines) /\ taskEnd \in Seq(Records)
      /\ NoTurn \notin Deliveries /\ inbox \in Seq(Deliveries)
      /\ prompts \in [Deliveries -> {"none", "asked", "said", "over"}]
      /\ active \in Deliveries \cup {NoTurn} /\ TypeOK
  BY FixletAssumption DEF SerialInv, PairInv, BaseInv, TypeOK, Lines, Records
<1>s. /\ asked => /\ pc = "session"
                  /\ \A i \in DOMAIN stdout : stdout[i].kind # "session"
      /\ pc = "session" => active \in Deliveries /\ child # "none"
      /\ child = "none" => stdout = <<>>
      /\ SerialState
  BY DEF SerialInv, PairInv, BaseInv, OneSession, StepKnown, TypeOK
<1>r. \A t \in Deliveries, k \in {"llm_invoked", "llm_completed", "llm_failed", "error"} :
        Record(k, t) \in Records /\ Record(k, t).kind = k /\ Record(k, t).turn = t
  BY <1>0, RecordsType DEF Record
<1> USE DEF SerialState, Pending
<1>1. ASSUME NEW t \in Deliveries, Activate(t)
      PROVE  /\ pc = "select" /\ inbox = <<t>> /\ Pending(t)
             /\ t # active /\ prompts[t] = "none"
             /\ inbox' = <<>> /\ active' = t /\ acc' = {}
             /\ \A u \in Deliveries : prompts[u] \notin {"asked", "said"}
  <2>1. PICK u \in Deliveries : inbox = <<u>> /\ Pending(u)
                                /\ u # active /\ prompts[u] = "none"
    BY <1>1, <1>s DEF Activate, InChannel
  <2>2. u = t /\ Tail(inbox) = <<>>
    BY <1>1, <2>1 DEF Activate
  <2>3. \A v \in Deliveries : prompts[v] \notin {"asked", "said"}
    BY <1>s, <2>1 DEF AtWork, OnePending
  <2>4. QED
    BY <1>1, <2>1, <2>2, <2>3 DEF Activate, AccumulatorReset
<1>2. ASSUME NEW t \in Deliveries, TakeTurn(t) PROVE SerialState'
  <2>1. /\ UNCHANGED <<claimed, stdout, prompts>> /\ pc' = "session"
        /\ \A u : Settled(u)' <=> Settled(u)
        /\ Activate(t)
    BY <1>2 DEF TakeTurn, Settled
  <2>2. \A i \in DOMAIN stdout : stdout[i].kind # "session"
    BY <1>1, <2>1 DEF SerialInv, PairInv, BaseInv, OneSession
  <2>3. NewOnes' /\ OnePending'
    BY <1>s, <2>1 DEF NewOnes, OnePending
  <2>4. InChannel' /\ AtWork'
    BY <1>1, <2>1 DEF InChannel, AtWork
  <2>5. InSession' /\ InSelect'
    BY <1>1, <2>1, <2>2 DEF InSession, InSelect
  <2>6. QED
    BY <2>3, <2>4, <2>5
<1>3. ASSUME NEW t \in Deliveries, SpawnFailed(t) PROVE SerialState'
  <2>1. UNCHANGED <<claimed, stdout, prompts, pc>> /\ stdout = <<>> /\ Activate(t)
    BY <1>s, <1>3 DEF SpawnFailed, agent
  <2>2. \A u : Settled(u)' <=> Settled(u) \/ u = t
    BY <1>0, <1>r, <1>3, SettledBy DEF SpawnFailed
  <2>3. NewOnes' /\ OnePending'
    BY <1>1, <1>s, <2>1, <2>2 DEF NewOnes, OnePending
  <2>4. InChannel' /\ AtWork' /\ InSession' /\ InSelect'
    BY <1>1, <2>1 DEF InChannel, AtWork, InSession, InSelect
  <2>5. QED
    BY <2>3, <2>4
<1>4. CASE SessionReady
  <2>1. /\ UNCHANGED <<claimed, inbox, active, acc, child>>
        /\ pc = "session" /\ pc' = "select" /\ active \in Deliveries
    BY <1>s, <1>4 DEF SessionReady
  <2>2. \A u : Settled(u)' <=> Settled(u)
    BY <1>0, <1>r, <1>4, <2>1, SettledBy DEF SessionReady
  <2>3. stdout' = <<>>
    <3>1. Head(stdout) = stdout[1] /\ 1 \in DOMAIN stdout
      BY <1>0, <1>4, TailLines DEF SessionReady
    <3>2. Len(stdout) = 1
      BY <1>s, <1>4, <2>1, <3>1 DEF SessionReady, InSession
    <3>3. QED
      BY <1>0, <1>4, <3>2 DEF SessionReady
  <2>4. /\ Pending(active) /\ prompts[active] = "none"
        /\ inbox = <<>> /\ acc = {} /\ active \in claimed
    BY <1>s, <2>1 DEF InSession
  <2>5. /\ prompts'[active] = "asked" => child = "running"
        /\ \A u \in Deliveries : u # active => prompts'[u] = prompts[u]
    BY <1>0, <1>4, <2>4 DEF SessionReady
  <2>6. prompts'[active] \in {"none", "asked"}
    BY <1>0, <1>4, <2>1, <2>4 DEF SessionReady
  <2>7. NewOnes' /\ OnePending'
    BY <1>s, <2>1, <2>2, <2>4, <2>5 DEF NewOnes, OnePending
  <2>8. AtWork'
    <3>1. \A u \in Deliveries : prompts[u] \notin {"asked", "said"}
      BY <1>s, <2>1 DEF AtWork
    <3>2. SUFFICES ASSUME NEW u \in Deliveries, prompts'[u] \in {"asked", "said"}
                   PROVE  u = active' /\ pc' = "select" /\ child' = "running" /\ Pending(u)'
      BY DEF AtWork
    <3>3. u = active
      BY <2>5, <3>1, <3>2
    <3>4. QED
      BY <2>1, <2>2, <2>4, <2>5, <2>6, <3>2, <3>3
  <2>9. InChannel' /\ InSession' /\ InSelect'
    BY <2>1, <2>3, <2>4 DEF InChannel, InSession, InSelect
  <2>10. QED
    BY <2>7, <2>8, <2>9
<1>5. CASE LineSkipped
  <2>1. /\ UNCHANGED <<claimed, inbox, active, acc, pc, child, prompts>>
        /\ \A u : Settled(u)' <=> Settled(u)
        /\ pc = "session" /\ stdout # <<>> /\ stdout' = Tail(stdout)
    BY <1>5 DEF LineSkipped, loop, Settled
  <2>2. \A i \in DOMAIN stdout' : stdout'[i].kind = "session" => i = Len(stdout')
    <3>1. SUFFICES ASSUME NEW i \in DOMAIN stdout', stdout'[i].kind = "session"
                   PROVE  i = Len(stdout')
      OBVIOUS
    <3>2. i + 1 \in DOMAIN stdout /\ stdout'[i] = stdout[i + 1]
      BY <1>0, <2>1, TailLines
    <3>3. i + 1 = Len(stdout)
      BY <1>s, <2>1, <3>1, <3>2 DEF InSession
    <3>4. QED
      BY <1>0, <2>1, <3>3, TailLines
  <2>3. NewOnes' /\ OnePending' /\ InChannel' /\ AtWork'
    BY <1>s, <2>1 DEF NewOnes, OnePending, InChannel, AtWork
  <2>4. InSession' /\ InSelect'
    BY <1>s, <2>1, <2>2 DEF InSession, InSelect
  <2>5. QED
    BY <2>3, <2>4
<1>6. CASE SessionEof
  <2>1. /\ UNCHANGED <<claimed, inbox, active, acc, prompts>>
        /\ pc = "session" /\ pc' = "select" /\ stdout' = <<>>
        /\ active \in Deliveries
    BY <1>s, <1>6 DEF SessionEof
  <2>2. \A u : Settled(u)' <=> Settled(u) \/ u = active
    BY <1>0, <1>r, <1>6, <2>1, SettledBy DEF SessionEof, EofReported
  <2>3. Pending(active) /\ inbox = <<>> /\ acc = {}
    BY <1>s, <2>1 DEF InSession
  <2>4. NewOnes' /\ OnePending'
    BY <1>s, <2>1, <2>2, <2>3 DEF NewOnes, OnePending
  <2>5. InChannel' /\ AtWork'
    BY <1>s, <2>1, <2>3 DEF InChannel, AtWork
  <2>6. InSession' /\ InSelect'
    BY <2>1, <2>3 DEF InSession, InSelect
  <2>7. QED
    BY <2>4, <2>5, <2>6
<1>7. ASSUME NEW k, ReadLine(k), acc' \subseteq {active},
             \A u : Settled(u) => Settled(u)',
             \A u : u # active => (Settled(u)' <=> Settled(u)),
             prompts[active] = "over" \/ \A u : Settled(u)' <=> Settled(u)
      PROVE  SerialState'
  <2>1. /\ UNCHANGED <<claimed, inbox, active, pc, child, prompts>>
        /\ pc = "select" /\ active \in Deliveries
        /\ \A i \in DOMAIN stdout' :
             /\ stdout'[i].turn = active
             /\ stdout'[i].kind = "final" => prompts[active] = "over"
    BY <1>7, LineRead DEF ReadLine
  <2>2. active \in claimed
    BY <1>0, <1>s, <2>1 DEF InChannel
  <2>3. NewOnes' /\ OnePending'
    BY <1>7, <1>s, <2>1, <2>2 DEF NewOnes, OnePending
  <2>4. InChannel' /\ AtWork'
    BY <1>7, <1>s, <2>1 DEF InChannel, AtWork
  <2>5. InSession' /\ InSelect'
    BY <1>7, <2>1 DEF InSession, InSelect
  <2>6. QED
    BY <2>3, <2>4, <2>5
<1>8. CASE Chunk
  <2>1. ReadLine("chunk") /\ \A u : Settled(u)' <=> Settled(u)
    BY <1>8 DEF Chunk, ReadLine, Settled
  <2>2. acc' \subseteq {active}
    BY <1>8, <2>1, LineRead DEF Chunk
  <2>3. QED
    BY <1>7, <2>1, <2>2
<1>9. CASE FinalMessage
  <2>1. /\ ReadLine("final") /\ acc' = acc /\ active \in Deliveries
        /\ acc \subseteq {active} /\ prompts[active] = "over"
    BY <1>9, LineRead DEF FinalMessage
  <2>2. \A u : Settled(u)' <=> Settled(u) \/ u = active
    <3>1. /\ Done(active, Head(stdout).turn) \in Records
          /\ taskEnd' = Append(Append(taskEnd, Record("llm_completed", active)),
                               Done(active, Head(stdout).turn))
      BY <1>9, EndsInPairs DEF SerialInv
    <3>2. /\ Done(active, Head(stdout).turn).turn = active
          /\ Done(active, Head(stdout).turn).kind = "done"
      BY DEF Done
    <3>3. UNCHANGED lost
      BY <1>9 DEF FinalMessage, ReadLine
    <3>4. /\ Record("llm_completed", active) \in Records
          /\ Record("llm_completed", active).kind \notin {"done", "error"}
      BY <1>r, <2>1
    <3>5. QED
      BY <1>0, <3>1, <3>2, <3>3, <3>4, SettledByTwo
  <2>3. QED
    BY <1>7, <2>1, <2>2
<1>10. CASE AgentError
  <2>1. ReadLine("error") /\ acc' \subseteq {active} /\ UNCHANGED lost
    BY <1>10, LineRead DEF AgentError, ReadLine
  <2>2. \A u : Settled(u)' <=> Settled(u)
    <3>1. active \in Deliveries /\ taskEnd' = Append(taskEnd, Record("llm_failed", active))
      BY <1>10, EndsInPairs DEF SerialInv
    <3>2. QED
      BY <1>0, <1>r, <2>1, <3>1, SettledBy
  <2>3. QED
    BY <1>7, <2>1, <2>2
<1>11. CASE Ignored
  <2>1. ReadLine("stopped") /\ acc' \subseteq {active}
        /\ \A u : Settled(u)' <=> Settled(u)
    BY <1>11, LineRead DEF Ignored, ReadLine, Settled
  <2>2. QED
    BY <1>7, <2>1
<1>12. CASE ExitSeen
  <2>1. /\ UNCHANGED <<claimed, inbox, acc, pc, prompts, lost>>
        /\ pc = "select" /\ child = "exited"
        /\ active' = NoTurn /\ stdout' = <<>>
    BY <1>12 DEF ExitSeen
  <2>2. active \in Deliveries /\ \A u : Settled(u)' <=> Settled(u) \/ u = active
    <3>1. /\ active \in Deliveries
          /\ taskEnd' = Append(Append(taskEnd, Record("llm_failed", active)),
                               Record("error", active))
      BY <1>12, EndsInPairs DEF SerialInv
    <3>2. /\ Record("llm_failed", active) \in Records
          /\ Record("llm_failed", active).kind \notin {"done", "error"}
          /\ Record("error", active) \in Records
          /\ Record("error", active).kind = "error"
          /\ Record("error", active).turn = active
      BY <1>r, <3>1
    <3>3. QED
      BY <1>0, <2>1, <3>1, <3>2, SettledByTwo
  <2>3. active \in claimed
    BY <1>0, <1>s, <2>2 DEF InChannel
  <2>4. NewOnes' /\ OnePending'
    BY <1>s, <2>1, <2>2, <2>3 DEF NewOnes, OnePending
  <2>5. InChannel'
    BY <1>0, <1>s, <2>1, <2>2 DEF InChannel
  <2>6. AtWork' /\ InSession' /\ InSelect'
    BY <1>s, <2>1 DEF AtWork, InSession, InSelect
  <2>7. QED
    BY <2>4, <2>5, <2>6
<1>13. QED
  BY <1>2, <1>3, <1>4, <1>5, <1>6, <1>8, <1>9, <1>10, <1>11, <1>12 DEF LoopStep

(* One step keeps every done record the turn's own. *)
LEMMA OwnNext ==
  ASSUME SerialInv, [Next]_vars
  PROVE  NoCrossedAnswer'
<1> DEFINE Own(log) == \A i \in DOMAIN log :
                          log[i].kind = "done" =>
                            log[i].by = log[i].turn /\ log[i].text \subseteq {log[i].turn}
<1> DEFINE Adds(r) == /\ r \in Records /\ taskEnd' = Append(taskEnd, r)
                      /\ r.kind # "done"
<1>0. taskEnd \in Seq(Records) /\ Own(taskEnd) /\ TypeOK
  BY DEF SerialInv, PairInv, BaseInv, TypeOK, Records, NoCrossedAnswer
<1>r. \A t \in Deliveries, k \in {"llm_invoked", "llm_completed", "llm_failed", "error"} :
        Record(k, t) \in Records /\ Record(k, t).kind = k
  BY <1>0, RecordsType DEF Record
<1>1. ASSUME NEW log \in Seq(Records), Own(log), NEW r \in Records,
             r.kind = "done" => r.by = r.turn /\ r.text \subseteq {r.turn}
      PROVE  Own(Append(log, r)) /\ Append(log, r) \in Seq(Records)
  <2>1. /\ DOMAIN Append(log, r) = 1 .. Len(log) + 1 /\ Len(log) \in Nat
        /\ DOMAIN log = 1 .. Len(log) /\ Append(log, r)[Len(log) + 1] = r
        /\ \A i \in DOMAIN log : Append(log, r)[i] = log[i]
        /\ Append(log, r) \in Seq(Records)
    BY AppendLines
  <2>2. \A i \in DOMAIN Append(log, r) : i \in DOMAIN log \/ i = Len(log) + 1
    BY <2>1
  <2>3. QED
    BY <1>1, <2>1, <2>2
<1> HIDE DEF Own
<1>2. Own(taskEnd') => NoCrossedAnswer'
  BY DEF Own, NoCrossedAnswer
<1>3. ASSUME NEW r, Adds(r) PROVE NoCrossedAnswer'
  BY <1>0, <1>1, <1>2, <1>3
<1>4. CASE UNCHANGED taskEnd
  BY <1>0, <1>2, <1>4
<1>s. pc = "session" => active \in Deliveries
  BY DEF SerialInv, PairInv, BaseInv, OneSession, TypeOK
<1>5. ASSUME NEW t \in Deliveries, SpawnFailed(t) PROVE NoCrossedAnswer'
  BY <1>3, <1>5, <1>r DEF SpawnFailed
<1>6. CASE SessionReady
  BY <1>3, <1>6, <1>r, <1>s DEF SessionReady
<1>7. CASE SessionEof
  BY <1>3, <1>7, <1>r, <1>s DEF SessionEof, EofReported
<1>8. CASE AgentError
  <2>1. active \in Deliveries /\ taskEnd' = Append(taskEnd, Record("llm_failed", active))
    BY <1>8, EndsInPairs DEF SerialInv
  <2>2. QED
    BY <1>3, <1>r, <2>1
<1>9. CASE ExitSeen
  <2> DEFINE mid == Append(taskEnd, Record("llm_failed", active))
  <2>1. active \in Deliveries /\ taskEnd' = Append(mid, Record("error", active))
    BY <1>9, EndsInPairs DEF SerialInv
  <2>2. mid \in Seq(Records) /\ Own(mid)
    BY <1>0, <1>1, <1>r, <2>1
  <2>3. QED
    BY <1>1, <1>2, <1>r, <2>1, <2>2
<1>10. CASE FinalMessage
  <2> DEFINE mid == Append(taskEnd, Record("llm_completed", active))
  <2> DEFINE d == Done(active, Head(stdout).turn)
  <2>1. active \in Deliveries /\ d \in Records /\ taskEnd' = Append(mid, d)
    BY <1>10, EndsInPairs DEF SerialInv
  <2>2. Head(stdout).turn = active /\ acc \subseteq {active}
    BY <1>10, LineRead DEF FinalMessage
  <2>3. d.by = d.turn /\ d.text \subseteq {d.turn}
    BY <2>2 DEF Done
  <2>4. mid \in Seq(Records) /\ Own(mid)
    BY <1>0, <1>1, <1>r, <2>1
  <2>5. QED
    BY <1>1, <1>2, <2>1, <2>3, <2>4
<1>11. ASSUME NEW t \in Deliveries, Claim(t) \/ TakeTurn(t) PROVE NoCrossedAnswer'
  BY <1>4, <1>11 DEF Claim, TakeTurn
<1>12. CASE LineSkipped \/ Chunk \/ Ignored \/ Exit \/ Crash \/ UNCHANGED vars
  BY <1>4, <1>12 DEF LineSkipped, Chunk, Ignored, Exit, Crash, vars
<1>13. ASSUME NEW l, Says(l) PROVE NoCrossedAnswer'
  BY <1>4, <1>13 DEF Says
<1>14. QED
  BY <1>5, <1>6, <1>7, <1>8, <1>9, <1>10, <1>11, <1>12, <1>13
     DEF Next, LoopStep, AgentStep, AgentReply, OpenSession, RefuseSession,
         Speak, Answer, GiveUp

(* Claims that overlapped stay so in the history. *)
LEMMA OverlapStays ==
  ASSUME [Next]_vars, overlapped
  PROVE  overlapped'
<1>1. CASE UNCHANGED overlapped
  BY <1>1
<1>2. ASSUME NEW t \in Deliveries, Claim(t) PROVE overlapped'
  BY <1>2 DEF Claim
<1>3. ASSUME NEW k, ReadLine(k) PROVE overlapped' = overlapped
  BY <1>3 DEF ReadLine
<1>4. CASE LoopStep \/ AgentStep \/ Crash \/ UNCHANGED vars
  BY <1>1, <1>3, <1>4
     DEF LoopStep, AgentStep, AgentReply, TakeTurn, SpawnFailed, SessionReady,
         LineSkipped, SessionEof, Chunk, FinalMessage, AgentError, Ignored,
         ExitSeen, OpenSession, RefuseSession, Speak, Answer, GiveUp, Exit,
         Crash, vars
<1>5. QED
  BY <1>2, <1>4 DEF Next

(* The answer of a turn is its own, for every number of deliveries and     *)
(* whatever fails, also when deliveries come at any time: as long as no    *)
(* claim overlapped an earlier delivery, every done record is of its own   *)
(* prompt and text.  Process, pipes and accumulator are reused after       *)
(* failures, their lines do not know the turn, and still an overlap of     *)
(* claims is the one way to mix reports up.                                *)
THEOREM AnswersAreOwn == Spec => []OwnAnswer
<1> DEFINE IInv == PairInv /\ (~overlapped => SerialInv)
<1>1. Init => IInv
  <2>1. Init => PairInv
    BY BaseInit DEF Init, PairInv, StepKnown, DonePaired
  <2>2. Init => SerialState /\ NoCrossedAnswer
    BY DEF Init, SerialState, NewOnes, OnePending, InChannel, AtWork,
           InSession, InSelect, NoCrossedAnswer, Pending, Settled, ReportedIn
  <2>3. QED
    BY <2>1, <2>2 DEF SerialInv
<1>2. IInv /\ [Next]_vars => IInv'
  <2> SUFFICES ASSUME IInv, [Next]_vars
               PROVE  IInv'
    OBVIOUS
  <2>1. PairInv'
    BY TypeNext, SessionNext, PairNext DEF PairInv, BaseInv
  <2>2. ASSUME ~overlapped' PROVE SerialInv'
    <3>1. SerialInv
      BY <2>2, OverlapStays
    <3>2. SerialState'
      <4>1. CASE UNCHANGED vars
        BY <3>1, <4>1, SerialFrame DEF vars, loop, agent, SerialInv, Settled
      <4>2. CASE Next
        BY <2>2, <3>1, <4>2, SerialLoop, SerialEnvironment DEF Next
      <4>3. QED
        BY <4>1, <4>2
    <3>3. QED
      BY <2>1, <3>1, <3>2, OwnNext DEF SerialInv
  <2>3. QED
    BY <2>1, <2>2
<1>3. IInv => OwnAnswer
  BY DEF SerialInv, OwnAnswer
<1>4. QED
  BY <1>1, <1>2, <1>3, PTL DEF Spec

=============================================================================
