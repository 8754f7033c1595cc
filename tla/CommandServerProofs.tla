------------------------ MODULE CommandServerProofs ------------------------
(* Theorems about CommandServer, for every set of requests and workers. *)
EXTENDS CommandServer, SequenceTheorems, FiniteSetTheorems, TLAPS

-----------------------------------------------------------------------------
(* Types *)

LEMMA StepIn ==
  /\ "idle" \in Steps /\ "queued" \in Steps /\ "throw" \in Steps
  /\ "construct" \in Steps /\ "swap_load" \in Steps /\ "swap_store" \in Steps
  /\ "swap_delete" \in Steps /\ "zero" \in Steps /\ "inc_load" \in Steps
  /\ "inc_store" \in Steps /\ "set_count" \in Steps /\ "send_load" \in Steps
  /\ "send_call" \in Steps /\ "get_load" \in Steps /\ "get_memset" \in Steps
  /\ "get_recv" \in Steps /\ "get_copy" \in Steps /\ "done" \in Steps
  BY DEF Steps, DerefSteps

LEMMA BodyIn ==
  /\ "none" \in Bodies /\ "Index" \in Bodies /\ "Command" \in Bodies
  /\ "500" \in Bodies /\ "reset" \in Bodies /\ "Driving" \in Bodies
  /\ "Sleeping" \in Bodies /\ "Bad Command" \in Bodies
  /\ "Bad Command Packet" \in Bodies /\ "Telemetry" \in Bodies
  /\ "No telemetry" \in Bodies /\ "Bad Telemetry Packet" \in Bodies
  BY DEF Bodies

\* The steps of "/telecommand" and "/telemetry_request".
CommandSteps == {"inc_load", "inc_store", "set_count", "send_load", "send_call",
                 "get_load", "get_memset", "get_recv", "get_copy"}

LEMMA ZeroBufferIn == ZeroBuffer \in Reply
  BY DEF ZeroBuffer, Reply

LEMMA AnswerOne ==
  ASSUME NEW r \in Requests, NEW b, Answer(r, <<b>>)
  PROVE  out' = [out EXCEPT ![r] = b] /\ pc' = [pc EXCEPT ![r] = "done"]
  BY DEF Answer, Goto

LEMMA AnswerTwo ==
  ASSUME NEW r \in Requests, NEW b, NEW c, Answer(r, <<b, c>>)
  PROVE  out' = [out EXCEPT ![r] = b] /\ pc' = [pc EXCEPT ![r] = "done"]
  BY DEF Answer, Goto

\* What the statements after GetData do, case by case.
LEMMA AfterReplyEffect ==
  ASSUME NEW r \in Requests, NEW m \in Reply, AfterReply(r, m)
  PROVE  /\ kind[r] # "telemetry" =>
              /\ pc' = [pc EXCEPT ![r] = "done"]
              /\ out' = [out EXCEPT ![r] = IF m.ack THEN CreateResponseMessage(kind[r])
                                           ELSE "Bad Command Packet"]
         /\ (kind[r] = "telemetry" /\ read[r] # <<>>) =>
              /\ pc' = [pc EXCEPT ![r] = "done"]
              /\ out' = [out EXCEPT ![r] = GetTelemetryData(m)]
         /\ (kind[r] = "telemetry" /\ read[r] = <<>> /\ m.ack) =>
              pc' = [pc EXCEPT ![r] = "get_load"] /\ out' = out
         /\ (kind[r] = "telemetry" /\ read[r] = <<>> /\ ~m.ack) =>
              /\ pc' = [pc EXCEPT ![r] = "done"]
              /\ out' = [out EXCEPT ![r] = "Bad Telemetry Packet"]
  <1>0. m.ack \in BOOLEAN
    BY DEF Reply
  <1>1. CASE kind[r] # "telemetry" /\ m.ack
    <2>1. Answer(r, <<CreateResponseMessage(kind[r]), "Bad Command Packet">>)
      BY <1>1 DEF AfterReply
    <2>2. QED
      BY <1>1, <2>1, AnswerTwo
  <1>2. CASE kind[r] # "telemetry" /\ ~m.ack
    <2>1. Answer(r, <<"Bad Command Packet">>)
      BY <1>2 DEF AfterReply
    <2>2. QED
      BY <1>2, <2>1, AnswerOne
  <1>3. CASE kind[r] = "telemetry" /\ read[r] # <<>>
    <2>1. Answer(r, <<GetTelemetryData(m), "Bad Telemetry Packet">>)
      BY <1>3 DEF AfterReply
    <2>2. QED
      BY <1>3, <2>1, AnswerTwo
  <1>4. CASE kind[r] = "telemetry" /\ read[r] = <<>> /\ m.ack
    BY <1>4 DEF AfterReply, Goto
  <1>5. CASE kind[r] = "telemetry" /\ read[r] = <<>> /\ ~m.ack
    <2>1. Answer(r, <<"Bad Telemetry Packet">>)
      BY <1>5 DEF AfterReply
    <2>2. QED
      BY <1>5, <2>1, AnswerOne
  <1>6. QED
    BY <1>0, <1>1, <1>2, <1>3, <1>4, <1>5

LEMMA AfterReplyType ==
  ASSUME NEW r \in Requests, NEW m \in Reply, AfterReply(r, m),
         pc \in [Requests -> Steps], out \in [Requests -> Bodies]
  PROVE  pc' \in [Requests -> Steps] /\ out' \in [Requests -> Bodies]
  <1>1. CreateResponseMessage(kind[r]) \in Bodies /\ GetTelemetryData(m) \in Bodies
    BY BodyIn DEF CreateResponseMessage, GetTelemetryData
  <1>2. m.ack \in BOOLEAN
    BY DEF Reply
  <1>3. CASE kind[r] # "telemetry"
    <2>1. (IF m.ack THEN CreateResponseMessage(kind[r]) ELSE "Bad Command Packet") \in Bodies
      BY <1>1, BodyIn
    <2>2. QED
      BY <1>3, <2>1, AfterReplyEffect, StepIn
  <1>4. CASE kind[r] = "telemetry" /\ read[r] # <<>>
    <2>1. /\ pc' = [pc EXCEPT ![r] = "done"]
          /\ out' = [out EXCEPT ![r] = GetTelemetryData(m)]
      BY <1>4, AfterReplyEffect
    <2>2. QED
      BY <1>1, <2>1, StepIn
  <1>5. CASE kind[r] = "telemetry" /\ read[r] = <<>> /\ m.ack
    BY <1>5, AfterReplyEffect, StepIn
  <1>6. CASE kind[r] = "telemetry" /\ read[r] = <<>> /\ ~m.ack
    BY <1>6, AfterReplyEffect, StepIn, BodyIn
  <1>7. QED
    BY <1>2, <1>3, <1>4, <1>5, <1>6

LEMMA ArriveType ==
  ASSUME TypeOK, NEW r \in Requests, NEW o \in Requests, NEW m \in Reply,
         Arrive(r, o, m)
  PROVE  rx' \in [Requests -> Seq(Reply)] /\ lost' \subseteq Requests
  <1>1. rx[o] \in Seq(Reply)
    BY DEF TypeOK
  <1>2. Append(rx[o], m) \in Seq(Reply)
    BY <1>1
  <1>3. rx' \in [Requests -> Seq(Reply)]
    BY <1>2 DEF TypeOK, Arrive
  <1>4. lost' \subseteq Requests
    BY DEF TypeOK, Arrive
  <1>5. QED
    BY <1>3, <1>4

-----------------------------------------------------------------------------
(* Types and control *)

\* A handler is only at the steps of the route it serves.
ControlOf(r) ==
  /\ At(r, "idle") <=> kind[r] = "none"
  /\ At(r, "throw") => kind[r] = "malformed"
  /\ At(r, "construct") => kind[r] = "connect"
  /\ At(r, "zero") => kind[r] = "index"
  /\ pc[r] \in {"swap_load", "swap_store", "swap_delete"} => kind[r] \in PageKinds
  /\ pc[r] \in CommandSteps => kind[r] \in CommandKinds
  /\ pc[r] \in {"get_recv", "get_copy"} => ptr[r] # Null

Control == \A r \in Requests : ControlOf(r)

LEMMA InitTyped == Init => TypeOK /\ Control
  <1> SUFFICES ASSUME Init PROVE TypeOK /\ Control
    OBVIOUS
  <1>1. TypeOK
    <2>1. <<>> \in Seq(Reply)
      OBVIOUS
    <2>2. {} \subseteq Packet
      OBVIOUS
    <2>3. QED
      BY <2>1, <2>2, StepIn, BodyIn, ZeroBufferIn DEF Init, TypeOK
  <1>2. Control
    BY DEF Init, Control, ControlOf, At, CommandSteps
  <1>3. QED
    BY <1>1, <1>2

LEMMA StepTypeOK == TypeOK /\ Control /\ [Next]_vars => TypeOK'
  <1> SUFFICES ASSUME TypeOK, Control, [Next]_vars PROVE TypeOK'
    OBVIOUS
  <1> USE DEF TypeOK, Goto, shared, net, local, asked
  <1>1. ASSUME NEW r \in Requests, Issue(r) PROVE TypeOK'
    <2>1. PICK k \in Kinds, w \in Workers :
            kind' = [kind EXCEPT ![r] = k] /\ on' = [on EXCEPT ![r] = w]
      BY <1>1 DEF Issue
    <2>2. k \in AllKinds
      BY ServerAssumption
    <2>3. QED
      BY <1>1, <2>1, <2>2, StepIn DEF Issue
  <1>2. ASSUME NEW r \in Requests, Dispatch(r) PROVE TypeOK'
    <2>1. kind[r] \in AllKinds
      BY <1>2 DEF Dispatch, Control, ControlOf, At
    <2>2. FirstStep(kind[r]) \in Steps
      BY <2>1, StepIn DEF FirstStep, AllKinds, CommandKinds, PageKinds
    <2>3. QED
      BY <1>2, <2>2 DEF Dispatch
  <1>3. ASSUME NEW r \in Requests, Throw(r) PROVE TypeOK'
    <2>1. out' = [out EXCEPT ![r] = "500"] /\ pc' = [pc EXCEPT ![r] = "done"]
      BY <1>3 DEF Throw, Answer
    <2>2. QED
      BY <1>3, <2>1, StepIn, BodyIn DEF Throw
  <1>4. ASSUME NEW r \in Requests, Construct(r) PROVE TypeOK'
    BY <1>4, StepIn DEF Construct
  <1>5. ASSUME NEW r \in Requests, ConstructThrows(r) PROVE TypeOK'
    <2>1. out' = [out EXCEPT ![r] = "Index"] /\ pc' = [pc EXCEPT ![r] = "done"]
      BY <1>5 DEF ConstructThrows, Answer
    <2>2. QED
      BY <1>5, <2>1, StepIn, BodyIn DEF ConstructThrows
  <1>6. ASSUME NEW r \in Requests, SwapLoad(r) PROVE TypeOK'
    BY <1>6, StepIn DEF SwapLoad
  <1>7. ASSUME NEW r \in Requests, SwapStore(r) PROVE TypeOK'
    BY <1>7, StepIn DEF SwapStore
  <1>8. ASSUME NEW r \in Requests, SwapDelete(r) PROVE TypeOK'
    <2>1. pc' \in [Requests -> Steps] /\ out' \in [Requests -> Bodies]
      <3>1. CASE kind[r] = "connect"
        <4>1. out' = [out EXCEPT ![r] = "Command"] /\ pc' = [pc EXCEPT ![r] = "done"]
          BY <1>8, <3>1 DEF SwapDelete, Answer
        <4>2. QED
          BY <4>1, StepIn, BodyIn
      <3>2. CASE kind[r] # "connect"
        <4>1. out' = out /\ pc' = [pc EXCEPT ![r] = "zero"]
          BY <1>8, <3>2 DEF SwapDelete
        <4>2. QED
          BY <4>1, StepIn
      <3>3. QED
        BY <3>1, <3>2
    <2>2. heap' \in [Requests -> {"none", "live", "deleted"}]
      <3>1. CASE ptr[r] = Null
        BY <1>8, <3>1 DEF SwapDelete
      <3>2. CASE ptr[r] # Null
        BY <1>8, <3>2 DEF SwapDelete
      <3>3. QED
        BY <3>1, <3>2
    <2>3. QED
      BY <1>8, <2>1, <2>2 DEF SwapDelete
  <1>9. ASSUME NEW r \in Requests, ZeroCounter(r) PROVE TypeOK'
    <2>1. out' = [out EXCEPT ![r] = "Index"] /\ pc' = [pc EXCEPT ![r] = "done"]
      BY <1>9 DEF ZeroCounter, Answer
    <2>2. QED
      BY <1>9, <2>1, StepIn, BodyIn DEF ZeroCounter
  <1>10. ASSUME NEW r \in Requests, IncLoad(r) PROVE TypeOK'
    BY <1>10, StepIn DEF IncLoad
  <1>11. ASSUME NEW r \in Requests, IncStore(r) PROVE TypeOK'
    <2>1. cnt[r] + 1 \in Nat
      OBVIOUS
    <2>2. QED
      BY <1>11, <2>1, StepIn DEF IncStore
  <1>12. ASSUME NEW r \in Requests, SetPktCount(r) PROVE TypeOK'
    <2>1. packetCounter % PktCountMod \in Nat
      BY DEF PktCountMod
    <2>2. QED
      BY <1>12, <2>1, StepIn DEF SetPktCount
  <1>13. ASSUME NEW r \in Requests, SendLoad(r) PROVE TypeOK'
    BY <1>13, StepIn DEF SendLoad
  <1>14. ASSUME NEW r \in Requests, SendCall(r) PROVE TypeOK'
    <2> DEFINE p == [of |-> r, src |-> ptr[r], cmd |-> getCommandType(kind[r])]
    <2>1. p \in Packet
      BY <1>14 DEF SendCall, Packet, getCommandType
    <2> HIDE DEF p
    <2>2. air' \subseteq Packet /\ lost' \subseteq Requests
      BY <1>14, <2>1 DEF SendCall, p
    <2>3. QED
      BY <1>14, <2>2, StepIn DEF SendCall
  <1>15. ASSUME NEW r \in Requests, GetLoad(r) PROVE TypeOK'
    BY <1>15, StepIn DEF GetLoad
  <1>16. ASSUME NEW r \in Requests, GetMemset(r) PROVE TypeOK'
    BY <1>16, ZeroBufferIn, StepIn DEF GetMemset
  <1>17. ASSUME NEW r \in Requests, GetRecv(r) PROVE TypeOK'
    <2>1. ptr[r] \in Requests /\ rx[ptr[r]] \in Seq(Reply) /\ rx[ptr[r]] # <<>>
      BY <1>17 DEF GetRecv
    <2>2. Head(rx[ptr[r]]) \in Reply /\ Tail(rx[ptr[r]]) \in Seq(Reply)
      BY <2>1
    <2>3. Buffer' \in [Requests -> Reply] /\ rx' \in [Requests -> Seq(Reply)]
      BY <1>17, <2>1, <2>2 DEF GetRecv
    <2>4. QED
      BY <1>17, <2>3, StepIn DEF GetRecv
  <1>18. ASSUME NEW r \in Requests, GetCopy(r) PROVE TypeOK'
    <2>1. ptr[r] \in Requests
      BY <1>18 DEF GetCopy, Control, ControlOf, At
    <2>2. read' \in [Requests -> Seq(Reply)]
      BY <1>18, <2>1 DEF GetCopy
    <2>3. AfterReply(r, Buffer[ptr[r]]) /\ Buffer[ptr[r]] \in Reply
      BY <1>18, <2>1 DEF GetCopy
    <2>4. pc' \in [Requests -> Steps] /\ out' \in [Requests -> Bodies]
      BY <2>3, AfterReplyType
    <2>5. QED
      BY <1>18, <2>2, <2>4 DEF GetCopy
  <1>19. ASSUME NEW r \in Requests, Crash(r) PROVE TypeOK'
    <2>1. rx' \in [Requests -> Seq(Reply)] /\ read' \in [Requests -> Seq(Reply)]
      BY <1>19 DEF Crash
    <2>2. pc' \in [Requests -> Steps] /\ out' \in [Requests -> Bodies]
      BY <1>19, StepIn, BodyIn DEF Crash
    <2>3. Buffer' \in [Requests -> Reply]
      BY <1>19, ZeroBufferIn DEF Crash
    <2>4. QED
      BY <1>19, <2>1, <2>2, <2>3 DEF Crash
  <1>20. ASSUME NEW p \in air, RobotAnswers(p) PROVE TypeOK'
    <2>1. p \in Packet /\ p.of \in Requests /\ p.src \in Requests
      BY DEF Packet
    <2>2. PICK v \in Verdicts :
            /\ verdict' = [verdict EXCEPT ![p.of] = v]
            /\ Arrive(p.of, p.src, [of |-> p.of, ack |-> v = "ack", tele |-> FALSE])
            /\ due' = IF v = "ack" /\ p.cmd = "RESPONSE" THEN due \cup {p} ELSE due
      BY <1>20 DEF RobotAnswers
    <2>3. [of |-> p.of, ack |-> v = "ack", tele |-> FALSE] \in Reply
      BY <2>1 DEF Reply
    <2>4. rx' \in [Requests -> Seq(Reply)] /\ lost' \subseteq Requests
      BY <2>1, <2>2, <2>3, ArriveType
    <2>5. verdict' \in [Requests -> {"none", "ack", "nack"}] /\ due' \subseteq Packet
      BY <2>1, <2>2, ServerAssumption
    <2>6. QED
      BY <1>20, <2>4, <2>5 DEF RobotAnswers
  <1>21. ASSUME NEW p \in due, RobotTelemetry(p) PROVE TypeOK'
    <2>1. p \in Packet /\ p.of \in Requests /\ p.src \in Requests
      BY DEF Packet
    <2>2. PICK a \in BOOLEAN :
            Arrive(p.of, p.src, [of |-> p.of, ack |-> a, tele |-> TRUE])
      BY <1>21 DEF RobotTelemetry
    <2>3. [of |-> p.of, ack |-> a, tele |-> TRUE] \in Reply
      BY <2>1 DEF Reply
    <2>4. rx' \in [Requests -> Seq(Reply)] /\ lost' \subseteq Requests
      BY <2>1, <2>2, <2>3, ArriveType
    <2>5. QED
      BY <1>21, <2>4 DEF RobotTelemetry
  <1>22. CASE UNCHANGED vars
    BY <1>22 DEF vars
  <1> QED
    BY <1>1, <1>2, <1>3, <1>4, <1>5, <1>6, <1>7, <1>8, <1>9, <1>10, <1>11,
       <1>12, <1>13, <1>14, <1>15, <1>16, <1>17, <1>18, <1>19, <1>20, <1>21,
       <1>22
    DEF Next, Handler, Robot

LEMMA StepControl == TypeOK /\ Control /\ [Next]_vars => Control'
  <1> SUFFICES ASSUME TypeOK, Control, [Next]_vars, NEW q \in Requests
               PROVE  ControlOf(q)'
    BY DEF Control
  <1> USE DEF Control, ControlOf, CommandSteps, PageKinds, TelecommandKinds,
             CommandKinds, AllKinds, At, Goto
  <1>1. ASSUME NEW r \in Requests, Issue(r) PROVE ControlOf(q)'
    <2>1. PICK k \in Kinds : kind' = [kind EXCEPT ![r] = k]
      BY <1>1 DEF Issue
    <2>2. k \in AllKinds
      BY ServerAssumption
    <2>3. pc[r] = "idle" /\ pc' = [pc EXCEPT ![r] = "queued"] /\ ptr' = ptr
      BY <1>1 DEF Issue, local
    <2>4. QED
      BY <2>1, <2>2, <2>3 DEF TypeOK
  <1>2. ASSUME NEW r \in Requests, Dispatch(r) PROVE ControlOf(q)'
    <2>1. kind[r] \in AllKinds /\ kind' = kind /\ ptr' = ptr
      BY <1>2 DEF Dispatch, TypeOK, asked, local
    <2>2. pc' = [pc EXCEPT ![r] = FirstStep(kind[r])]
      BY <1>2 DEF Dispatch
    <2>3. CASE kind[r] = "index"
      BY <2>1, <2>2, <2>3 DEF TypeOK, FirstStep
    <2>4. CASE kind[r] = "connect"
      BY <2>1, <2>2, <2>4 DEF TypeOK, FirstStep
    <2>5. CASE kind[r] \in CommandKinds
      <3>1. FirstStep(kind[r]) = "inc_load"
        BY <2>5 DEF FirstStep
      <3>2. QED
        BY <2>1, <2>2, <2>5, <3>1 DEF TypeOK
    <2>6. CASE kind[r] = "malformed"
      BY <2>1, <2>2, <2>6 DEF TypeOK, FirstStep
    <2>7. QED
      BY <2>1, <2>3, <2>4, <2>5, <2>6 DEF AllKinds, PageKinds
  <1>3. ASSUME NEW r \in Requests, Throw(r) PROVE ControlOf(q)'
    BY <1>3 DEF Throw, Answer, TypeOK, asked, local
  <1>4. ASSUME NEW r \in Requests, Construct(r) PROVE ControlOf(q)'
    BY <1>4 DEF Construct, TypeOK, asked, local
  <1>5. ASSUME NEW r \in Requests, ConstructThrows(r) PROVE ControlOf(q)'
    BY <1>5 DEF ConstructThrows, Answer, TypeOK, asked, local
  <1>6. ASSUME NEW r \in Requests, SwapLoad(r) PROVE ControlOf(q)'
    BY <1>6 DEF SwapLoad, TypeOK, asked, local
  <1>7. ASSUME NEW r \in Requests, SwapStore(r) PROVE ControlOf(q)'
    BY <1>7 DEF SwapStore, TypeOK, asked, local
  <1>8. ASSUME NEW r \in Requests, SwapDelete(r) PROVE ControlOf(q)'
    BY <1>8 DEF SwapDelete, Answer, TypeOK, asked, local
  <1>9. ASSUME NEW r \in Requests, ZeroCounter(r) PROVE ControlOf(q)'
    BY <1>9 DEF ZeroCounter, Answer, TypeOK, asked, local
  <1>10. ASSUME NEW r \in Requests, IncLoad(r) PROVE ControlOf(q)'
    BY <1>10 DEF IncLoad, TypeOK, asked, local
  <1>11. ASSUME NEW r \in Requests, IncStore(r) PROVE ControlOf(q)'
    BY <1>11 DEF IncStore, TypeOK, asked, local
  <1>12. ASSUME NEW r \in Requests, SetPktCount(r) PROVE ControlOf(q)'
    BY <1>12 DEF SetPktCount, TypeOK, asked, local
  <1>13. ASSUME NEW r \in Requests, SendLoad(r) PROVE ControlOf(q)'
    BY <1>13 DEF SendLoad, TypeOK, asked, local
  <1>14. ASSUME NEW r \in Requests, SendCall(r) PROVE ControlOf(q)'
    BY <1>14 DEF SendCall, TypeOK, asked, local
  <1>15. ASSUME NEW r \in Requests, GetLoad(r) PROVE ControlOf(q)'
    BY <1>15 DEF GetLoad, TypeOK, asked, local
  <1>16. ASSUME NEW r \in Requests, GetMemset(r) PROVE ControlOf(q)'
    BY <1>16 DEF GetMemset, TypeOK, asked, local
  <1>17. ASSUME NEW r \in Requests, GetRecv(r) PROVE ControlOf(q)'
    BY <1>17 DEF GetRecv, TypeOK, asked, local
  <1>18. ASSUME NEW r \in Requests, GetCopy(r) PROVE ControlOf(q)'
    <2>1. kind' = kind /\ ptr' = ptr /\ pc[r] = "get_copy"
      BY <1>18 DEF GetCopy, asked
    <2>2. AfterReply(r, Buffer[ptr[r]]) /\ Buffer[ptr[r]] \in Reply
      BY <1>18, <2>1 DEF GetCopy, TypeOK
    <2>3. pc' = [pc EXCEPT ![r] = "get_load"] \/ pc' = [pc EXCEPT ![r] = "done"]
      BY <2>2, AfterReplyEffect
    <2>4. pc[r] \in CommandSteps /\ kind[r] \in CommandKinds
      BY <2>1
    <2>5. QED
      BY <2>1, <2>3, <2>4 DEF TypeOK
  <1>19. ASSUME NEW r \in Requests, Crash(r) PROVE ControlOf(q)'
    BY <1>19 DEF Crash, Outstanding, TypeOK, asked, local
  <1>20. ASSUME NEW p \in air, RobotAnswers(p) PROVE ControlOf(q)'
    BY <1>20 DEF RobotAnswers, asked, local
  <1>21. ASSUME NEW p \in due, RobotTelemetry(p) PROVE ControlOf(q)'
    BY <1>21 DEF RobotTelemetry, asked, local
  <1>22. CASE UNCHANGED vars
    BY <1>22 DEF vars, asked, local
  <1> QED
    BY <1>1, <1>2, <1>3, <1>4, <1>5, <1>6, <1>7, <1>8, <1>9, <1>10, <1>11,
       <1>12, <1>13, <1>14, <1>15, <1>16, <1>17, <1>18, <1>19, <1>20, <1>21, <1>22
    DEF Next, Handler, Robot

\* Every reachable state is well typed: the type invariant of CommandServer.
THEOREM TypeCorrect == Spec => []TypeOK
  <1>1. Init => TypeOK /\ Control
    BY InitTyped
  <1>2. TypeOK /\ Control /\ [Next]_vars => (TypeOK /\ Control)'
    BY StepTypeOK, StepControl
  <1>3. QED
    BY <1>1, <1>2, PTL DEF Spec

-----------------------------------------------------------------------------
(* The life of the MySocket object that every handler shares, as long as  *)
(* the pages "/" and "/connect" are only asked for when no other request  *)
(* is being served.                                                       *)


\* A request for a page is alone.
PagesAlone ==
  \A q, r \in Requests :
    (q # r /\ Outstanding(q) /\ Outstanding(r)) => kind[q] \notin PageKinds

\* Where the handler of r has got to says which objects it may hold.
LifeOf(r) ==
  /\ pc[r] \in DerefSteps => ptr[r] = clientSocket
  /\ kind[r] # "connect" => heap[r] = "none"
  /\ pc[r] \in {"idle", "queued", "construct"} => heap[r] = "none"
  /\ (pc[r] \in {"swap_load", "swap_store"} /\ kind[r] = "connect") =>
        heap[r] = "live" /\ clientSocket # r
  /\ At(r, "swap_store") => ptr[r] = clientSocket
  /\ At(r, "swap_delete") =>
        /\ clientSocket = IF kind[r] = "connect" THEN r ELSE Null
        /\ ptr[r] # r
        /\ ptr[r] # Null => heap[ptr[r]] = "live"

Life == (\A r \in Requests : LifeOf(r)) /\ Owned

LInv == TypeOK /\ Control /\ PagesAlone /\ Life

-----------------------------------------------------------------------------

LEMMA InitLInv == Init => LInv
  <1> SUFFICES ASSUME Init PROVE PagesAlone /\ Life
    BY InitTyped DEF LInv
  <1>1. PagesAlone
    BY DEF Init, PagesAlone, Outstanding
  <1>2. ASSUME NEW r \in Requests PROVE LifeOf(r)
    BY DEF Init, LifeOf, At, DerefSteps
  <1>3. Owned
    BY ServerAssumption DEF Init, Owned
  <1>4. QED
    BY <1>1, <1>2, <1>3 DEF Life

\* No step but Issue makes a request outstanding or changes what it asks for.
LEMMA StepKind ==
  ASSUME TypeOK, NEW r \in Requests, Handler(r) \/ Robot(r)
  PROVE  /\ kind' = kind
         /\ \A q \in Requests : Outstanding(q)' => Outstanding(q)
  <1> USE DEF TypeOK, Goto, At, asked, Outstanding
  <1>1. CASE Dispatch(r)
    BY <1>1 DEF Dispatch
  <1>2. CASE Throw(r)
    BY <1>2 DEF Throw, Answer
  <1>3. CASE Construct(r)
    BY <1>3 DEF Construct
  <1>4. CASE ConstructThrows(r)
    BY <1>4 DEF ConstructThrows, Answer
  <1>5. CASE SwapLoad(r)
    BY <1>5 DEF SwapLoad
  <1>6. CASE SwapStore(r)
    BY <1>6 DEF SwapStore
  <1>7. CASE SwapDelete(r)
    BY <1>7 DEF SwapDelete, Answer
  <1>8. CASE ZeroCounter(r)
    BY <1>8 DEF ZeroCounter, Answer
  <1>9. CASE IncLoad(r)
    BY <1>9 DEF IncLoad
  <1>10. CASE IncStore(r)
    BY <1>10 DEF IncStore
  <1>11. CASE SetPktCount(r)
    BY <1>11 DEF SetPktCount
  <1>12. CASE SendLoad(r)
    BY <1>12 DEF SendLoad
  <1>13. CASE SendCall(r)
    BY <1>13 DEF SendCall
  <1>14. CASE GetLoad(r)
    BY <1>14 DEF GetLoad
  <1>15. CASE GetMemset(r)
    BY <1>15 DEF GetMemset
  <1>16. CASE GetRecv(r)
    BY <1>16 DEF GetRecv
  <1>17. CASE GetCopy(r)
    BY <1>17 DEF GetCopy, AfterReply, Answer
  <1>18. CASE Crash(r)
    BY <1>18 DEF Crash
  <1>19. CASE Robot(r)
    BY <1>19 DEF Robot, RobotAnswers, RobotTelemetry
  <1> QED
    BY <1>1, <1>2, <1>3, <1>4, <1>5, <1>6, <1>7, <1>8, <1>9, <1>10, <1>11,
       <1>12, <1>13, <1>14, <1>15, <1>16, <1>17, <1>18, <1>19 DEF Handler

LEMMA StepPagesAlone ==
  ASSUME Discipline # "free", TypeOK, Control, PagesAlone, [Next]_vars
  PROVE  PagesAlone'
  <1>1. ASSUME NEW r \in Requests, Issue(r) PROVE PagesAlone'
    <2>1. PICK k \in Kinds : MayIssue(k) /\ kind' = [kind EXCEPT ![r] = k]
      BY <1>1 DEF Issue
    <2>2. pc' = [pc EXCEPT ![r] = "queued"] /\ ~Outstanding(r)
      BY <1>1 DEF Issue, Goto, At, Outstanding
    <2>3. CASE Quiet
      BY <2>1, <2>2, <2>3 DEF PagesAlone, Quiet, Outstanding, TypeOK
    <2>4. CASE /\ k \notin PageKinds
               /\ \A q \in Requests : Outstanding(q) => kind[q] \notin PageKinds
      BY <2>1, <2>2, <2>4 DEF PagesAlone, Outstanding, TypeOK
    <2>5. QED
      BY <2>1, <2>3, <2>4 DEF MayIssue
  <1>2. ASSUME NEW r \in Requests, Handler(r) \/ Robot(r) PROVE PagesAlone'
    BY <1>2, StepKind DEF PagesAlone
  <1>3. CASE UNCHANGED vars
    BY <1>3 DEF vars, asked, PagesAlone, Outstanding
  <1>4. QED
    BY <1>1, <1>2, <1>3 DEF Next

\* While a page is being served every other request is idle or done.
LEMMA PageServedAlone ==
  ASSUME PagesAlone, NEW r \in Requests, kind[r] \in PageKinds, Outstanding(r)
  PROVE  \A q \in Requests : q # r => pc[q] \in {"idle", "done"}
  BY DEF PagesAlone, Outstanding

\* The steps that leave the objects and the pointer to them alone keep Life
\* when the step they lead to has nothing to say about them.
LEMMA CommandStepLife ==
  ASSUME TypeOK, Control, Life, NEW r \in Requests,
         clientSocket' = clientSocket, heap' = heap, kind' = kind,
         pc[r] \in CommandSteps,
         \E l \in CommandSteps \cup {"done"} : pc' = [pc EXCEPT ![r] = l],
         \A q \in Requests : q # r => ptr'[q] = ptr[q],
         pc'[r] \in DerefSteps => ptr'[r] = clientSocket
  PROVE  Life'
  <1> USE DEF TypeOK, At, CommandSteps, DerefSteps
  <1>1. \A q \in Requests : q # r => pc'[q] = pc[q]
    OBVIOUS
  <1>2. pc'[r] \in CommandSteps \cup {"done"}
    OBVIOUS
  <1>3. ASSUME NEW q \in Requests PROVE LifeOf(q)'
    <2>1. LifeOf(q)
      BY DEF Life
    <2>2. CASE q = r
      BY <1>2, <2>1, <2>2 DEF LifeOf
    <2>3. CASE q # r
      BY <1>1, <2>1, <2>3 DEF LifeOf
    <2>4. QED
      BY <2>2, <2>3
  <1>4. Owned'
    <2>1. \A q \in Requests : At(q, "swap_delete") => At(q, "swap_delete")' /\ ptr'[q] = ptr[q]
      BY <1>1
    <2>2. \A q \in Requests : pc[q] \in {"swap_load", "swap_store"} => pc'[q] = pc[q]
      BY <1>1
    <2>3. ASSUME NEW o \in Requests, heap[o] = "live"
          PROVE  \/ clientSocket' = o
                 \/ pc'[o] \in {"swap_load", "swap_store"} /\ kind'[o] = "connect"
                 \/ \E q \in Requests : pc'[q] = "swap_delete" /\ ptr'[q] = o
      <3>1. CASE clientSocket = o
        BY <3>1
      <3>2. CASE pc[o] \in {"swap_load", "swap_store"} /\ kind[o] = "connect"
        BY <3>2, <2>2
      <3>3. CASE \E q \in Requests : At(q, "swap_delete") /\ ptr[q] = o
        BY <3>3, <2>1
      <3>4. QED
        BY <2>3, <3>1, <3>2, <3>3 DEF Life, Owned
    <2>4. ASSUME NEW o \in Requests, clientSocket = o PROVE heap[o] = "live"
      BY <2>4 DEF Life, Owned
    <2>5. QED
      BY <2>3, <2>4 DEF Owned
  <1>5. QED
    BY <1>3, <1>4 DEF Life

LEMMA StepLife ==
  ASSUME Discipline # "free", LInv, [Next]_vars
  PROVE  Life'
  <1> USE DEF LInv
  <1>a. TypeOK /\ Control /\ PagesAlone /\ Life
    OBVIOUS
  <1> USE DEF At, Goto, shared, net, local, asked
  <1>1. ASSUME NEW r \in Requests, Issue(r) PROVE Life'
    <2>1. clientSocket' = clientSocket /\ heap' = heap /\ ptr' = ptr
      BY <1>1 DEF Issue
    <2>2. pc' = [pc EXCEPT ![r] = "queued"] /\ pc[r] = "idle"
      BY <1>1 DEF Issue
    <2>3. \A q \in Requests : q # r => kind'[q] = kind[q]
      BY <1>1 DEF Issue, TypeOK
    <2>4. QED
      BY <2>1, <2>2, <2>3 DEF Life, LifeOf, Owned, TypeOK, DerefSteps
  <1>2. ASSUME NEW r \in Requests, Dispatch(r) PROVE Life'
    <2>1. clientSocket' = clientSocket /\ heap' = heap /\ ptr' = ptr /\ kind' = kind
      BY <1>2 DEF Dispatch
    <2>2. pc' = [pc EXCEPT ![r] = FirstStep(kind[r])] /\ pc[r] = "queued"
      BY <1>2 DEF Dispatch
    <2>3. FirstStep(kind[r]) \in {"swap_load", "construct", "inc_load", "throw"}
          /\ (kind[r] = "connect" => FirstStep(kind[r]) = "construct")
      BY <2>2 DEF FirstStep, Control, ControlOf, TypeOK, AllKinds, PageKinds, CommandKinds,
             TelecommandKinds
    <2>4. QED
      BY <2>1, <2>2, <2>3 DEF Life, LifeOf, Owned, TypeOK, DerefSteps
  <1>3. ASSUME NEW r \in Requests, Throw(r) PROVE Life'
    BY <1>3 DEF Throw, Answer, Life, LifeOf, Owned, TypeOK, DerefSteps
  <1>4. ASSUME NEW r \in Requests, Construct(r) PROVE Life'
    <2>1. kind[r] = "connect" /\ pc[r] = "construct"
      BY <1>4 DEF Construct, Control, ControlOf
    <2>2. \A q \in Requests : q # r => pc[q] \in {"idle", "done"}
      BY <2>1, PageServedAlone DEF PageKinds, Outstanding
    <2>3. heap' = [heap EXCEPT ![r] = "live"] /\ clientSocket' = clientSocket
          /\ ptr' = ptr /\ kind' = kind /\ pc' = [pc EXCEPT ![r] = "swap_load"]
      BY <1>4 DEF Construct
    <2>4. heap[r] = "none" /\ clientSocket # r
      BY <2>1 DEF Life, LifeOf, Owned
    <2>5. ASSUME NEW q \in Requests PROVE LifeOf(q)'
      BY <2>1, <2>2, <2>3, <2>4 DEF Life, LifeOf, TypeOK, DerefSteps
    <2>6. Owned'
      BY <2>1, <2>2, <2>3, <2>4 DEF Life, Owned, TypeOK
    <2>7. QED
      BY <2>5, <2>6 DEF Life
  <1>5. ASSUME NEW r \in Requests, ConstructThrows(r) PROVE Life'
    BY <1>5 DEF ConstructThrows, Answer, Life, LifeOf, Owned, TypeOK, DerefSteps
  <1>6. ASSUME NEW r \in Requests, SwapLoad(r) PROVE Life'
    BY <1>6 DEF SwapLoad, Life, LifeOf, Owned, TypeOK, DerefSteps
  <1>7. ASSUME NEW r \in Requests, SwapStore(r) PROVE Life'
    <2>1. kind[r] \in PageKinds /\ pc[r] = "swap_store" /\ ptr[r] = clientSocket
      BY <1>7 DEF SwapStore, Control, ControlOf, Life, LifeOf
    <2>2. \A q \in Requests : q # r => pc[q] \in {"idle", "done"}
      BY <2>1, PageServedAlone DEF PageKinds, Outstanding
    <2>3. heap' = heap /\ clientSocket' = (IF kind[r] = "connect" THEN r ELSE Null)
          /\ ptr' = ptr /\ kind' = kind /\ pc' = [pc EXCEPT ![r] = "swap_delete"]
      BY <1>7 DEF SwapStore
    <2>4. (kind[r] = "connect" => heap[r] = "live") /\ ptr[r] # r
          /\ (clientSocket # Null => heap[clientSocket] = "live")
      BY <2>1, ServerAssumption DEF Life, LifeOf, Owned, TypeOK
    <2>5. ASSUME NEW q \in Requests PROVE LifeOf(q)'
      BY <2>1, <2>2, <2>3, <2>4 DEF Life, LifeOf, TypeOK, DerefSteps
    <2>6. Owned'
      BY <2>1, <2>2, <2>3, <2>4, ServerAssumption DEF Life, Owned, TypeOK
    <2>7. QED
      BY <2>5, <2>6 DEF Life
  <1>8. ASSUME NEW r \in Requests, SwapDelete(r) PROVE Life'
    <2>1. kind[r] \in PageKinds /\ pc[r] = "swap_delete"
      BY <1>8 DEF SwapDelete, Control, ControlOf
    <2>2. \A q \in Requests : q # r => pc[q] \in {"idle", "done"}
      BY <2>1, PageServedAlone DEF PageKinds, Outstanding
    <2>3. clientSocket' = clientSocket /\ ptr' = ptr /\ kind' = kind
          /\ heap' = IF ptr[r] = Null THEN heap ELSE [heap EXCEPT ![ptr[r]] = "deleted"]
      BY <1>8 DEF SwapDelete
    <2>4. pc' = [pc EXCEPT ![r] = "done"] \/ pc' = [pc EXCEPT ![r] = "zero"]
      BY <1>8 DEF SwapDelete, Answer
    <2>5. /\ clientSocket = IF kind[r] = "connect" THEN r ELSE Null
          /\ ptr[r] # r
          /\ ptr[r] # Null => heap[ptr[r]] = "live"
      BY <2>1 DEF Life, LifeOf
    <2>6. ASSUME NEW q \in Requests PROVE LifeOf(q)'
      BY <2>1, <2>2, <2>3, <2>4, <2>5 DEF Life, LifeOf, TypeOK, DerefSteps
    <2>7. Owned'
      BY <2>1, <2>2, <2>3, <2>4, <2>5, ServerAssumption DEF Life, Owned, TypeOK
    <2>8. QED
      BY <2>6, <2>7 DEF Life
  <1>9. ASSUME NEW r \in Requests, ZeroCounter(r) PROVE Life'
    BY <1>9 DEF ZeroCounter, Answer, Life, LifeOf, Owned, TypeOK, DerefSteps
  <1>10. ASSUME NEW r \in Requests, IncLoad(r) PROVE Life'
    BY <1>10, CommandStepLife DEF IncLoad, CommandSteps, DerefSteps, TypeOK
  <1>11. ASSUME NEW r \in Requests, IncStore(r) PROVE Life'
    BY <1>11, CommandStepLife DEF IncStore, CommandSteps, DerefSteps, TypeOK
  <1>12. ASSUME NEW r \in Requests, SetPktCount(r) PROVE Life'
    BY <1>12, CommandStepLife DEF SetPktCount, CommandSteps, DerefSteps, TypeOK
  <1>13. ASSUME NEW r \in Requests, SendLoad(r) PROVE Life'
    BY <1>13, CommandStepLife DEF SendLoad, CommandSteps, DerefSteps, TypeOK
  <1>14. ASSUME NEW r \in Requests, SendCall(r) PROVE Life'
    BY <1>14, CommandStepLife DEF SendCall, CommandSteps, DerefSteps, TypeOK
  <1>15. ASSUME NEW r \in Requests, GetLoad(r) PROVE Life'
    BY <1>15, CommandStepLife DEF GetLoad, CommandSteps, DerefSteps, TypeOK
  <1>16. ASSUME NEW r \in Requests, GetMemset(r) PROVE Life'
    <2>1. ptr[r] = clientSocket
      BY <1>16 DEF GetMemset, Life, LifeOf, DerefSteps
    <2>2. QED
      BY <1>16, <2>1, CommandStepLife DEF GetMemset, CommandSteps, DerefSteps, TypeOK
  <1>17. ASSUME NEW r \in Requests, GetRecv(r) PROVE Life'
    <2>1. ptr[r] = clientSocket
      BY <1>17 DEF GetRecv, Life, LifeOf, DerefSteps
    <2>2. QED
      BY <1>17, <2>1, CommandStepLife DEF GetRecv, CommandSteps, DerefSteps, TypeOK
  <1>18. ASSUME NEW r \in Requests, GetCopy(r) PROVE Life'
    <2>1. pc[r] = "get_copy" /\ ptr[r] \in Requests
      BY <1>18 DEF GetCopy, Control, ControlOf, TypeOK
    <2>2. AfterReply(r, Buffer[ptr[r]]) /\ Buffer[ptr[r]] \in Reply
      BY <1>18, <2>1 DEF GetCopy, TypeOK
    <2>3. pc' = [pc EXCEPT ![r] = "get_load"] \/ pc' = [pc EXCEPT ![r] = "done"]
      BY <2>2, AfterReplyEffect
    <2>4. QED
      BY <1>18, <2>1, <2>3, CommandStepLife DEF GetCopy, CommandSteps, DerefSteps, TypeOK
  <1>19. ASSUME NEW r \in Requests, Crash(r) PROVE Life'
    <2>1. clientSocket' = Null /\ heap' = [o \in Requests |-> "none"]
      BY <1>19 DEF Crash
    <2>2. \A q \in Requests : pc'[q] \in {"idle", "done"}
      BY <1>19 DEF Crash, Outstanding, TypeOK
    <2>3. QED
      BY <2>1, <2>2, ServerAssumption DEF Life, LifeOf, Owned, DerefSteps
  <1>20. ASSUME NEW r \in Requests, Robot(r) PROVE Life'
    BY <1>20 DEF Robot, RobotAnswers, RobotTelemetry, Life, LifeOf, Owned
  <1>21. CASE UNCHANGED vars
    BY <1>21 DEF vars, Life, LifeOf, Owned
  <1> QED
    BY <1>1, <1>2, <1>3, <1>4, <1>5, <1>6, <1>7, <1>8, <1>9, <1>10, <1>11,
       <1>12, <1>13, <1>14, <1>15, <1>16, <1>17, <1>18, <1>19, <1>20, <1>21
    DEF Next, Handler

-----------------------------------------------------------------------------

LEMMA LInvSafe == LInv => NoUseAfterDelete /\ Owned /\ FaultsOnlyUnconnected
  <1> SUFFICES ASSUME LInv PROVE NoUseAfterDelete /\ FaultsOnlyUnconnected
    BY DEF LInv, Life
  <1> USE DEF LInv, Life, LifeOf, At
  <1>1. NoUseAfterDelete
    BY DEF NoUseAfterDelete, Owned, TypeOK
  <1>2. FaultsOnlyUnconnected
    BY DEF FaultsOnlyUnconnected, Faults, Owned, TypeOK, DerefSteps
  <1>3. QED
    BY <1>1, <1>2

LEMMA LifetimeInvariant ==
  ASSUME Discipline # "free"
  PROVE  Spec => []LInv
  <1>1. Init => LInv
    BY InitLInv
  <1>2. LInv /\ [Next]_vars => LInv'
    BY StepTypeOK, StepControl, StepPagesAlone, StepLife DEF LInv
  <1>3. QED
    BY <1>1, <1>2, PTL DEF Spec

\* As long as pages are asked for alone, no handler ever touches a deleted MySocket
\* object, however the commands overlap.
THEOREM LifetimeCorrect ==
  ASSUME Discipline # "free"
  PROVE  Spec => []NoUseAfterDelete
  BY LifetimeInvariant, LInvSafe, PTL

\* In the same setting replacing the unique_ptr neither leaks an object nor leaves a
\* dead one in it.
THEOREM NoObjectLeaks ==
  ASSUME Discipline # "free"
  PROVE  Spec => []Owned
  BY LifetimeInvariant, LInvSafe, PTL

\* In the same setting the process dies only under a command that finds no connected
\* socket: none since "/" or since the restart, or one without a descriptor.
THEOREM DeathsFindNoSocket ==
  ASSUME Discipline # "free"
  PROVE  Spec => []FaultsOnlyUnconnected
  BY LifetimeInvariant, LInvSafe, PTL

-----------------------------------------------------------------------------
(***************************************************************************)
(* One browser that waits for each answer: every reply that is read is the *)
(* reply to the reader's own command, and the packet counts are distinct,  *)
(* whatever the network loses.  If it loses nothing, the server provides   *)
(* CommandService.  All of this for every number of requests, workers and  *)
(* descriptors and whatever the robot answers.                             *)
(***************************************************************************)
\* The setting: a command that is neither "drive" nor "sleep" is left out,
\* since its unread telemetry packet answers the next command.
SerialSetting == Discipline = "one" /\ "other" \notin Kinds

\* The replies the robot sends to the command of r.
Ack(r)     == [of |-> r, ack |-> TRUE,  tele |-> FALSE]
Nack(r)    == [of |-> r, ack |-> FALSE, tele |-> FALSE]
Tele(r, a) == [of |-> r, ack |-> a,     tele |-> TRUE]

\* The command packet of r, sent from the only socket there is.
Command(r) == [of |-> r, src |-> clientSocket, cmd |-> getCommandType(kind[r])]

\* What the handler of r has not read yet: between recvfrom and memcpy the
\* next reply is in Buffer, before that it is in the socket's queue.
UnreadNone(r) == ~At(r, "get_copy") /\ rx[clientSocket] = <<>>
UnreadOne(r, m) ==
  \/ ~At(r, "get_copy") /\ rx[clientSocket] = <<m>>
  \/ At(r, "get_copy") /\ Buffer[clientSocket] = m /\ rx[clientSocket] = <<>>
UnreadTwo(r, m, t) ==
  \/ ~At(r, "get_copy") /\ rx[clientSocket] = <<m, t>>
  \/ At(r, "get_copy") /\ Buffer[clientSocket] = m /\ rx[clientSocket] = <<t>>

\* The stages of the conversation with the robot about the command of r.
Unsent(r) ==
  /\ clientSocket \notin fds /\ verdict[r] = "none"
  /\ air = {} /\ due = {} /\ read[r] = <<>> /\ UnreadNone(r)
Asked(r) ==
  /\ clientSocket \in fds /\ verdict[r] = "none"
  /\ air = {Command(r)} /\ due = {} /\ read[r] = <<>> /\ UnreadNone(r)
Refused(r) ==
  /\ clientSocket \in fds /\ verdict[r] = "nack"
  /\ air = {} /\ due = {} /\ read[r] = <<>> /\ UnreadOne(r, Nack(r))
Acked(r) ==
  /\ clientSocket \in fds /\ verdict[r] = "ack" /\ kind[r] # "telemetry"
  /\ air = {} /\ due = {} /\ read[r] = <<>> /\ UnreadOne(r, Ack(r))
Owed(r) ==
  /\ clientSocket \in fds /\ verdict[r] = "ack" /\ kind[r] = "telemetry"
  /\ air = {} /\ due = {Command(r)}
  /\ \/ read[r] = <<>> /\ UnreadOne(r, Ack(r))
     \/ read[r] = <<Ack(r)>> /\ UnreadNone(r)
Paid(r) ==
  /\ clientSocket \in fds /\ verdict[r] = "ack" /\ kind[r] = "telemetry"
  /\ air = {} /\ due = {}
  /\ \E a \in BOOLEAN :
       \/ read[r] = <<>> /\ UnreadTwo(r, Ack(r), Tele(r, a))
       \/ read[r] = <<Ack(r)>> /\ UnreadOne(r, Tele(r, a))

\* The stages after the network has lost a datagram of the command of r: the command
\* or the whole answer, the acknowledgement of a status command before its telemetry,
\* or one of the two replies to it.
Unheard(r) ==
  /\ r \in lost /\ (clientSocket \notin fds => verdict[r] = "none")
  /\ air = {} /\ due = {} /\ read[r] = <<>> /\ UnreadNone(r)
OwedAlone(r) ==
  /\ r \in lost /\ clientSocket \in fds /\ verdict[r] = "ack" /\ kind[r] = "telemetry"
  /\ air = {} /\ due = {Command(r)} /\ read[r] = <<>> /\ UnreadNone(r)
PaidInPart(r) ==
  /\ r \in lost /\ clientSocket \in fds /\ verdict[r] = "ack" /\ kind[r] = "telemetry"
  /\ air = {} /\ due = {}
  /\ \E m \in Reply :
       /\ m.of = r
       /\ \/ read[r] = <<>> /\ UnreadOne(r, m)
          \/ read[r] = <<m>> /\ UnreadNone(r)

Waiting(r) == pc[r] \in {"get_load", "get_memset", "get_recv", "get_copy"}

Talk(r) ==
  /\ clientSocket # Null
  /\ \A o \in Requests : o # clientSocket => rx[o] = <<>>
  /\ \/ Unsent(r) \/ Asked(r) \/ Refused(r) \/ Acked(r) \/ Owed(r) \/ Paid(r)
     \/ Unheard(r) \/ OwedAlone(r) \/ PaidInPart(r)

Silent == air = {} /\ due = {} /\ \A o \in Requests : rx[o] = <<>>

OneAtATime == \A q, r \in Requests : (Outstanding(q) /\ Outstanding(r)) => q = r

SerialOf(r) ==
  /\ kind[r] # "other"
  /\ out[r] = "none" <=> ~At(r, "done")
  /\ (~Waiting(r) /\ ~At(r, "done")) => verdict[r] = "none" /\ read[r] = <<>>
  /\ Waiting(r) => Talk(r)
  /\ \A i \in 1..Len(read[r]) : read[r][i].of = r
  /\ out[r] \in {"Driving", "Sleeping"} => verdict[r] = "ack"

Serial ==
  /\ \A r \in Requests : SerialOf(r)
  /\ (\A r \in Requests : ~Waiting(r)) => Silent
  /\ Lossy \/ lost = {}

SInv == LInv /\ OneAtATime /\ Serial

-----------------------------------------------------------------------------

LEMMA InitSInv == SerialSetting /\ Init => SInv
  <1> SUFFICES ASSUME SerialSetting, Init PROVE OneAtATime /\ Serial
    BY InitLInv DEF SInv
  <1>1. OneAtATime
    BY DEF Init, OneAtATime, Outstanding
  <1>2. ASSUME NEW r \in Requests PROVE SerialOf(r)
    BY DEF Init, SerialOf, At, Waiting
  <1>3. Silent
    BY DEF Init, Silent
  <1>4. QED
    BY <1>1, <1>2, <1>3 DEF Init, Serial

LEMMA StepOneAtATime ==
  ASSUME Discipline = "one", TypeOK, OneAtATime, [Next]_vars
  PROVE  OneAtATime'
  <1>1. ASSUME NEW r \in Requests, Issue(r) PROVE OneAtATime'
    <2>1. Quiet
      BY <1>1 DEF Issue, MayIssue
    <2>2. pc' = [pc EXCEPT ![r] = "queued"]
      BY <1>1 DEF Issue, Goto
    <2>3. QED
      BY <2>1, <2>2 DEF OneAtATime, Quiet, Outstanding, TypeOK
  <1>2. ASSUME NEW r \in Requests, Handler(r) \/ Robot(r) PROVE OneAtATime'
    BY <1>2, StepKind DEF OneAtATime
  <1>3. CASE UNCHANGED vars
    BY <1>3 DEF vars, OneAtATime, Outstanding
  <1>4. QED
    BY <1>1, <1>2, <1>3 DEF Next

\* While a request is being served every other one is idle or done, and the
\* network is silent until its command is sent.
LEMMA ServedAlone ==
  ASSUME OneAtATime, Serial, NEW r \in Requests, Outstanding(r)
  PROVE  /\ \A q \in Requests : q # r => pc[q] \in {"idle", "done"}
         /\ ~Waiting(r) => Silent
  <1>1. \A q \in Requests : q # r => pc[q] \in {"idle", "done"}
    BY DEF OneAtATime, Outstanding
  <1>2. ~Waiting(r) => Silent
    BY <1>1 DEF Serial, Waiting
  <1>3. QED
    BY <1>1, <1>2

\* A step of a handler that is not waiting, to a step that does not wait.
LEMMA LocalStepSerial ==
  ASSUME TypeOK, Serial, Silent, NEW r \in Requests, ~Waiting(r),
         \A q \in Requests : q # r => pc[q] \in {"idle", "done"},
         ~At(r, "done"),
         NEW l \in Steps, pc' = [pc EXCEPT ![r] = l],
         l \notin {"get_load", "get_memset", "get_recv", "get_copy"},
         \A q \in Requests : kind'[q] # "other",
         \A q \in Requests : q # r => out'[q] = out[q],
         out'[r] = "none" <=> l # "done", out'[r] \notin {"Driving", "Sleeping"},
         air' = air, due' = due, rx' = rx, verdict' = verdict, read' = read, lost' = lost
  PROVE  Serial'
  <1> USE DEF TypeOK, At, Waiting
  <1>1. pc'[r] = l /\ \A q \in Requests : q # r => pc'[q] = pc[q]
    OBVIOUS
  <1>2. \A q \in Requests : ~Waiting(q)'
    BY <1>1
  <1>3. ASSUME NEW q \in Requests PROVE SerialOf(q)'
    <2>1. SerialOf(q)
      BY DEF Serial
    <2>2. CASE q = r
      BY <1>1, <1>2, <2>1, <2>2 DEF SerialOf
    <2>3. CASE q # r
      BY <1>1, <1>2, <2>1, <2>3 DEF SerialOf
    <2>4. QED
      BY <2>2, <2>3
  <1>4. Silent'
    BY DEF Silent
  <1>5. QED
    BY <1>3, <1>4 DEF Serial

\* A step of the conversation about the command of r: whatever it does to the
\* network, the handler of r still waits and Talk(r) still holds.
LEMMA TalkStepSerial ==
  ASSUME TypeOK, Serial, NEW r \in Requests, Outstanding(r),
         \A q \in Requests : q # r => pc[q] \in {"idle", "done"},
         NEW l \in {"get_load", "get_memset", "get_recv", "get_copy"},
         pc' = [pc EXCEPT ![r] = l],
         kind' = kind, out' = out,
         \A q \in Requests : q # r => verdict'[q] = verdict[q] /\ read'[q] = read[q],
         \A i \in 1..Len(read'[r]) : read'[r][i].of = r,
         lost' = lost \/ Lossy,
         Talk(r)'
  PROVE  Serial'
  <1> USE DEF TypeOK, At, Waiting
  <1>1. pc'[r] = l /\ \A q \in Requests : q # r => pc'[q] = pc[q]
    OBVIOUS
  <1>2. ASSUME NEW q \in Requests PROVE SerialOf(q)'
    <2>1. SerialOf(q)
      BY DEF Serial
    <2>2. CASE q = r
      BY <1>1, <2>1, <2>2 DEF SerialOf, Outstanding
    <2>3. CASE q # r
      BY <1>1, <2>1, <2>3 DEF SerialOf
    <2>4. QED
      BY <2>2, <2>3
  <1>3. Waiting(r)'
    BY <1>1
  <1>4. QED
    BY <1>2, <1>3 DEF Serial

\* The conversation is over: the handler has read all there was to read.
LEMMA EndSerial ==
  ASSUME TypeOK, Serial, NEW r \in Requests, Waiting(r),
         \A q \in Requests : q # r => pc[q] \in {"idle", "done"},
         pc' = [pc EXCEPT ![r] = "done"],
         kind' = kind, verdict' = verdict,
         \A q \in Requests : q # r => out'[q] = out[q] /\ read'[q] = read[q],
         out'[r] # "none", out'[r] \in {"Driving", "Sleeping"} => verdict[r] = "ack",
         lost' = lost,
         \A i \in 1..Len(read'[r]) : read'[r][i].of = r,
         Silent'
  PROVE  Serial'
  <1> USE DEF TypeOK, At, Waiting
  <1>1. pc'[r] = "done" /\ \A q \in Requests : q # r => pc'[q] = pc[q]
    OBVIOUS
  <1>2. ASSUME NEW q \in Requests PROVE SerialOf(q)'
    <2>1. SerialOf(q)
      BY DEF Serial
    <2>2. CASE q = r
      BY <1>1, <2>1, <2>2 DEF SerialOf
    <2>3. CASE q # r
      BY <1>1, <2>1, <2>3 DEF SerialOf
    <2>4. QED
      BY <2>2, <2>3
  <1>3. QED
    BY <1>2 DEF Serial

\* sendto starts the conversation: the command is on its way if there is a
\* descriptor, and nothing has happened otherwise.
LEMMA SendCallSerial ==
  ASSUME SerialSetting, SInv, NEW r \in Requests, SendCall(r)
  PROVE  Serial'
  <1> USE DEF SInv, LInv, shared, local, asked
  <1>1. pc[r] = "send_call" /\ pc' = [pc EXCEPT ![r] = "get_load"]
    BY DEF SendCall, At, Goto
  <1>2. Outstanding(r) /\ ~Waiting(r)
    BY <1>1 DEF Outstanding, Waiting
  <1>3. Silent /\ \A q \in Requests : q # r => pc[q] \in {"idle", "done"}
    BY <1>2, ServedAlone
  <1>4. ptr[r] = clientSocket /\ clientSocket \in Requests
    BY <1>1 DEF SendCall, Life, LifeOf, DerefSteps, TypeOK
  <1>5. verdict[r] = "none" /\ read[r] = <<>>
    BY <1>1, <1>2 DEF Serial, SerialOf, At
  <1>6. /\ rx' = rx /\ due' = due /\ verdict' = verdict /\ read' = read
        /\ out' = out /\ kind' = kind /\ fds' = fds /\ clientSocket' = clientSocket
        /\ \/ /\ air' = IF clientSocket \in fds THEN air \cup {Command(r)} ELSE air
              /\ lost' = lost
           \/ Lossy /\ lost' = lost \cup {r} /\ air' = air
    BY <1>4 DEF SendCall, Command
  <1>7. pc'[r] = "get_load"
    BY <1>1 DEF TypeOK
  <1>8. UnreadNone(r)' /\ Command(r)' = Command(r)
    BY <1>3, <1>4, <1>6, <1>7 DEF UnreadNone, At, Silent, Command
  <1>9. Talk(r)'
    <2>1. Unsent(r)' \/ Asked(r)' \/ Unheard(r)'
      BY <1>3, <1>5, <1>6, <1>8 DEF Asked, Unsent, Unheard, Silent
    <2>2. QED
      BY <1>3, <1>4, <1>6, <2>1, ServerAssumption DEF Talk, Silent
  <1>10. \A i \in 1..Len(read'[r]) : read'[r][i].of = r
    BY <1>5, <1>6
  <1>11. QED
    BY <1>1, <1>2, <1>3, <1>6, <1>9, <1>10, TalkStepSerial

\* Loading the pointer and clearing the buffer change nothing that is unread.
LEMMA GetReadySerial ==
  ASSUME SInv, NEW r \in Requests, GetLoad(r) \/ GetMemset(r)
  PROVE  Serial'
  <1> USE DEF SInv, LInv, shared, net, local, asked
  <1>1. /\ pc[r] \in {"get_load", "get_memset"}
        /\ \E l \in {"get_memset", "get_recv"} : pc' = [pc EXCEPT ![r] = l]
    BY DEF GetLoad, GetMemset, At, Goto
  <1>2. Outstanding(r) /\ Waiting(r)
    BY <1>1 DEF Outstanding, Waiting
  <1>3. \A q \in Requests : q # r => pc[q] \in {"idle", "done"}
    BY <1>2, ServedAlone
  <1>4. /\ rx' = rx /\ due' = due /\ verdict' = verdict /\ read' = read /\ air' = air
        /\ lost' = lost /\ out' = out /\ kind' = kind /\ fds' = fds /\ clientSocket' = clientSocket
    BY DEF GetLoad, GetMemset
  <1>5. ~At(r, "get_copy") /\ ~At(r, "get_copy")'
    BY <1>1 DEF At, TypeOK
  <1>6. Talk(r)
    BY <1>2 DEF Serial, SerialOf
  <1>7. /\ UnreadNone(r) => UnreadNone(r)'
        /\ \A m : UnreadOne(r, m) => UnreadOne(r, m)'
        /\ \A m, t : UnreadTwo(r, m, t) => UnreadTwo(r, m, t)'
    BY <1>4, <1>5 DEF UnreadNone, UnreadOne, UnreadTwo, At
  <1>8. Talk(r)'
    BY <1>4, <1>6, <1>7
    DEF Talk, Unsent, Asked, Refused, Acked, Owed, Paid, Unheard, OwedAlone, PaidInPart,
        Command
  <1>9. \A i \in 1..Len(read'[r]) : read'[r][i].of = r
    BY <1>4 DEF Serial, SerialOf
  <1>10. QED
    BY <1>1, <1>2, <1>3, <1>4, <1>8, <1>9, TalkStepSerial

\* recvfrom moves the next reply from the queue to Buffer: it stays unread.
LEMMA GetRecvSerial ==
  ASSUME SInv, NEW r \in Requests, GetRecv(r)
  PROVE  Serial'
  <1> USE DEF SInv, LInv, local, asked
  <1>1. pc[r] = "get_recv" /\ pc' = [pc EXCEPT ![r] = "get_copy"]
    BY DEF GetRecv, At, Goto
  <1>2. Outstanding(r) /\ Waiting(r)
    BY <1>1 DEF Outstanding, Waiting
  <1>3. \A q \in Requests : q # r => pc[q] \in {"idle", "done"}
    BY <1>2, ServedAlone
  <1>4. Talk(r)
    BY <1>2 DEF Serial, SerialOf
  <1>5. ptr[r] = clientSocket /\ clientSocket \in Requests
    BY <1>1, <1>4 DEF Life, LifeOf, DerefSteps, Talk, TypeOK
  <1>6. /\ due' = due /\ verdict' = verdict /\ read' = read /\ air' = air
        /\ lost' = lost /\ out' = out /\ kind' = kind /\ fds' = fds /\ clientSocket' = clientSocket
    BY DEF GetRecv
  <1>7. /\ rx[clientSocket] # <<>>
        /\ Buffer'[clientSocket] = Head(rx[clientSocket])
        /\ rx'[clientSocket] = Tail(rx[clientSocket])
        /\ \A o \in Requests : o # clientSocket => rx'[o] = rx[o]
    BY <1>5 DEF GetRecv, TypeOK
  <1>8. ~At(r, "get_copy") /\ At(r, "get_copy")'
    BY <1>1 DEF At, TypeOK
  <1>9. ~UnreadNone(r)
    BY <1>7 DEF UnreadNone
  <1>10. ASSUME NEW m, UnreadOne(r, m) PROVE UnreadOne(r, m)'
    <2>1. rx[clientSocket] = <<m>>
      BY <1>8, <1>10 DEF UnreadOne
    <2>2. Head(rx[clientSocket]) = m /\ Tail(rx[clientSocket]) = <<>>
      BY <2>1
    <2>3. QED
      BY <1>6, <1>7, <1>8, <2>2 DEF UnreadOne
  <1>11. ASSUME NEW m, NEW t, UnreadTwo(r, m, t) PROVE UnreadTwo(r, m, t)'
    <2>1. rx[clientSocket] = <<m, t>>
      BY <1>8, <1>11 DEF UnreadTwo
    <2>2. Head(rx[clientSocket]) = m /\ Tail(rx[clientSocket]) = <<t>>
      BY <2>1
    <2>3. QED
      BY <1>6, <1>7, <1>8, <2>2 DEF UnreadTwo
  <1>12. Talk(r)'
    <2>1. Refused(r) => Refused(r)'
      BY <1>6, <1>10 DEF Refused, Nack
    <2>2. Acked(r) => Acked(r)'
      BY <1>6, <1>10 DEF Acked, Ack
    <2>3. Owed(r) => Owed(r)'
      BY <1>6, <1>9, <1>10 DEF Owed, Ack, Command
    <2>4. Paid(r) => Paid(r)'
      BY <1>6, <1>10, <1>11 DEF Paid, Ack, Tele
    <2>5. PaidInPart(r) => PaidInPart(r)'
      BY <1>6, <1>9, <1>10 DEF PaidInPart
    <2>6. ~Unsent(r) /\ ~Asked(r) /\ ~Unheard(r) /\ ~OwedAlone(r)
      BY <1>9 DEF Unsent, Asked, Unheard, OwedAlone
    <2>7. QED
      BY <1>4, <1>6, <1>7, <2>1, <2>2, <2>3, <2>4, <2>5, <2>6 DEF Talk
  <1>13. \A i \in 1..Len(read'[r]) : read'[r][i].of = r
    BY <1>6 DEF Serial, SerialOf
  <1>14. QED
    BY <1>1, <1>2, <1>3, <1>6, <1>12, <1>13, TalkStepSerial

\* The robot's verdict on the command of r, and its acknowledgement.
LEMMA RobotAnswersSerial ==
  ASSUME SerialSetting, SInv, NEW p \in air, RobotAnswers(p)
  PROVE  /\ Serial'
         /\ kind[p.of] \in CommandKinds /\ verdict[p.of] = "none"
         /\ out[p.of] = "none" /\ p.of \in Requests
  <1> USE DEF SInv, LInv, shared, local, asked
  <1>1. PICK r \in Requests : Waiting(r)
    BY DEF Serial, Silent
  <1>2. Outstanding(r)
    BY <1>1 DEF Outstanding, Waiting
  <1>3. \A q \in Requests : q # r => pc[q] \in {"idle", "done"}
    BY <1>2, ServedAlone
  <1>4. Talk(r) /\ SerialOf(r)
    BY <1>1 DEF Serial, SerialOf
  <1>5. Asked(r) /\ p = Command(r)
    BY <1>4
    DEF Talk, Unsent, Asked, Refused, Acked, Owed, Paid, Unheard, OwedAlone, PaidInPart
  <1>6. clientSocket \in Requests /\ p.of = r /\ p.src = clientSocket
    BY <1>4, <1>5 DEF Talk, TypeOK, Command
  <1>7. kind[r] \in CommandKinds /\ kind[r] # "other"
    BY <1>1, <1>4 DEF Control, ControlOf, CommandSteps, Waiting, SerialOf
  <1>8. p.cmd = "RESPONSE" <=> kind[r] = "telemetry"
    BY <1>5, <1>7 DEF Command, getCommandType, CommandKinds, TelecommandKinds
  <1>9. /\ pc' = pc /\ read' = read /\ out' = out /\ kind' = kind /\ fds' = fds
        /\ clientSocket' = clientSocket /\ Buffer' = Buffer /\ air' = {}
    BY <1>5 DEF RobotAnswers, Asked
  <1>10. PICK v \in {"ack", "nack"} :
           /\ verdict' = [verdict EXCEPT ![r] = v]
           /\ due' = IF v = "ack" /\ p.cmd = "RESPONSE" THEN {p} ELSE {}
           /\ Arrive(r, clientSocket, [of |-> r, ack |-> v = "ack", tele |-> FALSE])
    BY <1>5, <1>6, ServerAssumption DEF RobotAnswers, Asked
  <1>11. ~At(r, "get_copy") /\ ~At(r, "get_copy")' /\ rx[clientSocket] = <<>> /\ read[r] = <<>>
    BY <1>5, <1>9 DEF Asked, UnreadNone, At
  <1>12. verdict'[r] = v /\ \A q \in Requests : q # r => verdict'[q] = verdict[q]
    BY <1>10 DEF TypeOK
  <1> DEFINE m == [of |-> r, ack |-> v = "ack", tele |-> FALSE]
  <1>13. \/ /\ lost' = lost /\ UnreadOne(r, IF v = "ack" THEN Ack(r) ELSE Nack(r))'
            /\ \A o \in Requests : o # clientSocket => rx'[o] = rx[o]
         \/ Lossy /\ lost' = lost \cup {r} /\ rx' = rx
    <2>1. \/ lost' = lost /\ rx' = [rx EXCEPT ![clientSocket] = Append(@, m)]
          \/ Lossy /\ lost' = lost \cup {r} /\ rx' = rx
      BY <1>5, <1>10 DEF Arrive, Asked
    <2>2. m = IF v = "ack" THEN Ack(r) ELSE Nack(r)
      BY DEF Ack, Nack
    <2> HIDE DEF m
    <2>3. Append(rx[clientSocket], m) = <<m>>
      BY <1>11
    <2>4. CASE lost' = lost /\ rx' = [rx EXCEPT ![clientSocket] = Append(@, m)]
      <3>1. rx'[clientSocket] = <<m>> /\ \A o \in Requests : o # clientSocket => rx'[o] = rx[o]
        BY <1>6, <2>3, <2>4 DEF TypeOK
      <3>2. UnreadOne(r, IF v = "ack" THEN Ack(r) ELSE Nack(r))'
        BY <1>9, <1>11, <2>2, <3>1 DEF UnreadOne, At, Ack, Nack
      <3>3. QED
        BY <2>4, <3>1, <3>2
    <2>5. QED
      BY <2>1, <2>4
  <1> HIDE DEF m
  <1>14. ASSUME lost' = lost, UnreadOne(r, IF v = "ack" THEN Ack(r) ELSE Nack(r))',
                \A o \in Requests : o # clientSocket => rx'[o] = rx[o]
         PROVE  Talk(r)'
    <2>1. CASE v = "nack"
      <3>1. UnreadOne(r, Nack(r))' /\ due' = {}
        BY <1>10, <1>14, <2>1
      <3>2. Refused(r)'
        BY <1>5, <1>9, <1>12, <2>1, <3>1 DEF Refused, Asked, Nack
      <3>3. QED
        BY <1>4, <1>9, <1>14, <3>2 DEF Talk
    <2>2. CASE v = "ack" /\ kind[r] = "telemetry"
      <3>1. UnreadOne(r, Ack(r))' /\ due' = {Command(r)}
        BY <1>5, <1>8, <1>10, <1>14, <2>2
      <3>2. Owed(r)'
        BY <1>5, <1>9, <1>12, <2>2, <3>1 DEF Owed, Asked, Ack, Command
      <3>3. QED
        BY <1>4, <1>9, <1>14, <3>2 DEF Talk
    <2>3. CASE v = "ack" /\ kind[r] # "telemetry"
      <3>1. UnreadOne(r, Ack(r))' /\ due' = {}
        BY <1>8, <1>10, <1>14, <2>3
      <3>2. Acked(r)'
        BY <1>5, <1>9, <1>12, <2>3, <3>1 DEF Acked, Asked, Ack
      <3>3. QED
        BY <1>4, <1>9, <1>14, <3>2 DEF Talk
    <2>4. QED
      BY <2>1, <2>2, <2>3
  <1>15. ASSUME Lossy, lost' = lost \cup {r}, rx' = rx PROVE Talk(r)'
    <2>1. UnreadNone(r)'
      BY <1>9, <1>11, <1>15 DEF UnreadNone
    <2>2. CASE v = "ack" /\ kind[r] = "telemetry"
      <3>1. due' = {Command(r)}
        BY <1>5, <1>8, <1>10, <2>2
      <3>2. OwedAlone(r)'
        BY <1>5, <1>9, <1>11, <1>12, <1>15, <2>1, <2>2, <3>1 DEF OwedAlone, Asked, Command
      <3>3. QED
        BY <1>4, <1>9, <1>15, <3>2 DEF Talk
    <2>3. CASE v = "nack" \/ kind[r] # "telemetry"
      <3>1. due' = {}
        BY <1>8, <1>10, <2>3
      <3>2. Unheard(r)'
        BY <1>5, <1>9, <1>11, <1>15, <2>1, <3>1 DEF Unheard, Asked
      <3>3. QED
        BY <1>4, <1>9, <1>15, <3>2 DEF Talk
    <2>4. QED
      BY <2>2, <2>3
  <1>16. Talk(r)' /\ (lost' = lost \/ Lossy)
    BY <1>13, <1>14, <1>15
  <1>17. \E l \in {"get_load", "get_memset", "get_recv", "get_copy"} :
           pc' = [pc EXCEPT ![r] = l]
    BY <1>1, <1>9 DEF Waiting, TypeOK
  <1>18. \A i \in 1..Len(read'[r]) : read'[r][i].of = r
    BY <1>4, <1>9 DEF SerialOf
  <1>19. Serial'
    BY <1>2, <1>3, <1>9, <1>12, <1>16, <1>17, <1>18, TalkStepSerial
  <1>20. verdict[r] = "none" /\ out[r] = "none"
    BY <1>1, <1>4, <1>5 DEF Asked, SerialOf, At, Waiting
  <1>21. QED
    BY <1>6, <1>7, <1>19, <1>20

LEMMA AppendNone == ASSUME NEW x PROVE Append(<<>>, x) = <<x>>
  OBVIOUS

LEMMA AppendOne == ASSUME NEW x, NEW y PROVE Append(<<x>>, y) = <<x, y>>
  <1> DEFINE S == {x, y}
  <1>1. <<x>> \in Seq(S) /\ <<x, y>> \in Seq(S) /\ Append(<<x>>, y) \in Seq(S)
    OBVIOUS
  <1>2. Len(Append(<<x>>, y)) = 2 /\ Len(<<x, y>>) = 2
    OBVIOUS
  <1>3. Append(<<x>>, y)[1] = x /\ Append(<<x>>, y)[2] = y
    OBVIOUS
  <1>4. \A i \in 1..2 : Append(<<x>>, y)[i] = <<x, y>>[i]
    BY <1>3
  <1> HIDE DEF S
  <1>5. QED
    BY <1>1, <1>2, <1>4, SeqEqual

LEMMA LenNone == Len(<<>>) = 0
  OBVIOUS

\* The telemetry packet that follows an acknowledged status command.
LEMMA RobotTelemetrySerial ==
  ASSUME SerialSetting, SInv, NEW p \in due, RobotTelemetry(p)
  PROVE  Serial'
  <1> USE DEF SInv, LInv, shared, local, asked
  <1>1. PICK r \in Requests : Waiting(r)
    BY DEF Serial, Silent
  <1>2. Outstanding(r)
    BY <1>1 DEF Outstanding, Waiting
  <1>3. \A q \in Requests : q # r => pc[q] \in {"idle", "done"}
    BY <1>2, ServedAlone
  <1>4. Talk(r) /\ SerialOf(r)
    BY <1>1 DEF Serial, SerialOf
  <1>5. (Owed(r) \/ OwedAlone(r)) /\ p = Command(r)
    BY <1>4
    DEF Talk, Unsent, Asked, Refused, Acked, Owed, Paid, Unheard, OwedAlone, PaidInPart
  <1>6. clientSocket \in Requests /\ p.of = r /\ p.src = clientSocket
    BY <1>4, <1>5 DEF Talk, TypeOK, Command
  <1>7. /\ pc' = pc /\ read' = read /\ out' = out /\ kind' = kind /\ fds' = fds
        /\ clientSocket' = clientSocket /\ Buffer' = Buffer /\ verdict' = verdict
        /\ air' = air /\ due' = {}
    BY <1>5 DEF RobotTelemetry, Owed, OwedAlone
  <1>8. PICK a \in BOOLEAN : Arrive(r, clientSocket, Tele(r, a))
    BY <1>6 DEF RobotTelemetry, Tele
  <1>9. \/ lost' = lost /\ rx' = [rx EXCEPT ![clientSocket] = Append(@, Tele(r, a))]
        \/ Lossy /\ lost' = lost \cup {r} /\ rx' = rx
    BY <1>5, <1>8 DEF Arrive, Owed, OwedAlone
  <1>10. /\ clientSocket \in fds /\ verdict[r] = "ack" /\ kind[r] = "telemetry" /\ air = {}
         /\ clientSocket # Null /\ \A o \in Requests : o # clientSocket => rx[o] = <<>>
    BY <1>4, <1>5 DEF Owed, OwedAlone, Talk
  <1>11. ASSUME lost' = lost, rx' = [rx EXCEPT ![clientSocket] = Append(@, Tele(r, a))]
         PROVE  Talk(r)'
    <2> HIDE DEF SInv
    <2>1. /\ rx'[clientSocket] = Append(rx[clientSocket], Tele(r, a))
          /\ \A o \in Requests : o # clientSocket => rx'[o] = rx[o]
      BY <1>6, <1>11 DEF SInv, TypeOK
    <2>2. ASSUME read[r] = <<>>, UnreadOne(r, Ack(r)), Owed(r) PROVE Talk(r)'
      <3>1. UnreadTwo(r, Ack(r), Tele(r, a))'
        <4>1. CASE ~At(r, "get_copy")
          <5>1. Append(rx[clientSocket], Tele(r, a)) = <<Ack(r), Tele(r, a)>>
            BY <2>2, <4>1, AppendOne DEF UnreadOne
          <5>2. QED
            BY <1>7, <2>1, <4>1, <5>1 DEF UnreadTwo, At, Ack, Tele
        <4>2. CASE At(r, "get_copy")
          <5>1. Append(rx[clientSocket], Tele(r, a)) = <<Tele(r, a)>>
            BY <2>2, <4>2, AppendNone DEF UnreadOne
          <5>2. Buffer'[clientSocket] = Ack(r)
            BY <1>7, <2>2, <4>2 DEF UnreadOne
          <5>3. QED
            BY <1>7, <2>1, <4>2, <5>1, <5>2 DEF UnreadTwo, At, Ack, Tele
        <4>3. QED
          BY <4>1, <4>2
      <3>2. Paid(r)'
        BY <1>7, <1>10, <2>2, <3>1 DEF Paid, Ack, Tele
      <3>3. QED
        BY <1>7, <1>10, <2>1, <3>2 DEF Talk
    <2>3. ASSUME UnreadNone(r) PROVE UnreadOne(r, Tele(r, a))'
      <3>1. Append(rx[clientSocket], Tele(r, a)) = <<Tele(r, a)>>
        BY <2>3, AppendNone DEF UnreadNone
      <3>2. QED
        BY <1>7, <2>1, <2>3, <3>1 DEF UnreadOne, UnreadNone, At, Tele
    <2>4. ASSUME read[r] = <<Ack(r)>>, UnreadNone(r) PROVE Talk(r)'
      <3>1. Paid(r)'
        BY <1>7, <1>10, <2>3, <2>4 DEF Paid, Ack, Tele
      <3>2. QED
        BY <1>7, <1>10, <2>1, <3>1 DEF Talk
    <2>5. ASSUME OwedAlone(r) PROVE Talk(r)'
      <3>1. Tele(r, a) \in Reply /\ Tele(r, a).of = r
        BY DEF Tele, Reply
      <3>2. UnreadOne(r, Tele(r, a))'
        BY <2>3, <2>5 DEF OwedAlone
      <3>3. \E m \in Reply : m.of = r /\ UnreadOne(r, m)'
        <4>1. Tele(r, a)' = Tele(r, a)
          BY DEF Tele
        <4>2. QED
          BY <3>1, <3>2, <4>1
      <3>4. PaidInPart(r)'
        BY <1>7, <1>10, <1>11, <2>5, <3>3 DEF PaidInPart, OwedAlone
      <3>5. QED
        BY <1>7, <1>10, <2>1, <3>4 DEF Talk
    <2>6. QED
      BY <1>5, <2>2, <2>4, <2>5 DEF Owed
  <1>12. ASSUME Lossy, lost' = lost \cup {r}, rx' = rx PROVE Talk(r)'
    <2>1. /\ UnreadNone(r) => UnreadNone(r)'
          /\ UnreadOne(r, Ack(r)) => UnreadOne(r, Ack(r))'
      BY <1>7, <1>12 DEF UnreadNone, UnreadOne, At, Ack
    <2>2. Ack(r) \in Reply /\ Ack(r).of = r
      BY DEF Ack, Reply
    <2>3. Owed(r) => PaidInPart(r)'
      BY <1>7, <1>10, <1>12, <2>1, <2>2 DEF Owed, PaidInPart, Ack
    <2>4. OwedAlone(r) => Unheard(r)'
      BY <1>7, <1>10, <1>12, <2>1 DEF OwedAlone, Unheard
    <2>5. QED
      BY <1>5, <1>7, <1>10, <1>12, <2>3, <2>4 DEF Talk
  <1>13. Talk(r)' /\ (lost' = lost \/ Lossy)
    BY <1>9, <1>11, <1>12
  <1>14. \E l \in {"get_load", "get_memset", "get_recv", "get_copy"} :
           pc' = [pc EXCEPT ![r] = l]
    BY <1>1, <1>7 DEF Waiting, SInv, TypeOK
  <1>15. \A i \in 1..Len(read'[r]) : read'[r][i].of = r
    BY <1>4, <1>7 DEF SerialOf
  <1>16. QED
    BY <1>2, <1>3, <1>7, <1>13, <1>14, <1>15, TalkStepSerial DEF SInv

\* The end of GetData and the decision of the handler: either the browser is
\* told what CommandService promises and nothing is left unread, or the
\* handler goes on to the telemetry packet that the robot owes or has sent.
LEMMA GetCopySerial ==
  ASSUME SInv, NEW r \in Requests, GetCopy(r)
  PROVE  /\ Serial'
         /\ kind' = kind /\ verdict' = verdict
         /\ kind[r] \in CommandKinds /\ out[r] = "none"
         /\ \/ out' = out
            \/ /\ verdict[r] # "none"
               /\ out' = [out EXCEPT ![r] = Service!Told(kind[r], verdict[r])]
            \/ r \in lost
  <1> USE DEF SInv, LInv, shared, net, asked
  <1>1. pc[r] = "get_copy"
    BY DEF GetCopy, At
  <1>2. Outstanding(r) /\ Waiting(r) /\ At(r, "get_copy")
    BY <1>1 DEF Outstanding, Waiting, At
  <1>3. \A q \in Requests : q # r => pc[q] \in {"idle", "done"}
    BY <1>2, ServedAlone
  <1>4. Talk(r) /\ SerialOf(r)
    BY <1>2 DEF Serial, SerialOf
  <1>5. ptr[r] = clientSocket /\ clientSocket \in Requests
    BY <1>1, <1>4 DEF Life, LifeOf, DerefSteps, Talk, TypeOK
  <1>6. kind[r] \in CommandKinds \ {"other"} /\ out[r] = "none"
    BY <1>1, <1>4 DEF Control, ControlOf, CommandSteps, SerialOf, At
  <1> DEFINE m == Buffer[clientSocket]
  <1>7. /\ read' = [read EXCEPT ![r] = Append(@, m)]
        /\ AfterReply(r, m) /\ m \in Reply
        /\ rx' = rx /\ due' = due /\ air' = air /\ verdict' = verdict /\ lost' = lost
        /\ kind' = kind /\ fds' = fds /\ clientSocket' = clientSocket
    BY <1>5 DEF GetCopy, TypeOK
  <1>8. /\ read'[r] = Append(read[r], m)
        /\ \A q \in Requests : q # r => read'[q] = read[q]
    BY <1>7 DEF TypeOK
  <1> HIDE DEF m
  <1>9. ~Unsent(r) /\ ~Asked(r) /\ ~Unheard(r) /\ ~OwedAlone(r)
    BY <1>2 DEF Unsent, Asked, Unheard, OwedAlone, UnreadNone
  \* The answer is given: what is needed for Serial' and for the answer.
  <1>10. ASSUME NEW b, b # "none", b \in {"Driving", "Sleeping"} => verdict[r] = "ack",
                m.of = r, Len(read[r]) <= 1,
                air = {}, due = {}, rx[clientSocket] = <<>>,
                pc' = [pc EXCEPT ![r] = "done"], out' = [out EXCEPT ![r] = b]
         PROVE  Serial'
    <2>1. Silent'
      BY <1>4, <1>5, <1>7, <1>10 DEF Silent, Talk
    <2>2. \A i \in 1..Len(read'[r]) : read'[r][i].of = r
      BY <1>4, <1>7, <1>8, <1>10 DEF SerialOf, TypeOK
    <2>3. \A q \in Requests : q # r => out'[q] = out[q] /\ read'[q] = read[q]
      BY <1>8, <1>10 DEF TypeOK
    <2>4. out'[r] = b
      BY <1>10 DEF TypeOK
    <2>5. QED
      BY <1>2, <1>3, <1>7, <1>10, <2>1, <2>2, <2>3, <2>4, EndSerial
  <1> DEFINE told == Service!Told(kind[r], verdict[r])
  <1>11. CASE Refused(r)
    <2>1. m = Nack(r) /\ rx[clientSocket] = <<>>
      BY <1>2, <1>11 DEF Refused, UnreadOne, m
    <2>2. m.of = r /\ ~m.ack
      BY <2>1 DEF Nack
    <2>3. CASE kind[r] # "telemetry"
      <3>1. /\ pc' = [pc EXCEPT ![r] = "done"]
            /\ out' = [out EXCEPT ![r] = "Bad Command Packet"]
        BY <1>7, <2>2, <2>3, AfterReplyEffect
      <3>2. told = "Bad Command Packet"
        BY <1>11, <2>3 DEF Refused, Service!Told
      <3> HIDE DEF told
      <3>3. /\ Len(read[r]) <= 1 /\ air = {} /\ due = {}
            /\ told # "none" /\ told \notin {"Driving", "Sleeping"}
        <4>1. read[r] = <<>> /\ air = {} /\ due = {}
          BY <1>11 DEF Refused
        <4>2. Len(read[r]) <= 1
          BY <4>1, LenNone
        <4>3. told # "none" /\ told \notin {"Driving", "Sleeping"}
          BY <3>2
        <4>4. QED
          BY <4>1, <4>2, <4>3
      <3>4. out' = [out EXCEPT ![r] = told]
        BY <3>1, <3>2
      <3>5. Serial'
        BY <1>10, <2>1, <2>2, <3>1, <3>3, <3>4
      <3>6. QED
        BY <1>6, <1>7, <1>11, <3>4, <3>5 DEF Refused, told
    <2>4. CASE kind[r] = "telemetry"
      <3>1. /\ pc' = [pc EXCEPT ![r] = "done"]
            /\ out' = [out EXCEPT ![r] = "Bad Telemetry Packet"]
        BY <1>7, <1>11, <2>2, <2>4, AfterReplyEffect DEF Refused
      <3>2. told = "Bad Telemetry Packet"
        BY <1>11, <2>4 DEF Refused, Service!Told
      <3> HIDE DEF told
      <3>3. /\ Len(read[r]) <= 1 /\ air = {} /\ due = {}
            /\ told # "none" /\ told \notin {"Driving", "Sleeping"}
        <4>1. read[r] = <<>> /\ air = {} /\ due = {}
          BY <1>11 DEF Refused
        <4>2. Len(read[r]) <= 1
          BY <4>1, LenNone
        <4>3. told # "none" /\ told \notin {"Driving", "Sleeping"}
          BY <3>2
        <4>4. QED
          BY <4>1, <4>2, <4>3
      <3>4. out' = [out EXCEPT ![r] = told]
        BY <3>1, <3>2
      <3>5. Serial'
        BY <1>10, <2>1, <2>2, <3>1, <3>3, <3>4
      <3>6. QED
        BY <1>6, <1>7, <1>11, <3>4, <3>5 DEF Refused, told
    <2>5. QED
      BY <2>3, <2>4
  <1>12. CASE Acked(r)
    <2>1. m = Ack(r) /\ rx[clientSocket] = <<>>
      BY <1>2, <1>12 DEF Acked, UnreadOne, m
    <2>2. m.of = r /\ m.ack
      BY <2>1 DEF Ack
    <2>3. /\ pc' = [pc EXCEPT ![r] = "done"]
          /\ out' = [out EXCEPT ![r] = CreateResponseMessage(kind[r])]
      BY <1>7, <1>12, <2>2, AfterReplyEffect DEF Acked
    <2>4. told = CreateResponseMessage(kind[r]) /\ told # "none"
      BY <1>6, <1>12
      DEF Acked, Service!Told, CreateResponseMessage, CommandKinds, TelecommandKinds
    <2> HIDE DEF told
    <2>5. Len(read[r]) <= 1 /\ air = {} /\ due = {} /\ out' = [out EXCEPT ![r] = told]
      BY <1>12, <2>3, <2>4 DEF Acked
    <2>6. Serial'
      BY <1>10, <1>12, <2>1, <2>2, <2>3, <2>4, <2>5 DEF Acked
    <2>7. QED
      BY <1>6, <1>7, <1>12, <2>5, <2>6 DEF Acked, told
  <1>13. CASE (Owed(r) \/ Paid(r)) /\ read[r] = <<>>
    <2>1. m = Ack(r) /\ kind[r] = "telemetry"
      <3>1. CASE Owed(r)
        BY <1>2, <3>1 DEF Owed, UnreadOne, UnreadNone, m
      <3>2. CASE Paid(r)
        <4>1. PICK a \in BOOLEAN : UnreadTwo(r, Ack(r), Tele(r, a))
          BY <1>13, <3>2 DEF Paid
        <4>2. QED
          BY <1>2, <3>2, <4>1 DEF Paid, UnreadTwo, m
      <3>3. QED
        BY <1>13, <3>1, <3>2
    <2>2. m.of = r /\ m.ack
      BY <2>1 DEF Ack
    <2>3. pc' = [pc EXCEPT ![r] = "get_load"] /\ out' = out
      BY <1>7, <1>13, <2>1, <2>2, AfterReplyEffect
    <2>4. read'[r] = <<Ack(r)>>
      BY <1>8, <1>13, <2>1
    <2>5. ~At(r, "get_copy")'
      BY <2>3 DEF At, TypeOK
    <2>6. Owed(r) => Owed(r)'
      BY <1>2, <1>7, <1>13, <2>4, <2>5
      DEF Owed, UnreadOne, UnreadNone, Ack, Command
    <2>7. ASSUME Paid(r) PROVE Paid(r)'
      <3>1. PICK a \in BOOLEAN : UnreadTwo(r, Ack(r), Tele(r, a))
        BY <1>13, <2>7 DEF Paid
      <3>2. UnreadOne(r, Tele(r, a))'
        BY <1>2, <1>7, <2>5, <3>1 DEF UnreadOne, UnreadTwo, Tele
      <3>3. QED
        BY <1>7, <2>4, <2>7, <3>2 DEF Paid, Ack, Tele
    <2>8. Talk(r)'
      BY <1>4, <1>7, <1>13, <2>6, <2>7 DEF Talk
    <2>9. \A i \in 1..Len(read'[r]) : read'[r][i].of = r
      BY <2>1, <2>2, <2>4
    <2>10. Serial'
      BY <1>2, <1>3, <1>7, <1>8, <2>3, <2>8, <2>9, TalkStepSerial
    <2>11. QED
      BY <1>6, <1>7, <2>3, <2>10
  <1>14. CASE Paid(r) /\ read[r] # <<>>
    <2>1. PICK a \in BOOLEAN : UnreadOne(r, Tele(r, a)) /\ read[r] = <<Ack(r)>>
      BY <1>14 DEF Paid
    <2>2. m = Tele(r, a) /\ rx[clientSocket] = <<>> /\ Len(read[r]) = 1
      BY <1>2, <2>1 DEF UnreadOne, m
    <2>3. m.of = r /\ m.tele
      BY <2>2 DEF Tele
    <2>4. /\ pc' = [pc EXCEPT ![r] = "done"]
          /\ out' = [out EXCEPT ![r] = "Telemetry"]
      BY <1>7, <1>14, <2>3, AfterReplyEffect DEF Paid, GetTelemetryData
    <2>5. told = "Telemetry"
      BY <1>14 DEF Paid, Service!Told
    <2> HIDE DEF told
    <2>6. /\ air = {} /\ due = {} /\ out' = [out EXCEPT ![r] = told]
          /\ told # "none" /\ told \notin {"Driving", "Sleeping"}
      BY <1>14, <2>4, <2>5 DEF Paid
    <2>7. Len(read[r]) <= 1 /\ pc' = [pc EXCEPT ![r] = "done"]
      BY <2>2, <2>4
    <2>8. Serial'
      BY <1>10, <2>2, <2>3, <2>6, <2>7
    <2>9. QED
      BY <1>6, <1>7, <1>14, <2>6, <2>8 DEF Paid, told
  <1>15. ~(Owed(r) /\ read[r] # <<>>)
    BY <1>2 DEF Owed, UnreadNone
  <1>16. CASE PaidInPart(r)
    <2>1. PICK n \in Reply :
            /\ n.of = r
            /\ \/ read[r] = <<>> /\ UnreadOne(r, n)
               \/ read[r] = <<n>> /\ UnreadNone(r)
      BY <1>16 DEF PaidInPart
    <2>2. read[r] = <<>> /\ m = n /\ rx[clientSocket] = <<>>
      BY <1>2, <2>1 DEF UnreadOne, UnreadNone, m
    <2>3. kind[r] = "telemetry" /\ air = {} /\ due = {} /\ r \in lost /\ m.ack \in BOOLEAN
      BY <1>7, <1>16 DEF PaidInPart, Reply
    <2>4. CASE m.ack
      <3>1. pc' = [pc EXCEPT ![r] = "get_load"] /\ out' = out
        BY <1>7, <2>2, <2>3, <2>4, AfterReplyEffect
      <3>2. read'[r] = <<m>>
        BY <1>8, <2>2
      <3>3. UnreadNone(r)'
        BY <1>7, <2>2, <3>1 DEF UnreadNone, At, TypeOK
      <3>4. PaidInPart(r)'
        BY <1>7, <1>16, <2>1, <2>2, <3>2, <3>3 DEF PaidInPart
      <3>5. Talk(r)'
        BY <1>4, <1>7, <3>4 DEF Talk
      <3>6. \A i \in 1..Len(read'[r]) : read'[r][i].of = r
        BY <2>1, <2>2, <3>2
      <3>7. Serial'
        BY <1>2, <1>3, <1>7, <1>8, <3>1, <3>5, <3>6, TalkStepSerial
      <3>8. QED
        BY <1>6, <1>7, <3>1, <3>7
    <2>5. CASE ~m.ack
      <3>1. pc' = [pc EXCEPT ![r] = "done"] /\ out' = [out EXCEPT ![r] = "Bad Telemetry Packet"]
        BY <1>7, <2>2, <2>3, <2>5, AfterReplyEffect
      <3>2. Len(read[r]) <= 1
        BY <2>2, LenNone
      <3>3. Serial'
        BY <1>10, <2>1, <2>2, <2>3, <3>1, <3>2
      <3>4. QED
        BY <1>6, <1>7, <2>3, <3>3
    <2>6. QED
      BY <2>3, <2>4, <2>5
  <1>17. QED
    BY <1>4, <1>9, <1>11, <1>12, <1>13, <1>14, <1>15, <1>16 DEF Talk

\* The process dies only under a command that the robot never saw, and it
\* leaves nothing of the conversation behind.
LEMMA CrashSerial ==
  ASSUME SInv, NEW r \in Requests, Crash(r)
  PROVE  /\ Serial'
         /\ kind' = kind /\ verdict' = verdict
         /\ kind[r] \in CommandKinds /\ verdict[r] = "none" /\ out[r] = "none"
         /\ out' = [out EXCEPT ![r] = "reset"]
  <1> USE DEF SInv, LInv, asked
  <1>1. Outstanding(r)
    BY DEF Crash, Faults, Outstanding, At
  <1>2. \A q \in Requests : q # r => pc[q] \in {"idle", "done"}
    BY <1>1, ServedAlone
  <1>3. /\ SerialOf(r)
        /\ ptr[r] # Null /\ pc[r] \in DerefSteps \cup {"swap_delete"} => heap[ptr[r]] = "live"
    BY LInvSafe DEF Serial, NoUseAfterDelete
  <1>4. pc[r] \in DerefSteps => ptr[r] = clientSocket
    BY DEF Life, LifeOf
  <1>5. \/ pc[r] = "send_call" /\ ptr[r] = Null
        \/ pc[r] = "get_memset" /\ clientSocket = Null
        \/ pc[r] = "get_recv" /\ clientSocket \notin fds
    BY <1>3, <1>4 DEF Crash, Faults, At, DerefSteps
  <1>6. ~(pc[r] = "get_memset" /\ clientSocket = Null)
    BY <1>3 DEF SerialOf, Waiting, Talk
  <1>7. air = {} /\ due = {} /\ verdict[r] = "none"
    <2>1. CASE pc[r] = "send_call"
      <3>1. ~Waiting(r)
        BY <2>1 DEF Waiting
      <3>2. air = {} /\ due = {}
        BY <1>1, <3>1, ServedAlone DEF Silent
      <3>3. QED
        BY <1>3, <2>1, <3>1, <3>2 DEF SerialOf, At
    <2>2. CASE pc[r] = "get_recv" /\ clientSocket \notin fds
      BY <1>3, <2>2
      DEF SerialOf, Waiting, Talk, Unsent, Asked, Refused, Acked, Owed, Paid, Unheard,
          OwedAlone, PaidInPart
    <2>3. QED
      BY <1>5, <1>6, <2>1, <2>2
  <1>8. /\ air' = air /\ due' = due /\ verdict' = verdict /\ kind' = kind /\ lost' = lost
         /\ rx' = [o \in Requests |-> <<>>] /\ read' = [q \in Requests |-> <<>>]
         /\ pc' = [q \in Requests |-> IF Outstanding(q) THEN "done" ELSE pc[q]]
         /\ out' = [q \in Requests |-> IF Outstanding(q) THEN "reset" ELSE out[q]]
    BY DEF Crash
  <1>9. pc'[r] = "done" /\ out'[r] = "reset"
    BY <1>1, <1>8
  <1>10. \A q \in Requests : q # r => pc'[q] = pc[q] /\ out'[q] = out[q]
    BY <1>2, <1>8 DEF Outstanding
  <1>11. out' = [out EXCEPT ![r] = "reset"]
    BY <1>8, <1>9, <1>10 DEF TypeOK
  <1>12. ASSUME NEW q \in Requests PROVE SerialOf(q)'
    <2>1. SerialOf(q) /\ Len(read'[q]) = 0
      BY <1>8, LenNone DEF Serial
    <2>2. \A i \in 1..Len(read'[q]) : read'[q][i].of = q
      BY <2>1
    <2>3. CASE q = r
      BY <1>8, <1>9, <2>1, <2>2, <2>3 DEF SerialOf, At, Waiting
    <2>4. CASE q # r
      BY <1>2, <1>8, <1>10, <2>1, <2>2, <2>4 DEF SerialOf, At, Waiting
    <2>5. QED
      BY <2>3, <2>4
  <1>13. Silent'
    BY <1>7, <1>8 DEF Silent
  <1>14. kind[r] \in CommandKinds /\ out[r] = "none"
    BY <1>3, <1>5, <1>6 DEF Control, ControlOf, CommandSteps, SerialOf, At
  <1>15. QED
    BY <1>7, <1>8, <1>11, <1>12, <1>13, <1>14 DEF Serial

-----------------------------------------------------------------------------
(* Every step keeps the invariant and is a step of the service *)

LEMMA StepSerial ==
  ASSUME SerialSetting, SInv, [Next]_vars
  PROVE  Serial'
  <1> USE DEF SInv, LInv, shared, net, local, asked
  <1>a. ASSUME NEW r \in Requests, Outstanding(r), ~Waiting(r)
        PROVE  /\ Silent /\ Serial /\ ~At(r, "done") /\ out[r] = "none"
               /\ \A q \in Requests : q # r => pc[q] \in {"idle", "done"}
               /\ \A q \in Requests : kind[q] # "other"
    BY <1>a, ServedAlone DEF Serial, SerialOf, Outstanding, At
  <1>1. ASSUME NEW r \in Requests, Issue(r) PROVE Serial'
    <2>1. PICK k \in Kinds : MayIssue(k) /\ kind' = [kind EXCEPT ![r] = k]
      BY <1>1 DEF Issue
    <2>2. \A q \in Requests : pc[q] \in {"idle", "done"} /\ ~Waiting(q)
      BY <2>1 DEF MayIssue, SerialSetting, Quiet, Outstanding, Waiting
    <2>3. pc[r] = "idle" /\ pc' = [pc EXCEPT ![r] = "queued"]
          /\ UNCHANGED <<out, air, due, rx, verdict, read, lost>>
      BY <1>1 DEF Issue, At, Goto
    <2>4. Silent /\ \A q \in Requests : kind'[q] # "other"
      BY <2>1, <2>2 DEF Serial, SerialOf, SerialSetting, TypeOK
    <2>5. out[r] = "none"
      BY <2>3 DEF Serial, SerialOf, At
    <2>6. QED
      BY <2>2, <2>3, <2>4, <2>5, StepIn, LocalStepSerial DEF At
  <1>2. ASSUME NEW r \in Requests, Dispatch(r) PROVE Serial'
    <2>1. kind[r] \in AllKinds /\ pc[r] = "queued"
      BY <1>2 DEF Dispatch, Control, ControlOf, TypeOK, At
    <2>2. FirstStep(kind[r]) \in {"swap_load", "construct", "inc_load", "throw"}
      BY <2>1 DEF FirstStep, AllKinds, PageKinds, CommandKinds, TelecommandKinds
    <2>3. pc' = [pc EXCEPT ![r] = FirstStep(kind[r])]
          /\ UNCHANGED <<kind, out, air, due, rx, verdict, read, lost>>
      BY <1>2 DEF Dispatch, Goto
    <2>4. Outstanding(r) /\ ~Waiting(r)
      BY <2>1 DEF Outstanding, Waiting
    <2>5. QED
      BY <1>a, <2>2, <2>3, <2>4, StepIn, LocalStepSerial
  <1>3. ASSUME NEW r \in Requests, Construct(r) PROVE Serial'
    <2>1. pc[r] = "construct" /\ pc' = [pc EXCEPT ![r] = "swap_load"]
          /\ UNCHANGED <<kind, out, air, due, rx, verdict, read, lost>>
      BY <1>3 DEF Construct, At, Goto
    <2>2. Outstanding(r) /\ ~Waiting(r)
      BY <2>1 DEF Outstanding, Waiting
    <2>3. QED
      BY <1>a, <2>1, <2>2, StepIn, LocalStepSerial
  <1>4. ASSUME NEW r \in Requests, SwapLoad(r) PROVE Serial'
    <2>1. pc[r] = "swap_load" /\ pc' = [pc EXCEPT ![r] = "swap_store"]
          /\ UNCHANGED <<kind, out, air, due, rx, verdict, read, lost>>
      BY <1>4 DEF SwapLoad, At, Goto
    <2>2. Outstanding(r) /\ ~Waiting(r)
      BY <2>1 DEF Outstanding, Waiting
    <2>3. QED
      BY <1>a, <2>1, <2>2, StepIn, LocalStepSerial
  <1>5. ASSUME NEW r \in Requests, SwapStore(r) PROVE Serial'
    <2>1. pc[r] = "swap_store" /\ pc' = [pc EXCEPT ![r] = "swap_delete"]
          /\ UNCHANGED <<kind, out, air, due, rx, verdict, read, lost>>
      BY <1>5 DEF SwapStore, At, Goto
    <2>2. Outstanding(r) /\ ~Waiting(r)
      BY <2>1 DEF Outstanding, Waiting
    <2>3. QED
      BY <1>a, <2>1, <2>2, StepIn, LocalStepSerial
  <1>6. ASSUME NEW r \in Requests, IncLoad(r) PROVE Serial'
    <2>1. pc[r] = "inc_load" /\ pc' = [pc EXCEPT ![r] = "inc_store"]
          /\ UNCHANGED <<kind, out, air, due, rx, verdict, read, lost>>
      BY <1>6 DEF IncLoad, At, Goto
    <2>2. Outstanding(r) /\ ~Waiting(r)
      BY <2>1 DEF Outstanding, Waiting
    <2>3. QED
      BY <1>a, <2>1, <2>2, StepIn, LocalStepSerial
  <1>7. ASSUME NEW r \in Requests, IncStore(r) PROVE Serial'
    <2>1. pc[r] = "inc_store" /\ pc' = [pc EXCEPT ![r] = "set_count"]
          /\ UNCHANGED <<kind, out, air, due, rx, verdict, read, lost>>
      BY <1>7 DEF IncStore, At, Goto
    <2>2. Outstanding(r) /\ ~Waiting(r)
      BY <2>1 DEF Outstanding, Waiting
    <2>3. QED
      BY <1>a, <2>1, <2>2, StepIn, LocalStepSerial
  <1>8. ASSUME NEW r \in Requests, SetPktCount(r) PROVE Serial'
    <2>1. pc[r] = "set_count" /\ pc' = [pc EXCEPT ![r] = "send_load"]
          /\ UNCHANGED <<kind, out, air, due, rx, verdict, read, lost>>
      BY <1>8 DEF SetPktCount, At, Goto
    <2>2. Outstanding(r) /\ ~Waiting(r)
      BY <2>1 DEF Outstanding, Waiting
    <2>3. QED
      BY <1>a, <2>1, <2>2, StepIn, LocalStepSerial
  <1>9. ASSUME NEW r \in Requests, SendLoad(r) PROVE Serial'
    <2>1. pc[r] = "send_load" /\ pc' = [pc EXCEPT ![r] = "send_call"]
          /\ UNCHANGED <<kind, out, air, due, rx, verdict, read, lost>>
      BY <1>9 DEF SendLoad, At, Goto
    <2>2. Outstanding(r) /\ ~Waiting(r)
      BY <2>1 DEF Outstanding, Waiting
    <2>3. QED
      BY <1>a, <2>1, <2>2, StepIn, LocalStepSerial
  <1>10. ASSUME NEW r \in Requests, Throw(r) PROVE Serial'
    <2>1. pc[r] = "throw" /\ pc' = [pc EXCEPT ![r] = "done"]
          /\ out' = [out EXCEPT ![r] = "500"]
          /\ UNCHANGED <<kind, air, due, rx, verdict, read, lost>>
      BY <1>10 DEF Throw, Answer, At, Goto
    <2>2. Outstanding(r) /\ ~Waiting(r)
      BY <2>1 DEF Outstanding, Waiting
    <2>3. /\ out'[r] \notin {"none", "Driving", "Sleeping"}
          /\ \A q \in Requests : q # r => out'[q] = out[q]
      BY <2>1 DEF TypeOK
    <2>4. QED
      BY <1>a, <2>1, <2>2, <2>3, StepIn, LocalStepSerial
  <1>11. ASSUME NEW r \in Requests, ConstructThrows(r) PROVE Serial'
    <2>1. pc[r] = "construct" /\ pc' = [pc EXCEPT ![r] = "done"]
          /\ out' = [out EXCEPT ![r] = "Index"]
          /\ UNCHANGED <<kind, air, due, rx, verdict, read, lost>>
      BY <1>11 DEF ConstructThrows, Answer, At, Goto
    <2>2. Outstanding(r) /\ ~Waiting(r)
      BY <2>1 DEF Outstanding, Waiting
    <2>3. /\ out'[r] \notin {"none", "Driving", "Sleeping"}
          /\ \A q \in Requests : q # r => out'[q] = out[q]
      BY <2>1 DEF TypeOK
    <2>4. QED
      BY <1>a, <2>1, <2>2, <2>3, StepIn, LocalStepSerial
  <1>12. ASSUME NEW r \in Requests, ZeroCounter(r) PROVE Serial'
    <2>1. pc[r] = "zero" /\ pc' = [pc EXCEPT ![r] = "done"]
          /\ out' = [out EXCEPT ![r] = "Index"]
          /\ UNCHANGED <<kind, air, due, rx, verdict, read, lost>>
      BY <1>12 DEF ZeroCounter, Answer, At, Goto
    <2>2. Outstanding(r) /\ ~Waiting(r)
      BY <2>1 DEF Outstanding, Waiting
    <2>3. /\ out'[r] \notin {"none", "Driving", "Sleeping"}
          /\ \A q \in Requests : q # r => out'[q] = out[q]
      BY <2>1 DEF TypeOK
    <2>4. QED
      BY <1>a, <2>1, <2>2, <2>3, StepIn, LocalStepSerial
  <1>13. ASSUME NEW r \in Requests, SwapDelete(r) PROVE Serial'
    <2>1. pc[r] = "swap_delete" /\ UNCHANGED <<kind, air, due, rx, verdict, read, lost>>
      BY <1>13 DEF SwapDelete, At
    <2>2. Outstanding(r) /\ ~Waiting(r)
      BY <2>1 DEF Outstanding, Waiting
    <2>3. CASE kind[r] = "connect"
      <3>1. pc' = [pc EXCEPT ![r] = "done"] /\ out' = [out EXCEPT ![r] = "Command"]
        BY <1>13, <2>3 DEF SwapDelete, Answer, Goto
      <3>2. /\ out'[r] \notin {"none", "Driving", "Sleeping"}
            /\ \A q \in Requests : q # r => out'[q] = out[q]
        BY <3>1 DEF TypeOK
      <3>3. QED
        BY <1>a, <2>1, <2>2, <3>1, <3>2, StepIn, LocalStepSerial
    <2>4. CASE kind[r] # "connect"
      <3>1. pc' = [pc EXCEPT ![r] = "zero"] /\ out' = out
        BY <1>13, <2>4 DEF SwapDelete, Goto
      <3>2. QED
        BY <1>a, <2>1, <2>2, <3>1, StepIn, LocalStepSerial
    <2>5. QED
      BY <2>3, <2>4
  <1>14. ASSUME NEW r \in Requests, Robot(r) PROVE Serial'
    BY <1>14, RobotAnswersSerial, RobotTelemetrySerial DEF Robot
  <1>15. CASE UNCHANGED vars
    BY <1>15
    DEF vars, Serial, SerialOf, Silent, Waiting, At, Talk, Unsent, Asked, Refused,
        Acked, Owed, Paid, Unheard, OwedAlone, PaidInPart, Command, UnreadNone, UnreadOne,
        UnreadTwo
  <1>16. QED
    BY <1>1, <1>2, <1>3, <1>4, <1>5, <1>6, <1>7, <1>8, <1>9, <1>10, <1>11, <1>12, <1>13,
       <1>14, <1>15, SendCallSerial, GetReadySerial, GetRecvSerial, GetCopySerial, CrashSerial
    DEF Next, Handler

\* What an answer means to the service.
LEMMA TellStep ==
  ASSUME SInv, NEW r \in Requests, Outstanding(r),
         kind' = kind, verdict' = verdict,
         NEW o \in Service!Outcomes(kind[r], verdict[r]),
         out' = [out EXCEPT ![r] = o]
  PROVE  Service!Next
  <1>1. kind[r] # "none" /\ out[r] = "none"
    BY DEF SInv, LInv, Control, ControlOf, Serial, SerialOf, Outstanding, At
  <1>2. Service!Tell(r)
    BY <1>1 DEF Service!Tell, Service!Pending
  <1>3. QED
    BY <1>2 DEF Service!Next

LEMMA StepService ==
  ASSUME SerialSetting, ~Lossy, SInv, [Next]_vars
  PROVE  [Service!Next]_(Service!vars)
  <1> USE DEF shared, net, local, asked
  <1>a. (UNCHANGED <<kind, verdict, out>>) => UNCHANGED Service!vars
    BY DEF Service!vars
  <1>1. ASSUME NEW r \in Requests, Issue(r) PROVE Service!Next
    <2>1. PICK k \in Kinds : MayIssue(k) /\ kind' = [kind EXCEPT ![r] = k]
      BY <1>1 DEF Issue
    <2>2. \A q \in Requests : pc[q] \in {"idle", "done"}
      BY <2>1 DEF MayIssue, SerialSetting, Quiet, Outstanding
    <2>3. \A q \in Requests : ~Service!Pending(q)
      BY <2>2
      DEF Service!Pending, SInv, LInv, Control, ControlOf, Serial, SerialOf, At
    <2>4. kind[r] = "none"
      BY <1>1 DEF Issue, SInv, LInv, Control, ControlOf
    <2>5. UNCHANGED <<verdict, out>>
      BY <1>1 DEF Issue
    <2>6. Service!Ask(r)
      BY <2>1, <2>3, <2>4, <2>5 DEF Service!Ask
    <2>7. QED
      BY <2>6 DEF Service!Next
  <1>2. ASSUME NEW r \in Requests,
               \/ Dispatch(r) \/ Construct(r) \/ SwapLoad(r) \/ SwapStore(r)
               \/ IncLoad(r) \/ IncStore(r) \/ SetPktCount(r) \/ SendLoad(r)
               \/ SendCall(r) \/ GetLoad(r) \/ GetMemset(r) \/ GetRecv(r)
        PROVE  UNCHANGED <<kind, verdict, out>>
    BY <1>2
    DEF Dispatch, Construct, SwapLoad, SwapStore, IncLoad, IncStore, SetPktCount,
        SendLoad, SendCall, GetLoad, GetMemset, GetRecv
  <1>3. ASSUME NEW r \in Requests, Throw(r) PROVE Service!Next
    <2>1. pc[r] = "throw" /\ kind[r] = "malformed"
          /\ out' = [out EXCEPT ![r] = "500"] /\ kind' = kind /\ verdict' = verdict
      BY <1>3 DEF Throw, Answer, At, SInv, LInv, Control, ControlOf
    <2>2. "500" \in Service!Outcomes(kind[r], verdict[r])
      BY <2>1 DEF Service!Outcomes, Service!Commands
    <2>3. QED
      BY <2>1, <2>2, TellStep DEF Outstanding
  <1>4. ASSUME NEW r \in Requests, ConstructThrows(r) PROVE Service!Next
    <2>1. pc[r] = "construct" /\ kind[r] = "connect"
          /\ out' = [out EXCEPT ![r] = "Index"] /\ kind' = kind /\ verdict' = verdict
      BY <1>4 DEF ConstructThrows, Answer, At, SInv, LInv, Control, ControlOf
    <2>2. "Index" \in Service!Outcomes(kind[r], verdict[r])
      BY <2>1 DEF Service!Outcomes, Service!Commands
    <2>3. QED
      BY <2>1, <2>2, TellStep DEF Outstanding
  <1>5. ASSUME NEW r \in Requests, SwapDelete(r) PROVE [Service!Next]_(Service!vars)
    <2>1. pc[r] = "swap_delete" /\ kind' = kind /\ verdict' = verdict
      BY <1>5 DEF SwapDelete, At
    <2>2. CASE kind[r] = "connect"
      <3>1. out' = [out EXCEPT ![r] = "Command"]
        BY <1>5, <2>2 DEF SwapDelete, Answer
      <3>2. "Command" \in Service!Outcomes(kind[r], verdict[r])
        BY <2>2 DEF Service!Outcomes, Service!Commands
      <3>3. QED
        BY <2>1, <3>1, <3>2, TellStep DEF Outstanding
    <2>3. CASE kind[r] # "connect"
      BY <1>5, <1>a, <2>1, <2>3 DEF SwapDelete
    <2>4. QED
      BY <2>2, <2>3
  <1>6. ASSUME NEW r \in Requests, ZeroCounter(r) PROVE Service!Next
    <2>1. pc[r] = "zero" /\ kind[r] = "index"
          /\ out' = [out EXCEPT ![r] = "Index"] /\ kind' = kind /\ verdict' = verdict
      BY <1>6 DEF ZeroCounter, Answer, At, SInv, LInv, Control, ControlOf
    <2>2. "Index" \in Service!Outcomes(kind[r], verdict[r])
      BY <2>1 DEF Service!Outcomes, Service!Commands
    <2>3. QED
      BY <2>1, <2>2, TellStep DEF Outstanding
  <1>7. ASSUME NEW r \in Requests, GetCopy(r) PROVE [Service!Next]_(Service!vars)
    <2>1. /\ kind' = kind /\ verdict' = verdict /\ kind[r] \in CommandKinds
          /\ \/ out' = out
             \/ /\ verdict[r] # "none"
                /\ out' = [out EXCEPT ![r] = Service!Told(kind[r], verdict[r])]
      BY <1>7, GetCopySerial DEF SInv, Serial
    <2>2. CASE out' = out
      BY <1>a, <2>1, <2>2
    <2>3. CASE /\ verdict[r] # "none"
               /\ out' = [out EXCEPT ![r] = Service!Told(kind[r], verdict[r])]
      <3>1. Service!Told(kind[r], verdict[r]) \in Service!Outcomes(kind[r], verdict[r])
        BY <2>1, <2>3
        DEF Service!Outcomes, Service!Commands, CommandKinds, TelecommandKinds
      <3>2. Outstanding(r)
        BY <1>7 DEF GetCopy, At, Outstanding
      <3>3. QED
        BY <2>1, <2>3, <3>1, <3>2, TellStep
    <2>4. QED
      BY <2>1, <2>2, <2>3
  <1>8. ASSUME NEW r \in Requests, Crash(r) PROVE Service!Next
    <2>1. /\ kind' = kind /\ verdict' = verdict /\ kind[r] \in CommandKinds
          /\ verdict[r] = "none" /\ out' = [out EXCEPT ![r] = "reset"]
      BY <1>8, CrashSerial
    <2>2. "reset" \in Service!Outcomes(kind[r], verdict[r])
      BY <2>1 DEF Service!Outcomes, Service!Commands, CommandKinds, TelecommandKinds
    <2>3. Outstanding(r)
      BY <1>8 DEF Crash, Faults, At, Outstanding
    <2>4. QED
      BY <2>1, <2>2, <2>3, TellStep
  <1>9. ASSUME NEW p \in air, RobotAnswers(p) PROVE Service!Next
    <2>1. /\ kind[p.of] \in CommandKinds /\ verdict[p.of] = "none"
          /\ out[p.of] = "none" /\ p.of \in Requests
      BY <1>9, RobotAnswersSerial
    <2>2. /\ \E v \in Verdicts : verdict' = [verdict EXCEPT ![p.of] = v]
          /\ kind' = kind /\ out' = out
      BY <1>9 DEF RobotAnswers
    <2>3. Service!Decide(p.of)
      BY <2>1, <2>2
      DEF Service!Decide, Service!Pending, Service!Commands, CommandKinds, TelecommandKinds
    <2>4. QED
      BY <2>1, <2>3 DEF Service!Next
  <1>10. ASSUME NEW p \in due, RobotTelemetry(p) PROVE UNCHANGED <<kind, verdict, out>>
    BY <1>10 DEF RobotTelemetry
  <1>11. CASE UNCHANGED vars
    BY <1>11, <1>a DEF vars
  <1>12. QED
    BY <1>a, <1>1, <1>2, <1>3, <1>4, <1>5, <1>6, <1>7, <1>8, <1>9, <1>10, <1>11
    DEF Next, Handler, Robot

LEMMA InvariantSInv ==
  ASSUME SerialSetting
  PROVE  Spec => []SInv
  <1>1. Init => SInv
    BY InitSInv
  <1>2. SInv /\ [Next]_vars => SInv'
    BY StepTypeOK, StepControl, StepPagesAlone, StepLife, StepOneAtATime, StepSerial
    DEF SInv, LInv, SerialSetting
  <1>3. QED
    BY <1>1, <1>2, PTL DEF Spec

\* A browser that waits for its answers reads only replies to its own commands, whatever
\* the handlers and the robot do in between and whatever the network loses.
THEOREM AnswersAreMine ==
  ASSUME SerialSetting
  PROVE  Spec => []AnswerIsMine
  <1>1. SInv => AnswerIsMine
    BY DEF SInv, Serial, SerialOf, AnswerIsMine
  <1>2. QED
    BY <1>1, InvariantSInv, PTL

\* In the same setting it is told "Driving" or "Sleeping" only if the robot acknowledged
\* its own command.
THEOREM SuccessIsAcked ==
  ASSUME SerialSetting
  PROVE  Spec => []SuccessOnlyIfAcked
  <1>1. SInv => SuccessOnlyIfAcked
    BY DEF SInv, Serial, SerialOf, SuccessOnlyIfAcked
  <1>2. QED
    BY <1>1, InvariantSInv, PTL

\* In the same setting a handler waits for a datagram that will never come only if a
\* datagram of its own command was lost: it reads as many as the robot sends.
THEOREM WaitsAreForLost ==
  ASSUME SerialSetting
  PROVE  Spec => []WaitsOnlyForLost
  <1>1. SInv => WaitsOnlyForLost
    <2> SUFFICES ASSUME SInv, NEW r \in Requests, At(r, "get_recv"),
                        ptr[r] \in fds, rx[ptr[r]] = <<>>,
                        \A p \in air \cup due : p.src # ptr[r]
                 PROVE  r \in lost
      BY DEF WaitsOnlyForLost
    <2>1. Talk(r) /\ ptr[r] = clientSocket /\ ~At(r, "get_copy")
      BY DEF SInv, LInv, Life, LifeOf, DerefSteps, Serial, SerialOf, Waiting, At
    <2>2. ~Unsent(r) /\ Command(r).src = ptr[r]
      BY <2>1 DEF Unsent, Command
    <2>3. ~Asked(r) /\ ~Owed(r)
      <3>1. ASSUME Asked(r) \/ Owed(r) PROVE FALSE
        <4>1. Command(r) \in air \cup due
          BY <3>1 DEF Asked, Owed
        <4>2. QED
          BY <2>2, <4>1
      <3>2. QED
        BY <3>1
    <2>4. ASSUME NEW m, NEW n PROVE ~UnreadOne(r, m) /\ ~UnreadTwo(r, m, n)
      BY <2>1 DEF UnreadOne, UnreadTwo
    <2>5. ~Refused(r) /\ ~Acked(r) /\ ~Paid(r)
      BY <2>1, <2>4 DEF Refused, Acked, Paid, UnreadNone
    <2>6. QED
      BY <2>1, <2>2, <2>3, <2>5 DEF Talk, Unheard, OwedAlone, PaidInPart
  <1>2. QED
    BY <1>1, InvariantSInv, PTL

\* If the network loses nothing either, the server, its shared socket and the robot
\* implement CommandService: each browser is told exactly what its command and the
\* verdict of the robot call for, and its connection is reset only when the robot never
\* saw the command.
THEOREM ServerImplementsService ==
  ASSUME SerialSetting, ~Lossy
  PROVE  Spec => Implements
  <1>1. Init => Service!Init
    BY DEF Init, Service!Init
  <1>2. SInv /\ [Next]_vars => [Service!Next]_(Service!vars)
    BY StepService
  <1>3. QED
    BY <1>1, <1>2, InvariantSInv, PTL DEF Spec, Implements, Service!Spec

-----------------------------------------------------------------------------
(* The packet counts. *)

\* The requests whose handler has incremented the counter, or is over.
Numbered == {q \in Requests : pc[q] \in {"set_count", "send_load", "send_call", "get_load",
                                         "get_memset", "get_recv", "get_copy", "done"}}

\* The command of r left through the socket that is connected now.
Current(r) == cnt[r] # 0 /\ ptr[r] # Null /\ ptr[r] = clientSocket

CountOf(r) ==
  /\ kind[r] \notin CommandKinds => cnt[r] = 0
  /\ pc[r] \in {"idle", "queued", "inc_load", "inc_store", "set_count", "send_load"} =>
       ptr[r] = Null
  /\ pc[r] \in DerefSteps \cup {"get_load"} => ptr[r] = clientSocket
  /\ ptr[r] # Null => heap[ptr[r]] # "none"
  /\ (pc[r] \in {"swap_load", "swap_store"} /\ kind[r] = "connect") =>
       \A q \in Requests : ptr[q] # r
  /\ At(r, "zero") => clientSocket = Null
  /\ At(r, "inc_store") => cnt[r] = packetCounter
  /\ At(r, "send_load") => cnt[r] = packetCounter
  /\ Current(r) => cnt[r] <= packetCounter
  /\ (Current(r) /\ \E q \in Requests : pc[q] \in {"set_count", "send_load"}) =>
       cnt[r] < packetCounter

\* A counter of 16 bits is enough for this many requests.
FewRequests == IsFiniteSet(Requests) /\ Cardinality(Requests) < PktCountMod

Counts ==
  /\ \A r \in Requests : CountOf(r)
  /\ packetCounter <= Cardinality(Numbered)
  /\ CountsDistinct

CInv == LInv /\ OneAtATime /\ Counts

AfterInc == {"set_count", "send_load", "send_call", "get_load", "get_memset", "get_recv",
             "get_copy", "done"}

\* No step takes a request out of Numbered.
LEMMA NumberedGrows ==
  ASSUME TypeOK, FewRequests, NEW r \in Requests, NEW l, pc' = [pc EXCEPT ![r] = l],
         r \in Numbered => l \in AfterInc
  PROVE  /\ Cardinality(Numbered) \in Nat /\ Cardinality(Numbered') \in Nat
         /\ Cardinality(Numbered) <= Cardinality(Numbered')
         /\ (r \notin Numbered /\ l \in AfterInc) =>
              Cardinality(Numbered') = Cardinality(Numbered) + 1
<1>1. pc'[r] = l /\ \A q \in Requests : q # r => pc'[q] = pc[q]
  BY DEF TypeOK
<1>2. Numbered \subseteq Numbered' /\ Numbered' \subseteq Requests /\ Numbered \subseteq Requests
  BY <1>1 DEF Numbered, AfterInc
<1>3. IsFiniteSet(Numbered') /\ IsFiniteSet(Numbered)
  BY <1>2, FS_Subset DEF FewRequests
<1>4. /\ Cardinality(Numbered) <= Cardinality(Numbered')
      /\ Cardinality(Numbered) \in Nat /\ Cardinality(Numbered') \in Nat
  BY <1>2, <1>3, FS_Subset, FS_CardinalityType
<1>5. ASSUME r \notin Numbered, l \in AfterInc
      PROVE  Cardinality(Numbered') = Cardinality(Numbered) + 1
  <2>1. Numbered' = Numbered \cup {r}
    BY <1>1, <1>5 DEF Numbered, AfterInc
  <2> QED BY <1>3, <1>5, <2>1, FS_AddElement
<1> QED BY <1>4, <1>5

\* A step of the handler of r that neither numbers, sends nor replaces anything: what
\* CountOf says of r after it has to be shown, and it says the same of the others.
LEMMA QuietStepCounts ==
  ASSUME TypeOK, FewRequests, Counts, NEW r \in Requests,
         \A q \in Requests : q # r => pc[q] \in {"idle", "done"},
         NEW l \in Steps, pc' = [pc EXCEPT ![r] = l],
         \A q \in Requests : q # r => kind'[q] = kind[q],
         UNCHANGED <<clientSocket, packetCounter, cnt, ptr>>,
         \A o \in Requests : heap[o] # "none" => heap'[o] # "none",
         r \in Numbered => l \in AfterInc,
         l \in {"set_count", "send_load"} => pc[r] \in {"set_count", "send_load"},
         CountOf(r)'
  PROVE  Counts'
<1>1. pc'[r] = l /\ \A q \in Requests : q # r => pc'[q] = pc[q]
  BY DEF TypeOK
<1>2. ASSUME NEW q \in Requests, q # r PROVE CountOf(q)'
  <2>1. CountOf(q)
    BY DEF Counts
  <2>2. (\E p \in Requests : pc'[p] \in {"set_count", "send_load"}) =>
          \E p \in Requests : pc[p] \in {"set_count", "send_load"}
    BY <1>1
  <2>3. ptr[q] # Null => heap'[ptr[q]] # "none"
    BY <2>1 DEF CountOf, TypeOK
  <2>4. pc'[q] = pc[q] /\ kind'[q] = kind[q] /\ pc[q] \in {"idle", "done"}
    BY <1>1, <1>2
  <2> QED BY <2>1, <2>2, <2>3, <2>4 DEF CountOf, Current, At, DerefSteps
<1>3. packetCounter' <= Cardinality(Numbered')
  <2>1. /\ Cardinality(Numbered) \in Nat /\ Cardinality(Numbered') \in Nat
        /\ Cardinality(Numbered) <= Cardinality(Numbered')
    BY NumberedGrows
  <2> QED BY <2>1 DEF Counts, TypeOK
<1>4. CountsDistinct'
  BY DEF Counts, CountsDistinct
<1> QED BY <1>2, <1>3, <1>4 DEF Counts

LEMMA InitCounts == FewRequests /\ Init => Counts
<1> SUFFICES ASSUME FewRequests, Init PROVE Counts
  OBVIOUS
<1>1. ASSUME NEW r \in Requests PROVE CountOf(r)
  BY DEF Init, CountOf, Current, At, DerefSteps
<1>2. CountsDistinct
  BY DEF Init, CountsDistinct
<1>3. packetCounter <= Cardinality(Numbered)
  <2>1. Numbered \subseteq Requests
    BY DEF Numbered
  <2>2. Cardinality(Numbered) \in Nat
    BY <2>1, FS_Subset, FS_CardinalityType DEF FewRequests
  <2> QED BY <2>2 DEF Init
<1> QED BY <1>1, <1>2, <1>3 DEF Counts

\* The steps of "/" and "/connect" before they replace the object, and after.
LEMMA PageCounts ==
  ASSUME FewRequests, CInv, NEW r \in Requests,
         Issue(r) \/ Dispatch(r) \/ Throw(r) \/ Construct(r) \/ ConstructThrows(r)
           \/ SwapDelete(r),
         \A q \in Requests : q # r => pc[q] \in {"idle", "done"}
  PROVE  Counts'
<1>1. TypeOK /\ Control /\ Life /\ Counts /\ CountOf(r) /\ LifeOf(r) /\ ControlOf(r)
  BY DEF CInv, LInv, Life, Control, Counts
<1>2. UNCHANGED <<clientSocket, packetCounter, cnt, ptr>>
  BY DEF Issue, Dispatch, Throw, Construct, ConstructThrows, SwapDelete, shared, local
<1>3. \A o \in Requests : heap[o] # "none" => heap'[o] # "none"
  BY <1>1 DEF Issue, Dispatch, Throw, Construct, ConstructThrows, SwapDelete, shared, TypeOK
<1>4. \A q \in Requests : q # r => kind'[q] = kind[q]
  BY <1>1 DEF Issue, Dispatch, Throw, Construct, ConstructThrows, SwapDelete, asked, TypeOK
<1>5. ~Current(r)
  <2>1. \/ pc[r] \in {"idle", "queued"}
        \/ kind[r] \in PageKinds \cup {"malformed"}
    BY <1>1 DEF Issue, Dispatch, Throw, Construct, ConstructThrows, SwapDelete, At, ControlOf,
                PageKinds
  <2>2. kind[r] \in PageKinds \cup {"malformed"} => cnt[r] = 0
    BY <1>1 DEF CountOf, PageKinds, CommandKinds, TelecommandKinds
  <2> QED BY <1>1, <2>1, <2>2 DEF CountOf, Current
<1>6. r \notin Numbered
  BY DEF Issue, Dispatch, Throw, Construct, ConstructThrows, SwapDelete, At, Numbered
<1>7. CASE Issue(r)
  <2>1. pc' = [pc EXCEPT ![r] = "queued"] /\ pc[r] = "idle" /\ kind[r] = "none" /\ heap' = heap
    BY <1>1, <1>7 DEF Issue, At, Goto, ControlOf, shared
  <2>2. cnt[r] = 0 /\ ptr[r] = Null
    BY <1>1, <2>1 DEF CountOf, CommandKinds, TelecommandKinds
  <2>3. CountOf(r)'
    BY <1>1, <1>2, <2>1, <2>2 DEF CountOf, At, Current, DerefSteps, TypeOK
  <2> QED BY <1>1, <1>2, <1>3, <1>4, <1>6, <2>1, <2>3, StepIn, QuietStepCounts
<1>8. CASE Dispatch(r)
  <2>1. /\ pc' = [pc EXCEPT ![r] = FirstStep(kind[r])] /\ pc[r] = "queued" /\ kind' = kind
        /\ heap' = heap
    BY <1>8 DEF Dispatch, At, Goto, asked, shared
  <2>2. /\ FirstStep(kind[r]) \in {"swap_load", "construct", "inc_load", "throw"}
        /\ kind[r] = "connect" => FirstStep(kind[r]) = "construct"
    BY <1>1, <2>1 DEF FirstStep, ControlOf, At, TypeOK, AllKinds, PageKinds, CommandKinds,
                      TelecommandKinds
  <2>3. ptr[r] = Null
    BY <1>1, <2>1 DEF CountOf
  <2>4. CountOf(r)'
    BY <1>1, <1>2, <2>1, <2>2, <2>3 DEF CountOf, At, Current, DerefSteps, TypeOK
  <2> QED BY <1>1, <1>2, <1>3, <1>4, <1>6, <2>1, <2>2, <2>4, StepIn, QuietStepCounts
<1>9. CASE Throw(r) \/ ConstructThrows(r)
  <2>1. pc' = [pc EXCEPT ![r] = "done"] /\ kind' = kind /\ heap' = heap
    BY <1>9 DEF Throw, ConstructThrows, Answer, Goto, asked, shared
  <2>2. CountOf(r)'
    BY <1>1, <1>2, <1>5, <2>1 DEF CountOf, At, Current, DerefSteps, TypeOK
  <2> QED BY <1>1, <1>2, <1>3, <1>4, <1>6, <2>1, <2>2, StepIn, QuietStepCounts DEF AfterInc
<1>10. CASE Construct(r)
  <2>1. /\ pc' = [pc EXCEPT ![r] = "swap_load"] /\ kind' = kind /\ pc[r] = "construct"
        /\ heap' = [heap EXCEPT ![r] = "live"]
    BY <1>10 DEF Construct, At, Goto, asked
  <2>2. \A q \in Requests : ptr[q] # r
    <3>1. heap[r] = "none"
      BY <1>1, <2>1 DEF LifeOf
    <3> QED BY <3>1, ServerAssumption DEF CInv, Counts, CountOf
  <2>3. CountOf(r)'
    BY <1>1, <1>2, <1>5, <2>1, <2>2 DEF CountOf, At, Current, DerefSteps, TypeOK
  <2> QED BY <1>1, <1>2, <1>3, <1>4, <1>6, <2>1, <2>3, StepIn, QuietStepCounts
<1>11. CASE SwapDelete(r)
  <2>1. pc[r] = "swap_delete" /\ kind' = kind /\ kind[r] \in PageKinds
    BY <1>1, <1>11 DEF SwapDelete, At, ControlOf, asked
  <2>2. PICK l \in {"done", "zero"} :
          pc' = [pc EXCEPT ![r] = l] /\ (l = "zero" => kind[r] # "connect")
    BY <1>11 DEF SwapDelete, Answer, Goto
  <2>3. l = "zero" => clientSocket = Null
    BY <1>1, <2>1, <2>2 DEF LifeOf, At
  <2>4. ptr[r] # Null => heap'[ptr[r]] # "none"
    BY <1>1, <1>3 DEF CountOf, TypeOK
  <2>5. CountOf(r)'
    BY <1>1, <1>2, <1>5, <2>1, <2>2, <2>3, <2>4 DEF CountOf, At, Current, DerefSteps, TypeOK
  <2> QED BY <1>1, <1>2, <1>3, <1>4, <1>6, <2>2, <2>5, StepIn, QuietStepCounts
<1> QED BY <1>7, <1>8, <1>9, <1>10, <1>11

\* Loading the old object and storing the new one: no command has left through that yet.
LEMMA SwapCounts ==
  ASSUME FewRequests, CInv, NEW r \in Requests, SwapLoad(r) \/ SwapStore(r),
         \A q \in Requests : q # r => pc[q] \in {"idle", "done"}
  PROVE  Counts'
<1>1. TypeOK /\ Control /\ Life /\ Owned /\ Counts /\ CountOf(r) /\ LifeOf(r) /\ ControlOf(r)
  BY DEF CInv, LInv, Life, Control, Counts
<1>2. /\ pc[r] \in {"swap_load", "swap_store"} /\ kind[r] \in PageKinds /\ cnt[r] = 0
      /\ UNCHANGED <<packetCounter, cnt, kind, heap>>
  BY <1>1 DEF SwapLoad, SwapStore, At, ControlOf, CountOf, shared, local, asked, PageKinds,
              CommandKinds, TelecommandKinds
<1>3. PICK l \in {"swap_store", "swap_delete"} : pc' = [pc EXCEPT ![r] = l]
  BY DEF SwapLoad, SwapStore, Goto
<1>4. pc'[r] = l /\ \A q \in Requests : q # r => pc'[q] = pc[q] /\ ptr'[q] = ptr[q]
  BY <1>1, <1>3 DEF TypeOK, SwapLoad, SwapStore, local
<1>5. packetCounter' <= Cardinality(Numbered')
  <2>1. r \notin Numbered
    BY <1>2 DEF Numbered
  <2>2. /\ Cardinality(Numbered) \in Nat /\ Cardinality(Numbered') \in Nat
        /\ Cardinality(Numbered) <= Cardinality(Numbered')
    BY <1>1, <1>3, <2>1, NumberedGrows
  <2> QED BY <1>1, <1>2, <2>2 DEF Counts, TypeOK
<1>6. CASE SwapLoad(r)
  <2>1. pc[r] = "swap_load" /\ l = "swap_store" /\ clientSocket' = clientSocket
        /\ ptr' = [ptr EXCEPT ![r] = clientSocket]
    BY <1>1, <1>4, <1>6 DEF SwapLoad, At, Goto, shared, TypeOK
  <2>2. ptr'[r] = clientSocket
    BY <1>1, <2>1 DEF TypeOK
  <2>3. clientSocket # Null => heap[clientSocket] = "live"
    BY <1>1 DEF Owned, TypeOK
  <2>4. kind[r] = "connect" => \A q \in Requests : ptr'[q] # r
    BY <1>1, <1>4, <2>1, <2>2 DEF CountOf, LifeOf
  <2>5. ASSUME NEW q \in Requests PROVE CountOf(q)'
    <3>1. CountOf(q)
      BY <1>1 DEF Counts
    <3>2. CASE q = r
      BY <1>2, <1>4, <2>1, <2>2, <2>3, <2>4, <3>1, <3>2 DEF CountOf, At, Current, DerefSteps
    <3>3. CASE q # r
      <4>1. pc'[q] = pc[q] /\ ptr'[q] = ptr[q] /\ pc[q] \in {"idle", "done"}
        BY <1>4, <3>3
      <4>2. ~(\E p \in Requests : pc'[p] \in {"set_count", "send_load"})
        BY <1>4
      <4> QED BY <1>2, <2>1, <3>1, <4>1, <4>2 DEF CountOf, At, Current, DerefSteps
    <3> QED BY <3>2, <3>3
  <2>6. CountsDistinct'
    BY <1>1, <1>2, <1>4 DEF Counts, CountsDistinct
  <2> QED BY <1>5, <2>5, <2>6 DEF Counts
<1>7. CASE SwapStore(r)
  <2>1. /\ pc[r] = "swap_store" /\ l = "swap_delete" /\ ptr' = ptr
        /\ clientSocket' = IF kind[r] = "connect" THEN r ELSE Null
    BY <1>1, <1>4, <1>7 DEF SwapStore, At, Goto, local, TypeOK
  <2>2. \A q \in Requests : ~Current(q)'
    <3>1. kind[r] = "connect" => \A q \in Requests : ptr[q] # r
      BY <1>1, <2>1 DEF CountOf
    <3> QED BY <2>1, <3>1 DEF Current
  <2>3. ASSUME NEW q \in Requests PROVE CountOf(q)'
    <3>1. CountOf(q)
      BY <1>1 DEF Counts
    <3>2. CASE q = r
      BY <1>2, <1>4, <2>1, <2>2, <3>1, <3>2 DEF CountOf, At, DerefSteps
    <3>3. CASE q # r
      <4>1. pc'[q] = pc[q] /\ pc[q] \in {"idle", "done"}
        BY <1>4, <3>3
      <4> QED BY <1>2, <2>1, <2>2, <3>1, <4>1 DEF CountOf, At, DerefSteps
    <3> QED BY <3>2, <3>3
  <2>4. CountsDistinct'
    BY <1>1, <1>2, <2>1 DEF Counts, CountsDistinct
  <2> QED BY <1>5, <2>3, <2>4 DEF Counts
<1> QED BY <1>6, <1>7

\* "/" zeroes the counter when no object is left to send through.
LEMMA ZeroCounts ==
  ASSUME FewRequests, CInv, NEW r \in Requests, ZeroCounter(r),
         \A q \in Requests : q # r => pc[q] \in {"idle", "done"}
  PROVE  Counts'
<1>1. TypeOK /\ Counts /\ CountOf(r)
  BY DEF CInv, LInv, Counts
<1>2. /\ pc[r] = "zero" /\ clientSocket = Null /\ packetCounter' = 0
      /\ pc' = [pc EXCEPT ![r] = "done"] /\ UNCHANGED <<clientSocket, cnt, kind, heap, ptr>>
  BY <1>1 DEF ZeroCounter, Answer, At, Goto, CountOf, asked, local
<1>3. pc'[r] = "done" /\ \A q \in Requests : q # r => pc'[q] = pc[q]
  BY <1>1, <1>2 DEF TypeOK
<1>4. ASSUME NEW q \in Requests PROVE CountOf(q)'
  <2>1. CountOf(q) /\ ~Current(q)'
    BY <1>1, <1>2 DEF Counts, Current
  <2>2. pc'[q] \in {"idle", "done"} /\ (pc'[q] = "idle" => ptr[q] = Null)
    BY <1>3, <2>1 DEF CountOf
  <2> QED BY <1>2, <2>1, <2>2 DEF CountOf, At, DerefSteps
<1>5. packetCounter' <= Cardinality(Numbered')
  <2>1. Cardinality(Numbered') \in Nat
    BY <1>1, <1>2, NumberedGrows DEF AfterInc
  <2> QED BY <1>2, <2>1
<1>6. CountsDistinct'
  BY <1>1, <1>2 DEF Counts, CountsDistinct
<1> QED BY <1>4, <1>5, <1>6 DEF Counts

\* (*packetCounter)++ and SetPktCount: the new number is above all that left through the
\* socket that is connected now.
LEMMA NumberCounts ==
  ASSUME FewRequests, CInv, NEW r \in Requests, IncLoad(r) \/ IncStore(r) \/ SetPktCount(r),
         \A q \in Requests : q # r => pc[q] \in {"idle", "done"}
  PROVE  Counts'
<1>1. TypeOK /\ Counts /\ CountOf(r) /\ ControlOf(r) /\ Control
  BY DEF CInv, LInv, Counts, Control
<1>2. /\ pc[r] \in {"inc_load", "inc_store", "set_count"} /\ kind[r] \in CommandKinds
      /\ ptr[r] = Null /\ UNCHANGED <<clientSocket, ptr, kind, heap>>
  BY <1>1 DEF IncLoad, IncStore, SetPktCount, At, ControlOf, CountOf, CommandSteps, shared,
              local, asked
<1>3. \A q \in Requests : q # r => cnt'[q] = cnt[q]
  BY <1>1 DEF IncLoad, IncStore, SetPktCount, TypeOK, local
<1>4. packetCounter % PktCountMod = packetCounter
  <2>1. Cardinality(Numbered) <= Cardinality(Requests) /\ Cardinality(Numbered) \in Nat
    <3>1. Numbered \subseteq Requests
      BY DEF Numbered
    <3> QED BY <3>1, FS_Subset, FS_CardinalityType DEF FewRequests
  <2>2. Cardinality(Requests) \in Nat
    BY FS_CardinalityType DEF FewRequests
  <2>3. packetCounter \in Nat /\ packetCounter < PktCountMod
    BY <1>1, <2>1, <2>2 DEF Counts, FewRequests, TypeOK, PktCountMod
  <2> QED BY <2>3 DEF PktCountMod
<1>5. PICK l \in {"inc_store", "set_count", "send_load"} : pc' = [pc EXCEPT ![r] = l]
  BY DEF IncLoad, IncStore, SetPktCount, Goto
<1>6. pc'[r] = l /\ \A q \in Requests : q # r => pc'[q] = pc[q]
  BY <1>1, <1>5 DEF TypeOK
<1>7. /\ l = "inc_store" => cnt'[r] = packetCounter /\ packetCounter' = packetCounter
      /\ l = "set_count" => packetCounter' = packetCounter + 1 /\ r \notin Numbered
      /\ l = "send_load" => /\ cnt'[r] = packetCounter /\ packetCounter' = packetCounter
                            /\ pc[r] = "set_count"
  <2>1. CASE IncLoad(r)
    BY <1>1, <1>6, <2>1 DEF IncLoad, Goto, At, TypeOK, shared
  <2>2. CASE IncStore(r)
    BY <1>1, <1>6, <2>2 DEF IncStore, Goto, At, TypeOK, CountOf, Numbered
  <2>3. CASE SetPktCount(r)
    BY <1>1, <1>4, <1>6, <2>3 DEF SetPktCount, Goto, At, TypeOK, shared
  <2> QED BY <2>1, <2>2, <2>3
<1>8. ASSUME NEW q \in Requests, q # r, Current(q)'
      PROVE  /\ cnt[q] <= packetCounter'
             /\ l \in {"set_count", "send_load"} => cnt[q] < packetCounter'
  <2>1. Current(q) /\ CountOf(q) /\ cnt[q] \in Nat /\ packetCounter \in Nat
    BY <1>1, <1>2, <1>3, <1>8 DEF Current, Counts, TypeOK
  <2>2. cnt[q] <= packetCounter
    BY <2>1 DEF CountOf
  <2>3. pc[r] = "set_count" => cnt[q] < packetCounter
    BY <2>1 DEF CountOf
  <2>4. CASE l = "set_count"
    BY <1>7, <2>1, <2>2, <2>4
  <2>5. CASE l = "send_load"
    BY <1>7, <2>2, <2>3, <2>5
  <2>6. CASE l = "inc_store"
    BY <1>7, <2>2, <2>6
  <2> QED BY <2>4, <2>5, <2>6
<1>9. ASSUME NEW q \in Requests PROVE CountOf(q)'
  <2>1. CountOf(q)
    BY <1>1 DEF Counts
  <2>2. CASE q = r
    <3>1. ~Current(r)'
      BY <1>2 DEF Current
    <3> QED BY <1>2, <1>6, <1>7, <2>1, <2>2, <3>1 DEF CountOf, At, DerefSteps
  <2>3. CASE q # r
    <3>1. (\E p \in Requests : pc'[p] \in {"set_count", "send_load"}) =>
            l \in {"set_count", "send_load"}
      BY <1>6
    <3>2. pc'[q] = pc[q] /\ pc[q] \in {"idle", "done"} /\ cnt'[q] = cnt[q]
      BY <1>3, <1>6, <2>3
    <3>3. Current(q)' => /\ cnt'[q] <= packetCounter'
                         /\ (l \in {"set_count", "send_load"} => cnt'[q] < packetCounter')
      BY <1>8, <2>3, <3>2
    <3> QED BY <1>2, <2>1, <3>1, <3>2, <3>3 DEF CountOf, At, DerefSteps
  <2> QED BY <2>2, <2>3
<1>10. packetCounter' <= Cardinality(Numbered')
  <2>1. l = "inc_store" => r \notin Numbered
    <3>1. IncLoad(r) => pc[r] = "inc_load"
      BY DEF IncLoad, At
    <3>2. ~IncLoad(r) => pc' # [pc EXCEPT ![r] = "inc_store"]
      BY <1>1 DEF IncStore, SetPktCount, Goto, TypeOK
    <3> QED BY <1>5, <3>1, <3>2 DEF Numbered
  <2>2. /\ Cardinality(Numbered) \in Nat /\ Cardinality(Numbered') \in Nat
        /\ Cardinality(Numbered) <= Cardinality(Numbered')
        /\ l = "set_count" => Cardinality(Numbered') = Cardinality(Numbered) + 1
    BY <1>1, <1>5, <1>7, <2>1, NumberedGrows DEF AfterInc
  <2> QED BY <1>1, <1>7, <2>2 DEF Counts, TypeOK
<1>11. CountsDistinct'
  <2> SUFFICES ASSUME NEW p \in Requests, NEW q \in Requests, p # q, cnt'[p] # 0, cnt'[q] # 0,
                      ptr'[p] # Null, ptr'[p] = ptr'[q]
               PROVE  cnt'[p] # cnt'[q]
    BY DEF CountsDistinct
  <2>1. p # r /\ q # r
    BY <1>2
  <2> QED BY <1>1, <1>2, <1>3, <2>1 DEF Counts, CountsDistinct
<1> QED BY <1>9, <1>10, <1>11 DEF Counts

\* The command joins those that left through the socket, with the highest number.
LEMMA SendLoadCounts ==
  ASSUME FewRequests, CInv, NEW r \in Requests, SendLoad(r),
         \A q \in Requests : q # r => pc[q] \in {"idle", "done"}
  PROVE  Counts'
<1>1. TypeOK /\ Counts /\ CountOf(r) /\ ControlOf(r) /\ Control /\ Owned
  BY DEF CInv, LInv, Counts, Control, Life
<1>2. /\ pc[r] = "send_load" /\ kind[r] \in CommandKinds /\ cnt[r] = packetCounter
      /\ pc' = [pc EXCEPT ![r] = "send_call"] /\ ptr' = [ptr EXCEPT ![r] = clientSocket]
      /\ UNCHANGED <<clientSocket, packetCounter, cnt, kind, heap>>
  BY <1>1 DEF SendLoad, At, Goto, ControlOf, CountOf, CommandSteps, shared, asked
<1>3. /\ pc'[r] = "send_call" /\ ptr'[r] = clientSocket
      /\ \A q \in Requests : q # r => pc'[q] = pc[q] /\ ptr'[q] = ptr[q]
  BY <1>1, <1>2 DEF TypeOK
<1>4. ASSUME NEW q \in Requests, q # r, Current(q)' PROVE cnt[q] < cnt[r] /\ cnt[q] <= packetCounter
  <2>1. Current(q) /\ CountOf(q) /\ cnt[q] \in Nat /\ packetCounter \in Nat
    BY <1>1, <1>2, <1>3, <1>4 DEF Current, Counts, TypeOK
  <2> QED BY <1>2, <2>1 DEF CountOf
<1>5. ~(\E p \in Requests : pc'[p] \in {"set_count", "send_load"})
  BY <1>3
<1>6. ASSUME NEW q \in Requests PROVE CountOf(q)'
  <2>1. CountOf(q)
    BY <1>1 DEF Counts
  <2>2. CASE q = r
    <3>1. ptr'[r] # Null => heap'[ptr'[r]] # "none"
      BY <1>1, <1>2, <1>3 DEF Owned, TypeOK
    <3>2. cnt'[r] <= packetCounter'
      BY <1>1, <1>2 DEF TypeOK
    <3> QED BY <1>2, <1>3, <1>5, <2>1, <2>2, <3>1, <3>2 DEF CountOf, At
  <2>3. CASE q # r
    <3>1. pc'[q] = pc[q] /\ ptr'[q] = ptr[q] /\ pc[q] \in {"idle", "done"}
      BY <1>3, <2>3
    <3>2. Current(q)' => cnt'[q] <= packetCounter'
      BY <1>2, <1>4, <2>3
    <3> QED BY <1>2, <1>5, <2>1, <3>1, <3>2 DEF CountOf, At, DerefSteps
  <2> QED BY <2>2, <2>3
<1>7. packetCounter' <= Cardinality(Numbered')
  <2>1. /\ Cardinality(Numbered) \in Nat /\ Cardinality(Numbered') \in Nat
        /\ Cardinality(Numbered) <= Cardinality(Numbered')
    BY <1>1, <1>2, NumberedGrows DEF AfterInc
  <2> QED BY <1>1, <1>2, <2>1 DEF Counts, TypeOK
<1>8. CountsDistinct'
  <2> SUFFICES ASSUME NEW p \in Requests, NEW q \in Requests, p # q, cnt'[p] # 0, cnt'[q] # 0,
                      ptr'[p] # Null, ptr'[p] = ptr'[q]
               PROVE  cnt'[p] # cnt'[q]
    BY DEF CountsDistinct
  <2>1. cnt[p] \in Nat /\ cnt[q] \in Nat
    BY <1>1 DEF TypeOK
  <2>2. CASE p = r
    BY <1>2, <1>3, <1>4, <2>1, <2>2 DEF Current
  <2>3. CASE q = r
    BY <1>2, <1>3, <1>4, <2>1, <2>3 DEF Current
  <2>4. CASE p # r /\ q # r
    BY <1>1, <1>2, <1>3, <2>4 DEF Counts, CountsDistinct
  <2> QED BY <2>2, <2>3, <2>4
<1> QED BY <1>6, <1>7, <1>8 DEF Counts

\* The conversation with the robot neither numbers anything nor changes the socket.
LEMMA TalkCounts ==
  ASSUME FewRequests, CInv, NEW r \in Requests,
         SendCall(r) \/ GetLoad(r) \/ GetMemset(r) \/ GetRecv(r) \/ GetCopy(r),
         \A q \in Requests : q # r => pc[q] \in {"idle", "done"}
  PROVE  Counts'
<1>1. TypeOK /\ Counts /\ CountOf(r) /\ ControlOf(r)
  BY DEF CInv, LInv, Counts, Control
<1>2. /\ pc[r] \in DerefSteps \cup {"get_load"} /\ kind[r] \in CommandKinds
      /\ ptr[r] = clientSocket
      /\ UNCHANGED <<clientSocket, packetCounter, cnt, kind, heap>>
  BY <1>1 DEF SendCall, GetLoad, GetMemset, GetRecv, GetCopy, At, ControlOf, CountOf,
              CommandSteps, DerefSteps, shared, local, asked
<1>3. ptr' = ptr
  BY <1>1, <1>2 DEF SendCall, GetLoad, GetMemset, GetRecv, GetCopy, local, TypeOK
<1>4. PICK l \in {"get_load", "get_memset", "get_recv", "get_copy", "done"} :
        pc' = [pc EXCEPT ![r] = l]
  <2>1. CASE GetCopy(r)
    <3>1. ptr[r] \in Requests
      BY <1>1, <2>1 DEF GetCopy, ControlOf, At, TypeOK
    <3>2. AfterReply(r, Buffer[ptr[r]]) /\ Buffer[ptr[r]] \in Reply
      BY <1>1, <2>1, <3>1 DEF GetCopy, TypeOK
    <3>3. pc' = [pc EXCEPT ![r] = "get_load"] \/ pc' = [pc EXCEPT ![r] = "done"]
      BY <3>2, AfterReplyEffect
    <3> QED BY <3>3
  <2> QED BY <2>1 DEF SendCall, GetLoad, GetMemset, GetRecv, Goto
<1>5. pc'[r] = l
  BY <1>1, <1>4 DEF TypeOK
<1>6. CountOf(r)'
  <2>1. ~(\E p \in Requests : pc'[p] \in {"set_count", "send_load"})
    BY <1>1, <1>4 DEF TypeOK
  <2>2. CASE Current(r)
    BY <1>1, <1>2, <1>3, <1>5, <2>1, <2>2 DEF CountOf, At
  <2>3. CASE ~Current(r)
    <3>1. ~Current(r)'
      BY <1>2, <1>3, <2>3 DEF Current
    <3> QED BY <1>1, <1>2, <1>3, <1>5, <3>1 DEF CountOf, At
  <2> QED BY <2>2, <2>3
<1> QED BY <1>1, <1>2, <1>3, <1>4, <1>6, StepIn, QuietStepCounts DEF AfterInc

LEMMA CrashCounts ==
  ASSUME FewRequests, CInv, NEW r \in Requests, Crash(r)
  PROVE  Counts'
<1>1. TypeOK /\ Counts /\ Control
  BY DEF CInv, LInv, Counts
<1>2. /\ clientSocket' = Null /\ packetCounter' = 0 /\ kind' = kind
      /\ ptr' = [q \in Requests |-> Null] /\ cnt' = [q \in Requests |-> 0]
      /\ pc' = [q \in Requests |-> IF Outstanding(q) THEN "done" ELSE pc[q]]
  BY DEF Crash, asked
<1>3. ASSUME NEW q \in Requests PROVE CountOf(q)'
  <2>1. pc'[q] \in {"idle", "done"} /\ ptr'[q] = Null /\ cnt'[q] = 0
    BY <1>2 DEF Outstanding
  <2> QED BY <1>2, <2>1 DEF CountOf, Current, At, DerefSteps
<1>4. Cardinality(Numbered') \in Nat
  <2>1. Numbered' \subseteq Requests
    BY DEF Numbered
  <2> QED BY <2>1, FS_Subset, FS_CardinalityType DEF FewRequests
<1>5. CountsDistinct'
  BY <1>2 DEF CountsDistinct
<1> QED BY <1>2, <1>3, <1>4, <1>5 DEF Counts

LEMMA StepCounts ==
  ASSUME FewRequests, Discipline = "one", CInv, [Next]_vars
  PROVE  Counts'
<1>1. ASSUME NEW r \in Requests, Issue(r) \/ Handler(r) PROVE Counts'
  <2>1. \A q \in Requests : q # r => pc[q] \in {"idle", "done"}
    <3>1. CASE Issue(r)
      BY <3>1 DEF Issue, MayIssue, Quiet, Outstanding
    <3>2. CASE Handler(r)
      <4>1. Outstanding(r)
        BY <3>2 DEF Handler, Dispatch, Throw, Construct, ConstructThrows, SwapLoad, SwapStore,
                    SwapDelete, ZeroCounter, IncLoad, IncStore, SetPktCount, SendLoad, SendCall,
                    GetLoad, GetMemset, GetRecv, GetCopy, Crash, Faults, At, Outstanding
      <4> QED BY <4>1 DEF CInv, OneAtATime, Outstanding
    <3> QED BY <1>1, <3>1, <3>2
  <2> QED BY <1>1, <2>1, PageCounts, SwapCounts, ZeroCounts, NumberCounts, SendLoadCounts,
             TalkCounts, CrashCounts DEF Handler
<1>2. ASSUME UNCHANGED <<clientSocket, packetCounter, heap, pc, kind, ptr, cnt>> PROVE Counts'
  BY <1>2 DEF CInv, Counts, CountOf, Current, At, Numbered, CountsDistinct
<1>3. ASSUME NEW r \in Requests, Robot(r) PROVE Counts'
  BY <1>2, <1>3 DEF Robot, RobotAnswers, RobotTelemetry, shared, local, asked
<1>4. CASE UNCHANGED vars
  BY <1>2, <1>4 DEF vars, shared, local, asked
<1> QED BY <1>1, <1>3, <1>4 DEF Next

\* If a browser waits for each answer, whatever it asks, two commands that left through
\* one socket object carry different packet counts, whatever pages, failures, refused
\* and lost commands came between, as long as there are fewer requests than the 16 bits
\* of PktCount can number.
THEOREM CountsAreDistinct ==
  ASSUME FewRequests, Discipline = "one"
  PROVE  Spec => []CountsDistinct
<1>1. Init => CInv
  <2>1. Init => OneAtATime
    BY DEF Init, OneAtATime, Outstanding
  <2> QED BY <2>1, InitLInv, InitCounts DEF CInv
<1>2. CInv /\ [Next]_vars => CInv'
  BY StepTypeOK, StepControl, StepPagesAlone, StepLife, StepOneAtATime, StepCounts
  DEF CInv, LInv
<1>3. CInv => CountsDistinct
  BY DEF CInv, Counts
<1> QED BY <1>1, <1>2, <1>3, PTL DEF Spec
=============================================================================
