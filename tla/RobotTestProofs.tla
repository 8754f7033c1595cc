---------------------------- MODULE RobotTestProofs ----------------------------
(***************************************************************************)
(* The safety of RobotTest for any number of turns, descriptors, losses and *)
(* copies.                                                                  *)
(***************************************************************************)
EXTENDS RobotTest, Integers, TLAPS

InTurn == {"send", "reply", "telemetry"}

\* How far the count can have come: twice in each turn, never before its reply.
Counted ==
    /\ pc \in InTurn => turn >= 1
    /\ pc \in {"send", "reply"} => packetCount <= 2 * turn - 1
    /\ pc = "telemetry" => packetCount <= 2 * turn

\* A port is never given out again, so what travels to or from this turn's port
\* belongs to this turn.
Fresh ==
    \A m \in toRobot \cup toClient :
        /\ m.port \in open
        /\ m.turn <= turn
        /\ m.port = port => m.turn = turn

IInv == TypeOK /\ Counted /\ Fresh /\ ReplyIsMine

-------------------------------------------------------------------------------
LEMMA OpensFresh ==
    ASSUME TypeOK, Opens(port')
    PROVE  /\ open' \subseteq Ports /\ open \subseteq open'
           /\ port' \in open' \cup {NoSocket}
           /\ port' \notin open
<1>1. NoSocket \notin Ports
    BY DEF NoSocket, Ports
<1>2. CASE Ports \ open = {}
    BY <1>1, <1>2 DEF TypeOK, Opens
<1>3. CASE Ports \ open # {}
    <2>1. AnyOf(Ports \ open) \in Ports \ open
        BY <1>3 DEF AnyOf
    <2>2. QED
        BY <1>3, <2>1 DEF TypeOK, Opens
<1>4. QED
    BY <1>2, <1>3

LEMMA NewPacketIs ==
    ASSUME NEW c \in Commands, NEW n \in Nat
    PROVE  /\ NewPacket(c, n).cmd = c /\ NewPacket(c, n).number = n
           /\ NewPacket(c, n).count = n % PktCountMod
           /\ NewPacket(c, n).count \in PktCounts
<1>1. n % PktCountMod \in 0 .. (PktCountMod - 1)
    BY RobotTestAssumption
<1>2. QED
    BY <1>1 DEF NewPacket, PktCounts

LEMMA InitHolds == ASSUME Init PROVE IInv
<1>1. /\ packet.cmd \in Commands /\ packet.number = 1 /\ packet.count \in PktCounts
    BY NewPacketIs DEF Init, Commands
<1>2. QED
    BY <1>1, RobotTestAssumption DEF Init, IInv, TypeOK, Counted, Fresh, ReplyIsMine, InTurn,
       Ended, Commands, NoSocket

LEMMA TurnHolds == ASSUME IInv, NEW c \in Commands, Turn(c) PROVE IInv'
<1>1. /\ open' \subseteq Ports /\ open \subseteq open'
      /\ port' \in open' \cup {NoSocket} /\ port' \notin open
    BY OpensFresh DEF IInv, Turn
<1>a. packet'.cmd \in Commands /\ packet'.count \in PktCounts /\ packet'.number = packetCount
    <2>1. packetCount \in Nat
        BY RobotTestAssumption DEF IInv, TypeOK
    <2>2. QED
        BY <2>1, NewPacketIs DEF Turn
<1>2. TypeOK'
    BY <1>1, <1>a, RobotTestAssumption DEF IInv, Turn, TypeOK, Counted, net, Ended, InTurn
<1>3. Counted'
    BY RobotTestAssumption DEF IInv, Turn, TypeOK, Counted, InTurn
<1>4. Fresh'
    BY <1>1, RobotTestAssumption DEF IInv, Turn, TypeOK, Fresh, net, Command, Reply
<1>5. ReplyIsMine'
    BY DEF Turn, ReplyIsMine
<1>6. QED
    BY <1>2, <1>3, <1>4, <1>5 DEF IInv

LEMMA BadCommandHolds == ASSUME IInv, BadCommand PROVE IInv'
<1>1. /\ open' \subseteq Ports /\ open \subseteq open'
      /\ port' \in open' \cup {NoSocket} /\ port' \notin open
    BY OpensFresh DEF IInv, BadCommand
<1>a. /\ pc' = "returned 1"
      /\ packetCount' = packetCount /\ packet' = packet /\ acked' = acked
      /\ toRobot' = toRobot /\ toClient' = toClient /\ lost' = lost /\ copies' = copies
      /\ taken' = taken /\ disorder' = disorder
    BY DEF BadCommand, net
<1>e. turn' = turn + 1
    BY DEF BadCommand
<1>b. /\ turn' \in 0 .. MaxTurns /\ packetCount' \in 1 .. (1 + 2 * turn')
      /\ taken' \in 0 .. turn'
    <2>1. /\ turn \in Nat /\ packetCount \in Nat /\ packetCount >= 1
          /\ packetCount <= 1 + 2 * turn /\ taken \in Nat /\ taken <= turn
        BY RobotTestAssumption DEF IInv, TypeOK
    <2>2. turn < MaxTurns
        BY DEF BadCommand
    <2>3. packetCount' = packetCount /\ taken' = taken
        BY <1>a
    <2>4. turn' \in 0 .. MaxTurns
        BY <1>e, <2>1, <2>2, RobotTestAssumption
    <2>5. packetCount' \in 1 .. (1 + 2 * turn')
        BY <1>e, <2>1, <2>3
    <2>6. taken' \in 0 .. turn'
        BY <1>e, <2>1, <2>3
    <2>7. QED
        BY <2>4, <2>5, <2>6
<1>c. /\ packet.cmd \in Commands /\ packet.count \in PktCounts /\ packet.number \in 1 .. packetCount
      /\ copies \in 0 .. MaxCopies
      /\ toRobot \subseteq Command /\ toClient \subseteq Reply /\ acked \subseteq Command
      /\ lost \subseteq Command \cup Reply /\ disorder \subseteq {"overtaken", "copied"}
    BY DEF IInv, TypeOK
<1>d. pc' = "returned 1" /\ packetCount' = packetCount /\ packet' = packet /\ acked' = acked
      /\ toRobot' = toRobot /\ toClient' = toClient /\ lost' = lost /\ copies' = copies
      /\ disorder' = disorder
    BY <1>a
<1>2. TypeOK'
    BY <1>1, <1>b, <1>c, <1>d DEF TypeOK, Ended
<1>3. Counted'
    BY DEF BadCommand, Counted, InTurn
<1>4. Fresh'
    <2> SUFFICES ASSUME NEW m \in toRobot \cup toClient
                 PROVE  m.port \in open' /\ m.turn <= turn' /\ (m.port = port' => m.turn = turn')
        BY <1>d DEF Fresh
    <2>1. m.port \in open /\ m.turn <= turn /\ m.turn \in Nat
        BY <1>c DEF IInv, Fresh, Command, Reply
    <2>2. turn \in Nat
        BY RobotTestAssumption DEF IInv, TypeOK
    <2>3. m.turn <= turn' /\ m.turn \in Nat
        BY <1>e, <2>1, <2>2
    <2>4. m.port \in open' /\ m.port # port'
        BY <1>1, <2>1
    <2>5. QED
        BY <2>3, <2>4
<1>5. ReplyIsMine'
    BY DEF BadCommand, ReplyIsMine
<1>6. QED
    BY <1>2, <1>3, <1>4, <1>5 DEF IInv

LEMMA SendDataHolds == ASSUME IInv, SendData PROVE IInv'
<1>1. /\ turn >= 1 /\ turn \in 1 .. MaxTurns /\ packet.count \in PktCounts
      /\ packet.number \in Nat /\ packetCount \in Nat /\ packet.cmd \in Commands
    BY RobotTestAssumption DEF IInv, TypeOK, Counted, SendData, InTurn
<1>2. CASE port = NoSocket
    BY <1>2 DEF IInv, SendData, TypeOK, Counted, Fresh, ReplyIsMine, InTurn, net
<1>3. CASE port # NoSocket
    <2> DEFINE m == [port |-> port, cmd |-> packet.cmd, count |-> packet.count,
                    number |-> packet.number, turn |-> turn]
    <2>1. port \in Ports /\ port \in open
        BY <1>3 DEF IInv, TypeOK
    <2>2. m \in Command
        BY <1>1, <2>1 DEF Command
    <2>3. toRobot' = toRobot \cup {m}
        BY <1>3 DEF SendData
    <2>4. TypeOK'
        BY <2>2, <2>3 DEF IInv, SendData, TypeOK
    <2>5. Fresh'
        BY <1>1, <2>1, <2>3 DEF IInv, SendData, Fresh
    <2>6. QED
        BY <2>4, <2>5 DEF IInv, SendData, Counted, ReplyIsMine, InTurn
<1>4. QED
    BY <1>2, <1>3

LEMMA GetDataCrashesHolds == ASSUME IInv, GetDataCrashes PROVE IInv'
    BY DEF IInv, GetDataCrashes, TypeOK, Counted, Fresh, ReplyIsMine, InTurn, Ended, net

\* What is taken out of a set of datagrams leaves a part of it.
LEMMA RemovesLeaves ==
    ASSUME TypeOK, NEW set, NEW rest, NEW m, Removes(set, rest, m)
    PROVE  rest \subseteq set /\ copies' \in 0 .. MaxCopies
    BY RobotTestAssumption DEF TypeOK, Removes

LEMMA GetReplyHolds == ASSUME IInv, GetReply PROVE IInv'
<1>1. PICK m \in Mine :
          /\ Removes(toClient, toClient', m)
          /\ AfterReply(m)
          /\ taken' = m.turn
          /\ disorder' = IF m.what = "telemetry" THEN disorder \cup {"overtaken"} ELSE disorder
    BY DEF GetReply
<1>2. /\ m \in toClient /\ m.port = port /\ m.turn = turn
      /\ m.cmd \in Commands /\ m.ack \in BOOLEAN
    BY DEF IInv, TypeOK, Fresh, Mine, Reply
<1>3. toClient' \subseteq toClient /\ copies' \in 0 .. MaxCopies
    BY <1>1, RemovesLeaves DEF IInv
<1>0. pc = "reply"
    BY DEF GetReply
<1>4. /\ turn \in Nat /\ turn >= 1
      /\ packetCount \in Nat /\ packetCount >= 1 /\ packetCount <= 2 * turn - 1
    BY <1>0, RobotTestAssumption DEF IInv, TypeOK, Counted, InTurn
<1>5. /\ packetCount' \in Nat /\ packetCount' >= packetCount /\ packetCount' <= 2 * turn
    <2>1. packetCount' = packetCount \/ packetCount' = packetCount + 1
        BY <1>1 DEF AfterReply
    <2>2. QED
        BY <1>4, <2>1
<1>f. pc' \in {"prompt", "returned 0", "telemetry"}
    BY <1>1, <1>2 DEF AfterReply, Commands
<1>a. turn' = turn /\ packet' = packet /\ open' = open /\ port' = port /\ toRobot' = toRobot
      /\ acked' = acked /\ lost' = lost
    BY DEF GetReply
<1>b. disorder' \subseteq {"overtaken", "copied"}
    BY <1>1 DEF IInv, TypeOK
<1>c. /\ packetCount' \in 1 .. (1 + 2 * turn) /\ packet.number \in 1 .. packetCount'
      /\ taken' \in 0 .. turn
    <2>1. packet.number \in 1 .. packetCount
        BY DEF IInv, TypeOK
    <2>2. taken' = turn
        BY <1>1, <1>2
    <2>3. packetCount' \in 1 .. (1 + 2 * turn)
        BY <1>4, <1>5
    <2>4. packet.number \in 1 .. packetCount'
        BY <1>4, <1>5, <2>1
    <2>5. taken' \in 0 .. turn
        BY <1>4, <2>2
    <2>6. QED
        BY <2>3, <2>4, <2>5
<1>6. TypeOK'
    BY <1>3, <1>a, <1>b, <1>c, <1>f DEF IInv, TypeOK, Ended
<1>7. Counted'
    <2> QED
        BY <1>4, <1>5, <1>a, <1>f DEF Counted, InTurn
<1>8. Fresh'
    BY <1>3 DEF IInv, GetReply, Fresh
<1>9. ReplyIsMine'
    BY <1>1, <1>2 DEF GetReply, ReplyIsMine
<1>10. QED
    BY <1>6, <1>7, <1>8, <1>9 DEF IInv

LEMMA GetTelemetryHolds == ASSUME IInv, GetTelemetry PROVE IInv'
<1>1. PICK m \in Mine : Removes(toClient, toClient', m) /\ taken' = m.turn
    BY DEF GetTelemetry
<1>2. m.turn = turn
    BY DEF IInv, Fresh, Mine
<1>3. toClient' \subseteq toClient /\ copies' \in 0 .. MaxCopies
    BY <1>1, RemovesLeaves DEF IInv
<1>4. /\ pc = "telemetry" /\ turn >= 1 /\ turn \in 0 .. MaxTurns
      /\ packetCount \in 1 .. (2 * turn)
    BY RobotTestAssumption DEF IInv, TypeOK, Counted, GetTelemetry, InTurn
<1>5. TypeOK'
    BY <1>1, <1>2, <1>3, <1>4, RobotTestAssumption DEF IInv, GetTelemetry, TypeOK
<1>6. Fresh'
    BY <1>3 DEF IInv, GetTelemetry, Fresh
<1>7. QED
    BY <1>1, <1>2, <1>5, <1>6 DEF IInv, GetTelemetry, Counted, ReplyIsMine, InTurn

LEMMA RobotHolds == ASSUME IInv, Robot PROVE IInv'
<1> DEFINE says(m, w, a) ==
        [port |-> m.port, what |-> w, cmd |-> m.cmd, ack |-> a, turn |-> m.turn]
<1>1. PICK m \in toRobot, ack \in BOOLEAN, telemetryAck \in BOOLEAN :
          /\ Removes(toRobot, toRobot', m)
          /\ toClient' = toClient \cup {says(m, "ack", ack)} \cup
               (IF ack /\ m.cmd = "status" THEN {says(m, "telemetry", telemetryAck)} ELSE {})
          /\ acked' = IF ack THEN acked \cup {m} ELSE acked
          /\ disorder' = IF m \in toRobot' THEN disorder \cup {"copied"} ELSE disorder
    BY DEF Robot
<1>2. toRobot' \subseteq toRobot /\ copies' \in 0 .. MaxCopies
    BY <1>1, RemovesLeaves DEF IInv
<1>3. m \in Command
    BY DEF IInv, TypeOK
<1>4. says(m, "ack", ack) \in Reply /\ says(m, "telemetry", telemetryAck) \in Reply
    BY <1>3 DEF Command, Reply
<1>5. TypeOK'
    BY <1>1, <1>2, <1>3, <1>4 DEF IInv, Robot, TypeOK
<1>6. Fresh'
    BY <1>1, <1>2 DEF IInv, Robot, Fresh
<1>7. QED
    BY <1>5, <1>6 DEF IInv, Robot, Counted, ReplyIsMine

LEMMA LoseHolds == ASSUME IInv, Lose PROVE IInv'
    BY DEF IInv, Lose, TypeOK, Counted, Fresh, ReplyIsMine

LEMMA StepHolds == ASSUME IInv, [Next]_robotTestVars PROVE IInv'
<1>1. CASE UNCHANGED robotTestVars
    BY <1>1 DEF robotTestVars, net, IInv, TypeOK, Counted, Fresh, ReplyIsMine
<1>2. CASE Next
    BY <1>2, TurnHolds, BadCommandHolds, SendDataHolds, GetDataCrashesHolds, GetReplyHolds,
       GetTelemetryHolds, RobotHolds, LoseHolds DEF Next, Client
<1>3. QED
    BY <1>1, <1>2

LEMMA AlwaysIInv == Spec => []IInv
<1>1. Init => IInv
    BY InitHolds
<1>2. IInv /\ [Next]_robotTestVars => IInv'
    BY StepHolds
<1>3. QED
    BY <1>1, <1>2, PTL DEF Spec

(* The state of RobotTest keeps its types, however the network behaves.     *)
THEOREM RobotTestTypeCorrect == Spec => []TypeOK
<1>1. IInv => TypeOK
    BY DEF IInv
<1>2. QED
    BY <1>1, AlwaysIInv, PTL

(* No turn takes a reply to the command of another (RobotTest/main.cpp      *)
(* 52-73), although datagrams are lost, repeated and reordered.             *)
THEOREM RepliesAreMine == Spec => []ReplyIsMine
<1>1. IInv => ReplyIsMine
    BY DEF IInv
<1>2. QED
    BY <1>1, AlwaysIInv, PTL

-------------------------------------------------------------------------------
\* Without copies and overtaking, what is on its way to the robot is this turn's
\* command, which nobody has answered; the commands it obeyed in earlier turns
\* have counts below the present one; and a refused command was not obeyed.
Once ==
    disorder = {} =>
        /\ toRobot # {} => pc = "reply"
        /\ \A m, n \in toRobot : m = n
        /\ \A m \in toRobot :
              /\ m.turn = turn /\ m.port = port /\ m.number = packet.number
              /\ \A r \in toClient : r.turn # turn
              /\ \A n \in acked : n.turn # turn
        /\ pc = "send" => \A r \in toClient \cup acked : r.turn # turn
        /\ pc \in {"send", "reply"} => packet.number = packetCount
        /\ \A n \in acked :
              /\ n.turn <= turn
              /\ n.turn = turn => n.number = packet.number
              /\ (n.turn # turn \/ pc \notin {"send", "reply", "crashed"}) => n.number < packetCount
        /\ \A r \in toClient, n \in acked :
              r.what = "ack" /\ ~ r.ack => n.turn # r.turn

\* What main had counted grows from command to command, at most twice a turn.
Apart ==
    disorder = {} =>
        \A m, n \in acked :
            m.turn < n.turn =>
                m.number < n.number /\ n.number + 2 * m.turn <= m.number + 2 * n.turn

\* How far the count can be from what a command was given.
Slack == IF pc \in {"send", "reply"} THEN 0 ELSE IF pc = "telemetry" THEN 1 ELSE 2
Near ==
    disorder = {} =>
        \A n \in acked : packetCount + 2 * n.turn <= n.number + 2 * turn + Slack

\* What leaves is what was counted, cut to its 16 bits.
Cut ==
    /\ packet.count = packet.number % PktCountMod
    /\ \A m \in toRobot \cup acked : m.count = m.number % PktCountMod

DInv == IInv /\ Once /\ Apart /\ Near /\ Cut

\* What Turn and BadCommand have in common.
Begins ==
    /\ pc = "prompt" /\ pc' \in {"send", "returned 1"}
    /\ packetCount' = packetCount
    /\ pc' = "send" => packet'.number = packetCount
    /\ UNCHANGED <<net, acked, disorder>>
Advances == turn' = turn + 1

LEMMA AdvancesPast ==
    ASSUME DInv, Advances
    PROVE  /\ \A r \in toClient : r.turn # turn'
           /\ disorder = {} => \A n \in acked : n.turn # turn' /\ n.turn <= turn'
<1>1. /\ turn \in Nat
      /\ \A n \in acked : n.turn \in Nat
      /\ \A r \in toClient : r.turn \in Nat /\ r.turn <= turn
    BY RobotTestAssumption DEF DInv, IInv, TypeOK, Fresh, Command, Reply
<1>2. disorder = {} => \A n \in acked : n.turn <= turn
    BY DEF DInv, Once
<1>3. QED
    BY <1>1, <1>2 DEF Advances

LEMMA NextTurnOnce == ASSUME DInv, Begins, Advances PROVE Once' /\ Apart'
<1>1. disorder = {} => toRobot = {} /\ \A n \in acked : n.number < packetCount
    BY DEF DInv, Once, Begins
<1>2. /\ toRobot' = toRobot /\ toClient' = toClient /\ acked' = acked /\ disorder' = disorder
    BY DEF Begins, net
<1>3. Once'
    <2> SUFFICES ASSUME disorder = {} PROVE Once'
        BY <1>2 DEF Once
    <2>1. toRobot' = {}
        BY <1>1, <1>2
    <2>2. pc' = "send" => packet'.number = packetCount'
        BY DEF Begins
    <2>3. pc' # "reply"
        BY DEF Begins
    <2>4. \A r \in toClient' \cup acked' : r.turn # turn'
        BY <1>2, AdvancesPast
    <2>5. \A n \in acked' : n.turn <= turn' /\ n.number < packetCount'
        BY <1>1, <1>2, AdvancesPast DEF Begins
    <2>6. \A r \in toClient', n \in acked' : r.what = "ack" /\ ~ r.ack => n.turn # r.turn
        BY <1>2 DEF DInv, Once
    <2>7. QED
        BY <2>1, <2>2, <2>3, <2>4, <2>5, <2>6 DEF Once
<1>4. Apart'
    BY <1>2 DEF DInv, Apart
<1>5. QED
    BY <1>3, <1>4

LEMMA SendDataOnce == ASSUME DInv, SendData PROVE Once' /\ Apart'
<1>1. disorder = {} => toRobot = {}
    BY DEF DInv, Once, SendData
<1>2. QED
    BY <1>1 DEF DInv, Once, Apart, SendData

LEMMA GetDataCrashesOnce == ASSUME DInv, GetDataCrashes PROVE Once' /\ Apart'
<1>1. disorder = {} => toRobot = {}
    <2>1. \A m \in toRobot : m.port # NoSocket
        BY DEF DInv, IInv, TypeOK, Command, Ports, NoSocket
    <2>2. QED
        BY <2>1 DEF DInv, Once, GetDataCrashes
<1>2. /\ pc' = "crashed" /\ turn' = turn /\ port' = port /\ packet' = packet
      /\ packetCount' = packetCount /\ toRobot' = toRobot /\ toClient' = toClient
      /\ acked' = acked /\ disorder' = disorder
    BY DEF GetDataCrashes, net
<1>3. QED
    BY <1>1, <1>2 DEF GetDataCrashes, DInv, Once, Apart

LEMMA GetReplyOnce == ASSUME DInv, GetReply PROVE Once' /\ Apart'
<1>1. PICK m \in Mine :
          /\ Removes(toClient, toClient', m)
          /\ AfterReply(m)
          /\ disorder' = IF m.what = "telemetry" THEN disorder \cup {"overtaken"} ELSE disorder
    BY DEF GetReply
<1>2. /\ m \in toClient /\ m.turn = turn /\ m.ack \in BOOLEAN
      /\ m.what \in {"ack", "telemetry"}
    BY DEF DInv, IInv, TypeOK, Fresh, Mine, Reply
<1>3. toClient' \subseteq toClient
    BY <1>1, RemovesLeaves DEF DInv, IInv
<1>4. pc' \in {"prompt", "returned 0", "telemetry"}
    BY <1>1 DEF DInv, IInv, TypeOK, Mine, Reply, AfterReply, Commands
<1>5. CASE disorder' = {}
    <2>1. disorder = {} /\ m.what = "ack"
        BY <1>1, <1>2, <1>5
    <2>2. toRobot = {}
        BY <1>2, <2>1 DEF DInv, Once
    <2>3. /\ packetCount \in Nat /\ packet.number = packetCount
          /\ \A n \in acked : n.number \in Nat
        BY <2>1, RobotTestAssumption DEF DInv, IInv, TypeOK, Once, GetReply, Command
    <2>4. \A n \in acked : n.number < packetCount'
        <3>1. CASE m.ack
            <4>1. \A n \in acked : n.number <= packetCount
                BY <2>1, <2>3 DEF DInv, Once
            <4>2. packetCount' = packetCount + 1
                BY <1>1, <3>1 DEF AfterReply
            <4>3. QED
                BY <2>3, <4>1, <4>2
        <3>2. CASE ~ m.ack
            <4>1. packetCount' = packetCount
                BY <1>1, <3>2 DEF AfterReply
            <4>2. QED
                BY <1>2, <2>1, <3>2, <4>1 DEF DInv, Once
        <3>3. QED
            BY <3>1, <3>2
    <2>5. QED
        BY <1>3, <1>4, <2>1, <2>2, <2>4 DEF DInv, Once, Apart, GetReply
<1>6. QED
    BY <1>5 DEF Once, Apart

LEMMA GetTelemetryOnce == ASSUME DInv, GetTelemetry PROVE Once' /\ Apart'
<1>1. toClient' \subseteq toClient
    BY RemovesLeaves DEF DInv, IInv, GetTelemetry
<1>2. /\ packetCount \in Nat /\ \A n \in acked : n.number \in Nat
    BY RobotTestAssumption DEF DInv, IInv, TypeOK, Command
<1>3. disorder = {} => \A n \in acked : n.number < packetCount'
    <2>1. packetCount' = packetCount + 1
        BY DEF GetTelemetry
    <2>2. disorder = {} => \A n \in acked : n.number < packetCount
        BY DEF DInv, Once, GetTelemetry
    <2>3. QED
        BY <1>2, <2>1, <2>2
<1>4. QED
    BY <1>1, <1>3 DEF DInv, Once, Apart, GetTelemetry

LEMMA RobotOnce == ASSUME DInv, Robot PROVE Once' /\ Apart'
<1> DEFINE says(m, w, a) ==
        [port |-> m.port, what |-> w, cmd |-> m.cmd, ack |-> a, turn |-> m.turn]
<1>1. PICK m \in toRobot, ack \in BOOLEAN, telemetryAck \in BOOLEAN :
          /\ Removes(toRobot, toRobot', m)
          /\ toClient' = toClient \cup {says(m, "ack", ack)} \cup
               (IF ack /\ m.cmd = "status" THEN {says(m, "telemetry", telemetryAck)} ELSE {})
          /\ acked' = IF ack THEN acked \cup {m} ELSE acked
          /\ disorder' = IF m \in toRobot' THEN disorder \cup {"copied"} ELSE disorder
    BY DEF Robot
<1>2. CASE disorder' = {}
    <2>1. disorder = {} /\ m \notin toRobot'
        BY <1>1, <1>2
    <2>2. /\ pc = "reply" /\ m.turn = turn /\ m.number = packet.number
          /\ packet.number = packetCount
        BY <1>1, <2>1 DEF DInv, Once
    <2>a. \A n \in acked : packetCount + 2 * n.turn <= n.number + 2 * turn
        <3>1. \A n \in acked : packetCount + 2 * n.turn <= n.number + 2 * turn + 0
            BY <2>1, <2>2 DEF DInv, Near, Slack
        <3>2. turn \in Nat /\ \A n \in acked : n.number \in Nat
            BY RobotTestAssumption DEF DInv, IInv, TypeOK, Command
        <3>3. QED
            BY <3>1, <3>2
    <2>3. \A r \in toClient : r.turn # turn
        BY <1>1, <2>1 DEF DInv, Once
    <2>4. \A n \in acked : n.turn # turn
        BY <1>1, <2>1 DEF DInv, Once
    <2>5. toRobot' = {}
        BY <1>1, <2>1 DEF DInv, Once, Removes
    <2>6. \A r \in toClient' : r \in toClient \/ r = says(m, "ack", ack)
                                \/ r = says(m, "telemetry", telemetryAck)
        BY <1>1
    <2>7. \A n \in acked' : n \in acked \/ (n = m /\ ack)
        <3>1. CASE ack
            BY <1>1, <3>1
        <3>2. CASE ~ ack
            BY <1>1, <3>2
        <3>3. QED
            BY <3>1, <3>2
    <2>8. turn \in Nat /\ packetCount \in Nat /\ \A n \in acked : n.number \in Nat
        BY RobotTestAssumption DEF DInv, IInv, TypeOK, Command
    <2>b. \A n \in acked : n.turn \in Nat
        BY DEF DInv, IInv, TypeOK, Command
    <2>9. \A n \in acked : n.number < packetCount /\ n.turn <= turn
        BY <2>1, <2>4 DEF DInv, Once
    <2>10. \A r \in toClient', n \in acked' : r.what = "ack" /\ ~ r.ack => n.turn # r.turn
        <3> SUFFICES ASSUME NEW r \in toClient', NEW n \in acked', r.what = "ack", ~ r.ack
                     PROVE  n.turn # r.turn
            OBVIOUS
        <3>1. CASE r \in toClient
            BY <2>1, <2>2, <2>3, <2>7, <3>1 DEF DInv, Once
        <3>2. CASE r = says(m, "ack", ack)
            BY <2>2, <2>4, <2>7, <3>2
        <3>3. CASE r = says(m, "telemetry", telemetryAck)
            BY <3>3
        <3>4. QED
            BY <2>6, <3>1, <3>2, <3>3
    <2>11. \A n \in acked' : /\ n.turn <= turn
                             /\ n.turn = turn => n.number = packet.number
                             /\ n.turn # turn => n.number < packetCount
        BY <2>2, <2>4, <2>7, <2>8, <2>9
    <2>12. Apart'
        <3> SUFFICES ASSUME NEW k \in acked', NEW n \in acked', k.turn < n.turn
                     PROVE  k.number < n.number /\ n.number + 2 * k.turn <= k.number + 2 * n.turn
            BY DEF Apart
        <3>1. CASE k \in acked /\ n \in acked
            BY <2>1, <3>1 DEF DInv, Apart
        <3>2. CASE k \in acked /\ n = m
            BY <2>2, <2>9, <2>a, <3>2
        <3>3. CASE k = m
            <4>1. n.turn <= turn /\ n.turn \in Nat
                BY <2>2, <2>7, <2>8, <2>9, <2>b
            <4>2. QED
                BY <2>2, <2>8, <3>3, <4>1
        <3>4. QED
            BY <2>7, <3>1, <3>2, <3>3
    <2>13. QED
        BY <2>2, <2>5, <2>10, <2>11, <2>12 DEF Once, Apart, Robot
<1>3. QED
    BY <1>2 DEF Once, Apart

LEMMA LoseOnce == ASSUME DInv, Lose PROVE Once' /\ Apart'
    BY DEF DInv, Lose, Once, Apart

LEMMA InitApart == ASSUME Init PROVE DInv
<1>1. IInv
    BY InitHolds
<1>2. packet.count = packet.number % PktCountMod
    BY NewPacketIs DEF Init, Commands
<1>3. QED
    BY <1>1, <1>2 DEF Init, DInv, Once, Apart, Near, Cut

\* No step counts more than the slack it gains, and a new turn gains two.
\* What a step counts, it gains in turns and in slack.
LEMMA Gains ==
    ASSUME NEW c \in Nat, NEW cc \in Nat, NEW t \in Nat, NEW tt \in Nat,
           NEW nt \in Nat, NEW nn \in Nat, NEW k \in Nat, NEW l \in Nat,
           c + 2 * nt <= nn + 2 * t + k, cc + 2 * t + k <= c + 2 * tt + l
    PROVE  cc + 2 * nt <= nn + 2 * tt + l
    OBVIOUS

LEMMA NearHolds == ASSUME DInv, [Next]_robotTestVars PROVE Near'
<1>1. /\ turn \in Nat /\ packetCount \in Nat /\ turn' \in Nat /\ packetCount' \in Nat
      /\ \A n \in acked : n.number \in Nat /\ n.turn \in Nat
    <2>1. /\ turn \in Nat /\ packetCount \in Nat
          /\ \A n \in acked : n.number \in Nat /\ n.turn \in Nat
        BY RobotTestAssumption DEF DInv, IInv, TypeOK, Command
    <2>2. IInv'
        BY StepHolds DEF DInv
    <2>3. turn' \in Nat /\ packetCount' \in Nat
        BY <2>2, RobotTestAssumption DEF IInv, TypeOK
    <2>4. QED
        BY <2>1, <2>3
<1>2. ASSUME acked' = acked, disorder' = {} => disorder = {},
             packetCount' + 2 * turn + Slack <= packetCount + 2 * turn' + Slack'
      PROVE  Near'
    <2> SUFFICES ASSUME disorder' = {}, NEW n \in acked
                 PROVE  packetCount' + 2 * n.turn <= n.number + 2 * turn' + Slack'
        BY <1>2 DEF Near
    <2>1. packetCount + 2 * n.turn <= n.number + 2 * turn + Slack
        BY <1>2 DEF DInv, Near
    <2>2. PICK k \in Nat, l \in Nat : k = Slack /\ l = Slack'
        BY DEF Slack
    <2>3. packetCount + 2 * n.turn <= n.number + 2 * turn + k
        BY <2>1, <2>2
    <2>4. packetCount' + 2 * turn + k <= packetCount + 2 * turn' + l
        <3>1. packetCount' + 2 * turn + Slack <= packetCount + 2 * turn' + Slack'
            BY <1>2
        <3>2. QED
            BY <2>2, <3>1
    <2>5. /\ n.number \in Nat /\ n.turn \in Nat /\ turn \in Nat /\ packetCount \in Nat
          /\ packetCount' \in Nat /\ turn' \in Nat
        BY <1>1
    <2>6. packetCount' + 2 * n.turn <= n.number + 2 * turn' + l
        BY <2>3, <2>4, <2>5, Gains, Zenon
    <2>7. QED
        BY <2>2, <2>6
<1>3. ASSUME Begins, Advances PROVE Near'
    <2>1. Slack = 2 /\ Slack' \in Nat
        BY <1>3 DEF Begins, Slack
    <2>2. /\ turn' = turn + 1 /\ packetCount' = packetCount
          /\ acked' = acked /\ disorder' = disorder
        BY <1>3 DEF Begins, Advances
    <2>3. packetCount' + 2 * turn + Slack <= packetCount + 2 * turn' + Slack'
        <3>1. PICK l \in Nat : l = Slack'
            BY <2>1
        <3>2. packetCount' + 2 * turn + 2 <= packetCount + 2 * turn' + l
            BY <1>1, <2>2
        <3>3. QED
            BY <2>1, <3>1, <3>2
    <2>4. QED
        BY <1>1, <1>2, <2>2, <2>3
<1>4. CASE SendData
    <2>1. Slack = 0 /\ Slack' = 0
        BY <1>4 DEF SendData, Slack
    <2>2. UNCHANGED <<turn, packetCount, acked, disorder>>
        BY <1>4 DEF SendData
    <2>3. QED
        BY <1>1, <1>2, <2>1, <2>2
<1>5. CASE GetDataCrashes
    <2>1. Slack = 0 /\ Slack' = 2
        BY <1>5 DEF GetDataCrashes, Slack
    <2>2. UNCHANGED <<turn, packetCount, acked, disorder>>
        BY <1>5 DEF GetDataCrashes
    <2>3. QED
        BY <1>1, <1>2, <2>1, <2>2
<1>6. CASE GetReply
    <2>1. PICK m \in Mine :
              /\ AfterReply(m)
              /\ disorder' = IF m.what = "telemetry" THEN disorder \cup {"overtaken"} ELSE disorder
        BY <1>6 DEF GetReply
    <2>2. Slack = 0 /\ Slack' \in {1, 2}
        BY <1>6, <2>1 DEF GetReply, AfterReply, Slack
    <2>3. packetCount' = packetCount \/ packetCount' = packetCount + 1
        BY <2>1 DEF AfterReply
    <2>4. turn' = turn /\ acked' = acked /\ (disorder' = {} => disorder = {})
        BY <1>6, <2>1 DEF GetReply
    <2>5. packetCount' + 2 * turn + Slack <= packetCount + 2 * turn' + Slack'
        <3>1. PICK l \in {1, 2} : l = Slack'
            BY <2>2
        <3>2. PICK c \in Nat : c = packetCount'
            BY <1>1
        <3>3. turn \in Nat /\ packetCount \in Nat
            BY <1>1
        <3>4. c = packetCount \/ c = packetCount + 1
            BY <2>3, <3>2
        <3>5. c + 2 * turn + 0 <= packetCount + 2 * turn + l
            BY <3>3, <3>4
        <3>6. QED
            BY <2>2, <2>4, <3>1, <3>2, <3>5, Zenon
    <2>6. QED
        BY <1>2, <2>4, <2>5
<1>7. CASE GetTelemetry
    <2>1. Slack = 1 /\ Slack' = 2
        BY <1>7 DEF GetTelemetry, Slack
    <2>2. packetCount' = packetCount + 1 /\ UNCHANGED <<turn, acked, disorder>>
        BY <1>7 DEF GetTelemetry
    <2>3. QED
        BY <1>1, <1>2, <2>1, <2>2
<1>8. CASE Robot
    <2> SUFFICES ASSUME disorder' = {}, NEW n \in acked'
                 PROVE  packetCount + 2 * n.turn <= n.number + 2 * turn + Slack
        BY <1>8 DEF Near, Robot, Slack
    <2>1. PICK m \in toRobot, ack \in BOOLEAN :
              /\ acked' = IF ack THEN acked \cup {m} ELSE acked
              /\ disorder' = IF m \in toRobot' THEN disorder \cup {"copied"} ELSE disorder
        BY <1>8 DEF Robot
    <2>2. disorder = {}
        BY <2>1
    <2>3. m.turn = turn /\ m.number = packetCount /\ Slack = 0
        BY <2>2 DEF DInv, Once, Slack
    <2>4. CASE n \in acked
        BY <2>2, <2>4 DEF DInv, Near
    <2>5. CASE n = m
        BY <1>1, <2>3, <2>5
    <2>6. QED
        BY <2>1, <2>4, <2>5
<1>9. CASE Lose
    BY <1>9 DEF Lose, DInv, Near, Slack
<1>10. CASE UNCHANGED robotTestVars
    BY <1>10 DEF robotTestVars, DInv, Near, Slack
<1>11. QED
    <2>1. ASSUME NEW c \in Commands, Turn(c) PROVE Begins /\ Advances
        BY <2>1 DEF Turn, Begins, Advances, NewPacket
    <2>2. BadCommand => Begins /\ Advances
        BY DEF BadCommand, Begins, Advances
    <2>3. QED
        BY <1>3, <1>4, <1>5, <1>6, <1>7, <1>8, <1>9, <1>10, <2>1, <2>2 DEF Next, Client

LEMMA CutHolds == ASSUME DInv, [Next]_robotTestVars PROVE Cut'
<1>1. ASSUME NEW c \in Commands, Turn(c) PROVE Cut'
    <2>1. packetCount \in Nat
        BY RobotTestAssumption DEF DInv, IInv, TypeOK
    <2>2. QED
        BY <1>1, <2>1, NewPacketIs DEF Turn, net, DInv, Cut
<1>2. ASSUME packet' = packet, toRobot' \cup acked' \subseteq toRobot \cup acked PROVE Cut'
    BY <1>2 DEF DInv, Cut
<1>3. CASE SendData
    BY <1>3 DEF SendData, DInv, Cut
<1>4. CASE Robot
    <2>1. PICK m \in toRobot, ack \in BOOLEAN :
              /\ Removes(toRobot, toRobot', m)
              /\ acked' = IF ack THEN acked \cup {m} ELSE acked
        BY <1>4 DEF Robot
    <2>2. toRobot' \subseteq toRobot
        BY <2>1, RemovesLeaves DEF DInv, IInv
    <2>3. acked' \subseteq toRobot \cup acked
        BY <2>1
    <2>4. packet' = packet
        BY <1>4 DEF Robot
    <2>5. QED
        BY <1>2, <2>2, <2>3, <2>4
<1>5. CASE BadCommand \/ GetDataCrashes \/ GetReply \/ GetTelemetry \/ Lose
    BY <1>2, <1>5 DEF BadCommand, GetDataCrashes, GetReply, GetTelemetry, Lose, net
<1>6. CASE UNCHANGED robotTestVars
    BY <1>2, <1>6 DEF robotTestVars, net
<1>7. QED
    BY <1>1, <1>3, <1>4, <1>5, <1>6 DEF Next, Client

LEMMA ApartHolds == ASSUME DInv, [Next]_robotTestVars PROVE Once' /\ Apart'
<1>1. ASSUME NEW c \in Commands, Turn(c) PROVE Once' /\ Apart'
    <2>1. Begins /\ Advances
        BY <1>1 DEF Turn, Begins, Advances, NewPacket
    <2>2. QED
        BY <2>1, NextTurnOnce
<1>2. CASE BadCommand
    <2>1. Begins /\ Advances
        BY <1>2 DEF BadCommand, Begins, Advances
    <2>2. QED
        BY <2>1, NextTurnOnce
<1>3. CASE UNCHANGED robotTestVars
    <2>1. /\ pc' = pc /\ turn' = turn /\ port' = port /\ packet' = packet
          /\ packetCount' = packetCount /\ toRobot' = toRobot /\ toClient' = toClient
          /\ acked' = acked /\ disorder' = disorder
        BY <1>3 DEF robotTestVars, net
    <2>2. QED
        BY <2>1 DEF DInv, Once, Apart
<1>4. QED
    BY <1>1, <1>2, <1>3, SendDataOnce, GetDataCrashesOnce, GetReplyOnce,
       GetTelemetryOnce, RobotOnce, LoseOnce DEF Next, Client

LEMMA AlwaysDInv == Spec => []DInv
<1>1. Init => DInv
    BY InitApart
<1>2. DInv /\ [Next]_robotTestVars => DInv'
    BY StepHolds, ApartHolds, NearHolds, CutHolds DEF DInv
<1>3. QED
    BY <1>1, <1>2, PTL DEF Spec

-------------------------------------------------------------------------------
\* Numbers that are cut to the same remainder are a modulus apart.
LEMMA SameRemainder ==
    ASSUME NEW x \in Nat, NEW y \in Nat, NEW m \in Nat \ {0}, x < y, x % m = y % m
    PROVE  y - x >= m
<1> DEFINE p == x \div m
           q == y \div m
<1>1. p \in Int /\ q \in Int /\ y - x = m * (q - p)
    <2>1. x \div m \in Int /\ x % m \in Int /\ x = m * (x \div m) + (x % m)
        OBVIOUS
    <2>2. y \div m \in Int /\ y % m \in Int /\ y = m * (y \div m) + (y % m)
        OBVIOUS
    <2>3. /\ p \in Int /\ q \in Int /\ x % m \in Int
          /\ x = m * p + (x % m) /\ y = m * q + (x % m)
        BY <2>1, <2>2
    <2> HIDE DEF p, q
    <2>4. QED
        BY <2>3
<1> HIDE DEF p, q
<1>2. q - p >= 1
    BY <1>1
<1>3. QED
    BY <1>1, <1>2

LEMMA CountsComeRound == ASSUME DInv PROVE ObeyedCountsDistinct
<1> SUFFICES ASSUME disorder = {}, NEW m \in acked, NEW n \in acked,
                    m.turn < n.turn, m.count = n.count
             PROVE  2 * (n.turn - m.turn) >= PktCountMod
    BY DEF ObeyedCountsDistinct
<1>1. /\ m.number \in Nat /\ n.number \in Nat /\ m.turn \in Nat /\ n.turn \in Nat
      /\ PktCountMod \in Nat \ {0}
    BY RobotTestAssumption DEF DInv, IInv, TypeOK, Command
<1>2. m.number < n.number /\ n.number + 2 * m.turn <= m.number + 2 * n.turn
    BY DEF DInv, Apart
<1>3. m.number % PktCountMod = n.number % PktCountMod
    BY DEF DInv, Cut
<1>4. n.number - m.number >= PktCountMod
    BY <1>1, <1>2, <1>3, SameRemainder
<1>5. QED
    BY <1>1, <1>2, <1>4

(* Over any network, the 16-bit counts of the commands that the robot       *)
(* obeyed repeat only after as many turns as it takes to count through      *)
(* them, unless telemetry overtook its acknowledgement or a command came a  *)
(* second time (RobotTest/main.cpp 43-73).                                  *)
THEOREM CountsOfObeyedDistinct == Spec => []ObeyedCountsDistinct
<1>1. DInv => ObeyedCountsDistinct
    BY CountsComeRound
<1>2. QED
    BY <1>1, AlwaysDInv, PTL

\* Fewer turns than that: in the code, fewer than 32768 commands to one run.
FewTurns == 2 * MaxTurns <= PktCountMod

(* So within few turns no two commands that the robot obeyed bear one count. *)
THEOREM FewTurnsDistinct ==
    ASSUME FewTurns
    PROVE  Spec => [](disorder = {} =>
               \A m, n \in acked : m.count = n.count => m.turn = n.turn)
<1>1. ASSUME DInv
      PROVE  disorder = {} => \A m, n \in acked : m.count = n.count => m.turn = n.turn
    <2> SUFFICES ASSUME disorder = {}, NEW m \in acked, NEW n \in acked, m.count = n.count
                 PROVE  m.turn = n.turn
        OBVIOUS
    <2>1. /\ m.turn \in 1 .. MaxTurns /\ n.turn \in 1 .. MaxTurns
          /\ MaxTurns \in Nat /\ PktCountMod \in Nat
        BY <1>1, RobotTestAssumption DEF DInv, IInv, TypeOK, Command
    <2>2. /\ m.turn < n.turn => 2 * (n.turn - m.turn) >= PktCountMod
          /\ n.turn < m.turn => 2 * (m.turn - n.turn) >= PktCountMod
        BY <1>1, CountsComeRound DEF ObeyedCountsDistinct
    <2>3. 2 * MaxTurns <= PktCountMod
        BY DEF FewTurns
    <2>4. PICK i \in 1 .. MaxTurns, j \in 1 .. MaxTurns : i = m.turn /\ j = n.turn
        BY <2>1
    <2>5. /\ i < j => 2 * (j - i) >= PktCountMod
          /\ j < i => 2 * (i - j) >= PktCountMod
        BY <2>2, <2>4
    <2>6. MaxTurns \in Nat /\ PktCountMod \in Nat
        BY <2>1
    <2>7. 2 * (j - i) < PktCountMod /\ 2 * (i - j) < PktCountMod
        BY <2>3, <2>6
    <2>8. i = j
        BY <2>5, <2>6, <2>7
    <2>9. QED
        BY <2>4, <2>8
<1>2. QED
    BY <1>1, AlwaysDInv, PTL
===============================================================================
