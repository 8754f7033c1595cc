------------------------------- MODULE RobotTest -------------------------------
(***************************************************************************)
(* The interactive test client (RobotTest/main.cpp), the network it talks   *)
(* over and the robot.  Each turn of its loop makes a MySocket, sends one    *)
(* command and waits for the reply, and for the telemetry after the reply    *)
(* to a status request.  The network loses, reorders and duplicates; the     *)
(* robot is known by its protocol only.                                      *)
(***************************************************************************)
EXTENDS Naturals, FiniteSets

CONSTANTS
    MaxTurns,    \* the commands a user types (a bound)
    FdLimit,     \* the descriptors the process may have open
    PktCountMod, \* the values of PktCount, an unsigned short: 65536 in the code
    MaxLost,     \* the datagrams the network may lose (a bound)
    MaxCopies    \* the datagrams it may deliver a second time (a bound)

ASSUME RobotTestAssumption ==
    /\ MaxTurns \in Nat /\ FdLimit \in Nat /\ PktCountMod \in Nat \ {0}
    /\ MaxLost \in Nat /\ MaxCopies \in Nat

Commands == {"drive", "sleep", "status"}
NoSocket == 0
Ports == 1 .. FdLimit

\* The datagrams.  For the history, turn tells in which turn the command was
\* sent, and number what packetCount was then.
PktCounts == 0 .. (PktCountMod - 1)
Command == [port : Ports, cmd : Commands, count : PktCounts,
            number : Nat, turn : 1 .. MaxTurns]
Reply == [port : Ports, what : {"ack", "telemetry"}, cmd : Commands,
          ack : BOOLEAN, turn : 1 .. MaxTurns]

VARIABLES
    pc,           \* "prompt", "send", "reply", "telemetry", or how main ended
    turn,         \* the turns of the loop so far
    packetCount,  \* as in main: an int, which no run of 2^30 turns overflows
    open,         \* the ports of the sockets the process holds
    port,         \* the port of this turn's socket, or NoSocket
    packet,       \* this turn's packet
    toRobot,      \* datagrams on their way to the robot
    toClient,     \* datagrams on their way to the client, or in its sockets
    acked,        \* history: the commands the robot has acknowledged
    taken,        \* history: the turn of the command that was last answered
    copies,       \* history: the datagrams delivered a second time, so far
    lost,         \* history: datagrams that were lost
    disorder      \* history: "overtaken" if telemetry was read before its
                  \* acknowledgement, "copied" if a command was delivered twice

net == <<toRobot, toClient, lost, copies>>
robotTestVars ==
    <<pc, turn, packetCount, open, port, packet, net, acked, taken, disorder>>

Ended == {"returned 0", "returned 1", "crashed"}

TypeOK ==
    /\ pc \in {"prompt", "send", "reply", "telemetry"} \cup Ended
    /\ turn \in 0 .. MaxTurns
    /\ packetCount \in 1 .. (1 + 2 * turn)
    /\ open \subseteq Ports /\ port \in open \cup {NoSocket}
    /\ packet.cmd \in Commands /\ packet.count \in PktCounts
    /\ packet.number \in 1 .. packetCount
    /\ toRobot \subseteq Command /\ toClient \subseteq Reply
    /\ acked \subseteq Command
    /\ taken \in 0 .. turn
    /\ lost \subseteq Command \cup Reply
    /\ copies \in 0 .. MaxCopies
    /\ disorder \subseteq {"overtaken", "copied"}

\* A packet with its command and count set: SetPktCount cuts the int to 16 bits.
NewPacket(c, n) == [cmd |-> c, count |-> n % PktCountMod, number |-> n]

Init ==
    /\ pc = "prompt" /\ turn = 0 /\ packetCount = 1
    /\ open = {} /\ port = NoSocket
    /\ packet = NewPacket("drive", 1)
    /\ toRobot = {} /\ toClient = {} /\ lost = {} /\ copies = 0
    /\ acked = {} /\ taken = 0 /\ disorder = {}

-------------------------------------------------------------------------------
(***************************************************************************)
(* The client.                                                              *)
(***************************************************************************)

\* The system chooses; every port that is free is as good as another.
AnyOf(ports) == CHOOSE p \in ports : TRUE

\* A plausible slip: the socket of the last turn is closed first, and the
\* system hands out the port again.
Mut_OpensClosing(p) ==
    LET held == open \ {port}
    IN  IF Ports \ held = {} THEN p = NoSocket /\ open' = held
        ELSE p = AnyOf(Ports \ held) /\ open' = held \cup {p}

\* The constructor: a socket on a port of its own, or a message and none.  The
\* destructor at the end of the turn closes no UDP socket.
Opens(p) ==
    IF Ports \ open = {} THEN p = NoSocket /\ UNCHANGED open
    ELSE p = AnyOf(Ports \ open) /\ open' = open \cup {p}

\* The user types a command.
Turn(c) ==
    /\ pc = "prompt" /\ turn < MaxTurns
    /\ turn' = turn + 1
    /\ Opens(port')
    /\ packet' = NewPacket(c, packetCount)
    /\ pc' = "send"
    /\ UNCHANGED <<packetCount, net, acked, taken, disorder>>

\* Another number, no number, or the end of the input: the loop is left, with
\* a socket made all the same.
BadCommand ==
    /\ pc = "prompt" /\ turn < MaxTurns
    /\ turn' = turn + 1
    /\ Opens(port')
    /\ pc' = "returned 1"
    /\ UNCHANGED <<packetCount, packet, net, acked, taken, disorder>>

\* The result of sendto is not looked at.
SendData ==
    /\ pc = "send"
    /\ toRobot' = IF port = NoSocket THEN toRobot
                  ELSE toRobot \cup {[port |-> port, cmd |-> packet.cmd,
                                      count |-> packet.count,
                                      number |-> packet.number, turn |-> turn]}
    /\ pc' = "reply"
    /\ UNCHANGED <<turn, packetCount, open, port, packet, toClient, acked, taken,
                   lost, copies, disorder>>

\* Without a socket recvfrom returns -1, and memcpy copies that many bytes.
GetDataCrashes ==
    /\ pc = "reply" /\ port = NoSocket
    /\ pc' = "crashed"
    /\ UNCHANGED <<turn, packetCount, open, port, packet, net, acked, taken, disorder>>

Mine == {m \in toClient : m.port = port}

\* m is taken out of set, or delivered with a copy of it to follow.
Removes(set, rest, m) ==
    \/ rest = set \ {m} /\ UNCHANGED copies
    \/ copies < MaxCopies /\ rest = set /\ copies' = copies + 1

\* A plausible slip: the count moves on for status and sleep commands only.
Mut_AfterReplyStays(m) ==
    /\ packetCount' = IF m.ack /\ m.cmd # "drive" THEN packetCount + 1 ELSE packetCount
    /\ pc' = IF ~ m.ack \/ m.cmd = "drive" THEN "prompt"
             ELSE IF m.cmd = "sleep" THEN "returned 0" ELSE "telemetry"

\* A plausible slip: telemetry is awaited after a drive command as well.
Mut_AfterReplyAwaits(m) ==
    /\ packetCount' = IF m.ack THEN packetCount + 1 ELSE packetCount
    /\ pc' = IF ~ m.ack THEN "prompt"
             ELSE IF m.cmd = "sleep" THEN "returned 0" ELSE "telemetry"

\* What main does with the flags of the reply.
AfterReply(m) ==
    /\ packetCount' = IF m.ack THEN packetCount + 1 ELSE packetCount
    /\ pc' = IF ~ m.ack \/ m.cmd = "drive" THEN "prompt"
             ELSE IF m.cmd = "sleep" THEN "returned 0" ELSE "telemetry"

GetReply ==
    /\ pc = "reply"
    /\ \E m \in Mine :
          /\ Removes(toClient, toClient', m)
          /\ AfterReply(m)
          /\ taken' = m.turn
          /\ disorder' = IF m.what = "telemetry" THEN disorder \cup {"overtaken"} ELSE disorder
    /\ UNCHANGED <<turn, open, port, packet, toRobot, acked, lost>>

\* Whatever arrives second is shown as telemetry.
GetTelemetry ==
    /\ pc = "telemetry"
    /\ \E m \in Mine : Removes(toClient, toClient', m) /\ taken' = m.turn
    /\ packetCount' = packetCount + 1
    /\ pc' = "prompt"
    /\ UNCHANGED <<turn, open, port, packet, toRobot, acked, lost, disorder>>

-------------------------------------------------------------------------------
(***************************************************************************)
(* The robot and the network.                                               *)
(***************************************************************************)

\* The robot acknowledges a command or refuses it; after the acknowledgement
\* of a status request it sends telemetry, whose Ack bit may be either.
Robot ==
    /\ \E m \in toRobot, ack \in BOOLEAN, telemetryAck \in BOOLEAN :
          LET says(w, a) == [port |-> m.port, what |-> w, cmd |-> m.cmd,
                             ack |-> a, turn |-> m.turn]
          IN  /\ Removes(toRobot, toRobot', m)
              /\ toClient' = toClient \cup {says("ack", ack)} \cup
                   (IF ack /\ m.cmd = "status" THEN {says("telemetry", telemetryAck)} ELSE {})
              /\ acked' = IF ack THEN acked \cup {m} ELSE acked
              /\ disorder' = IF m \in toRobot' THEN disorder \cup {"copied"} ELSE disorder
    /\ UNCHANGED <<pc, turn, packetCount, open, port, packet, taken, lost>>

Lose ==
    /\ Cardinality(lost) < MaxLost
    /\ \E m \in toRobot \cup toClient :
          /\ toRobot' = toRobot \ {m} /\ toClient' = toClient \ {m}
          /\ lost' = lost \cup {m}
    /\ UNCHANGED <<pc, turn, packetCount, open, port, packet, acked, taken, copies, disorder>>

Client == SendData \/ GetDataCrashes \/ GetReply \/ GetTelemetry
Next ==
    \/ \E c \in Commands : Turn(c)
    \/ BadCommand \/ Client \/ Robot \/ Lose

\* The process runs on whenever it can, the network delivers to the robot and
\* the robot answers; the user need not type anything.
Fairness == WF_robotTestVars(Client) /\ WF_robotTestVars(Robot)

Spec == Init /\ [][Next]_robotTestVars /\ Fairness

-------------------------------------------------------------------------------
(* A reply is the answer to the command of its own turn, although no packet *)
(* count is compared and the network may deliver late and twice: each turn  *)
(* listens on a port that no turn before had, because none was ever closed. *)
ReplyIsMine == (pc \in {"telemetry", "prompt"} /\ turn > 0) => taken = turn

(* A packet count comes back only when its 16 bits have come round, and      *)
(* each turn counts at most twice: two commands of different turns that the *)
(* robot obeyed bear one count only if half of PktCountMod turns lie between *)
(* them.  Excepted are a run in which telemetry overtook the acknowledgement *)
(* it belongs to (its Ack bit may be 0, and then the count stays where it   *)
(* was) and one in which a command reached the robot a second time.         *)
ObeyedCountsDistinct ==
    disorder = {} =>
        \A m, n \in acked :
            m.turn < n.turn /\ m.count = n.count => 2 * (n.turn - m.turn) >= PktCountMod

(* Every turn ends: with the prompt, with the program, with a crash when    *)
(* every descriptor is held by an earlier turn, or never because a datagram *)
(* of this very turn was lost.                                              *)
TurnEnds ==
    (pc \in {"send", "reply", "telemetry"}) ~>
        \/ pc \in {"prompt", "returned 0", "returned 1"}
        \/ pc = "crashed" /\ turn > FdLimit /\ open = Ports
        \/ \E m \in lost : m.turn = turn
===============================================================================
