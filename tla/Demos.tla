--------------------------------- MODULE Demos ---------------------------------
(***************************************************************************)
(* The demonstration programs: the TCP and the UDP client and server of      *)
(* Milestone 2 over their MySocket, and the client and server of Milestone 1 *)
(* with the first packet format.  One server, which may be started again    *)
(* after it has ended, and several clients, started at any time; they run   *)
(* on one host, where a datagram gets lost only if nobody is bound to its   *)
(* port.                                                                    *)
(***************************************************************************)
EXTENDS DemosSetting

Programs == {"TCP", "UDP", "Milestone1"}
Nothing == "nothing"

wires == <<inbox, backlog, upstream, down>>
demosVars == <<demo, server, runs, lingers, SvrAddr, conn, client, wires, body,
               heard, told, shown>>

ServerAt == {"off", "accept", "recv", "send", "close", "dead"}
ClientAt == {"off", "connect", "send", "recv", "done", "dead"}
NoDatagram == [from |-> Nobody, bytes |-> <<>>]

Init ==
    /\ demo \in Programs
    /\ server = "off" /\ runs = 0 /\ lingers = FALSE /\ SvrAddr = "own"
    /\ inbox = <<>> /\ backlog = <<>> /\ conn = Nobody
    /\ client = [c \in Clients |-> "off"]
    /\ upstream = {} /\ down = [c \in Clients |-> Nothing]
    /\ body \in [Clients -> Bodies]
    /\ heard = Nobody /\ told = Nobody /\ shown = NotShown

-------------------------------------------------------------------------------
(***************************************************************************)
(* The server.                                                              *)
(***************************************************************************)
Listening == demo = "TCP" /\ server \in {"accept", "recv", "send", "close"}
Bound == demo # "TCP" /\ server \in {"recv", "send"}

\* The constructor, or the calls of Milestone 1's main.  While the address
\* lingers, bind fails: MySocket says so and carries on without a socket.
ServerStarts ==
    /\ server \in {"off", "dead"} /\ runs < MaxRuns
    /\ runs' = runs + 1
    /\ server' = CASE demo # "TCP" -> "recv"
                   [] demo = "TCP" /\ ~ lingers -> "accept"
                   [] OTHER -> "dead"     \* accept, then recv, return -1
    /\ SvrAddr' = "own" /\ heard' = Nobody /\ told' = Nobody /\ shown' = NotShown
    /\ UNCHANGED <<demo, lingers, conn, client, wires, body>>

\* The system lets go of the address.
LingerEnds ==
    /\ lingers /\ lingers' = FALSE
    /\ UNCHANGED <<demo, server, runs, SvrAddr, conn, client, wires, body, heard,
                   told, shown>>

\* ConnectTCP: accept.
Accept ==
    /\ demo = "TCP" /\ server = "accept" /\ backlog # <<>>
    /\ conn' = Head(backlog) /\ backlog' = Tail(backlog)
    /\ server' = "recv"
    /\ UNCHANGED <<demo, runs, lingers, SvrAddr, client, inbox, upstream, down, body,
                   heard, told, shown>>

ServerReceivesTCP ==
    /\ demo = "TCP" /\ server = "recv" /\ conn \in upstream
    /\ upstream' = upstream \ {conn}
    /\ heard' = conn
    /\ server' = "send"
    /\ UNCHANGED <<demo, runs, lingers, SvrAddr, conn, client, inbox, backlog, down,
                   body, told, shown>>

\* A plausible slip: recvfrom is given no place for the sender's address.
Mut_AddrAfter(from) == SvrAddr

\* recvfrom stores the sender's address over the server's own.
AddrAfter(from) == from

ServerReceivesUDP ==
    /\ demo = "UDP" /\ server = "recv" /\ inbox # <<>>
    /\ heard' = Head(inbox).from /\ inbox' = Tail(inbox)
    /\ SvrAddr' = AddrAfter(Head(inbox).from)
    /\ server' = "send"
    /\ UNCHANGED <<demo, runs, lingers, conn, client, backlog, upstream, down, body,
                   told, shown>>

\* Milestone 1: parse, check, display, end.  Its addr_len is not initialised,
\* which spoils the address that nobody reads and leaves the data alone.
ServerShows ==
    /\ demo = "Milestone1" /\ server = "recv" /\ inbox # <<>>
    /\ heard' = Head(inbox).from
    /\ shown' = [body |-> Payload(Head(inbox).bytes), crc |-> CheckCRC(Head(inbox).bytes)]
    /\ server' = "off" /\ inbox' = <<>>
    /\ UNCHANGED <<demo, runs, lingers, SvrAddr, conn, client, backlog, upstream, down,
                   body, told>>

\* SendData.  A UDP server ends here; its socket goes with the process.
ServerSends ==
    /\ server = "send"
    /\ LET to == IF demo = "TCP" THEN conn ELSE SvrAddr
       IN  IF to \in Clients
           THEN down' = [down EXCEPT ![to] = "reply"] /\ told' = to
           ELSE UNCHANGED <<down, told>>
    /\ server' = IF demo = "TCP" THEN "close" ELSE "off"
    /\ inbox' = <<>>
    /\ UNCHANGED <<demo, runs, lingers, SvrAddr, conn, client, backlog, upstream, body,
                   heard, shown>>

InBacklog(c) == \E i \in DOMAIN backlog : backlog[i] = c

\* DisconnectTCP and the destructor: the server closes first, so its address
\* lingers; the connections that it never accepted are reset.
ServerCloses ==
    /\ demo = "TCP" /\ server = "close"
    /\ server' = "off" /\ lingers' = TRUE
    /\ conn' = Nobody /\ backlog' = <<>>
    /\ upstream' = {}
    /\ down' = [c \in Clients |-> IF InBacklog(c) THEN "reset" ELSE down[c]]
    /\ UNCHANGED <<demo, runs, SvrAddr, client, inbox, body, heard, told, shown>>

-------------------------------------------------------------------------------
(***************************************************************************)
(* The clients.                                                             *)
(***************************************************************************)
At(c, where) == client[c] = where
Goes(c, where) == client' = [client EXCEPT ![c] = where]

ClientStarts(c) ==
    /\ At(c, "off")
    /\ Goes(c, IF demo = "TCP" THEN "connect" ELSE "send")
    /\ UNCHANGED <<demo, server, runs, lingers, SvrAddr, conn, wires, body, heard,
                   told, shown>>

\* Nobody listens.
Refuses == ~ Listening

\* The system completes a connection before accept takes it.
Connect(c) ==
    /\ At(c, "connect") /\ ~ Refuses
    /\ backlog' = Append(backlog, c)
    /\ Goes(c, "send")
    /\ UNCHANGED <<demo, server, runs, lingers, SvrAddr, conn, inbox, upstream, down,
                   body, heard, told, shown>>

\* ConnectTCP only prints that it failed; the SendData that follows has no
\* connection, and SIGPIPE ends the program.
ConnectRefused(c) ==
    /\ At(c, "connect") /\ Refuses
    /\ Goes(c, "dead")
    /\ UNCHANGED <<demo, server, runs, lingers, SvrAddr, conn, wires, body, heard,
                   told, shown>>

ClientSendsTCP(c) ==
    /\ demo = "TCP" /\ At(c, "send")
    /\ \/ /\ down[c] # "reset" /\ upstream' = upstream \cup {c} /\ Goes(c, "recv")
       \/ /\ down[c] = "reset" /\ upstream' = upstream
          /\ Goes(c, "recv") \/ Goes(c, "dead")
    /\ UNCHANGED <<demo, server, runs, lingers, SvrAddr, conn, inbox, backlog, down,
                   body, heard, told, shown>>

\* A Milestone 1 client ends after its packet, and closes its socket.
ClientSendsUDP(c) ==
    /\ demo # "TCP" /\ At(c, "send")
    /\ inbox' = IF ~ Bound THEN inbox
                ELSE Append(inbox, [from |-> c, bytes |->
                         IF demo = "UDP" THEN <<>> ELSE OldPacket(body[c])])
    /\ Goes(c, IF demo = "UDP" THEN "recv" ELSE "done")
    /\ UNCHANGED <<demo, server, runs, lingers, SvrAddr, conn, backlog, upstream, down,
                   body, heard, told, shown>>

\* recv on a connection that was reset returns nothing, or -1, which memcpy
\* takes for a size.
ClientReceives(c) ==
    /\ At(c, "recv") /\ down[c] # Nothing
    /\ \/ Goes(c, "done")
       \/ down[c] = "reset" /\ Goes(c, "dead")
    /\ UNCHANGED <<demo, server, runs, lingers, SvrAddr, conn, wires, body, heard,
                   told, shown>>

-------------------------------------------------------------------------------
Server ==
    \/ Accept \/ ServerReceivesTCP \/ ServerReceivesUDP \/ ServerShows
    \/ ServerSends \/ ServerCloses
Client(c) ==
    \/ Connect(c) \/ ConnectRefused(c) \/ ClientSendsTCP(c) \/ ClientSendsUDP(c)
    \/ ClientReceives(c)
Next == ServerStarts \/ LingerEnds \/ Server
        \/ \E c \in Clients : ClientStarts(c) \/ Client(c)

\* A program that was started runs on whenever it can.
Fairness == WF_demosVars(Server) /\ \A c \in Clients : WF_demosVars(Client(c))

Spec == Init /\ [][Next]_demosVars /\ Fairness

TypeOK ==
    /\ demo \in Programs /\ server \in ServerAt /\ runs \in 0 .. MaxRuns
    /\ lingers \in BOOLEAN /\ SvrAddr \in Clients \cup {"own"}
    /\ conn \in Clients \cup {Nobody} /\ client \in [Clients -> ClientAt]
    /\ \A i \in DOMAIN inbox : inbox[i].from \in Clients
    /\ \A i \in DOMAIN backlog : backlog[i] \in Clients
    /\ upstream \subseteq Clients
    /\ down \in [Clients -> {Nothing, "reply", "reset"}]
    /\ heard \in Clients \cup {Nobody} /\ told \in Clients \cup {Nobody}

(* The client that the server takes ends with its answer, whoever else is   *)
(* connected or writes: over UDP because recvfrom overwrites SvrAddr, over  *)
(* TCP while others wait in the backlog.  One that was left in the backlog  *)
(* when the server ended ends as well, although not with an answer.         *)
TakenIsAnswered ==
    \A c \in Clients :
        /\ (conn = c \/ (demo = "UDP" /\ heard = c)) ~> At(c, "done")
        /\ (down[c] = "reset") ~> (At(c, "done") \/ At(c, "dead"))
===============================================================================
