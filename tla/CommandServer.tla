--------------------------- MODULE CommandServer ---------------------------
(***************************************************************************)
(* The command and control server of Milestone 3: the route handlers of    *)
(* main.cpp, run by Crow's worker threads, over the one MySocket and the   *)
(* one packet counter that every handler shares, and the robot at the      *)
(* other end of the UDP socket.                                            *)
(*                                                                         *)
(* A handler is a thread of control with a stack frame of its own, so the  *)
(* program counter and the local variables are functions of the request    *)
(* that is being handled.  Each access to shared memory is a step.  A      *)
(* MySocket object is named by the "/connect" request that created it.     *)
(***************************************************************************)
EXTENDS Naturals, Sequences, FiniteSets

CONSTANTS
  Requests,    \* the HTTP requests the browsers may send
  Workers,     \* Crow's worker threads
  Null,        \* nullptr
  Kinds,       \* the kinds of request the browsers send
  Discipline,  \* how much the browsers overlap their requests
  Verdicts,    \* the answers the robot may give to a command
  Lossy,       \* whether the network may lose a datagram
  FdLimit      \* how many UDP sockets the process may have open

PageKinds        == {"index", "connect"}
TelecommandKinds == {"drive", "sleep", "other"}
CommandKinds     == TelecommandKinds \cup {"telemetry"}
AllKinds         == PageKinds \cup CommandKinds \cup {"malformed"}

ASSUME ServerAssumption ==
  /\ Null \notin Requests
  /\ Kinds \subseteq AllKinds
  /\ Discipline \in {"one", "session", "free"}
  /\ Verdicts \subseteq {"ack", "nack"}
  /\ Lossy \in BOOLEAN
  /\ FdLimit \in Nat

VARIABLES
  clientSocket,   \* *clientSocket: the object that the unique_ptr owns
  packetCounter,  \* *packetCounter
  heap,           \* the life of each MySocket object
  fds,            \* the objects whose ConnectionSocket is an open descriptor
  Buffer,         \* MySocket::Buffer of each object
  rx,             \* datagrams on their way to the socket of each object
  air,            \* command packets on their way to the robot
  due,            \* status commands whose telemetry the robot still owes
  verdict,        \* what the robot answered to each command
  lost,           \* history: the commands of which a datagram was lost
  pc, kind, on,   \* of each request: control, kind and worker
  ptr,            \* the MySocket pointer its handler has loaded
  cnt,            \* the counter value its handler has in a register
  read,           \* the reply buffers (buff, buffTele) its handler has filled
  out             \* the body the browser was sent

shared == <<clientSocket, packetCounter, heap, fds, Buffer>>
net    == <<rx, air, due, verdict, lost>>
local  == <<ptr, cnt, read>>
asked  == <<kind, on>>
vars   == <<shared, net, local, asked, pc, out>>

-----------------------------------------------------------------------------
(* Data *)

\* A reply as PktDef(char* buff) sees it: which command it answers, the Ack
\* bit, and whether its Length says that it carries a telemetry body.
Reply == [of : Requests \cup {Null}, ack : BOOLEAN, tele : BOOLEAN]

\* What memset leaves in Buffer: a header whose Ack bit is 0.
ZeroBuffer == [of |-> Null, ack |-> FALSE, tele |-> FALSE]

\* A command packet on the wire: who it is for, the socket it left from and
\* the command flag of its header.
Packet == [of : Requests, src : Requests, cmd : {"DRIVE", "SLEEP", "RESPONSE"}]

PktCountMod == 65536

getCommandType(k) ==
  IF k = "drive" THEN "DRIVE" ELSE IF k = "sleep" THEN "SLEEP" ELSE "RESPONSE"

CreateResponseMessage(k) ==
  IF k = "drive" THEN "Driving" ELSE IF k = "sleep" THEN "Sleeping" ELSE "Bad Command"

GetTelemetryData(reply) ==
  IF reply.tele THEN "Telemetry" ELSE "No telemetry"

Bodies == {"none", "Index", "Command", "500", "reset", "Driving", "Sleeping",
           "Bad Command", "Bad Command Packet", "Telemetry", "No telemetry",
           "Bad Telemetry Packet"}

DerefSteps == {"send_call", "get_memset", "get_recv", "get_copy"}

Steps == DerefSteps \cup
         {"idle", "queued", "throw", "construct", "swap_load", "swap_store",
          "swap_delete", "zero", "inc_load", "inc_store", "set_count",
          "send_load", "get_load", "done"}

TypeOK ==
  /\ clientSocket \in Requests \cup {Null}
  /\ packetCounter \in Nat
  /\ heap \in [Requests -> {"none", "live", "deleted"}]
  /\ fds \subseteq Requests
  /\ Buffer \in [Requests -> Reply]
  /\ rx \in [Requests -> Seq(Reply)]
  /\ air \subseteq Packet
  /\ due \subseteq Packet
  /\ verdict \in [Requests -> {"none", "ack", "nack"}]
  /\ lost \subseteq Requests
  /\ pc \in [Requests -> Steps]
  /\ kind \in [Requests -> AllKinds \cup {"none"}]
  /\ on \in [Requests -> Workers \cup {Null}]
  /\ ptr \in [Requests -> Requests \cup {Null}]
  /\ cnt \in [Requests -> Nat]
  /\ read \in [Requests -> Seq(Reply)]
  /\ out \in [Requests -> Bodies]

Outstanding(r) == pc[r] \notin {"idle", "done"}
Running(r)     == pc[r] \notin {"idle", "queued", "done"}
Quiet          == \A r \in Requests : ~Outstanding(r)

-----------------------------------------------------------------------------
(* Control *)

At(r, label)   == pc[r] = label
Goto(r, label) == pc' = [pc EXCEPT ![r] = label]

\* MUTANT: a response that accumulates what is written after end().
Mut_AnswerLast(r, bodies) ==
  /\ out' = [out EXCEPT ![r] = bodies[Len(bodies)]]
  /\ Goto(r, "done")

\* crow::response: only the first end() sends the body it finds; the writes and
\* ends after it reach nobody.  bodies is the sequence of write/end pairs that
\* the handler runs to its end.
Answer(r, bodies) ==
  /\ out' = [out EXCEPT ![r] = Head(bodies)]
  /\ Goto(r, "done")

-----------------------------------------------------------------------------
(* The browsers and Crow's dispatch *)

\* "one":     a browser waits for each answer before it asks again.
\* "session": commands overlap, but the pages are only asked for when nothing
\*            else is going on.
\* "free":    anything overlaps with anything.
MayIssue(k) ==
  \/ Discipline = "free"
  \/ Quiet
  \/ /\ Discipline = "session"
     /\ k \notin PageKinds
     /\ \A q \in Requests : Outstanding(q) => kind[q] \notin PageKinds

\* A request arrives on a connection that Crow has bound to a worker.
Issue(r) ==
  /\ At(r, "idle")
  /\ \E k \in Kinds, w \in Workers :
       /\ MayIssue(k)
       /\ kind' = [kind EXCEPT ![r] = k]
       /\ on'   = [on EXCEPT ![r] = w]
  /\ Goto(r, "queued")
  /\ UNCHANGED <<shared, net, local, out>>

\* MUTANT: the telemetry handler forgets to send its request.
Mut_FirstStepNoSend(k) ==
  CASE k = "index"               -> "swap_load"
    [] k = "connect"             -> "construct"
    [] k \in TelecommandKinds    -> "inc_load"
    [] k = "telemetry"           -> "get_load"
    [] k = "malformed"           -> "throw"

FirstStep(k) ==
  CASE k = "index"        -> "swap_load"
    [] k = "connect"      -> "construct"
    [] k \in CommandKinds -> "inc_load"
    [] k = "malformed"    -> "throw"

\* A worker runs one handler at a time, to its end.
Dispatch(r) ==
  /\ At(r, "queued")
  /\ \A q \in Requests : Running(q) => on[q] # on[r]
  /\ Goto(r, FirstStep(kind[r]))
  /\ UNCHANGED <<shared, net, local, asked, out>>

\* A missing or non-numeric parameter throws before the handler has touched
\* shared state; Router::handle answers 500.
Throw(r) ==
  /\ At(r, "throw")
  /\ Answer(r, <<"500">>)
  /\ UNCHANGED <<shared, net, local, asked>>

-----------------------------------------------------------------------------
(* "/" and "/connect": replacing the socket object *)

\* make_unique<MySocket>(CLIENT, ip, port, UDP, 1024) off the shared state.
\* When the process has no descriptor left socket() fails, the constructor
\* prints and returns, and the object exists without a socket.
Construct(r) ==
  /\ At(r, "construct")
  /\ heap' = [heap EXCEPT ![r] = "live"]
  /\ fds'  = IF Cardinality(fds) < FdLimit THEN fds \cup {r} ELSE fds
  /\ Goto(r, "swap_load")
  /\ UNCHANGED <<clientSocket, packetCounter, Buffer, net, local, asked, out>>

\* make_unique throws: the catch block answers with the index page, and the
\* command page that follows it is written to a completed response.
ConstructThrows(r) ==
  /\ At(r, "construct")
  /\ Answer(r, <<"Index", "Command">>)
  /\ UNCHANGED <<shared, net, local, asked>>

\* Assigning to *clientSocket is unique_ptr::reset: load the old pointer,
\* store the new one, delete the old object.
SwapLoad(r) ==
  /\ At(r, "swap_load")
  /\ ptr' = [ptr EXCEPT ![r] = clientSocket]
  /\ Goto(r, "swap_store")
  /\ UNCHANGED <<shared, net, cnt, read, asked, out>>

\* MUTANT: "/" deletes the object and leaves the pointer to it in place.
Mut_SwapStoreDangling(r) ==
  /\ At(r, "swap_store")
  /\ clientSocket' = IF kind[r] = "connect" THEN r ELSE clientSocket
  /\ Goto(r, "swap_delete")
  /\ UNCHANGED <<packetCounter, heap, fds, Buffer, net, local, asked, out>>

SwapStore(r) ==
  /\ At(r, "swap_store")
  /\ clientSocket' = IF kind[r] = "connect" THEN r ELSE Null
  /\ Goto(r, "swap_delete")
  /\ UNCHANGED <<packetCounter, heap, fds, Buffer, net, local, asked, out>>

\* MUTANT: a raw pointer instead of the unique_ptr: nobody deletes the object.
Mut_SwapDeleteLeaks(r) ==
  /\ At(r, "swap_delete")
  /\ IF kind[r] = "connect"
        THEN Answer(r, <<"Command">>)
        ELSE Goto(r, "zero") /\ UNCHANGED out
  /\ UNCHANGED <<shared, net, local, asked>>

\* ~MySocket frees Buffer and closes ConnectionSocket only when
\* bTCPConnection is set, which it never is for UDP: the descriptor stays.
SwapDelete(r) ==
  /\ At(r, "swap_delete")
  /\ IF ptr[r] = Null
        THEN UNCHANGED heap
        ELSE heap[ptr[r]] = "live" /\ heap' = [heap EXCEPT ![ptr[r]] = "deleted"]
  /\ IF kind[r] = "connect"
        THEN Answer(r, <<"Command">>)
        ELSE Goto(r, "zero") /\ UNCHANGED out
  /\ UNCHANGED <<clientSocket, packetCounter, fds, Buffer, net, local, asked>>

ZeroCounter(r) ==
  /\ At(r, "zero")
  /\ packetCounter' = 0
  /\ Answer(r, <<"Index">>)
  /\ UNCHANGED <<clientSocket, heap, fds, Buffer, net, local, asked>>

-----------------------------------------------------------------------------
(* "/telecommand" and "/telemetry_request": numbering and sending the packet *)

\* (*packetCounter)++ on a plain int.
IncLoad(r) ==
  /\ At(r, "inc_load")
  /\ cnt' = [cnt EXCEPT ![r] = packetCounter]
  /\ Goto(r, "inc_store")
  /\ UNCHANGED <<shared, net, ptr, read, asked, out>>

\* MUTANT: "/telemetry_request" forgets to increment the counter.
Mut_IncStoreTelemetry(r) ==
  /\ At(r, "inc_store")
  /\ packetCounter' = IF kind[r] = "telemetry" THEN cnt[r] ELSE cnt[r] + 1
  /\ Goto(r, "set_count")
  /\ UNCHANGED <<clientSocket, heap, fds, Buffer, net, local, asked, out>>

IncStore(r) ==
  /\ At(r, "inc_store")
  /\ packetCounter' = cnt[r] + 1
  /\ Goto(r, "set_count")
  /\ UNCHANGED <<clientSocket, heap, fds, Buffer, net, local, asked, out>>

\* SetPktCount(*packetCounter) reads the counter again and keeps 16 bits; the
\* rest of the packet is built on the handler's own stack.
SetPktCount(r) ==
  /\ At(r, "set_count")
  /\ cnt' = [cnt EXCEPT ![r] = packetCounter % PktCountMod]
  /\ Goto(r, "send_load")
  /\ UNCHANGED <<shared, net, ptr, read, asked, out>>

SendLoad(r) ==
  /\ At(r, "send_load")
  /\ ptr' = [ptr EXCEPT ![r] = clientSocket]
  /\ Goto(r, "send_call")
  /\ UNCHANGED <<shared, net, cnt, read, asked, out>>

\* sendto; SendData ignores its result, so a packet that was not sent and a
\* packet that was lost look alike.
SendCall(r) ==
  /\ At(r, "send_call")
  /\ ptr[r] # Null
  /\ LET p == [of |-> r, src |-> ptr[r], cmd |-> getCommandType(kind[r])]
     IN \/ /\ air' = IF ptr[r] \in fds THEN air \cup {p} ELSE air
           /\ UNCHANGED lost
        \/ /\ Lossy
           /\ lost' = lost \cup {r}
           /\ UNCHANGED air
  /\ Goto(r, "get_load")
  /\ UNCHANGED <<shared, rx, due, verdict, local, asked, out>>

-----------------------------------------------------------------------------
(* GetData, and what the handler makes of the reply *)

GetLoad(r) ==
  /\ At(r, "get_load")
  /\ ptr' = [ptr EXCEPT ![r] = clientSocket]
  /\ Goto(r, "get_memset")
  /\ UNCHANGED <<shared, net, cnt, read, asked, out>>

GetMemset(r) ==
  /\ At(r, "get_memset")
  /\ ptr[r] # Null
  /\ Buffer' = [Buffer EXCEPT ![ptr[r]] = ZeroBuffer]
  /\ Goto(r, "get_recv")
  /\ UNCHANGED <<clientSocket, packetCounter, heap, fds, net, local, asked, out>>

\* recvfrom without a timeout: the handler's thread blocks until a datagram,
\* any datagram, reaches the socket.
GetRecv(r) ==
  /\ At(r, "get_recv")
  /\ ptr[r] \in fds
  /\ rx[ptr[r]] # <<>>
  /\ Buffer' = [Buffer EXCEPT ![ptr[r]] = Head(rx[ptr[r]])]
  /\ rx' = [rx EXCEPT ![ptr[r]] = Tail(@)]
  /\ Goto(r, "get_copy")
  /\ UNCHANGED <<clientSocket, packetCounter, heap, fds, air, due, verdict, lost,
                 local, asked, out>>

\* MUTANT: the telemetry handler answers with the acknowledgement and leaves
\* the telemetry datagram unread.
Mut_AfterReplyOneRead(r, reply) ==
  IF kind[r] # "telemetry"
  THEN Answer(r, IF reply.ack
                 THEN <<CreateResponseMessage(kind[r]), "Bad Command Packet">>
                 ELSE <<"Bad Command Packet">>)
  ELSE Answer(r, IF reply.ack
                 THEN <<GetTelemetryData(reply), "Bad Telemetry Packet">>
                 ELSE <<"Bad Telemetry Packet">>)

\* MUTANT: the telemetry handler reads a second datagram whatever the first
\* one says.
Mut_AfterReplyNoAck(r, reply) ==
  IF kind[r] # "telemetry"
  THEN Answer(r, IF reply.ack
                 THEN <<CreateResponseMessage(kind[r]), "Bad Command Packet">>
                 ELSE <<"Bad Command Packet">>)
  ELSE IF read[r] # <<>>
       THEN Answer(r, <<GetTelemetryData(reply), "Bad Telemetry Packet">>)
       ELSE Goto(r, "get_load") /\ UNCHANGED out

\* The statements after the first GetData of each handler, and after the
\* second one of the telemetry handler: the final "Bad ... Packet" is written
\* on every path, after the first end() on the good ones.
AfterReply(r, reply) ==
  IF kind[r] # "telemetry"
  THEN Answer(r, IF reply.ack
                 THEN <<CreateResponseMessage(kind[r]), "Bad Command Packet">>
                 ELSE <<"Bad Command Packet">>)
  ELSE IF read[r] # <<>>
       THEN Answer(r, <<GetTelemetryData(reply), "Bad Telemetry Packet">>)
       ELSE IF reply.ack
            THEN Goto(r, "get_load") /\ UNCHANGED out
            ELSE Answer(r, <<"Bad Telemetry Packet">>)

\* memcpy out of the shared Buffer, whatever it holds by now, into the
\* handler's own array; then PktDef(buff) and the decision.
GetCopy(r) ==
  /\ At(r, "get_copy")
  /\ read' = [read EXCEPT ![r] = Append(@, Buffer[ptr[r]])]
  /\ AfterReply(r, Buffer[ptr[r]])
  /\ UNCHANGED <<shared, net, ptr, cnt, asked>>

-----------------------------------------------------------------------------
(* Memory faults *)

\* The accesses that kill the process: through a null pointer always, to a
\* deleted object possibly (otherwise the access goes on with the bytes the
\* object had); the second delete of an object; and the memcpy of length -1
\* after recvfrom has failed on an object without a descriptor.
Faults(r) ==
  \/ pc[r] \in {"send_call", "get_memset"} /\ ptr[r] = Null
  \/ /\ pc[r] \in {"send_call", "get_memset", "get_copy", "swap_delete"}
     /\ ptr[r] # Null
     /\ heap[ptr[r]] # "live"
  \/ At(r, "get_recv") /\ ptr[r] \notin fds

\* The process dies and the container restarts it: every connection is reset
\* and the shared state is that of a fresh main().
Crash(r) ==
  /\ Faults(r)
  /\ clientSocket' = Null
  /\ packetCounter' = 0
  /\ heap' = [o \in Requests |-> "none"]
  /\ fds' = {}
  /\ Buffer' = [o \in Requests |-> ZeroBuffer]
  /\ rx' = [o \in Requests |-> <<>>]
  /\ ptr' = [q \in Requests |-> Null]
  /\ cnt' = [q \in Requests |-> 0]
  /\ read' = [q \in Requests |-> <<>>]
  /\ pc' = [q \in Requests |-> IF Outstanding(q) THEN "done" ELSE pc[q]]
  /\ out' = [q \in Requests |-> IF Outstanding(q) THEN "reset" ELSE out[q]]
  /\ UNCHANGED <<air, due, verdict, lost, asked>>

-----------------------------------------------------------------------------
(* The robot and the network *)

\* A reply reaches the socket its command left from, unless it is lost or the
\* descriptor is gone.
Arrive(r, o, reply) ==
  \/ /\ rx' = IF o \in fds THEN [rx EXCEPT ![o] = Append(@, reply)] ELSE rx
     /\ UNCHANGED lost
  \/ /\ Lossy
     /\ lost' = lost \cup {r}
     /\ UNCHANGED rx

\* The robot acknowledges or refuses a command; it follows the
\* acknowledgement of a status command with a telemetry packet.
RobotAnswers(p) ==
  /\ p \in air
  /\ air' = air \ {p}
  /\ \E v \in Verdicts :
       /\ verdict' = [verdict EXCEPT ![p.of] = v]
       /\ Arrive(p.of, p.src, [of |-> p.of, ack |-> v = "ack", tele |-> FALSE])
       /\ due' = IF v = "ack" /\ p.cmd = "RESPONSE" THEN due \cup {p} ELSE due
  /\ UNCHANGED <<shared, local, asked, pc, out>>

\* Nothing in the code says how the robot sets the Ack bit of telemetry.
RobotTelemetry(p) ==
  /\ p \in due
  /\ due' = due \ {p}
  /\ \E a \in BOOLEAN : Arrive(p.of, p.src, [of |-> p.of, ack |-> a, tele |-> TRUE])
  /\ UNCHANGED <<shared, air, verdict, local, asked, pc, out>>

-----------------------------------------------------------------------------

Init ==
  /\ clientSocket = Null
  /\ packetCounter = 0
  /\ heap = [o \in Requests |-> "none"]
  /\ fds = {}
  /\ Buffer = [o \in Requests |-> ZeroBuffer]
  /\ rx = [o \in Requests |-> <<>>]
  /\ air = {}
  /\ due = {}
  /\ verdict = [q \in Requests |-> "none"]
  /\ lost = {}
  /\ pc = [q \in Requests |-> "idle"]
  /\ kind = [q \in Requests |-> "none"]
  /\ on = [q \in Requests |-> Null]
  /\ ptr = [q \in Requests |-> Null]
  /\ cnt = [q \in Requests |-> 0]
  /\ read = [q \in Requests |-> <<>>]
  /\ out = [q \in Requests |-> "none"]

\* One step of the worker that runs the handler of r.
Handler(r) ==
  \/ Dispatch(r) \/ Throw(r)
  \/ Construct(r) \/ ConstructThrows(r)
  \/ SwapLoad(r) \/ SwapStore(r) \/ SwapDelete(r) \/ ZeroCounter(r)
  \/ IncLoad(r) \/ IncStore(r) \/ SetPktCount(r)
  \/ SendLoad(r) \/ SendCall(r)
  \/ GetLoad(r) \/ GetMemset(r) \/ GetRecv(r) \/ GetCopy(r)
  \/ Crash(r)

Robot(r) ==
  \/ \E p \in air : p.of = r /\ RobotAnswers(p)
  \/ \E p \in due : p.of = r /\ RobotTelemetry(p)

Next == \E r \in Requests : Issue(r) \/ Handler(r) \/ Robot(r)

Spec == Init /\ [][Next]_vars

\* The operating system runs every worker that is not blocked, and the robot
\* answers what reaches it.  Nobody has to send a request.
Fairness == \A r \in Requests : WF_vars(Handler(r)) /\ WF_vars(Robot(r))

FairSpec == Spec /\ Fairness

-----------------------------------------------------------------------------
(* Properties *)

\* Every reply that a handler has read answers the command of that handler:
\* "/telecommand" and "/telemetry_request" decide on their own reply although
\* PktDef(buff) never looks at PktCount and any datagram ends the recvfrom.
AnswerIsMine ==
  \A r \in Requests : \A i \in 1..Len(read[r]) : read[r][i].of = r

\* The browser is told that the robot obeys only if the robot acknowledged
\* that command, and not before it has: the message of CreateResponseMessage,
\* main.cpp:98-102.
SuccessOnlyIfAcked ==
  \A r \in Requests : out[r] \in {"Driving", "Sleeping"} => verdict[r] = "ack"

\* Two commands that left through the same socket object carry different
\* packet counts, whatever pages, failures and refused commands came between.
CountsDistinct ==
  \A q, r \in Requests :
    (q # r /\ cnt[q] # 0 /\ cnt[r] # 0 /\ ptr[q] # Null /\ ptr[q] = ptr[r])
      => cnt[q] # cnt[r]

\* No handler dereferences, copies from or deletes a MySocket object that has
\* been deleted, a page that is replacing it included: the lifetime of the
\* unique_ptr that all lambdas share.
NoUseAfterDelete ==
  \A r \in Requests :
    (pc[r] \in DerefSteps \cup {"swap_delete"} /\ ptr[r] # Null)
      => heap[ptr[r]] = "live"

\* The objects alive are the one that *clientSocket owns and the ones that an
\* assignment in progress is about to store or to delete: replacing the
\* unique_ptr leaks no object and leaves it no dead one.
Owned ==
  \A o \in Requests :
    /\ heap[o] = "live" =>
         \/ clientSocket = o
         \/ pc[o] \in {"swap_load", "swap_store"} /\ kind[o] = "connect"
         \/ \E r \in Requests : At(r, "swap_delete") /\ ptr[r] = o
    /\ clientSocket = o => heap[o] = "live"

\* The process can only be killed by a command that finds no connected socket:
\* none since "/" or since the restart, or one without a descriptor.
FaultsOnlyUnconnected ==
  \A r \in Requests : Faults(r) => (clientSocket = Null \/ clientSocket \notin fds)

\* A handler is blocked in recvfrom with nothing on its way to the socket only
\* if a datagram of its own command was lost: the handlers wait for as many
\* datagrams as the robot sends.
WaitsOnlyForLost ==
  \A r \in Requests :
    (/\ At(r, "get_recv")
     /\ ptr[r] \in fds
     /\ rx[ptr[r]] = <<>>
     /\ \A p \in air \cup due : p.src # ptr[r])
      => r \in lost

\* Every request that reaches the server is answered, or its connection is
\* reset: no worker stays in a handler for ever, unless a datagram was lost.
Answered == \A r \in Requests : At(r, "queued") ~> (At(r, "done") \/ lost # {})

\* The handlers, the shared state and the robot together provide the service
\* of CommandService: every answer is the one that the kind of the request and
\* the verdict of the robot on this very request call for.
Service == INSTANCE CommandService WITH kind <- kind, verdict <- verdict, out <- out
Implements == Service!Spec
=============================================================================
