# RobotLink in TLA+

RobotLink drives a mobile robot from a web browser. A browser talks HTTP to a
command and control server (`Milestone_3/main.cpp`, on top of the vendored
header `crow_all.h`), and the server talks a small binary protocol over UDP to
the robot (a simulator whose binary is not in the repository). Two classes were
written for it in earlier milestones and are used by the server: `PktDef`, the
packet, and `MySocket`, a socket. A test client, `RobotTest`, uses the two from
a terminal, and `Milestone 1` and `Milestone 2` hold the demonstration programs
they grew from.

This directory holds TLA+ models of these programs and of the part of Crow that
the server stands on, the TLC configurations that check them on small
instances, and TLAPS proofs of their main properties for all instances.
`PROJECT.json` maps every definition to the lines it stands for.

## 1. Inventory

### Components, their state and operations

| Component | State | Operations | Modelled in |
|---|---|---|---|
| Route handlers, `Milestone_3/main.cpp` | one `unique_ptr<MySocket>` and one `int` counter, shared by every handler through `shared_ptr`s; per request a stack frame with packet and reply buffers | `/`, `/connect`, `/telecommand`, `/telemetry_request`, `/Scripts/<name>` | `CommandServer`, `CommandService` |
| `PktDef`, `Milestone_3/Packet` | header, pointer to a body, CRC, `RawBuffer`, typed bodies | two constructors, `SetCmd`, `SetPktCount`, `SetBodyData`, `CalcCRC`, `CheckCRC`, `GenPacket`, getters and printers | `PktDef` |
| `MySocket`, `Milestone_3/MySocket` | a descriptor (two for a TCP server), a receive buffer, the peer address, `bTCPConnection` | constructor, destructor, `ConnectTCP`, `DisconnectTCP`, `SendData`, `GetData`, setters | `MySocket`; its UDP client under several threads in `CommandServer`; its peer address in `Demos` |
| Crow: parser, `crow_all.h` 3000-5040 | a state machine over the bytes of a connection, the request being built | `http_parser_execute`, `parse_url_char`, the callbacks of `HTTPParser` | `HttpTokens`, `HttpParser` |
| Crow: connection and response, 9004-9640 and 7241-7600 | the response object that every request of a connection reuses, a dozen flags, a deadline | `handle_url`, `handle_header`, `handle`, `complete_request`, `do_read`, `do_write`, `response::end` and `clear` | `HttpConnection` |
| Crow: server and task timer, 10355-10620 and 8865-8980 | worker threads with an event loop, a timer and a queue length each; the acceptor | start, accept, run handlers, tick, stop | `CrowServer` |
| Crow: router and query string, 12027-13020 and 200-540 | a tree of rules per HTTP method | register, validate, compress, look up, refuse, redirect, decode parameters | `Trie`, `QueryString`, `Router` |
| Robot | unknown | answer a command; send telemetry after the ACK of a status command | external, in `CommandServer` and `RobotTest` |
| Browser pages, `public/` | two display boxes | `connect`, `sendCommand`, `getTelemetry` | their requests, in `CommandServer` and `Router` |
| Deployment, `docker-compose.yml` | - | restart a server that died | in the action `Crash` |
| `RobotTest/main.cpp` | `packetCount`, one socket per turn of a loop | one command per turn | `RobotTest` |
| `Milestone 1`, `Milestone 2` | a first packet class; TCP and UDP clients and servers | each program from start to end | `DemosSetting`, `Demos` |

### How they interact

Crow's main thread accepts a connection and posts it to the worker with the
shortest queue. The worker's event loop reads bytes and feeds them to the
parser, which calls the connection back: after the URL (the router picks a
rule), after the headers, and when the message is complete (the rule's handler
runs, on the same thread, inside the parser's call). The handler ends the
response, the connection writes it and either reads on, closes, or waits for
its deadline, which is a task of the worker's timer.

The handlers of different workers run at the same time and share
`*clientSocket` and `*packetCounter` without a lock. A command handler
increments the counter, builds a `PktDef` on its stack, calls
`(*clientSocket)->SendData` and then `(*clientSocket)->GetData`, which blocks
its thread, and with it every other connection of that worker and their
deadlines, in `recvfrom` until any datagram arrives. It parses the datagram
with `PktDef(char*)` and decides on its Ack bit alone. `/telemetry_request`
reads a second datagram after an ACK. `/` and `/connect` replace the socket
object that the other handlers may be using.

### What is hard about it

* **Concurrency.** Two shared objects, no synchronisation: lifetime of the
  socket object, the counter, the receive buffer inside `MySocket`, and the
  assignment of replies to requests. In Crow, a deadline runs between the
  handlers of its connection.
* **An unreliable network and no timeouts.** Any lost datagram leaves a worker
  blocked; nothing matches replies to commands.
* **State that is reused.** One parser, one request and one response serve all
  requests of a connection, and each must be reset on every path; a timer's ids
  start again while connections still hold old ones; a descriptor's number is
  handed out again while an object still holds it.
* **Pieces.** TCP ends a read anywhere: the parser's callbacks get a URL or a
  header in parts, several requests in one read, or bytes after a body.
* **Failure.** A null `clientSocket`, a failing `recvfrom`, descriptors that run
  out, a peer that resets in the middle of a handler; the container restarts a
  dead server with empty state.
* **Sequences of calls.** `PktDef` and `MySocket` have implicit protocols (set
  the command before the body, the body before `GenPacket`).
* **Numbers at their limits.** A byte against an `int` in the checksum, 16 bits for the count, 64 bits of `Content-Length`, 256
  query parameters.

`PROJECT.json` lists these as hazards, each at its line with the properties
that cover it.

### What makes each component correct

* *Handlers*: each answer is decided by the robot's reply to that very request;
  every request ends; packet counts tell commands apart; the socket object is
  used only while it lives and is neither leaked nor freed twice; the process
  dies for no other reason than that no socket is connected.
* *PktDef*: whatever the order of calls, header and body agree; the bytes parse
  back into the packet; damage to one bit is detected; no call writes outside
  its buffer.
* *MySocket*: an object touches no descriptor but its own; the connection flag
  says what is open; what is left open, and what kills the process, is known.
* *Parser and connection*: however requests are cut into reads and pipelined,
  handlers run once each and in order, with the request that was sent; nothing
  of one request shows in the answer to the next; every connection ends.
* *Server*: a connection that waits has a deadline; connections are spread
  evenly; stopping ends the process.
* *Router*: the compressed tree finds the rule that a plain reading of the
  routes finds, with its own parameters; refusals tell the truth; handlers get
  the parameters the client meant.
* *RobotTest, demos*: a reply belongs to the turn that reads it; who is served
  is answered.

## 2. Modules

| Module | Contents |
|---|---|
| `CommandService` | abstract specification: what a browser is told, one request at a time |
| `CommandServer` | the handlers on Crow's workers, the shared state, the UDP network, the robot; implements `CommandService` under one request at a time |
| `CommandServerProofs` | proofs: type correctness and lifetime of the socket object; the serial discipline, packet counts and the refinement |
| `PktDef`, `PktDefProofs` | one packet object through any calls of its interface, in bytes; the codec, the checksum and the object's invariant |
| `MySocket`, `MySocketProofs` | all socket objects of a process, over one table of descriptors; the proofs |
| `HttpTokens`, `HttpParser` | the alphabet and the fields of the parser; one operator per parser state, over the callbacks as parameters |
| `HttpConnection`, `HttpConnectionProofs` | connection and response; instantiates `HttpParser` with its callbacks; the client; the proofs |
| `CrowServer`, `CrowServerProofs` | main thread, workers, timers, connections as wholes; the proofs |
| `Trie`, `QueryString`, `Router`, `RouterProofs` | the tree; the query string's decoding in place; registration, validation and the answer to a request; the proofs |
| `RobotTest`, `RobotTestProofs` | the test client, a network that loses, repeats and reorders, the robot; the proofs |
| `DemosSetting`, `Demos`, `DemosProofs` | what the demos are run with, their state and the first packet format; the programs; the proofs |
| `MCCommandServer`, `MCPktDef`, `MCMySocket`, `MCHttp`, `MCCrowServer`, `MCRouter`, `MCClients` | instances for TLC |

How they compose: `HttpConnection` runs the real parser inside its read
handler; it takes the router as a table from method and URL to a resource
(`Site`), which `Router` models in full. `CrowServer` takes a connection as
something that starts, asks and ends, which `HttpConnection` models in full, and
a command as something that may block its worker for ever, which
`CommandServer` models in full. `Router` uses `Trie` and `QueryString`.
`MCClients` runs `RobotTest` or `Demos`, which share nothing: each behaviour is
of one of them, and the other is at rest.

### CommandServer

One program counter `pc[r]` per request; each access to shared memory is a step
of its own, so that the interleavings of two handlers are those of the code:

| Code | Actions |
|---|---|
| a request arrives and a worker picks it up | `Issue`, `Dispatch` |
| `std::stoi` or a missing parameter throws; Crow answers 500 | `Throw` |
| `make_unique<MySocket>(...)` | `Construct`, `ConstructThrows` |
| `*clientSocket = ...` (load the old pointer, store the new, delete the old) | `SwapLoad`, `SwapStore`, `SwapDelete` |
| `*packetCounter = 0` | `ZeroCounter` |
| `(*packetCounter)++`, `SetPktCount(*packetCounter)` | `IncLoad`, `IncStore`, `SetPktCount` |
| `(*clientSocket)->SendData(...)` | `SendLoad`, `SendCall` |
| `(*clientSocket)->GetData(...)`: memset, recvfrom, memcpy | `GetLoad`, `GetMemset`, `GetRecv`, `GetCopy` |
| the rest of the handler | `AfterReply` inside `GetCopy` |
| null or deleted pointer, second delete, `memcpy` of length -1 | `Faults`, `Crash` |
| robot and network | `RobotAnswers`, `RobotTelemetry`, `Arrive` |

Abstractions. A `MySocket` object is named by the request that created it, so
addresses are never reused. A datagram is the command it answers, its Ack bit
and whether it carries telemetry. `rx` stands for the network and the kernel's
queue together. An access to a deleted object either kills the process or goes
on with the bytes the object had. `Crash` is the death of the process and its
restart in one step; packets already in the air stay there. `Answer` lists every
write/end pair a handler runs, and sends the first, as `crow::response` does:
`/connect` sends the command page even when `socket()` failed and the handler
has written an error before it. The bodies of files, and a missing file, are not
distinguished.

`Discipline` says how much browsers overlap their requests: `"one"`, each waits
for its answer; `"session"`, commands overlap but pages do not overlap anything;
`"free"`. It is an assumption about browsers, not something the server enforces.

`CommandService` is the promise to the operator: three variables, the request's
kind, the robot's verdict and the body that was sent. `Told` is the body for a
verdict. A command whose connection is reset has never been judged by the
robot. `CommandServer` refines it with the identity on its variables `kind`,
`verdict` and `out`.

### PktDef

State is the object's members. `Default` and `Parse` are the constructors,
`SetCmd`, `SetPktCount`, `SetBodyData`, `GenPacket` the calls, in any order.
`GenPacketFrees` is the `delete[]` of the pointer that the parsing constructor
leaves unset, `GenPacketOverflows` the write beyond a `RawBuffer` of fewer than
five bytes; a run stops at the first such fault. `HeaderBytes` and `HeaderOf`
are the two directions of the `memcpy` of `struct Header` on the little-endian
machines the server is built for. The counting loops are the cardinality of the
set of bits that are set (`SetBits`), which is what lets the checksum be proved
about without recursion. The parsing constructor computes the CRC anew and
nothing reads the one on the wire. Assumed of inputs: a datagram is as long as
its header says, and a body fits the byte that holds the length (at most 250
bytes).

### MySocket

State is, for every object, the members that decide what a call does, and the
process's table of descriptors. The constructor has five outcomes
(`ConstructFails`, `ConstructOne`, `ConstructUnbound`, `ConstructServer`,
`ConstructDeaf`), `ConnectTCP` is `ConnectClient` or `AcceptServer` by the
object's role, and `Destroy`, `DisconnectTCP`, `SendData`, `GetData` and
`SetType` are the functions of those names, in any order. The system hands out
the lowest free number, so a number that is kept after it was closed soon means
something else; `table` records whose socket a number is. `WelcomeSocket` is
`Garbage` where the constructor does not set it, and a read of it may give any
number. `PeerResets` is the other end going away.

Four history variables name the objects that are not used in order (`spoiled`,
`again`), that hold a number they closed (`stale`), or that acted on the socket
of another (`strayed`); no call looks at them. The properties are about
programs that keep to the order, and say what the order is. A stray
number is damage by one object that shows up in another, which a test of a
single object cannot see.

### HttpTokens, HttpParser, HttpConnection

The bytes of a connection are tokens: one punctuation byte, one digit, or a
whole word that the parser compares letter by letter or takes as it is; a read
may end between any two. `HttpParser` has one operator per state of
`http_parser_execute` (the states that walk through one word are one state),
each with all its errors and limits, and one operator per callback of
`HTTPParser`. `Feed` folds a read over them with the recursive function
`AfterEach`, which the proofs can reason about. What happens outside the parser is
passed in as the constants `HandleUrl`, `HandleHeader` and `Handle`, which
`HttpConnection` supplies.

All handlers of a connection run on one thread, so each is one action of
`HttpConnection`:

| Code | Definitions |
|---|---|
| the handler of `do_read`: feed, then close, stop or read on | `ReadSome`, `ReadFails`, `AfterRead` |
| `handle_url`, `handle_header`, `handle` | `HandleUrl`, `HandleHeader`, `Handle` |
| `Router::handle_initial`, `handle`, `handle_upgrade` | `HandleInitial`, `RunRule`, `HandleUpgrade` |
| `response::end`, `clear`, assignment of a new response | `End`, `ClearResponse`, `Assign` |
| `complete_request`, `prepare_buffers`, `do_write_static`, `do_write_general`, the synchronous writes | `CompleteRequest`, `PrepareBuffers`, `DoWriteStatic`, `DoWriteGeneral`, `Written`, `Failed` |
| the handler of `do_write` | `WriteDone` |
| the task of `start_deadline` | `Expire` |
| the destructor, when nothing refers to the object | `Release` |
| the client | `Send`, `PeerShut`, `PeerReset` |

Things a reader of the code may not expect, all of them in the model: the
parser stays in the state it has after a message, so bytes that follow a body
in the same read run `handle` again, where the completed response keeps the
route's handler from running twice; the URL is routed whenever a part of it has
been read; `response::clear` leaves `skip_body` set, so that answers after one
to HEAD declare a body and send none; `remote_endpoint` throws when the peer has
reset the connection, out of the parser and the read handler up to the worker,
which catches it.

Bodies are sizes, headers are sets of pairs, and the route table is a function
(`Site`). `patient` tells the two kinds of clients apart: one that waits for an
answer before it sends the next request, and one that pipelines.

### CrowServer

| Code | Actions |
|---|---|
| the worker's thread: prepare, loop over `io_service::run` | `StartWorker`, `RunReturns` |
| handlers an `io_service` runs: `Connection::start`, a request, a command, an end | `RunStart`, `RunRequest`, `RunCommand` (then `Unblock`), `RunEnd` |
| `task_timer::process_tasks`, and its timer | `Tick`, `TimerFires`; `SecondPasses` for the clock of a worker that is blocked |
| `schedule` and `cancel` | `StartDeadline`, `CancelDeadline` |
| `do_accept`, `pick_io_service_idx` | `StartAccepting`, `Accept`, `AcceptFails`, `DoAccept`, `Pick` |
| `stop`, the end of `run` | `Stop`, `Exit` |

`tasks` is a set of records, so that two entries of one id would be seen. The
history variable `robbed` records each cancel that erased the deadline of
another connection: ids start again from 0 when the last task has run, and a
connection whose deadline ran still holds its id. The queue lengths are never
decremented when a connection ends. A worker that is `"blocked"` is in
`recvfrom`, and stops for its other connections, their deadlines, and `stop()`.
A deadline is a point in time: the age of a task counts ticks while they run every
second, and goes on with `SecondPasses` while one tick waits for a blocked worker.

### Trie, QueryString, Router

`Router` goes through the stages of an application: `Route` and `CatchAll`
register, `Run` starts `validate()`, `AddRule` and `AddThrows` are its loop,
`Validated` compresses the trees (or throws, if a head is not simple, which
`HeadsAreSimple` proves of none), `OnUrl`, `Answer` and `Forget` serve one
request. A tree is a function from the path of a node (the sequence of tokens
that leads to it) to the node, whose `children` are the paths below it in the
order in which the code keeps them. `Add`, `Optimize` and `Find` go through the
nodes as the code does; where the code calls itself on a child they are recursive
functions, `Optimize` from the leaves up and `Find` from the end of the URL back
(`find[pos][p]` is what the code's `find` returns at the node `p` and the position
`pos`). An upgrade goes through `handle_initial` first and reaches `handle_upgrade` only
with a rule (`HasRoute`). The rule indices 0 and 1 are reserved, and 1, the redirection of a path
without its last slash, is lower than any rule and beats them all. An index has
16 bits, which is why `RoutesAreRoutes` bounds `MaxRoutes`.
`QueryString` decodes pairs in place in one buffer, as the code does: a pair
that a decoding shortened ends at a NUL byte. A missing parameter is a null
pointer, and `std::string` of it throws before the handler's `try`: 500.
HEAD is always listed in `Allow`.

The properties compare all this with `Fits`, which says what a route means
without a tree, and with the pairs as the client meant them before encoding.

### RobotTest

One action per blocking point of the loop: `Turn` (a command is typed and a
`MySocket` made), `SendData`, `GetReply`, `GetTelemetry`, and the ways out.
`packetCount` is an `int`, of which `SetPktCount` keeps the 16 bits that leave in
the packet (`NewPacket`, modulo `PktCountMod`); the history field `number` is what
the `int` was.
`Lose`, and `Removes` in each receiver, are the network: `toRobot` and
`toClient` are sets, so datagrams are reordered, a datagram may stay for a
second delivery, and it may be lost. The destructor closes no UDP socket, so each turn has a
port of its own and takes its descriptor with it: that is what keeps late replies
out, and what ends the program when descriptors run out.

### DemosSetting, Demos

Each of the four programs of Milestone 2, and the client and server of
Milestone 1, from start to end; `demo` says which pair runs. The server may be
started again, its address may be in TIME_WAIT, clients start whenever they
like. `SvrAddr` is the member that `recvfrom` overwrites: that is what makes the
UDP server answer the right client. `OldPacket`, `Payload` and `CheckCRC` are
the first packet format with its bytes.

## 3. Runs

All runs set `CHECK_DEADLOCK FALSE`: requests, turns and connections run out, a
worker may stay in `recvfrom`, and a packet object that has faulted or a process
that has died does not go on.

| Run | Instance | Shows |
|---|---|---|
| `refines` | 3 requests of six kinds, 2 workers, 2 descriptors, no loss, ACK and NACK, discipline `"one"`, fair | `Implements`: the refinement of `CommandService` |
| `lossy` | 4 requests, 2 workers, loss of any datagram, the same discipline | `AnswerIsMine`, `CountsDistinct`, `FaultsOnlyUnconnected`; `WaitsOnlyForLost`: whoever is stuck lost a datagram of its own |
| `session` | 3 requests, 2 workers, overlapping commands, ACK only, fair | `NoUseAfterDelete`, `Owned`, `Answered` |
| `packet` | 4 counts, 3 bodies, 4 datagrams, every order of calls | `BodyMatchesLength`, `RoundTrips`, `DamageDetected`, `FaultMeansNoBody`, `UnsetOnlyForDriveBody` |
| `sockets` | 2 objects, 3 descriptors, any order of calls | `StrayOnlySpoiled`, `ConnectedMeansOpen`, `LeaksKnown`, `DeathExplained` |
| `http` | 7 resources, 57 first messages good and bad, 2 messages, 1 cut read, fair | `TypeOK`, `ExecutedInOrder`, `AnsweredAsAsked`, `NothingForgotten`, `Framed`, `CloseHonoured`, `ClosedInTheEnd` |
| `server` | 3 connections, 2 workers, 2 descriptors, a deadline of 1 tick, 1 request, fair | `OneTaskEach`, `IdleHasDeadline`, `RobberKnown`, `LengthsCountConnections`, `Ends`, `StopEnds` |
| `routing` | every table of up to 3 of 14 routes, every request of 4 methods and 15 paths, with and without an upgrade, queries of up to 3 pairs | `RoutedToFirstMatch`, `ThrowsOnlyIfUnfit`, `RefusalTellsWhy`, `RedirectLeads`, `ParametersAsMeant` |
| `clients` | `RobotTest`: 4 turns, 3 descriptors, 4 packet counts, 1 loss, 1 copy; demos: 3 clients, the server started twice; fair | `ReplyIsMine`, `ObeyedCountsDistinct`, `TurnEnds`; `ShowsWhatWasMeant`, which disagrees with a comment (below), `TakenIsAnswered` |

Why these bounds are enough to show something:

* *Requests.* Four requests are a page, a connection and two commands, or two
  reconnections and two commands: enough for a stale reply, a leaked object, a
  repeated count and a restart in between, each of which needs at most four. Two
  workers are the least with an overlap, and each hazard here is a race of two. Two
  descriptors allow one reconnection before `socket()` fails.
* *Packets.* The values cover both bytes of the count, the largest count and the
  one after it, both body sizes of the protocol and a body of a size it does not
  have.
* *Sockets.* Two objects are the one that strays and the one it hits; a TCP
  server needs two descriptors and a third for its connection, so that three let
  it work alone and run out beside another.
* *HTTP.* What one request can leave behind shows in the next, so two
  messages suffice; the second is a GET or a POST with a body. One cut read puts
  the end of a read at every token of the first message or inside the second,
  while several messages in one read need none.
  `UllongMax` 50 lets two digits overflow, `MaxHeaderSize` 36 lets one message
  exceed it and the others not, `Threshold` 2 has bodies of both ways of writing
  on its sides (the code's is 1 MiB).
* *Server.* A stale task id needs three connections on two workers: the one
  whose deadline ran, and the one that has its id now share a worker, as the
  first and third do. Two open connections at most let an accept fail.
* *Routes.* A conflict takes two rules, compression of a branch beside it a
  third. `MaxDigits` 2 makes a three-digit number overflow (`strtoll` in the
  code), `MaxPairs` 2 drops a third pair (256 in the code).
* *Clients.* With four turns and three descriptors the last one finds none; a
  late and a repeated reply need two turns. `PktCountMod` 4 (65536 in the code) lets
  the count come round after two turns, each of which counts twice. A demo server takes one client,
  leaves one in the backlog, and is started again for the third.

Runs that show a disagreement between the code and what its comments say
(`findings` in `PROJECT.json`):

| Run | Shows |
|---|---|
| `v_free` | two overlapping pages both delete the socket object (the shortest trace), or one deletes it under a command's handler, although the shared state "ensures safe access in all lambdas" |
| `v_swap` | of two overlapping commands one decides on the other's Ack: it is reported as obeyed before the robot has judged it (the shortest trace), or although the robot refuses it |
| `v_split` | a URL that arrives in two reads is routed after the first, and its first part is answered as if it were the whole: 405 in the trace, where POST to `/telecommand` is cut after the `/`, which GET knows, and 404 for a part that no method knows; the parser's comment tells callbacks to expect parts |

A fourth disagreement is the other way round, and shows in a run that passes: above
`CheckCRC` of Milestone 1 (`Packet.h:216`, and `Packet.cpp:151`) stands "CURRENTLY NOT
WORKING", but `ShowsWhatWasMeant` of `clients` holds, which says that the server's
`CheckCRC` accepts what any client's `GenPacket` made, and `DemosShowWhatWasMeant` proves
it for every body of three bytes. As the code stands the comment is out of date. (That
`CheckCRC` refuses a damaged packet is checked and proved of Milestone 3's, with the same
counting loop: `DamageDetected`.)

Known limits of the properties, each of which the model shows if its condition
is dropped: `AnswerIsMine` needs that no unknown command is sent (it is a status
request for the robot, and its telemetry is left for the next command), and
fails when commands overlap (`v_swap`); `CountsDistinct` fails when commands
overlap, since the increment and the second read of the counter race; `Answered`
needs ACKs when commands overlap, since a telemetry handler that reads the ACK
of another command waits for telemetry that nobody sends; `Framed` ends with
the first HEAD request that the connection routes; `IdleHasDeadline` and `Ends` except the
connections whose deadline was robbed; `RedirectLeads` needs that no rule of the
method ends in `<path>/`, which redirects to itself since `<path>` takes the last
slash too, or in `//`, which redirects the path that ends in one slash: one such
rule in the method is enough to catch the redirection of another (`Plain`);
`AnsweredAsAsked` excepts URLs that
were cut (`v_split`). The condition of `Framed` is `skip_body` itself, not that a
HEAD request was answered, since with four messages of a client that does not wait
it is set without that: two requests with `Expect: 100-continue` whose answers
are written synchronously leave two completions queued, the second of which
clears the parser in the middle of a HEAD request that was read meanwhile. The
rest of it, a line end, is skipped, and `skip_body` stays set for the next request.

### Fairness

* `CommandServer`: weak fairness of every handler (the operating system
  schedules a worker that is not blocked) and of the robot for each request (a
  robot that is reached answers). A handler in `recvfrom` with an empty queue is
  not enabled, so fairness does not unblock it. Nothing makes a browser send a
  request, and a queued request waits for its worker. `Answered` is checked with
  a network without loss only; with loss it is false, and `WaitsOnlyForLost` says
  how.
* `HttpConnection`: the event loop delivers a read that can end, a write that
  has ended, and a timer that has run out. The client is not fair: it may stop at
  any point, and `ClosedInTheEnd` must hold all the same.
* `CrowServer`: each worker that is not blocked, its timer, and the acceptor.
  Neither the robot (`Unblock`) nor the clients nor `Stop` nor a failing accept
  are fair.
* `RobotTest`: the process and the robot. The user is not fair, and losses
  are possible at any time, so that `TurnEnds` has to name them.
* `Demos`: programs that were started. Nobody has to start one.

## 4. Proofs

For any sets of requests, workers, connections, objects and descriptors, any
bound and any values. Each invariant below was checked by TLC on the instance
of its component before it was proved, except `RouterInv`, which quantifies over
all trees; of it TLC checks the properties that follow.

* `CommandServerProofs`: `TypeCorrect` is inductive as it stands, under any
  discipline and any network. `LifetimeCorrect` (`NoUseAfterDelete`),
  `NoObjectLeaks` (`Owned`) and `DeathsFindNoSocket` (`FaultsOnlyUnconnected`)
  hold if `Discipline # "free"`, that is, if pages do not overlap other
  requests; `v_free` shows that this is needed. Their invariant `LInv` adds that
  while a page's handler is between `construct` and the delete no other request
  is outstanding, that the pointer a handler has loaded is the current one, and
  that the current one is alive.
  Its second half is about browsers that wait for each answer and a network
  that may lose any datagram. With no unknown command (`SerialSetting`):
  `AnswersAreMine`, `SuccessIsAcked` (a handler reports success only of a command
  the robot acknowledged) and `WaitsAreForLost`. Without loss also
  `ServerImplementsService`, the refinement of `CommandService`; with loss the
  refinement is false of the code, since a handler that lost the acknowledgement
  takes the Ack bit of the telemetry for it and may report a refusal that the robot never gave. `AnswerIsMine` is not inductive: it needs to know
  what is in flight. The invariant `SInv` says, for the one outstanding command,
  which stage of the exchange it is in (not sent, asked, refused, acknowledged,
  telemetry owed, telemetry paid, and each of these with a datagram lost) and that
  the queues and the air hold exactly what that stage leaves there and nothing
  of any earlier request. `CountsAreDistinct` needs no condition on the commands,
  but `FewRequests`: fewer requests than the 16 bits of the count can number.
  Its invariant `CInv` says that the counter is at most the number of requests
  that took a count, and that whoever left through the current socket object has a
  count no higher than the counter.
* `CrowServerProofs`: `CrowTypeCorrect`, `OneTaskForEach`,
  `IdleConnectionsHaveDeadlines`, `RobbersAreKnown` and `LengthsAreCounts`. The
  invariant has three parts. `Core` relates a connection's life to the handlers
  that are ready for it: at most one, in the queue of its own worker, none while
  it reads or is served. `Deadlines` says that a task belongs to a connection of
  its timer that knows it by its id, that ids of a timer are unique and at most
  its highest, and that a connection that knows an id has the task, or its
  deadline ran, or it was robbed, or it is being served. That a cancel can
  hit another's task is the point of it: the id starts again from 0 when the last task is gone,
  and only a connection that expired, or was robbed itself, still holds an id from before.
  `Counted` says that each length is the number of connections given to
  its worker, the one being accepted included, and that they differ by one at
  most; `pick_io_service_idx` keeps that because it takes a least length.
* `HttpConnectionProofs`: `HttpTypeCorrect`, `ClosesAreHonoured`
  (`CloseHonoured`) and `LengthsAreTold` (`Framed`), over the real parser, for every site, every stream of
  tokens, and every cut into reads. `CloseHonoured` says that no handler of a
  route runs after a request that asks for the connection to be closed, which is
  a matter of three machines at once. The invariant `HttpInvariant` says that once
  such a request has run, either the connection is dead (closed, or reset), or its
  answer stands at the head of what is being written, the end of that write closes
  the connection, and until then the parser takes no new message (`Leaving`). Inside a read, where
  one action runs the parser over many tokens, `Mid` is what holds between two
  tokens, and `Core` and `Answering` while the parser is calling the connection
  back: after a message is complete the parser may run `handle` again on the bytes
  behind a body (`AtTheEnd`), where the completed response must keep the route's
  handler from running; `NoDetour` says that `handle` does reach the test of the
  response, since it turned the same request down neither for a missing Host nor for an
  upgrade. Each state of the parser has a lemma that says it keeps the types
  and calls nobody (`Moves`), or whom it calls. `EachTokenKeeps` carries
  `Mid` over a read. For `Framed` the invariant has `Told`: until a HEAD request is
  routed, whatever was sent has its length, and the response object, which is reused,
  says what its next use needs (`Says`): it names a length only with a file, that file's,
  and leaves the choice of a length to the writer. A response that is cleared or
  assigned, or given a body, a code or a file, says no less than before (`Heir`).
* `PktDefProofs`: `PacketTypeCorrect`, `BodyGoesWithLength`,
  `NoFaultAfterBody`, `UnsetForDriveBody`, `PacketsRoundTrip`, and `DamageIsDetected` for bodies of at
  most 27 bytes (beyond that the count may pass 255, which `CalcCRC` cuts to a
  byte and `CheckCRC` does not). The
  invariant `PInv` says that header and body fit (`Fit`), that a body implies the Drive flag,
  and that what is in `RawBuffer` is sealed with its own checksum
  (`Sealed`). Below it: `HeaderDecodes` (bit fields come back from their byte),
  `SerialisedRoundTrips`, and the checksum lemmas. `ByteIsBits`, `ValueFlip` and
  `ByteFlip` show that adding or subtracting a bit's weight inverts that bit and
  no other; `FlipCounts` that the number of set bits then changes;
  `BitCountBound` that it is at most eight per byte.
* `MySocketProofs`: `SocketTypeCorrect`, `OnlySpoiledStray`, `FlagTellsTruth`,
  `OnlyKnownLeaks` and `DeathsAreExplained`. None of the properties is inductive:
  each speaks of one side of the relation between objects and table. The
  invariant `SocketInv` says both sides, as long as nobody strayed: what each open
  descriptor implies about the object that made it (`FdInv`), and which of its
  numbers an object in order owns (`ObjectInv`). A call that stays at home
  (`ActsOnOwn`) then changes nothing of another object, and the first call that
  does not must come from a spoiled object (`StrayHolds`, `NamesOwn`). The
  constructor's five outcomes share one lemma (`MadeInv`).
* `RobotTestProofs`: `RobotTestTypeCorrect`, `RepliesAreMine`,
  `CountsOfObeyedDistinct`. `ReplyIsMine` rests on `Fresh`: whatever travels to
  or from the port of this turn belongs to this turn, because no port is ever
  given out twice. The counts are 16 bits of an `int`, and do repeat.
  `CountsOfObeyedDistinct` says when: `m.count = n.count` of two obeyed commands only if
  at least `PktCountMod \div 2` turns lie between them, for any number of turns.
  `FewTurnsDistinct` is the case of a program that takes fewer, 32768 in the code. They
  rest on `Once`: until telemetry overtakes an acknowledgement or a command is delivered
  twice, at most one command is on its way, it is this turn's and has no answer yet, and
  what was obeyed in this turn bears this turn's number. `Apart` and `Near` then bound
  the `number` of an obeyed command against those of other turns from below and from
  above (a turn that was obeyed counts once at least, no turn more than twice), `Cut`
  says that a count is its number modulo `PktCountMod`, and two numbers with one
  remainder are the modulus apart (`SameRemainder`).
* `DemosProofs`: `DemosTypeCorrect` and `DemosShowWhatWasMeant`. What is on its way
  to the server was built from the body of the client that sent it
  (`BuiltFromBodies`), and the first packet format round-trips
  (`OldPacketRoundTrips`) because its count of set bits fits the byte that holds it
  (`EightBitsEach`; its bodies are three bytes).

* `RouterProofs`: `RoutedToFirstMatch` (`Routed`), `ThrowsOnlyIfUnfit` (`Throws`),
  `RefusalTellsWhy` (`Refuses`) and `RedirectLeads` (`Redirects`), for any routes and
  any requests. Each of them compares the answer with `Fits`, which knows no tree,
  so that the proof has to go through the tree, in four parts.
  *Tokens*: what the code takes for a parameter or a text is what the token says,
  the longest text it can be (`TokenTaken`, with a lemma for each type).
  *Lookup*: in any tree that `Add` can make (`IsTree`), `Find` returns the least
  rule index among the paths below a node that fit the rest of the URL, with
  parameters of that path (`FindsLeast`, `FindsLeastRule`). The induction goes back
  from the end of the URL, since every node takes at least one character.
  *Compression*: `OptimizeFinds` says that the compressed tree gives the same answer
  to every URL. Its induction goes over the tree from the leaves up: a merged node
  spells its own character and then its child's text, which is what the two nodes
  spelt one after the other (`MergedFinds`, `LongerText`).
  *Registration*: `AddTree` and `RuleAtAdded` say that `Add` keeps `IsTree` and changes
  the rule of one path only.
  The invariant `RouterInv` ties them together: a method's list
  holds the rules added so far that have this method, in order (`Listed`); its tree, or the tree
  that it was compressed from, has exactly their paths under their
  indices, and their redirections (`Held`), and before it is compressed every path in it
  starts with a slash (`Rooted`), so that its head is simple (`HeadsAreSimple`) and
  `validate` throws for no head; the rules are all served by somebody and
  conflict with none of each other (`Fitted`); and an answer is the answer to the request that is
  being served, from these tables (`InProgress`). `LookupIs` follows: what a method's
  tree finds is the rule registered first among those that fit, or the redirection. For
  `RedirectLeads` a path that fits but for its last slash fits with it
  (`FitsBeforeSlash`), and a URL that ends in a slash fits no path whose last token
  is neither a slash nor `<path>` (`LastTakes`, `EndsInSlash`).

Assumptions: `ServerAssumption`, `PacketAssumption`, `SocketAssumption`,
`CrowAssumption`, `ParserAssumption`, `SiteAssumption`, `RobotTestAssumption`,
`DemosAssumption`, `RoutesAreRoutes`, `MaxDigitsIsPositive` and
`MaxPairsIsPositive` on the constants, in the modules that declare them, and for
each theorem the hypotheses named above. All of them hold of the code's values, but that
`Resource`, in `SiteAssumption`, has no empty file: the model tells a response with a
file from one without by the file's size, and no page of the program is empty.
`crow.concurrency` is raised to at least 2, `UllongMax` is 2^64 - 1.

Induction: the library's induction theorems take an operator as a parameter,
which the installed provers cannot instantiate. Where a proof needs it all the
same (`EachTokenKeeps` over the tokens of a read, the least queue length in
`CrowServerProofs`, the positions of a URL and the depths of a tree in
`RouterProofs`), it takes the least counterexample from the well-foundedness
of `<` on the naturals, with the set of counterexamples written out.

Only model-checked:

* Everything under fairness (`Answered`, `ClosedInTheEnd`, `Ends`, `StopEnds`,
  `TurnEnds`, `TakenIsAnswered`): liveness and `ENABLED` are out of the prover's
  reach.
* `ExecutedInOrder`, `AnsweredAsAsked` and `NothingForgotten` of the
  connection. They compare what runs with what the messages of the instance
  mean; for every message that would need a grammar of HTTP and a proof that the
  parser recognises it, by induction over its tokens.
* `ParametersAsMeant` of the router. It compares the values that handlers get with
  those the client meant before encoding them; for every request that would need a
  grammar of encodings and a proof that the decoding in place inverts it, pair by
  pair, while each pair is shortened in the buffer that the next one stands in.

## 5. Not modelled

* The contents of pages and scripts, the wording of messages, what the browser's
  boxes display: the pages keep no state, and a late response simply replaces an
  earlier one.
* `MySocket`'s `SetIPAddr` and `SetPort`, which nobody calls, and its buffer
  size. `PktDef`'s printers, beyond what they read.
* Replies whose bits were damaged on the way: nothing reads the checksum of a
  received packet, so no order of steps matters. Bodies longer than 250 bytes, and datagrams
  shorter than their header says: every caller sends three bytes, and the robot
  keeps to the protocol.
* Memory that leaks (`PktDef` has no destructor).
* `Milestone 1/Packet.cpp`: `CMakeLists.txt` does not build it, and its members
  are defined a second time in `Packet.h`.
* Of `crow_all.h`: websockets, SSL, compression, multipart, mustache, JSON,
  middleware, blueprints, `get_list`, `get_dict` and `pop` of the query string,
  and the signal set beside `stop`. The program uses none of them. Logging keeps
  no state. The parser's branches for responses are not reached by a server.
* Build and network settings of the deployment have no behaviour.

## 6. What comes next

1. `HttpConnection`: `ExecutedInOrder` for every message of a grammar, from a
   relation between what is left on the wire, the parser's state and the log.
2. `CommandServer`: `CountsDistinct` under the discipline `"session"`, with the
   condition that the increments of two commands do not race.
3. `QueryString`: `ParametersAsMeant` for every encoding of a grammar, from a relation
   between the buffer and the pairs already decoded.
