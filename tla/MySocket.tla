------------------------------ MODULE MySocket ------------------------------
(***************************************************************************)
(* The MySocket objects of one process, in both roles and over both        *)
(* transports, and the table of descriptors that they share.  A descriptor *)
(* is a small number that the system hands out again once it is closed, so *)
(* a number that an object keeps too long names the socket of another.     *)
(* One thread makes the calls, as in the demos and in RobotTest.           *)
(***************************************************************************)
EXTENDS Naturals

CONSTANTS
  Objects,  \* the MySocket objects the program creates
  Fds,      \* the descriptors that the process may have open
  NoFd,     \* -1
  Garbage,  \* the content of a member that the constructor has not set
  Closed,   \* the entry of a descriptor that is not open
  Nobody    \* no object

Roles      == {"CLIENT", "SERVER"}
Transports == {"TCP", "UDP"}

\* What a descriptor stands for: a UDP socket; a TCP socket that is not
\* connected, listens, is connected, or was reset by its peer.
Socket == [owner : Objects, use : {"udp", "tcp", "listen", "stream", "reset"}]

ASSUME SocketAssumption ==
  /\ Fds \subseteq Nat \ {0}
  /\ NoFd \notin Fds /\ Garbage \notin Fds /\ NoFd # Garbage
  /\ Nobody \notin Objects
  /\ Closed \notin Socket

VARIABLES
  life,              \* of each object: "none", "live" or "gone"
  mySocket,          \* of each object: its role
  connectionType,    \* of each object: its transport
  ConnectionSocket,  \* of each object
  WelcomeSocket,     \* of each object
  bTCPConnection,    \* of each object
  table,             \* the descriptors of the process
  dead,              \* the object in whose call the process died
  stale,             \* history: objects that still hold the number they closed
  again,             \* history: objects that called ConnectTCP while connected
  spoiled,           \* history: objects not properly made, of changed role, or
                     \* used after DisconnectTCP
  strayed            \* history: objects that acted on the socket of another

object  == <<life, mySocket, connectionType>>
members == <<ConnectionSocket, WelcomeSocket, bTCPConnection>>
history == <<stale, again, spoiled, strayed>>
vars    == <<object, members, table, dead, history>>

TypeOK ==
  /\ life \in [Objects -> {"none", "live", "gone"}]
  /\ mySocket \in [Objects -> Roles]
  /\ connectionType \in [Objects -> Transports]
  /\ ConnectionSocket \in [Objects -> Fds \cup {NoFd}]
  /\ WelcomeSocket \in [Objects -> Fds \cup {NoFd, Garbage}]
  /\ bTCPConnection \in [Objects -> BOOLEAN]
  /\ table \in [Fds -> Socket \cup {Closed}]
  /\ dead \in Objects \cup {Nobody}
  /\ stale \subseteq Objects /\ again \subseteq Objects
  /\ spoiled \subseteq Objects /\ strayed \subseteq Objects

-----------------------------------------------------------------------------
(* Descriptors *)

Free == {f \in Fds : table[f] = Closed}

\* The system hands out the lowest number that is free.
Lowest(f, S) == f \in S /\ \A g \in S : f <= g

IsOpen(f)  == f \in Fds /\ table[f] # Closed
Uses(f, S) == IsOpen(f) /\ table[f].use \in S

Sock(o, u) == [owner |-> o, use |-> u]

Closing(S) == [f \in Fds |-> IF f \in S THEN Closed ELSE table[f]]

\* What reading a descriptor member can give.
Value(m) == IF m = Garbage THEN Fds \cup {NoFd} ELSE {m}

\* o acts on the descriptors S.
Acts(o, S) ==
  strayed' = IF \E f \in S : IsOpen(f) /\ table[f].owner # o THEN strayed \cup {o} ELSE strayed

Spoils(o, condition) == spoiled' = IF condition THEN spoiled \cup {o} ELSE spoiled

Running == dead = Nobody
Live(o) == Running /\ life[o] = "live"

-----------------------------------------------------------------------------
(* The constructor *)

Made(o, r, c, fd, welcome) ==
  /\ Running /\ life[o] = "none"
  /\ life' = [life EXCEPT ![o] = "live"]
  /\ mySocket' = [mySocket EXCEPT ![o] = r]
  /\ connectionType' = [connectionType EXCEPT ![o] = c]
  /\ ConnectionSocket' = [ConnectionSocket EXCEPT ![o] = fd]
  /\ WelcomeSocket' = [WelcomeSocket EXCEPT ![o] = welcome]
  /\ bTCPConnection' = [bTCPConnection EXCEPT ![o] = FALSE]
  /\ UNCHANGED <<dead, stale, again, strayed>>

\* socket() fails: the constructor prints, and returns an object.
ConstructFails(o, r, c) ==
  /\ Free = {}
  /\ Made(o, r, c, NoFd, Garbage)
  /\ Spoils(o, TRUE)
  /\ UNCHANGED table

\* A client, or a UDP server that bind accepts; only a TCP server sets
\* WelcomeSocket.
ConstructOne(o, r, c) ==
  /\ r = "CLIENT" \/ c = "UDP"
  /\ \E f \in Fds :
       /\ Lowest(f, Free)
       /\ Made(o, r, c, f, Garbage)
       /\ table' = [table EXCEPT ![f] = Sock(o, IF c = "UDP" THEN "udp" ELSE "tcp")]
  /\ UNCHANGED spoiled

\* A UDP server whose bind fails closes its socket and keeps the number.
ConstructUnbound(o) ==
  /\ \E f \in Fds : Lowest(f, Free) /\ Made(o, "SERVER", "UDP", f, Garbage)
  /\ Spoils(o, TRUE)
  /\ UNCHANGED table

\* A TCP server opens a ConnectionSocket, which accept will replace, and a
\* WelcomeSocket.
ConstructServer(o) ==
  /\ \E f, g \in Fds :
       /\ Lowest(f, Free) /\ Lowest(g, Free \ {f})
       /\ Made(o, "SERVER", "TCP", f, g)
       /\ table' = [table EXCEPT ![f] = Sock(o, "tcp"), ![g] = Sock(o, "listen")]
  /\ UNCHANGED spoiled

\* bind or listen fails, and WelcomeSocket keeps the number that was closed; or
\* there was no second descriptor.
ConstructDeaf(o) ==
  /\ \E f \in Fds :
       /\ Lowest(f, Free)
       /\ IF Free = {f}
          THEN Made(o, "SERVER", "TCP", f, NoFd)
          ELSE \E g \in Fds : Lowest(g, Free \ {f}) /\ Made(o, "SERVER", "TCP", f, g)
       /\ table' = [table EXCEPT ![f] = Sock(o, "tcp")]
  /\ Spoils(o, TRUE)

-----------------------------------------------------------------------------
(* The destructor *)

\* MUTANT: the welcome socket is forgotten.
Mut_DestroyNoWelcome(o) ==
  /\ Live(o)
  /\ LET S == IF bTCPConnection[o] THEN {ConnectionSocket[o]} ELSE {}
     IN table' = Closing(S) /\ Acts(o, S)
  /\ life' = [life EXCEPT ![o] = "gone"]
  /\ UNCHANGED <<mySocket, connectionType, members, dead, stale, again, spoiled>>

Destroy(o) ==
  /\ Live(o)
  /\ \E w \in Value(WelcomeSocket[o]) :
       LET S == (IF bTCPConnection[o] THEN {ConnectionSocket[o]} ELSE {})
                \cup (IF mySocket[o] = "SERVER" /\ connectionType[o] = "TCP" THEN {w} ELSE {})
       IN table' = Closing(S) /\ Acts(o, S)
  /\ life' = [life EXCEPT ![o] = "gone"]
  /\ UNCHANGED <<mySocket, connectionType, members, dead, stale, again, spoiled>>

-----------------------------------------------------------------------------
(* ConnectTCP and DisconnectTCP *)

TCP(o, r) == Live(o) /\ connectionType[o] = "TCP" /\ mySocket[o] = r

\* MUTANT: the result of connect is not looked at.
Mut_ConnectUnchecked(o) ==
  /\ TCP(o, "CLIENT")
  /\ LET f == ConnectionSocket[o]
     IN /\ Acts(o, {f})
        /\ Spoils(o, o \in stale)
        /\ \/ Uses(f, {"tcp"}) /\ table' = [table EXCEPT ![f].use = "stream"]
           \/ UNCHANGED table
        /\ bTCPConnection' = [bTCPConnection EXCEPT ![o] = TRUE]
  /\ UNCHANGED <<object, ConnectionSocket, WelcomeSocket, dead, stale, again>>

\* connect on whatever the number stands for by now: on a UDP socket it only
\* notes the address.  It may always fail.
ConnectClient(o) ==
  /\ TCP(o, "CLIENT")
  /\ LET f == ConnectionSocket[o]
     IN /\ Acts(o, {f})
        /\ Spoils(o, o \in stale)
        /\ \/ /\ Uses(f, {"tcp", "udp"})
              /\ table' = [table EXCEPT ![f].use = IF @ = "tcp" THEN "stream" ELSE @]
              /\ bTCPConnection' = [bTCPConnection EXCEPT ![o] = TRUE]
           \/ UNCHANGED <<table, bTCPConnection>>
  /\ UNCHANGED <<object, ConnectionSocket, WelcomeSocket, dead, stale, again>>

\* MUTANT: the flag is set before the result of accept is looked at.
Mut_AcceptUnchecked(o) ==
  /\ TCP(o, "SERVER")
  /\ \E w \in Value(WelcomeSocket[o]) :
       /\ Acts(o, {w})
       /\ \/ /\ Uses(w, {"listen"})
             /\ \E f \in Fds :
                  /\ Lowest(f, Free)
                  /\ table' = [table EXCEPT ![f] = Sock(o, "stream")]
                  /\ ConnectionSocket' = [ConnectionSocket EXCEPT ![o] = f]
          \/ /\ ConnectionSocket' = [ConnectionSocket EXCEPT ![o] = NoFd]
             /\ UNCHANGED table
       /\ bTCPConnection' = [bTCPConnection EXCEPT ![o] = TRUE]
  /\ stale' = stale \ {o}
  /\ again' = IF bTCPConnection[o] THEN again \cup {o} ELSE again
  /\ UNCHANGED <<object, WelcomeSocket, dead, spoiled>>

\* ConnectionSocket = accept(...): the socket it held before is let go open,
\* and -1 takes its place if accept fails.
AcceptServer(o) ==
  /\ TCP(o, "SERVER")
  /\ \E w \in Value(WelcomeSocket[o]) :
       /\ Acts(o, {w})
       /\ \/ /\ Uses(w, {"listen"})
             /\ \E f \in Fds :
                  /\ Lowest(f, Free)
                  /\ table' = [table EXCEPT ![f] = Sock(o, "stream")]
                  /\ ConnectionSocket' = [ConnectionSocket EXCEPT ![o] = f]
             /\ bTCPConnection' = [bTCPConnection EXCEPT ![o] = TRUE]
          \/ /\ ConnectionSocket' = [ConnectionSocket EXCEPT ![o] = NoFd]
             /\ UNCHANGED <<table, bTCPConnection>>
  /\ stale' = stale \ {o}
  /\ again' = IF bTCPConnection[o] THEN again \cup {o} ELSE again
  /\ UNCHANGED <<object, WelcomeSocket, dead, spoiled>>

\* MUTANT: the flag is not reset.
Mut_DisconnectKeepsFlag(o) ==
  /\ Live(o)
  /\ connectionType[o] = "TCP" /\ bTCPConnection[o]
  /\ table' = Closing({ConnectionSocket[o]})
  /\ Acts(o, {ConnectionSocket[o]})
  /\ stale' = stale \cup {o}
  /\ UNCHANGED <<object, members, dead, again, spoiled>>

\* The number of the closed descriptor stays in ConnectionSocket.
DisconnectTCP(o) ==
  /\ Live(o)
  /\ connectionType[o] = "TCP" /\ bTCPConnection[o]
  /\ table' = Closing({ConnectionSocket[o]})
  /\ bTCPConnection' = [bTCPConnection EXCEPT ![o] = FALSE]
  /\ Acts(o, {ConnectionSocket[o]})
  /\ stale' = stale \cup {o}
  /\ UNCHANGED <<object, ConnectionSocket, WelcomeSocket, dead, again, spoiled>>

-----------------------------------------------------------------------------
(* SendData and GetData *)

\* The call of o either comes back or kills the process.
Ends(o, kills) ==
  /\ dead' = IF kills THEN o ELSE dead
  /\ Acts(o, {ConnectionSocket[o]})
  /\ Spoils(o, o \in stale)
  /\ UNCHANGED <<object, members, table, stale, again>>

\* The result of send is ignored, but on a TCP socket without a peer send
\* raises SIGPIPE.
SendData(o) ==
  /\ Live(o)
  /\ \/ Ends(o, FALSE)
     \/ Uses(ConnectionSocket[o], {"tcp", "listen", "reset"}) /\ Ends(o, TRUE)

\* A failing recv returns -1, and memcpy copies that many bytes.  On a socket
\* with a peer, the call waits until something arrives.
GetData(o) ==
  /\ Live(o)
  /\ \/ Uses(ConnectionSocket[o], {"udp", "stream", "reset"}) /\ Ends(o, FALSE)
     \/ ~Uses(ConnectionSocket[o], {"udp", "stream"}) /\ Ends(o, TRUE)

-----------------------------------------------------------------------------

\* A WelcomeSocket that is set counts as a reason to refuse.
SetType(o, r) ==
  /\ Live(o)
  /\ ~bTCPConnection[o]
  /\ \E w \in Value(WelcomeSocket[o]) :
       ~(mySocket[o] = "SERVER" /\ connectionType[o] = "TCP" /\ w \in Fds)
  /\ mySocket' = [mySocket EXCEPT ![o] = r]
  /\ Spoils(o, r # mySocket[o])
  /\ UNCHANGED <<life, connectionType, members, table, dead, stale, again, strayed>>

\* The peer of a connection goes away.
PeerResets(f) ==
  /\ Running
  /\ Uses(f, {"stream"})
  /\ table' = [table EXCEPT ![f].use = "reset"]
  /\ UNCHANGED <<object, members, dead, history>>

Init ==
  /\ life = [o \in Objects |-> "none"]
  /\ mySocket = [o \in Objects |-> "CLIENT"]
  /\ connectionType = [o \in Objects |-> "UDP"]
  /\ ConnectionSocket = [o \in Objects |-> NoFd]
  /\ WelcomeSocket = [o \in Objects |-> Garbage]
  /\ bTCPConnection = [o \in Objects |-> FALSE]
  /\ table = [f \in Fds |-> Closed]
  /\ dead = Nobody
  /\ stale = {} /\ again = {} /\ spoiled = {} /\ strayed = {}

Construct(o) ==
  \/ \E r \in Roles, c \in Transports : ConstructFails(o, r, c) \/ ConstructOne(o, r, c)
  \/ ConstructUnbound(o) \/ ConstructServer(o) \/ ConstructDeaf(o)

Call(o) ==
  \/ ConnectClient(o) \/ AcceptServer(o) \/ DisconnectTCP(o)
  \/ SendData(o) \/ GetData(o)
  \/ \E r \in Roles : SetType(o, r)

Next ==
  \/ \E o \in Objects : Construct(o) \/ Call(o) \/ Destroy(o)
  \/ \E f \in Fds : PeerResets(f)

Spec == Init /\ [][Next]_vars

-----------------------------------------------------------------------------
(* Properties *)

\* The first object to close, connect, write to or read the socket of another
\* is one that was not properly made, changed its role, or was used after
\* DisconnectTCP: an object that is made, connected, disconnected and
\* destroyed in this order never reaches beyond its own descriptors.
StrayOnlySpoiled == strayed # {} => strayed \cap spoiled # {}

\* As long as nobody reaches for the socket of another, the flag that decides
\* about closing in the destructor tells the truth: there is a connection of
\* its own behind it, unless ConnectTCP was called on a connected server.
ConnectedMeansOpen ==
  strayed = {} =>
    \A o \in Objects :
      (life[o] = "live" /\ bTCPConnection[o] /\ o \notin again) =>
        /\ Uses(ConnectionSocket[o], {"stream", "reset"})
        /\ table[ConnectionSocket[o]].owner = o

\* What is left open: a descriptor that no living object holds is a socket that
\* was never connected, or a connection that a second ConnectTCP replaced.  No
\* listening socket and no other connection outlives its object.
LeaksKnown ==
  strayed = {} =>
    \A f \in Fds :
      IsOpen(f) =>
        LET o == table[f].owner
        IN \/ life[o] = "live" /\ f \in {ConnectionSocket[o], WelcomeSocket[o]}
           \/ table[f].use \in {"udp", "tcp"}
           \/ o \in again

\* SendData and GetData kill the process only on an object that is not
\* properly made or used, on a TCP socket without a connection, or when the
\* peer has gone away; a UDP object that was made in order is safe.
DeathExplained ==
  (dead # Nobody /\ strayed = {} /\ dead \notin spoiled \cup again) =>
    /\ connectionType[dead] = "TCP"
    /\ ~bTCPConnection[dead] \/ Uses(ConnectionSocket[dead], {"reset"})
=============================================================================
