----------------------------- MODULE DemosSetting -----------------------------
(***************************************************************************)
(* What the demonstration programs are run with, the first packet format,   *)
(* which Milestone 1's client and server exchange, and the state of one      *)
(* server with its clients, which Demos changes.                             *)
(***************************************************************************)
EXTENDS Integers, Sequences, FiniteSets

CONSTANTS
    Clients,  \* the client processes
    Nobody,   \* no client
    Bodies,   \* the drive bodies a Milestone 1 client may send: Display prints
              \* a byte above 127 as a negative number
    MaxRuns   \* how often the server is started (a bound)

ASSUME DemosAssumption ==
    /\ Nobody \notin Clients /\ MaxRuns \in Nat
    /\ \A b \in Bodies : b \in Seq(0 .. 127) /\ Len(b) = 3

(***************************************************************************)
(* The packet of Milestone 1: the header's four bytes, the body, the CRC.   *)
(***************************************************************************)
\* The loops shift each byte right until it is 0, and count the last bits.
Shifts == 0 .. 7
SetBits(bytes) == {p \in (DOMAIN bytes) \X Shifts : (bytes[p[1]] \div 2 ^ p[2]) % 2 = 1}
BitCount(bytes) == Cardinality(SetBits(bytes))

HeaderSize == 4
DriveAndAck == 1 + 8

\* A plausible slip: the length leaves the CRC out.
Mut_OldHeader(b) == <<1, 0, DriveAndAck, HeaderSize + Len(b)>>

\* SetPktCount(1), SetCmd(DRIVE) and SetBodyData on an object whose constructor
\* has set the Ack bit.
OldHeader(b) == <<1, 0, DriveAndAck, HeaderSize + Len(b) + 1>>

\* GenPacket, with CalcCRC.
OldPacket(b) ==
    LET covered == OldHeader(b) \o b
    IN  covered \o <<BitCount(covered) % 256>>

\* PktDef(char*): the body is whatever the length leaves for it; CheckCRC, of which
\* Packet.h:216 says "CURRENTLY NOT WORKING".
Payload(p) == SubSeq(p, HeaderSize + 1, p[4] - 1)
CheckCRC(p) == BitCount(SubSeq(p, 1, p[4] - 1)) = p[p[4]]

-------------------------------------------------------------------------------
VARIABLES
    demo,      \* which programs run
    server,    \* where the server is in main
    runs,      \* how often it was started
    lingers,   \* the system keeps its TCP address busy (TIME_WAIT)
    SvrAddr,   \* the UDP server's member: "own", or the sender of its datagram
    inbox,     \* datagrams in the server's socket
    backlog,   \* TCP clients that accept has not taken yet
    conn,      \* the TCP client that accept took
    client,    \* where each client is in main
    upstream,  \* TCP clients whose message the server has not read
    down,      \* what a client can read: "reply", "reset" or nothing
    body,      \* the body each Milestone 1 client sends
    heard,     \* the client whose message the server printed last
    told,      \* the client that the server has written to
    shown      \* what the Milestone 1 server displays

NotShown == [body |-> <<>>, crc |-> FALSE]

(* What the Milestone 1 server displays is what that client set, and its    *)
(* own check of the checksum holds: CheckCRC works for every packet that    *)
(* GenPacket sealed, whatever the comment on it says.                       *)
ShowsWhatWasMeant ==
    shown # NotShown => shown = [body |-> body[heard], crc |-> TRUE]
===============================================================================
