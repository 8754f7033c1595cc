------------------------------ MODULE DemosProofs ------------------------------
(***************************************************************************)
(* Proofs about the demonstration programs, for any number of clients,      *)
(* starts of the server, and bodies: the first packet format round-trips,   *)
(* and so the Milestone 1 server displays what its client meant.            *)
(***************************************************************************)
EXTENDS Demos, TLAPS, FiniteSetTheorems, SequenceTheorems

Byte == 0 .. 255

-----------------------------------------------------------------------------
(* The first packet format *)

\* A sequence of bytes has at most eight set bits for each of them.
LEMMA EightBitsEach ==
  ASSUME NEW b \in Seq(Byte)
  PROVE  BitCount(b) \in Nat /\ BitCount(b) <= Len(b) * 8
  <1>1. Len(b) \in Nat /\ DOMAIN b = 1 .. Len(b)
    BY LenProperties
  <1>2. IsFiniteSet(1 .. Len(b)) /\ Cardinality(1 .. Len(b)) = Len(b)
    BY <1>1, FS_Interval
  <1>3. IsFiniteSet(Shifts) /\ Cardinality(Shifts) = 8
    <2>1. PICK m \in Int, n \in Int : m = 0 /\ n = 7
      OBVIOUS
    <2>2. IsFiniteSet(m .. n) /\ Cardinality(m .. n) = IF m > n THEN 0 ELSE n - m + 1
      BY FS_Interval
    <2> QED
      BY <2>1, <2>2 DEF Shifts
  <1>4. /\ IsFiniteSet((1 .. Len(b)) \X Shifts)
        /\ Cardinality((1 .. Len(b)) \X Shifts) = Len(b) * 8
    <2>1. /\ IsFiniteSet((1 .. Len(b)) \X Shifts)
          /\ Cardinality((1 .. Len(b)) \X Shifts) = Cardinality(1 .. Len(b)) * Cardinality(Shifts)
      BY <1>2, <1>3, FS_Product
    <2> QED
      BY <1>2, <1>3, <2>1
  <1>5. SetBits(b) \in SUBSET ((1 .. Len(b)) \X Shifts)
    BY <1>1 DEF SetBits
  <1>6. IsFiniteSet(SetBits(b)) /\ Cardinality(SetBits(b)) <= Len(b) * 8
    BY <1>4, <1>5, FS_Subset
  <1> QED
    BY <1>6, FS_CardinalityType DEF BitCount

\* A packet with a body of three bytes is what its checksum covers, seven
\* bytes that end with the body, and the checksum.
LEMMA OldPacketLayout ==
  ASSUME NEW b \in Bodies
  PROVE  \E covered \in Seq(Byte) :
            /\ Len(covered) = 7 /\ covered[4] = 8
            /\ \A i \in 1 .. 3 : covered[4 + i] = b[i]
            /\ BitCount(covered) \in Byte
            /\ OldPacket(b) = covered \o <<BitCount(covered)>>
  <1> DEFINE covered == OldHeader(b) \o b
  <1>1. b \in Seq(Byte) /\ Len(b) = 3
    <2>1. b \in Seq(0 .. 127) /\ Len(b) = 3
      BY DemosAssumption
    <2> QED
      BY <2>1, SeqMonotonic DEF Byte
  <1>2. OldHeader(b) = <<1, 0, 9, 8>>
    BY <1>1 DEF OldHeader, DriveAndAck, HeaderSize
  <1>3. OldHeader(b) \in Seq(Byte) /\ Len(OldHeader(b)) = 4 /\ OldHeader(b)[4] = 8
    BY <1>2 DEF Byte
  <1>4. /\ covered \in Seq(Byte) /\ Len(covered) = 7
        /\ \A i \in 1 .. 7 : covered[i] = IF i <= 4 THEN OldHeader(b)[i] ELSE b[i - 4]
    <2>1. /\ covered \in Seq(Byte) /\ Len(covered) = Len(OldHeader(b)) + Len(b)
          /\ \A i \in 1 .. Len(OldHeader(b)) + Len(b) :
                covered[i] = IF i <= Len(OldHeader(b)) THEN OldHeader(b)[i]
                             ELSE b[i - Len(OldHeader(b))]
      BY <1>1, <1>3, ConcatProperties
    <2> HIDE DEF covered
    <2> QED
      BY <1>1, <1>3, <2>1
  <1>5. covered[4] = 8 /\ \A i \in 1 .. 3 : covered[4 + i] = b[i]
    BY <1>3, <1>4
  <1> HIDE DEF covered
  <1>6. BitCount(covered) \in Nat /\ BitCount(covered) <= 56
    <2>1. BitCount(covered) \in Nat /\ BitCount(covered) <= Len(covered) * 8
      BY <1>4, EightBitsEach
    <2> QED
      BY <1>4, <2>1
  <1>7. BitCount(covered) \in Byte /\ BitCount(covered) % 256 = BitCount(covered)
    BY <1>6 DEF Byte
  <1>8. OldPacket(b) = covered \o <<BitCount(covered)>>
    BY <1>7 DEF OldPacket, covered
  <1> QED
    BY <1>4, <1>5, <1>7, <1>8

\* What the parsing constructor and CheckCRC of the first packet class make of
\* what GenPacket wrote.
LEMMA OldPacketRoundTrips ==
  ASSUME NEW b \in Bodies
  PROVE  Payload(OldPacket(b)) = b /\ CheckCRC(OldPacket(b)) = TRUE
  <1>1. PICK covered \in Seq(Byte) :
            /\ Len(covered) = 7 /\ covered[4] = 8
            /\ \A i \in 1 .. 3 : covered[4 + i] = b[i]
            /\ BitCount(covered) \in Byte
            /\ OldPacket(b) = covered \o <<BitCount(covered)>>
    BY OldPacketLayout
  <1> DEFINE c == BitCount(covered)
             p == OldPacket(b)
  <1>2. b \in Seq(Byte) /\ Len(b) = 3
    <2>1. b \in Seq(0 .. 127) /\ Len(b) = 3
      BY DemosAssumption
    <2> QED
      BY <2>1, SeqMonotonic DEF Byte
  <1>3. c \in Byte /\ <<c>> \in Seq(Byte) /\ Len(<<c>>) = 1 /\ <<c>>[1] = c
    <2>1. c \in Byte
      BY <1>1
    <2> HIDE DEF c
    <2> QED
      BY <2>1
  <1> HIDE DEF c
  <1>4. /\ p \in Seq(Byte) /\ Len(p) = 8
        /\ \A i \in 1 .. 8 : p[i] = IF i <= 7 THEN covered[i] ELSE <<c>>[i - 7]
    <2>1. p = covered \o <<c>>
      BY <1>1 DEF c
    <2>2. /\ covered \o <<c>> \in Seq(Byte)
          /\ Len(covered \o <<c>>) = Len(covered) + Len(<<c>>)
          /\ \A i \in 1 .. Len(covered) + Len(<<c>>) :
                (covered \o <<c>>)[i] = IF i <= Len(covered) THEN covered[i]
                                        ELSE <<c>>[i - Len(covered)]
      BY <1>3, ConcatProperties
    <2> HIDE DEF p
    <2>3. Len(covered) = 7 /\ Len(<<c>>) = 1
      BY <1>1, <1>3
    <2> QED
      BY <2>1, <2>2, <2>3
  <1>5. /\ p[4] = 8 /\ p[8] = c
        /\ \A i \in 1 .. 7 : p[i] = covered[i]
        /\ \A i \in 1 .. 8 : p[i] \in Byte
    <2>1. \A i \in 1 .. 8 : p[i] \in Byte
      BY <1>4, ElementOfSeq
    <2> HIDE DEF p
    <2>2. \A i \in 1 .. 7 : p[i] = covered[i]
      BY <1>4
    <2>3. p[8] = <<c>>[1]
      BY <1>4
    <2> QED
      BY <1>1, <1>3, <2>1, <2>2, <2>3
  <1> HIDE DEF p
  <1>6. Payload(p) = b
    <2>1. Payload(p) = SubSeq(p, 5, 7)
      BY <1>5 DEF Payload, HeaderSize
    <2>2. /\ SubSeq(p, 5, 7) \in Seq(Byte) /\ Len(SubSeq(p, 5, 7)) = 3
          /\ \A i \in 1 .. 3 : SubSeq(p, 5, 7)[i] = p[4 + i]
      <3>1. \A i \in 5 .. 7 : p[i] \in Byte
        BY <1>5
      <3>2. /\ SubSeq(p, 5, 7) \in Seq(Byte)
            /\ Len(SubSeq(p, 5, 7)) = IF 5 <= 7 THEN 7 - 5 + 1 ELSE 0
            /\ \A i \in 1 .. 7 - 5 + 1 : SubSeq(p, 5, 7)[i] = p[5 + i - 1]
        BY <3>1, SubSeqProperties
      <3> QED
        BY <3>2
    <2>3. \A i \in 1 .. 3 : p[4 + i] = covered[4 + i]
      BY <1>5
    <2>4. \A i \in 1 .. 3 : SubSeq(p, 5, 7)[i] = b[i]
      BY <1>1, <2>2, <2>3
    <2> QED
      BY <1>2, <2>1, <2>2, <2>4, SeqEqual
  <1>7. SubSeq(p, 1, 7) = covered
    <2>1. \A i \in 1 .. 7 : p[i] \in Byte
      BY <1>5
    <2>2. /\ SubSeq(p, 1, 7) \in Seq(Byte)
          /\ Len(SubSeq(p, 1, 7)) = IF 1 <= 7 THEN 7 - 1 + 1 ELSE 0
          /\ \A i \in 1 .. 7 - 1 + 1 : SubSeq(p, 1, 7)[i] = p[1 + i - 1]
      BY <2>1, SubSeqProperties
    <2>3. Len(SubSeq(p, 1, 7)) = 7 /\ \A i \in 1 .. 7 : SubSeq(p, 1, 7)[i] = covered[i]
      BY <1>5, <2>2
    <2> QED
      BY <1>1, <2>2, <2>3, SeqEqual
  <1>8. CheckCRC(p)
    <2>1. p[4] - 1 = 7 /\ p[p[4]] = c
      BY <1>5
    <2>2. BitCount(SubSeq(p, 1, p[4] - 1)) = c
      BY <1>7, <2>1 DEF c
    <2> QED
      BY <2>1, <2>2 DEF CheckCRC
  <1> QED
    BY <1>6, <1>8 DEF p

-----------------------------------------------------------------------------
(* The invariant *)

Datagram == [from : Clients, bytes : {<<>>} \cup {OldPacket(b) : b \in Bodies}]

\* TypeOK, with what the queues are sequences of.
Typed ==
    /\ TypeOK
    /\ inbox \in Seq(Datagram) /\ backlog \in Seq(Clients)
    /\ body \in [Clients -> Bodies]

\* What waits in a Milestone 1 server's socket was built from its sender's body.
BuiltFromBodies ==
    demo = "Milestone1" =>
        \A i \in 1 .. Len(inbox) : inbox[i].bytes = OldPacket(body[inbox[i].from])

\* Only that server displays a packet.
OthersShowNothing == demo # "Milestone1" => shown = NotShown

DInv == Typed /\ BuiltFromBodies /\ OthersShowNothing /\ ShowsWhatWasMeant

LEMMA InboxSenders ==
  ASSUME NEW q \in Seq(Datagram)
  PROVE  \A i \in DOMAIN q : q[i].from \in Clients
  <1>1. DOMAIN q = 1 .. Len(q) /\ \A i \in 1 .. Len(q) : q[i] \in Datagram
    BY LenProperties, ElementOfSeq
  <1> QED
    BY <1>1 DEF Datagram

LEMMA BacklogOfClients ==
  ASSUME NEW q \in Seq(Clients)
  PROVE  \A i \in DOMAIN q : q[i] \in Clients
  <1> QED
    BY LenProperties, ElementOfSeq

LEMMA QueueHead ==
  ASSUME NEW S, NEW q \in Seq(S), q # <<>>
  PROVE  /\ Head(q) \in S /\ Tail(q) \in Seq(S)
         /\ Head(q) = q[1] /\ 1 \in 1 .. Len(q)
  <1>1. Head(q) \in S /\ Tail(q) \in Seq(S)
    BY HeadTailProperties
  <1>2. Len(q) \in Nat \ {0}
    BY EmptySeq
  <1> QED
    BY <1>1, <1>2

LEMMA InitDInv == Init => DInv
  <1> SUFFICES ASSUME Init PROVE DInv
    OBVIOUS
  <1>1. inbox = <<>> /\ backlog = <<>> /\ shown = NotShown
    BY DEF Init
  <1>2. inbox \in Seq(Datagram) /\ backlog \in Seq(Clients) /\ Len(inbox) = 0
    BY <1>1, EmptySeq
  <1>3. TypeOK
    <2>1. 0 \in 0 .. MaxRuns
      BY DemosAssumption
    <2>2. DOMAIN inbox = {} /\ DOMAIN backlog = {}
      BY <1>1
    <2> QED
      BY <2>1, <2>2 DEF Init, TypeOK, ServerAt, ClientAt, Nothing
  <1>4. body \in [Clients -> Bodies]
    BY DEF Init
  <1>5. BuiltFromBodies
    BY <1>2 DEF BuiltFromBodies
  <1> QED
    BY <1>1, <1>2, <1>3, <1>4, <1>5 DEF DInv, Typed, OthersShowNothing, ShowsWhatWasMeant

-----------------------------------------------------------------------------
(* Types *)

LEMMA ServerKeepsTypes ==
  ASSUME Typed, ServerStarts \/ LingerEnds \/ Server
  PROVE  Typed'
  <1> USE DEF wires
  <1>1. /\ inbox \in Seq(Datagram) /\ backlog \in Seq(Clients) /\ body \in [Clients -> Bodies]
        /\ TypeOK
    BY DEF Typed
  <1>2. <<>> \in Seq(Datagram) /\ <<>> \in Seq(Clients)
    BY EmptySeq
  <1>3. ASSUME inbox' \in Seq(Datagram), backlog' \in Seq(Clients),
               demo' = demo, body' = body, server' \in ServerAt, runs' \in 0 .. MaxRuns,
               lingers' \in BOOLEAN, SvrAddr' \in Clients \cup {"own"},
               conn' \in Clients \cup {Nobody}, client' = client,
               upstream' \subseteq Clients,
               down' \in [Clients -> {Nothing, "reply", "reset"}],
               heard' \in Clients \cup {Nobody}, told' \in Clients \cup {Nobody}
        PROVE  Typed'
    <2>1. \A i \in DOMAIN inbox' : inbox'[i].from \in Clients
      BY <1>3, InboxSenders
    <2>2. \A i \in DOMAIN backlog' : backlog'[i] \in Clients
      BY <1>3, BacklogOfClients
    <2> QED
      BY <1>1, <1>3, <2>1, <2>2 DEF Typed, TypeOK
  <1>4. CASE ServerStarts
    <2>1. server' \in ServerAt
      BY <1>4 DEF ServerStarts, ServerAt
    <2>2. runs' \in 0 .. MaxRuns
      BY <1>1, <1>4, DemosAssumption DEF TypeOK, ServerStarts
    <2> QED
      BY <1>1, <1>3, <1>4, <2>1, <2>2 DEF TypeOK, ServerStarts
  <1>5. CASE LingerEnds
    BY <1>1, <1>3, <1>5 DEF TypeOK, LingerEnds
  <1>6. CASE Accept
    <2>1. Head(backlog) \in Clients /\ Tail(backlog) \in Seq(Clients)
      BY <1>1, <1>6, QueueHead DEF Accept
    <2> QED
      BY <1>1, <1>3, <1>6, <2>1 DEF TypeOK, Accept, ServerAt
  <1>7. CASE ServerReceivesTCP
    BY <1>1, <1>3, <1>7 DEF TypeOK, ServerReceivesTCP, ServerAt
  <1>8. CASE ServerReceivesUDP
    <2>1. Head(inbox) \in Datagram /\ Tail(inbox) \in Seq(Datagram)
      BY <1>1, <1>8, QueueHead DEF ServerReceivesUDP
    <2>2. Head(inbox).from \in Clients
      BY <2>1 DEF Datagram
    <2> QED
      BY <1>1, <1>3, <1>8, <2>1, <2>2 DEF TypeOK, ServerReceivesUDP, ServerAt, AddrAfter
  <1>9. CASE ServerShows
    <2>1. Head(inbox) \in Datagram
      BY <1>1, <1>9, QueueHead DEF ServerShows
    <2>2. Head(inbox).from \in Clients
      BY <2>1 DEF Datagram
    <2> QED
      BY <1>1, <1>2, <1>3, <1>9, <2>2 DEF TypeOK, ServerShows, ServerAt
  <1>10. CASE ServerSends
    <2> DEFINE to == IF demo = "TCP" THEN conn ELSE SvrAddr
    <2>1. /\ down' \in [Clients -> {Nothing, "reply", "reset"}]
          /\ told' \in Clients \cup {Nobody}
      <3>1. CASE to \in Clients
        <4>1. down' = [down EXCEPT ![to] = "reply"] /\ told' = to
          BY <1>10, <3>1 DEF ServerSends
        <4> HIDE DEF to
        <4> QED
          BY <1>1, <3>1, <4>1 DEF TypeOK
      <3>2. CASE to \notin Clients
        BY <1>1, <1>10, <3>2 DEF TypeOK, ServerSends
      <3> QED
        BY <3>1, <3>2
    <2>2. server' \in ServerAt /\ inbox' = <<>>
      BY <1>10 DEF ServerSends, ServerAt
    <2>3. /\ demo' = demo /\ body' = body /\ client' = client /\ backlog' = backlog
          /\ runs' = runs /\ lingers' = lingers /\ SvrAddr' = SvrAddr /\ conn' = conn
          /\ upstream' = upstream /\ heard' = heard
      BY <1>10 DEF ServerSends
    <2> QED
      BY <1>1, <1>2, <1>3, <2>1, <2>2, <2>3 DEF TypeOK
  <1>11. CASE ServerCloses
    <2>1. down' \in [Clients -> {Nothing, "reply", "reset"}]
      BY <1>1, <1>11 DEF TypeOK, ServerCloses
    <2> QED
      BY <1>1, <1>2, <1>3, <1>11, <2>1 DEF TypeOK, ServerCloses, ServerAt
  <1> QED
    BY <1>4, <1>5, <1>6, <1>7, <1>8, <1>9, <1>10, <1>11 DEF Server

LEMMA ClientKeepsTypes ==
  ASSUME Typed, NEW c \in Clients, ClientStarts(c) \/ Client(c)
  PROVE  Typed'
  <1> USE DEF wires
  <1>1. /\ inbox \in Seq(Datagram) /\ backlog \in Seq(Clients) /\ body \in [Clients -> Bodies]
        /\ TypeOK
    BY DEF Typed
  <1>2. ASSUME inbox' \in Seq(Datagram), backlog' \in Seq(Clients),
               upstream' \subseteq Clients, NEW where \in ClientAt, Goes(c, where),
               UNCHANGED <<demo, server, runs, lingers, SvrAddr, conn, down, body, heard, told>>
        PROVE  Typed'
    <2>1. \A i \in DOMAIN inbox' : inbox'[i].from \in Clients
      BY <1>2, InboxSenders
    <2>2. \A i \in DOMAIN backlog' : backlog'[i] \in Clients
      BY <1>2, BacklogOfClients
    <2>3. client' \in [Clients -> ClientAt]
      BY <1>1, <1>2 DEF TypeOK, Goes
    <2> QED
      BY <1>1, <1>2, <2>1, <2>2, <2>3 DEF Typed, TypeOK
  <1>3. CASE ClientStarts(c)
    <2>1. PICK where \in ClientAt : Goes(c, where)
      BY <1>3 DEF ClientStarts, ClientAt
    <2> QED
      BY <1>1, <1>2, <1>3, <2>1 DEF TypeOK, ClientStarts
  <1>4. CASE Connect(c)
    <2>1. Append(backlog, c) \in Seq(Clients)
      BY <1>1, AppendProperties
    <2>2. Goes(c, "send") /\ "send" \in ClientAt
      BY <1>4 DEF Connect, ClientAt
    <2> QED
      BY <1>1, <1>2, <1>4, <2>1, <2>2 DEF TypeOK, Connect
  <1>5. CASE ConnectRefused(c)
    <2>1. Goes(c, "dead") /\ "dead" \in ClientAt
      BY <1>5 DEF ConnectRefused, ClientAt
    <2> QED
      BY <1>1, <1>2, <1>5, <2>1 DEF TypeOK, ConnectRefused
  <1>6. CASE ClientSendsTCP(c)
    <2>1. PICK where \in ClientAt : Goes(c, where)
      BY <1>6 DEF ClientSendsTCP, ClientAt
    <2>2. upstream' \subseteq Clients
      BY <1>1, <1>6 DEF TypeOK, ClientSendsTCP
    <2> QED
      BY <1>1, <1>2, <1>6, <2>1, <2>2 DEF ClientSendsTCP
  <1>7. CASE ClientSendsUDP(c)
    <2>1. PICK where \in ClientAt : Goes(c, where)
      BY <1>7 DEF ClientSendsUDP, ClientAt
    <2>2. inbox' \in Seq(Datagram)
      <3> DEFINE d == [from |-> c, bytes |-> IF demo = "UDP" THEN <<>> ELSE OldPacket(body[c])]
      <3>1. d \in Datagram
        BY <1>1 DEF Datagram
      <3>2. inbox' = inbox \/ inbox' = Append(inbox, d)
        BY <1>7 DEF ClientSendsUDP
      <3> HIDE DEF d
      <3>3. Append(inbox, d) \in Seq(Datagram)
        BY <1>1, <3>1, AppendProperties
      <3> QED
        BY <1>1, <3>2, <3>3
    <2> QED
      BY <1>1, <1>2, <1>7, <2>1, <2>2 DEF TypeOK, ClientSendsUDP
  <1>8. CASE ClientReceives(c)
    <2>1. PICK where \in ClientAt : Goes(c, where)
      BY <1>8 DEF ClientReceives, ClientAt
    <2> QED
      BY <1>1, <1>2, <1>8, <2>1 DEF TypeOK, ClientReceives
  <1> QED
    BY <1>3, <1>4, <1>5, <1>6, <1>7, <1>8 DEF Client

LEMMA StepKeepsTypes ==
  ASSUME Typed, [Next]_demosVars
  PROVE  Typed'
  <1>1. CASE UNCHANGED demosVars
    BY <1>1 DEF Typed, TypeOK, demosVars, wires
  <1> QED
    BY <1>1, ServerKeepsTypes, ClientKeepsTypes DEF Next

-----------------------------------------------------------------------------
(* Milestone 1: what is sent, and what is shown *)

LEMMA BuiltFromBodiesKept ==
  ASSUME DInv, [Next]_demosVars
  PROVE  BuiltFromBodies'
  <1> USE DEF wires
  <1>1. inbox \in Seq(Datagram) /\ body \in [Clients -> Bodies] /\ BuiltFromBodies
    BY DEF DInv, Typed
  <1>2. CASE demo' = demo /\ body' = body /\ inbox' \in {inbox, <<>>}
    BY <1>1, <1>2 DEF BuiltFromBodies
  <1>3. CASE ServerReceivesUDP
    BY <1>3 DEF ServerReceivesUDP, BuiltFromBodies
  <1>4. ASSUME NEW c \in Clients, ClientSendsUDP(c), demo = "Milestone1" PROVE BuiltFromBodies'
    <2> DEFINE d == [from |-> c, bytes |-> OldPacket(body[c])]
    <2>1. demo' = demo /\ body' = body /\ (inbox' = inbox \/ inbox' = Append(inbox, d))
      BY <1>4 DEF ClientSendsUDP
    <2>2. CASE inbox' = inbox
      BY <1>2, <2>1, <2>2
    <2>3. CASE inbox' = Append(inbox, d)
      <3>1. d.bytes = OldPacket(body[d.from]) /\ d \in Datagram
        BY <1>1, <1>4 DEF Datagram
      <3> HIDE DEF d
      <3>2. Len(inbox) \in Nat /\ Len(inbox') = Len(inbox) + 1
        <4>1. Len(Append(inbox, d)) = Len(inbox) + 1
          BY <1>1, <3>1, AppendProperties
        <4>2. Len(inbox) \in Nat
          BY <1>1, LenProperties
        <4>3. Len(inbox') = Len(Append(inbox, d))
          BY <2>3
        <4> QED
          BY <4>1, <4>2, <4>3
      <3>3. \A i \in 1 .. Len(inbox') : inbox'[i] = IF i <= Len(inbox) THEN inbox[i] ELSE d
        <4>1. /\ \A i \in 1 .. Len(inbox) : Append(inbox, d)[i] = inbox[i]
              /\ Append(inbox, d)[Len(inbox) + 1] = d
          BY <1>1, <3>1, AppendProperties
        <4> QED
          BY <2>3, <3>2, <4>1
      <3>4. \A i \in 1 .. Len(inbox) : inbox[i].bytes = OldPacket(body[inbox[i].from])
        BY <1>1, <1>4 DEF BuiltFromBodies
      <3>5. \A i \in 1 .. Len(inbox') : inbox'[i].bytes = OldPacket(body[inbox'[i].from])
        BY <3>1, <3>2, <3>3, <3>4
      <3> QED
        BY <2>1, <3>5 DEF BuiltFromBodies
    <2> QED
      BY <2>1, <2>2, <2>3
  <1>5. ASSUME NEW c \in Clients, ClientSendsUDP(c), demo # "Milestone1" PROVE BuiltFromBodies'
    BY <1>5 DEF ClientSendsUDP, BuiltFromBodies
  <1>6. ASSUME NEW c \in Clients, ClientStarts(c) \/ Client(c) PROVE BuiltFromBodies'
    BY <1>2, <1>4, <1>5, <1>6
    DEF ClientStarts, Client, Connect, ConnectRefused, ClientSendsTCP, ClientReceives
  <1>7. CASE ServerStarts \/ LingerEnds \/ Server
    BY <1>2, <1>3, <1>7
    DEF ServerStarts, LingerEnds, Server, Accept, ServerReceivesTCP, ServerShows, ServerSends,
        ServerCloses
  <1>8. CASE UNCHANGED demosVars
    BY <1>2, <1>8 DEF demosVars
  <1> QED
    BY <1>6, <1>7, <1>8 DEF Next

LEMMA ShowsKept ==
  ASSUME DInv, [Next]_demosVars
  PROVE  OthersShowNothing' /\ ShowsWhatWasMeant'
  <1> USE DEF wires
  <1>1. /\ inbox \in Seq(Datagram) /\ body \in [Clients -> Bodies]
        /\ BuiltFromBodies /\ OthersShowNothing /\ ShowsWhatWasMeant
    BY DEF DInv, Typed
  <1>2. CASE UNCHANGED <<demo, body, heard, shown>>
    BY <1>1, <1>2 DEF OthersShowNothing, ShowsWhatWasMeant
  <1>3. CASE ServerStarts
    BY <1>3 DEF ServerStarts, OthersShowNothing, ShowsWhatWasMeant
  <1>4. CASE ServerReceivesTCP \/ ServerReceivesUDP
    BY <1>1, <1>4 DEF ServerReceivesTCP, ServerReceivesUDP, OthersShowNothing, ShowsWhatWasMeant
  <1>5. CASE ServerShows
    <2>1. demo = "Milestone1" /\ inbox # <<>>
      BY <1>5 DEF ServerShows
    <2>2. Head(inbox) \in Datagram /\ Head(inbox) = inbox[1] /\ 1 \in 1 .. Len(inbox)
      BY <1>1, <2>1, QueueHead
    <2>3. Head(inbox).bytes = OldPacket(body[Head(inbox).from])
      BY <1>1, <2>1, <2>2 DEF BuiltFromBodies
    <2>4. body[Head(inbox).from] \in Bodies
      BY <1>1, <2>2 DEF Datagram
    <2>5. /\ Payload(Head(inbox).bytes) = body[Head(inbox).from]
          /\ CheckCRC(Head(inbox).bytes) = TRUE
      BY <2>3, <2>4, OldPacketRoundTrips
    <2>6. /\ heard' = Head(inbox).from /\ body' = body /\ demo' = demo
          /\ shown' = [body |-> Payload(Head(inbox).bytes), crc |-> CheckCRC(Head(inbox).bytes)]
      BY <1>5 DEF ServerShows
    <2>7. shown' = [body |-> body'[heard'], crc |-> TRUE]
      BY <2>5, <2>6
    <2> QED
      BY <2>1, <2>6, <2>7 DEF OthersShowNothing, ShowsWhatWasMeant
  <1>6. CASE LingerEnds \/ Accept \/ ServerSends \/ ServerCloses
    BY <1>2, <1>6 DEF LingerEnds, Accept, ServerSends, ServerCloses
  <1>7. ASSUME NEW c \in Clients, ClientStarts(c) \/ Client(c)
        PROVE  UNCHANGED <<demo, body, heard, shown>>
    BY <1>7 DEF ClientStarts, Client, Connect, ConnectRefused, ClientSendsTCP, ClientSendsUDP,
                ClientReceives
  <1>8. CASE UNCHANGED demosVars
    BY <1>2, <1>8 DEF demosVars
  <1> QED
    BY <1>2, <1>3, <1>4, <1>5, <1>6, <1>7, <1>8 DEF Next, Server

LEMMA DemosInvariant == Spec => []DInv
  <1>1. Init => DInv
    BY InitDInv
  <1>2. DInv /\ [Next]_demosVars => DInv'
    <2> SUFFICES ASSUME DInv, [Next]_demosVars PROVE DInv'
      OBVIOUS
    <2>1. Typed'
      BY StepKeepsTypes DEF DInv
    <2> QED
      BY <2>1, BuiltFromBodiesKept, ShowsKept DEF DInv
  <1> QED
    BY <1>1, <1>2, PTL DEF Spec

(* The state of the demonstration programs keeps its types.                 *)
THEOREM DemosTypeCorrect == Spec => []TypeOK
  <1>1. DInv => TypeOK
    BY DEF DInv, Typed
  <1> QED
    BY <1>1, DemosInvariant, PTL

(* Whatever the Milestone 1 server displays, after any number of starts and *)
(* whoever sends, is what that client set, with its checksum found right.   *)
THEOREM DemosShowWhatWasMeant == Spec => []ShowsWhatWasMeant
  <1>1. DInv => ShowsWhatWasMeant
    BY DEF DInv
  <1> QED
    BY <1>1, DemosInvariant, PTL
===============================================================================
