------------------------------- MODULE PktDef -------------------------------
(***************************************************************************)
(* One PktDef object of Packet.cpp: the protocol's packet, from either     *)
(* constructor through any order of the calls of its interface to the      *)
(* bytes that GenPacket leaves in RawBuffer, and what the other end makes  *)
(* of those bytes.                                                         *)
(***************************************************************************)
EXTENDS Integers, Sequences, FiniteSets

CONSTANTS
  Counts,     \* the arguments of SetPktCount
  Bodies,     \* the arguments of SetBodyData, as byte sequences
  Datagrams,  \* the buffers given to PktDef(char* buff)
  Null,       \* nullptr
  Garbage     \* the content of a member that no constructor sets

Bit    == 0..1
Nibble == 0..15
Byte   == 0..255

PktCountMod == 65536
Word        == 0..(PktCountMod - 1)

HEADERSIZE         == 4
CRCSIZE            == 1
DRIVER_BODYSIZE    == 3
TELEMETRY_BODYSIZE == 9
MaxBody            == 255 - HEADERSIZE - CRCSIZE

\* A datagram is as long as its header says: the reply buffers are not modelled
\* beyond the bytes that arrived.
ASSUME PacketAssumption ==
  /\ Counts \subseteq Int
  /\ Bodies \subseteq Seq(Byte)
  /\ \A d \in Bodies : Len(d) <= MaxBody
  /\ Datagrams \subseteq Seq(Byte)
  /\ \A b \in Datagrams : Len(b) > HEADERSIZE /\ b[4] = Len(b)
  /\ Null \notin Seq(Byte) /\ Garbage \notin Seq(Byte) /\ Garbage # Null

VARIABLES
  made,           \* the constructor that ran: "none", "default" or "parsed"
  header,         \* cmdPacket.header
  Data,           \* cmdPacket.Data: Null or the bytes it points to
  CRC,            \* cmdPacket.CRC
  RawBuffer,      \* Null, Garbage or the bytes GenPacket wrote to it
  telemetryBody,  \* the member that GetTelemetryData prints
  fault,          \* a memory error that GenPacket has run into
  bodySet,        \* history: SetBodyData was called
  wire            \* history: the buffer the object was parsed from

vars == <<made, header, Data, CRC, RawBuffer, telemetryBody, fault, bodySet, wire>>

Header == [PktCount : Word, Drive : Bit, Status : Bit, Sleep : Bit, Ack : Bit,
           Padding : Nibble, Length : Byte]

TypeOK ==
  /\ made \in {"none", "default", "parsed"}
  /\ header \in Header
  /\ Data \in Seq(Byte) \cup {Null}
  /\ CRC \in Byte
  /\ RawBuffer \in Seq(Byte) \cup {Null, Garbage}
  /\ telemetryBody \in Seq(Byte) \cup {Garbage}
  /\ fault \in {"none", "overflow", "bad_free"}
  /\ bodySet \in BOOLEAN
  /\ wire \in Seq(Byte)

-----------------------------------------------------------------------------
(* The layout of a packet *)

Flags(h) == h.Drive + 2 * h.Status + 4 * h.Sleep + 8 * h.Ack + 16 * h.Padding

\* MUTANT: network byte order for the packet count.
Mut_HeaderBytesBigEndian(h) ==
  <<h.PktCount \div 256, h.PktCount % 256, Flags(h), h.Length>>

\* The bytes of struct Header on the little-endian machines the server runs on.
HeaderBytes(h) == <<h.PktCount % 256, h.PktCount \div 256, Flags(h), h.Length>>

HeaderOf(b) ==
  [PktCount |-> b[1] + 256 * b[2],
   Drive    |-> b[3] % 2,
   Status   |-> (b[3] \div 2) % 2,
   Sleep    |-> (b[3] \div 4) % 2,
   Ack      |-> (b[3] \div 8) % 2,
   Padding  |-> b[3] \div 16,
   Length   |-> b[4]]

PayloadSize(h) == h.Length - (HEADERSIZE + CRCSIZE)

\* The bytes of Data that the length in the header covers.
Payload(h, d) == IF d = Null THEN <<>> ELSE SubSeq(d, 1, PayloadSize(h))

Weights == {1, 2, 4, 8, 16, 32, 64, 128}

\* What the shift-and-add loops over the bytes count: the bits that are set,
\* each as the place of its byte and its weight there.
SetBits(bytes) ==
  {p \in (1..Len(bytes)) \X Weights : (bytes[p[1]] \div p[2]) % 2 = 1}

BitCount(bytes) == Cardinality(SetBits(bytes))

\* MUTANT: the body is left out of the checksum.
Mut_CalcCRCHeaderOnly(h, d) == BitCount(HeaderBytes(h)) % 256

CalcCRC(h, d) == BitCount(HeaderBytes(h) \o Payload(h, d)) % 256

\* The count is an int and is compared with the byte as it is.
CheckCRC(buff, size) == BitCount(SubSeq(buff, 1, size - CRCSIZE)) = buff[size]

Serialised(h, d) == HeaderBytes(h) \o Payload(h, d) \o <<CalcCRC(h, d)>>

\* MUTANT: a payload of any size is kept.
Mut_DataOfAny(b) ==
  LET size == PayloadSize(HeaderOf(b))
  IN IF size > 0 THEN SubSeq(b, HEADERSIZE + 1, HEADERSIZE + size) ELSE Null

\* Payloads of any other size are dropped.
DataOf(b) ==
  LET size == PayloadSize(HeaderOf(b))
  IN IF size \in {DRIVER_BODYSIZE, TELEMETRY_BODYSIZE}
     THEN SubSeq(b, HEADERSIZE + 1, HEADERSIZE + size)
     ELSE Null

-----------------------------------------------------------------------------
(* The constructors *)

ZeroHeader == [PktCount |-> 0, Drive |-> 0, Status |-> 0, Sleep |-> 0, Ack |-> 0,
               Padding |-> 0, Length |-> 0]

\* PktDef(): everything zero but the Ack bit; the typed bodies are not set.
Default ==
  /\ made = "none"
  /\ made' = "default"
  /\ header' = [ZeroHeader EXCEPT !.Ack = 1]
  /\ Data' = Null
  /\ CRC' = 0
  /\ RawBuffer' = Null
  /\ UNCHANGED <<telemetryBody, fault, bodySet, wire>>

\* PktDef(char* buff): RawBuffer is left as it is, and the checksum is computed
\* from what was parsed, not taken from the buffer.
Parse(b) ==
  /\ made = "none"
  /\ made' = "parsed"
  /\ header' = HeaderOf(b)
  /\ Data' = DataOf(b)
  /\ CRC' = CalcCRC(HeaderOf(b), DataOf(b))
  /\ telemetryBody' = IF PayloadSize(HeaderOf(b)) = TELEMETRY_BODYSIZE THEN DataOf(b) ELSE Garbage
  /\ wire' = b
  /\ UNCHANGED <<RawBuffer, fault, bodySet>>

-----------------------------------------------------------------------------
(* The setters *)

Usable == made # "none" /\ fault = "none"

\* MUTANT: setting a command clears the others.
Mut_SetCmdClears(t) ==
  /\ Usable
  /\ header' = [header EXCEPT !.Drive  = IF t = "DRIVE" THEN 1 ELSE 0,
                              !.Status = IF t = "RESPONSE" THEN 1 ELSE 0,
                              !.Sleep  = IF t = "SLEEP" THEN 1 ELSE 0]
  /\ UNCHANGED <<made, Data, CRC, RawBuffer, telemetryBody, fault, bodySet, wire>>

\* A flag, once set, stays set.
SetCmd(t) ==
  /\ Usable
  /\ header' = CASE t = "DRIVE"    -> [header EXCEPT !.Drive = 1]
                 [] t = "RESPONSE" -> [header EXCEPT !.Status = 1]
                 [] t = "SLEEP"    -> [header EXCEPT !.Sleep = 1]
  /\ UNCHANGED <<made, Data, CRC, RawBuffer, telemetryBody, fault, bodySet, wire>>

SetPktCount(c) ==
  /\ Usable
  /\ header' = [header EXCEPT !.PktCount = c % PktCountMod]
  /\ UNCHANGED <<made, Data, CRC, RawBuffer, telemetryBody, fault, bodySet, wire>>

\* MUTANT: the length of a packet without a body is left as it is.
Mut_SetBodyDataNoLength(d) ==
  /\ Usable
  /\ IF header.Drive = 0
     THEN Data' = Null /\ UNCHANGED header
     ELSE /\ header' = [header EXCEPT !.Length = (HEADERSIZE + Len(d) + CRCSIZE) % 256]
          /\ Data' = d
  /\ bodySet' = TRUE
  /\ UNCHANGED <<made, CRC, RawBuffer, telemetryBody, fault, wire>>

\* Without the Drive flag the bytes are ignored.
SetBodyData(d) ==
  /\ Usable
  /\ IF header.Drive = 0
     THEN /\ header' = [header EXCEPT !.Length = HEADERSIZE + CRCSIZE]
          /\ Data' = Null
     ELSE /\ header' = [header EXCEPT !.Length = (HEADERSIZE + Len(d) + CRCSIZE) % 256]
          /\ Data' = d
  /\ bodySet' = TRUE
  /\ UNCHANGED <<made, CRC, RawBuffer, telemetryBody, fault, wire>>

-----------------------------------------------------------------------------
(* GenPacket *)

\* delete[] of a pointer that no constructor has set.
GenPacketFrees ==
  /\ Usable
  /\ RawBuffer = Garbage
  /\ fault' = "bad_free"
  /\ UNCHANGED <<made, header, Data, CRC, RawBuffer, telemetryBody, bodySet, wire>>

\* Header and checksum do not fit in the Length bytes that are allocated.
GenPacketOverflows ==
  /\ Usable
  /\ header.Length < HEADERSIZE + CRCSIZE
  /\ fault' = "overflow"
  /\ UNCHANGED <<made, header, Data, CRC, RawBuffer, telemetryBody, bodySet, wire>>

\* A RawBuffer that was not set may happen to hold nullptr.
GenPacket ==
  /\ Usable
  /\ header.Length >= HEADERSIZE + CRCSIZE
  /\ CRC' = CalcCRC(header, Data)
  /\ RawBuffer' = Serialised(header, Data)
  /\ UNCHANGED <<made, header, Data, telemetryBody, fault, bodySet, wire>>

-----------------------------------------------------------------------------

Init ==
  /\ made = "none"
  /\ header = ZeroHeader
  /\ Data = Null
  /\ CRC = 0
  /\ RawBuffer = Garbage
  /\ telemetryBody = Garbage
  /\ fault = "none"
  /\ bodySet = FALSE
  /\ wire = <<>>

Next ==
  \/ Default
  \/ \E b \in Datagrams : Parse(b)
  \/ \E t \in {"DRIVE", "RESPONSE", "SLEEP"} : SetCmd(t)
  \/ \E c \in Counts : SetPktCount(c)
  \/ \E d \in Bodies : SetBodyData(d)
  \/ GenPacketFrees \/ GenPacketOverflows \/ GenPacket

Spec == Init /\ [][Next]_vars

-----------------------------------------------------------------------------
(* Properties *)

\* In whatever order the setters of a new object were called, its body, its
\* Drive flag and the length in its header go together: SetBodyData looks at
\* the flag, and no later call may change it under the body.
BodyMatchesLength ==
  made = "default" =>
    IF Data = Null
    THEN header.Length \in {0, HEADERSIZE + CRCSIZE}
    ELSE header.Drive = 1 /\ header.Length = HEADERSIZE + Len(Data) + CRCSIZE

\* The protocol's packets, with no body, a drive body or one of telemetry size,
\* survive the wire: PktDef(buff) on what GenPacket writes is the same header
\* and body, in exactly the GetLength() bytes that SendData is told to send.
RoundTrips ==
  (/\ made = "default"
   /\ bodySet
   /\ Data # Null => Len(Data) \in {DRIVER_BODYSIZE, TELEMETRY_BODYSIZE})
    => LET b == Serialised(header, Data)
       IN /\ HeaderOf(b) = header
          /\ DataOf(b) = Data
          /\ Len(b) = header.Length

\* b with the bit of weight w of its i-th byte inverted.
Flipped(b, i, w) == [b EXCEPT ![i] = IF (@ \div w) % 2 = 1 THEN @ - w ELSE @ + w]

\* CheckCRC accepts what GenPacket wrote, and refuses it with any one bit
\* inverted, the bits of the checksum itself included.
DamageDetected ==
  (made = "default" /\ RawBuffer # Null) =>
    /\ CheckCRC(RawBuffer, Len(RawBuffer))
    /\ \A i \in 1..Len(RawBuffer), w \in Weights :
         ~CheckCRC(Flipped(RawBuffer, i, w), Len(RawBuffer))

\* GenPacket goes wrong only on an object that was parsed, or one whose body
\* was never set: after SetBodyData the header covers what is written.
FaultMeansNoBody == fault # "none" => (made = "parsed" \/ ~bodySet)

\* GetTelemetryData and DisplayTelemetry print whenever Data is set, not only
\* when telemetryBody is: on a parsed packet they print fields that nothing has
\* written only if the packet carried a drive body.
UnsetOnlyForDriveBody ==
  (made = "parsed" /\ ~bodySet /\ Data # Null /\ telemetryBody = Garbage)
    => Len(Data) = DRIVER_BODYSIZE

=============================================================================
