---------------------------- MODULE PktDefProofs ----------------------------
(* Theorems about PktDef, for all counts, bodies and datagrams. *)
EXTENDS PktDef, FiniteSetTheorems, SequenceTheorems, TLAPS

-----------------------------------------------------------------------------
(* The layout of a packet *)

LEMMA InByte ==
  ASSUME NEW x \in Nat, x < 256
  PROVE  x \in Byte
  BY DEF Byte

LEMMA InWord ==
  ASSUME NEW x \in Nat
  PROVE  x \in Word <=> x < PktCountMod
  <1>1. PktCountMod \in Nat
    BY DEF PktCountMod
  <1> QED
    BY <1>1 DEF Word

LEMMA WordBytes ==
  ASSUME NEW x \in Word
  PROVE  x % 256 \in Byte /\ x \div 256 \in Byte /\ (x % 256) + 256 * (x \div 256) = x
  <1>1. x \in Nat /\ x < PktCountMod
    <2>1. x \in Nat
      BY DEF Word, PktCountMod
    <2> QED
      BY <2>1, InWord
  <1>2. PICK a \in Nat : a = x % 256 /\ a < 256
    BY <1>1
  <1>3. PICK b \in Nat : b = x \div 256 /\ b < 256
    BY <1>1 DEF PktCountMod
  <1>4. a + 256 * b = x
    BY <1>1, <1>2, <1>3
  <1>5. a \in Byte /\ b \in Byte
    <2>1. a < 256 /\ b < 256
      BY <1>2, <1>3
    <2> QED
      BY <2>1, InByte
  <1> QED
    BY <1>2, <1>3, <1>4, <1>5

LEMMA BytesWord ==
  ASSUME NEW x \in Byte, NEW y \in Byte
  PROVE  x + 256 * y \in Word
  <1>1. PICK n \in Nat : n = x + 256 * y /\ n < PktCountMod
    BY DEF Byte, PktCountMod
  <1> QED
    BY <1>1, InWord

\* Any byte is made of four bits and a nibble.
LEMMA ByteFields ==
  ASSUME NEW x \in Byte
  PROVE  /\ x % 2 \in Bit /\ (x \div 2) % 2 \in Bit /\ (x \div 4) % 2 \in Bit
         /\ (x \div 8) % 2 \in Bit /\ x \div 16 \in Nibble
  <1>1. x \in Nat /\ x < 256
    BY DEF Byte
  <1>2. x % 2 \in Bit
    BY <1>1 DEF Bit
  <1>3. (x \div 2) % 2 \in Bit
    BY <1>1 DEF Bit
  <1>4. (x \div 4) % 2 \in Bit
    BY <1>1 DEF Bit
  <1>5. (x \div 8) % 2 \in Bit
    BY <1>1 DEF Bit
  <1>6. x \div 16 \in Nibble
    BY <1>1 DEF Nibble
  <1> QED
    BY <1>2, <1>3, <1>4, <1>5, <1>6

LEMMA HeaderBytesType ==
  ASSUME NEW h \in Header
  PROVE  HeaderBytes(h) \in Seq(Byte) /\ Len(HeaderBytes(h)) = HEADERSIZE
  <1>1. /\ h.PktCount \in Word /\ h.Drive \in Bit /\ h.Status \in Bit
        /\ h.Sleep \in Bit /\ h.Ack \in Bit /\ h.Padding \in Nibble /\ h.Length \in Byte
    BY DEF Header
  <1>2. h.PktCount % 256 \in Byte /\ h.PktCount \div 256 \in Byte
    BY <1>1, WordBytes
  <1>3. Flags(h) \in Byte
    BY <1>1 DEF Flags, Bit, Nibble, Byte
  <1> QED
    BY <1>1, <1>2, <1>3 DEF HeaderBytes, HEADERSIZE

\* The bit fields of the header come back from their byte.
LEMMA FlagsDecode ==
  ASSUME NEW h \in Header
  PROVE  /\ Flags(h) % 2 = h.Drive /\ (Flags(h) \div 2) % 2 = h.Status
         /\ (Flags(h) \div 4) % 2 = h.Sleep /\ (Flags(h) \div 8) % 2 = h.Ack
         /\ Flags(h) \div 16 = h.Padding
  <1>1. PICK d \in Bit, st \in Bit, sl \in Bit, a \in Bit, p \in Nibble :
          d = h.Drive /\ st = h.Status /\ sl = h.Sleep /\ a = h.Ack /\ p = h.Padding
    BY DEF Header
  <1>2. PICK f \in Int : f = Flags(h) /\ f = d + 2 * st + 4 * sl + 8 * a + 16 * p
    BY <1>1 DEF Flags, Bit, Nibble
  <1>3. f % 2 = d
    BY <1>2 DEF Bit, Nibble
  <1>4. (f \div 2) % 2 = st
    <2>1. f \div 2 = st + 2 * sl + 4 * a + 8 * p
      BY <1>2 DEF Bit, Nibble
    <2> QED
      BY <2>1 DEF Bit, Nibble
  <1>5. (f \div 4) % 2 = sl
    <2>1. f \div 4 = sl + 2 * a + 4 * p
      BY <1>2 DEF Bit, Nibble
    <2> QED
      BY <2>1 DEF Bit, Nibble
  <1>6. (f \div 8) % 2 = a
    <2>1. f \div 8 = a + 2 * p
      BY <1>2 DEF Bit, Nibble
    <2> QED
      BY <2>1 DEF Bit, Nibble
  <1>7. f \div 16 = p
    BY <1>2 DEF Bit, Nibble
  <1> QED
    BY <1>1, <1>2, <1>3, <1>4, <1>5, <1>6, <1>7

\* PktDef(buff) reads the header that GenPacket wrote, whatever follows it.
LEMMA HeaderDecodes ==
  ASSUME NEW h \in Header, NEW b,
         b[1] = HeaderBytes(h)[1], b[2] = HeaderBytes(h)[2],
         b[3] = HeaderBytes(h)[3], b[4] = HeaderBytes(h)[4]
  PROVE  HeaderOf(b) = h
  <1>1. /\ h.PktCount \in Word /\ h.Drive \in Bit /\ h.Status \in Bit
        /\ h.Sleep \in Bit /\ h.Ack \in Bit /\ h.Padding \in Nibble /\ h.Length \in Byte
    BY DEF Header
  <1>2. /\ b[1] = h.PktCount % 256 /\ b[2] = h.PktCount \div 256
        /\ b[3] = Flags(h) /\ b[4] = h.Length
    BY DEF HeaderBytes
  <1>3. b[1] + 256 * b[2] = h.PktCount
    BY <1>1, <1>2, WordBytes
  <1>4. /\ b[3] % 2 = h.Drive /\ (b[3] \div 2) % 2 = h.Status /\ (b[3] \div 4) % 2 = h.Sleep
        /\ (b[3] \div 8) % 2 = h.Ack /\ b[3] \div 16 = h.Padding
    BY <1>2, FlagsDecode
  <1> QED
    BY <1>2, <1>3, <1>4 DEF HeaderOf, Header

LEMMA HeaderOfType ==
  ASSUME NEW b \in Seq(Byte), Len(b) >= HEADERSIZE
  PROVE  HeaderOf(b) \in Header
  <1>1. b[1] \in Byte /\ b[2] \in Byte /\ b[3] \in Byte /\ b[4] \in Byte
    BY DEF HEADERSIZE
  <1>2. b[1] + 256 * b[2] \in Word
    BY <1>1, BytesWord
  <1>3. /\ b[3] % 2 \in Bit /\ (b[3] \div 2) % 2 \in Bit /\ (b[3] \div 4) % 2 \in Bit
        /\ (b[3] \div 8) % 2 \in Bit /\ b[3] \div 16 \in Nibble
    BY <1>1, ByteFields
  <1> QED
    BY <1>1, <1>2, <1>3 DEF HeaderOf, Header

\* A body that its header covers goes onto the wire in full.
LEMMA PayloadWhole ==
  ASSUME NEW h \in Header, NEW d \in Seq(Byte) \cup {Null},
         d # Null => h.Length = HEADERSIZE + Len(d) + CRCSIZE
  PROVE  Payload(h, d) = IF d = Null THEN <<>> ELSE d
  <1>1. CASE d = Null
    BY <1>1 DEF Payload
  <1>2. CASE d # Null
    <2>1. PayloadSize(h) = Len(d)
      BY <1>2 DEF PayloadSize, HEADERSIZE, CRCSIZE
    <2> QED
      BY <1>2, <2>1, SubSeqFull DEF Payload
  <1> QED
    BY <1>1, <1>2

-----------------------------------------------------------------------------
(* The checksum *)

LEMMA SetBitsFinite ==
  ASSUME NEW b \in Seq(Byte)
  PROVE  IsFiniteSet(SetBits(b)) /\ BitCount(b) \in Nat
  <1>1. IsFiniteSet(Weights)
    <2>1. PICK n \in Int : n = 128
      OBVIOUS
    <2>2. Weights \in SUBSET (1..n)
      BY <2>1 DEF Weights
    <2>3. IsFiniteSet(1..n)
      BY FS_Interval
    <2> QED
      BY <2>2, <2>3, FS_Subset
  <1>2. IsFiniteSet(1..Len(b))
    BY LenProperties, FS_Interval
  <1>3. IsFiniteSet((1..Len(b)) \X Weights)
    BY <1>1, <1>2, FS_Product
  <1>4. SetBits(b) \in SUBSET ((1..Len(b)) \X Weights)
    BY DEF SetBits
  <1>5. IsFiniteSet(SetBits(b))
    BY <1>3, <1>4, FS_Subset
  <1> QED
    BY <1>5, FS_CardinalityType DEF BitCount

LEMMA CRCType ==
  ASSUME NEW h \in Header, NEW d \in Seq(Byte) \cup {Null},
         d # Null => h.Length = HEADERSIZE + Len(d) + CRCSIZE
  PROVE  CalcCRC(h, d) \in Byte
  <1>1. Payload(h, d) \in Seq(Byte)
    <2>1. CASE d = Null
      BY <2>1, EmptySeq DEF Payload
    <2>2. CASE d # Null
      BY <2>2, PayloadWhole
    <2> QED
      BY <2>1, <2>2
  <1>2. HeaderBytes(h) \o Payload(h, d) \in Seq(Byte)
    BY <1>1, HeaderBytesType
  <1>3. BitCount(HeaderBytes(h) \o Payload(h, d)) \in Nat
    BY <1>2, SetBitsFinite
  <1>4. \A n \in Nat : n % 256 \in Byte
    BY DEF Byte
  <1> QED
    BY <1>3, <1>4 DEF CalcCRC

-----------------------------------------------------------------------------
(* What GenPacket writes *)

\* A header and a body that belong together.
Fit(h, d) == d # Null => h.Length = HEADERSIZE + Len(d) + CRCSIZE

LEMMA PayloadType ==
  ASSUME NEW h \in Header, NEW d \in Seq(Byte) \cup {Null}, Fit(h, d)
  PROVE  /\ Payload(h, d) \in Seq(Byte)
         /\ Len(Payload(h, d)) = IF d = Null THEN 0 ELSE Len(d)
  <1>1. CASE d = Null
    BY <1>1, EmptySeq DEF Payload
  <1>2. CASE d # Null
    BY <1>2, PayloadWhole DEF Fit
  <1> QED
    BY <1>1, <1>2

\* The bytes in front of the checksum, and the checksum behind them.
LEMMA SerialisedParts ==
  ASSUME NEW h \in Header, NEW d \in Seq(Byte) \cup {Null}, Fit(h, d)
  PROVE  LET s == HeaderBytes(h) \o Payload(h, d)
         IN /\ s \in Seq(Byte)
            /\ Len(s) = HEADERSIZE + Len(Payload(h, d))
            /\ Serialised(h, d) = s \o <<CalcCRC(h, d)>>
            /\ Serialised(h, d) \in Seq(Byte)
            /\ Len(Serialised(h, d)) = Len(s) + 1
            /\ \A i \in 1..Len(s) : Serialised(h, d)[i] = s[i]
            /\ Serialised(h, d)[Len(s) + 1] = CalcCRC(h, d)
  <1> DEFINE s == HeaderBytes(h) \o Payload(h, d)
             c == <<CalcCRC(h, d)>>
  <1>1. s \in Seq(Byte) /\ Len(s) = HEADERSIZE + Len(Payload(h, d))
    <2>1. HeaderBytes(h) \in Seq(Byte) /\ Len(HeaderBytes(h)) = HEADERSIZE
      BY HeaderBytesType
    <2>2. Payload(h, d) \in Seq(Byte)
      BY PayloadType
    <2> QED
      BY <2>1, <2>2, ConcatProperties, Zenon
  <1>2. c \in Seq(Byte) /\ Len(c) = 1 /\ c[1] = CalcCRC(h, d)
    <2>1. CalcCRC(h, d) \in Byte
      BY CRCType DEF Fit
    <2> QED
      BY <2>1
  <1>3. Serialised(h, d) = s \o c
    BY DEF Serialised
  <1>4. Len(s) \in Nat
    BY <1>1, LenProperties
  <1> HIDE DEF s, c
  <1>5. /\ s \o c \in Seq(Byte) /\ Len(s \o c) = Len(s) + Len(c)
        /\ \A i \in 1..Len(s) + Len(c) : (s \o c)[i] = IF i <= Len(s) THEN s[i] ELSE c[i - Len(s)]
    <2>1. s \in Seq(Byte) /\ c \in Seq(Byte)
      BY <1>1, <1>2
    <2> QED
      BY <2>1, ConcatProperties, Zenon
  <1>6. \A i \in 1..Len(s) : (s \o c)[i] = s[i]
    BY <1>2, <1>4, <1>5
  <1>7. (s \o c)[Len(s) + 1] = c[1]
    BY <1>2, <1>4, <1>5
  <1> QED
    BY <1>1, <1>2, <1>3, <1>5, <1>6, <1>7 DEF s, c

\* A packet whose last byte is the checksum of the others.
Sealed(b) ==
  /\ b \in Seq(Byte)
  /\ Len(b) > HEADERSIZE
  /\ b[Len(b)] = BitCount(SubSeq(b, 1, Len(b) - CRCSIZE)) % 256

LEMMA SerialisedSealed ==
  ASSUME NEW h \in Header, NEW d \in Seq(Byte) \cup {Null}, Fit(h, d)
  PROVE  Sealed(Serialised(h, d))
  <1> DEFINE s == HeaderBytes(h) \o Payload(h, d)
             b == Serialised(h, d)
  <1>1. /\ s \in Seq(Byte) /\ Len(s) = HEADERSIZE + Len(Payload(h, d)) /\ b \in Seq(Byte)
        /\ Len(b) = Len(s) + 1
        /\ \A i \in 1..Len(s) : b[i] = s[i]
        /\ b[Len(s) + 1] = CalcCRC(h, d)
    BY SerialisedParts, Zenon
  <1>2. Len(Payload(h, d)) \in Nat
    BY PayloadType, LenProperties
  <1>3. CalcCRC(h, d) = BitCount(s) % 256
    BY DEF CalcCRC
  <1> HIDE DEF s, b
  <1>4. Len(s) \in Nat /\ Len(b) - CRCSIZE = Len(s) /\ Len(b) > HEADERSIZE
    BY <1>1, <1>2 DEF HEADERSIZE, CRCSIZE
  <1>5. SubSeq(b, 1, Len(s)) = s
    <2>1. \A i \in 1..Len(s) : b[i] \in Byte
      BY <1>1, <1>4
    <2>2. /\ SubSeq(b, 1, Len(s)) \in Seq(Byte)
          /\ Len(SubSeq(b, 1, Len(s))) = IF 1 <= Len(s) THEN Len(s) - 1 + 1 ELSE 0
          /\ \A i \in 1..(Len(s) - 1 + 1) : SubSeq(b, 1, Len(s))[i] = b[1 + i - 1]
      BY <1>4, <2>1, SubSeqProperties
    <2>3. /\ Len(SubSeq(b, 1, Len(s))) = Len(s)
          /\ \A i \in 1..Len(s) : SubSeq(b, 1, Len(s))[i] = b[i]
      BY <1>4, <2>2
    <2> QED
      BY <1>1, <2>2, <2>3, SeqEqual
  <1>6. b[Len(b)] = BitCount(SubSeq(b, 1, Len(b) - CRCSIZE)) % 256
    BY <1>1, <1>3, <1>4, <1>5
  <1>7. Sealed(b)
    BY <1>1, <1>4, <1>6 DEF Sealed
  <1> QED
    BY <1>7 DEF b

LEMMA SubSeqShift ==
  ASSUME NEW b \in Seq(Byte), NEW k \in Nat, NEW n \in Nat, k + n <= Len(b)
  PROVE  /\ SubSeq(b, k + 1, k + n) \in Seq(Byte)
         /\ Len(SubSeq(b, k + 1, k + n)) = n
         /\ \A i \in 1..n : SubSeq(b, k + 1, k + n)[i] = b[k + i]
  <1>1. PICK lo \in Int, hi \in Int : lo = k + 1 /\ hi = k + n
    OBVIOUS
  <1> DEFINE t == SubSeq(b, lo, hi)
  <1>2. \A i \in lo..hi : b[i] \in Byte
    BY <1>1, LenProperties
  <1>3. /\ t \in Seq(Byte)
        /\ Len(t) = IF lo <= hi THEN hi - lo + 1 ELSE 0
        /\ \A i \in 1..hi - lo + 1 : t[i] = b[lo + i - 1]
    BY <1>2, SubSeqProperties
  <1> HIDE DEF t
  <1>4. Len(t) = n /\ \A i \in 1..n : t[i] = b[k + i]
    BY <1>1, <1>3
  <1> QED
    BY <1>1, <1>3, <1>4 DEF t

\* The codec is exact on the three sizes of body that the protocol has.
LEMMA SerialisedRoundTrips ==
  ASSUME NEW h \in Header, NEW d \in Seq(Byte) \cup {Null}, Fit(h, d),
         d = Null => h.Length = HEADERSIZE + CRCSIZE,
         d # Null => Len(d) \in {DRIVER_BODYSIZE, TELEMETRY_BODYSIZE}
  PROVE  LET b == Serialised(h, d)
         IN HeaderOf(b) = h /\ DataOf(b) = d /\ Len(b) = h.Length
  <1> DEFINE s == HeaderBytes(h) \o Payload(h, d)
             b == Serialised(h, d)
             n == Len(Payload(h, d))
  <1>1. /\ s \in Seq(Byte) /\ Len(s) = HEADERSIZE + n /\ b \in Seq(Byte)
        /\ Len(b) = Len(s) + 1
        /\ \A i \in 1..Len(s) : b[i] = s[i]
    BY SerialisedParts
  <1>2. /\ n \in Nat /\ n = (IF d = Null THEN 0 ELSE Len(d))
        /\ Payload(h, d) \in Seq(Byte)
    BY PayloadType, LenProperties
  <1>3. HeaderBytes(h) \in Seq(Byte) /\ Len(HeaderBytes(h)) = HEADERSIZE
    BY HeaderBytesType
  <1>4. \A i \in 1..HEADERSIZE + n :
          s[i] = IF i <= HEADERSIZE THEN HeaderBytes(h)[i] ELSE Payload(h, d)[i - HEADERSIZE]
    BY <1>2, <1>3, ConcatProperties
  <1> HIDE DEF s, b, n
  <1>5. HeaderOf(b) = h
    <2>1. \A i \in 1..4 : b[i] = HeaderBytes(h)[i]
      BY <1>1, <1>2, <1>4 DEF HEADERSIZE
    <2> QED
      BY <2>1, HeaderDecodes
  <1>6. h.Length = HEADERSIZE + n + CRCSIZE
    BY <1>2 DEF Fit, HEADERSIZE, CRCSIZE
  <1>7. PayloadSize(h) = n
    BY <1>2, <1>6 DEF PayloadSize, HEADERSIZE, CRCSIZE
  <1>8. DataOf(b) = d
    <2>1. CASE d = Null
      BY <1>2, <1>5, <1>7, <2>1 DEF DataOf, DRIVER_BODYSIZE, TELEMETRY_BODYSIZE
    <2>2. CASE d # Null
      <3>1. Payload(h, d) = d
        BY <2>2, PayloadWhole DEF Fit
      <3>2. DataOf(b) = SubSeq(b, HEADERSIZE + 1, HEADERSIZE + n)
        BY <1>2, <1>5, <1>7, <2>2 DEF DataOf
      <3>3. ASSUME NEW i \in 1..n PROVE b[HEADERSIZE + i] = d[i]
        <4>1. PICK j \in Int : j = HEADERSIZE + i
          BY <1>2 DEF HEADERSIZE
        <4>2. /\ j \in 1..Len(s) /\ j \in 1..HEADERSIZE + n
              /\ ~(j <= HEADERSIZE) /\ j - HEADERSIZE = i
          BY <1>1, <1>2, <4>1 DEF HEADERSIZE
        <4>3. b[j] = s[j]
          BY <1>1, <4>2
        <4>4. s[j] = Payload(h, d)[i]
          BY <1>4, <4>2
        <4> QED
          BY <3>1, <4>1, <4>3, <4>4
      <3> DEFINE t == SubSeq(b, HEADERSIZE + 1, HEADERSIZE + n)
      <3>4. t \in Seq(Byte) /\ Len(t) = n /\ \A i \in 1..n : t[i] = b[HEADERSIZE + i]
        <4>1. HEADERSIZE \in Nat /\ HEADERSIZE + n <= Len(b)
          BY <1>1, <1>2 DEF HEADERSIZE
        <4> QED
          BY <1>1, <1>2, <4>1, SubSeqShift
      <3> HIDE DEF t
      <3>5. t = d
        BY <1>2, <2>2, <3>3, <3>4, SeqEqual
      <3> QED
        BY <3>2, <3>5 DEF t
    <2> QED
      BY <2>1, <2>2
  <1>9. Len(b) = h.Length
    BY <1>1, <1>2, <1>6 DEF HEADERSIZE, CRCSIZE
  <1> QED
    BY <1>5, <1>8, <1>9 DEF b

-----------------------------------------------------------------------------
(* One damaged bit changes the checksum *)

\* A byte as its bits, by their weight.
BitsOf(x) == [w \in Weights |-> (x \div w) % 2]
Value(f)  == f[1] + 2 * f[2] + 4 * f[4] + 8 * f[8] + 16 * f[16] + 32 * f[32] + 64 * f[64] + 128 * f[128]

LEMMA ValueBits ==
  ASSUME NEW f \in [Weights -> Bit]
  PROVE  Value(f) \in Byte /\ BitsOf(Value(f)) = f
  <1>1. PICK b0 \in Bit, b1 \in Bit, b2 \in Bit, b3 \in Bit,
             b4 \in Bit, b5 \in Bit, b6 \in Bit, b7 \in Bit :
          b0 = f[1] /\ b1 = f[2] /\ b2 = f[4] /\ b3 = f[8] /\ b4 = f[16] /\ b5 = f[32] /\ b6 = f[64] /\ b7 = f[128]
    BY DEF Weights
  <1>2. PICK x \in Int : x = Value(f) /\ x = b0 + 2 * b1 + 4 * b2 + 8 * b3 + 16 * b4 + 32 * b5 + 64 * b6 + 128 * b7
    <2>1. Value(f) = b0 + 2 * b1 + 4 * b2 + 8 * b3 + 16 * b4 + 32 * b5 + 64 * b6 + 128 * b7
      BY <1>1 DEF Value
    <2>2. b0 + 2 * b1 + 4 * b2 + 8 * b3 + 16 * b4 + 32 * b5 + 64 * b6 + 128 * b7 \in Int
      BY DEF Bit
    <2> QED
      BY <2>1, <2>2
  <1>3. x \in Byte
    BY <1>2 DEF Bit, Byte
  <1>4. (x \div 1) % 2 = b0
    <2>1. x \div 1 = b0 + 2 * b1 + 4 * b2 + 8 * b3 + 16 * b4 + 32 * b5 + 64 * b6 + 128 * b7
      BY <1>2 DEF Bit
    <2> QED
      BY <2>1 DEF Bit
  <1>5. (x \div 2) % 2 = b1
    <2>1. x \div 2 = b1 + 2 * b2 + 4 * b3 + 8 * b4 + 16 * b5 + 32 * b6 + 64 * b7
      BY <1>2 DEF Bit
    <2> QED
      BY <2>1 DEF Bit
  <1>6. (x \div 4) % 2 = b2
    <2>1. x \div 4 = b2 + 2 * b3 + 4 * b4 + 8 * b5 + 16 * b6 + 32 * b7
      BY <1>2 DEF Bit
    <2> QED
      BY <2>1 DEF Bit
  <1>7. (x \div 8) % 2 = b3
    <2>1. x \div 8 = b3 + 2 * b4 + 4 * b5 + 8 * b6 + 16 * b7
      BY <1>2 DEF Bit
    <2> QED
      BY <2>1 DEF Bit
  <1>8. (x \div 16) % 2 = b4
    <2>1. x \div 16 = b4 + 2 * b5 + 4 * b6 + 8 * b7
      BY <1>2 DEF Bit
    <2> QED
      BY <2>1 DEF Bit
  <1>9. (x \div 32) % 2 = b5
    <2>1. x \div 32 = b5 + 2 * b6 + 4 * b7
      BY <1>2 DEF Bit
    <2> QED
      BY <2>1 DEF Bit
  <1>10. (x \div 64) % 2 = b6
    <2>1. x \div 64 = b6 + 2 * b7
      BY <1>2 DEF Bit
    <2> QED
      BY <2>1 DEF Bit
  <1>11. (x \div 128) % 2 = b7
    <2>1. x \div 128 = b7
      BY <1>2 DEF Bit
    <2> QED
      BY <2>1 DEF Bit
  <1>12. \A w \in Weights : (x \div w) % 2 = f[w]
    BY <1>1, <1>4, <1>5, <1>6, <1>7, <1>8, <1>9, <1>10, <1>11 DEF Weights
  <1> QED
    BY <1>2, <1>3, <1>12 DEF BitsOf

LEMMA ByteIsBits ==
  ASSUME NEW x \in Byte
  PROVE  BitsOf(x) \in [Weights -> Bit] /\ Value(BitsOf(x)) = x
  <1>1. x \in Nat /\ x < 256
    BY DEF Byte
  <1>2. PICK q0 \in Nat : q0 = x \div 1 /\ q0 = x
    BY <1>1
  <1>3. PICK q1 \in Nat, b0 \in Bit :
          b0 = (x \div 1) % 2 /\ q1 = x \div 2 /\ q0 = b0 + 2 * q1
    BY <1>1, <1>2 DEF Bit
  <1>4. PICK q2 \in Nat, b1 \in Bit :
          b1 = (x \div 2) % 2 /\ q2 = x \div 4 /\ q1 = b1 + 2 * q2
    BY <1>1, <1>3 DEF Bit
  <1>5. PICK q3 \in Nat, b2 \in Bit :
          b2 = (x \div 4) % 2 /\ q3 = x \div 8 /\ q2 = b2 + 2 * q3
    BY <1>1, <1>4 DEF Bit
  <1>6. PICK q4 \in Nat, b3 \in Bit :
          b3 = (x \div 8) % 2 /\ q4 = x \div 16 /\ q3 = b3 + 2 * q4
    BY <1>1, <1>5 DEF Bit
  <1>7. PICK q5 \in Nat, b4 \in Bit :
          b4 = (x \div 16) % 2 /\ q5 = x \div 32 /\ q4 = b4 + 2 * q5
    BY <1>1, <1>6 DEF Bit
  <1>8. PICK q6 \in Nat, b5 \in Bit :
          b5 = (x \div 32) % 2 /\ q6 = x \div 64 /\ q5 = b5 + 2 * q6
    BY <1>1, <1>7 DEF Bit
  <1>9. PICK q7 \in Nat, b6 \in Bit :
          b6 = (x \div 64) % 2 /\ q7 = x \div 128 /\ q6 = b6 + 2 * q7
    BY <1>1, <1>8 DEF Bit
  <1>10. PICK q8 \in Nat, b7 \in Bit :
          b7 = (x \div 128) % 2 /\ q8 = x \div 256 /\ q7 = b7 + 2 * q8
    BY <1>1, <1>9 DEF Bit
  <1>11. q8 = 0
    BY <1>1, <1>10
  <1>12. x = b0 + 2 * b1 + 4 * b2 + 8 * b3 + 16 * b4 + 32 * b5 + 64 * b6 + 128 * b7
    BY <1>2, <1>3, <1>4, <1>5, <1>6, <1>7, <1>8, <1>9, <1>10, <1>11 DEF Bit
  <1>13. BitsOf(x) \in [Weights -> Bit]
    BY <1>3, <1>4, <1>5, <1>6, <1>7, <1>8, <1>9, <1>10 DEF BitsOf, Weights
  <1>14. BitsOf(x)[1] = b0 /\ BitsOf(x)[2] = b1 /\ BitsOf(x)[4] = b2 /\ BitsOf(x)[8] = b3
         /\ BitsOf(x)[16] = b4 /\ BitsOf(x)[32] = b5 /\ BitsOf(x)[64] = b6 /\ BitsOf(x)[128] = b7
    BY <1>3, <1>4, <1>5, <1>6, <1>7, <1>8, <1>9, <1>10 DEF BitsOf, Weights
  <1>15. Value(BitsOf(x)) = x
    BY <1>12, <1>14 DEF Value
  <1> QED
    BY <1>13, <1>15

LEMMA ValueFlip ==
  ASSUME NEW f \in [Weights -> Bit], NEW w \in Weights
  PROVE  LET g == [f EXCEPT ![w] = 1 - @]
         IN /\ g \in [Weights -> Bit]
            /\ Value(g) = IF f[w] = 1 THEN Value(f) - w ELSE Value(f) + w
            /\ Value(g) # Value(f)
  <1> DEFINE g == [f EXCEPT ![w] = 1 - @]
  <1>1. g \in [Weights -> Bit] /\ g[w] = 1 - f[w] /\ \A u \in Weights \ {w} : g[u] = f[u]
    BY DEF Bit
  <1> HIDE DEF g
  <1>2. PICK b0 \in Bit, b1 \in Bit, b2 \in Bit, b3 \in Bit,
             b4 \in Bit, b5 \in Bit, b6 \in Bit, b7 \in Bit :
          b0 = f[1] /\ b1 = f[2] /\ b2 = f[4] /\ b3 = f[8]
          /\ b4 = f[16] /\ b5 = f[32] /\ b6 = f[64] /\ b7 = f[128]
    BY DEF Weights
  <1>3. Value(f) = b0 + 2 * b1 + 4 * b2 + 8 * b3 + 16 * b4 + 32 * b5 + 64 * b6 + 128 * b7
    BY <1>2 DEF Value
  <1>4. Value(g) = (IF f[w] = 1 THEN Value(f) - w ELSE Value(f) + w) /\ Value(g) # Value(f)
    <2>1. CASE w = 1
      <3>1. PICK n \in Bit : n = 1 - b0
        BY DEF Bit
      <3>2. n = g[1] /\ b1 = g[2] /\ b2 = g[4] /\ b3 = g[8] /\ b4 = g[16] /\ b5 = g[32] /\ b6 = g[64] /\ b7 = g[128]
        BY <1>1, <1>2, <2>1, <3>1 DEF Weights
      <3>3. Value(g) = n + 2 * b1 + 4 * b2 + 8 * b3 + 16 * b4 + 32 * b5 + 64 * b6 + 128 * b7
        BY <3>2 DEF Value
      <3>4. f[w] = b0
        BY <1>2, <2>1
      <3> QED
        BY <1>3, <2>1, <3>1, <3>3, <3>4 DEF Bit
    <2>2. CASE w = 2
      <3>1. PICK n \in Bit : n = 1 - b1
        BY DEF Bit
      <3>2. b0 = g[1] /\ n = g[2] /\ b2 = g[4] /\ b3 = g[8] /\ b4 = g[16] /\ b5 = g[32] /\ b6 = g[64] /\ b7 = g[128]
        BY <1>1, <1>2, <2>2, <3>1 DEF Weights
      <3>3. Value(g) = b0 + 2 * n + 4 * b2 + 8 * b3 + 16 * b4 + 32 * b5 + 64 * b6 + 128 * b7
        BY <3>2 DEF Value
      <3>4. f[w] = b1
        BY <1>2, <2>2
      <3> QED
        BY <1>3, <2>2, <3>1, <3>3, <3>4 DEF Bit
    <2>3. CASE w = 4
      <3>1. PICK n \in Bit : n = 1 - b2
        BY DEF Bit
      <3>2. b0 = g[1] /\ b1 = g[2] /\ n = g[4] /\ b3 = g[8] /\ b4 = g[16] /\ b5 = g[32] /\ b6 = g[64] /\ b7 = g[128]
        BY <1>1, <1>2, <2>3, <3>1 DEF Weights
      <3>3. Value(g) = b0 + 2 * b1 + 4 * n + 8 * b3 + 16 * b4 + 32 * b5 + 64 * b6 + 128 * b7
        BY <3>2 DEF Value
      <3>4. f[w] = b2
        BY <1>2, <2>3
      <3> QED
        BY <1>3, <2>3, <3>1, <3>3, <3>4 DEF Bit
    <2>4. CASE w = 8
      <3>1. PICK n \in Bit : n = 1 - b3
        BY DEF Bit
      <3>2. b0 = g[1] /\ b1 = g[2] /\ b2 = g[4] /\ n = g[8] /\ b4 = g[16] /\ b5 = g[32] /\ b6 = g[64] /\ b7 = g[128]
        BY <1>1, <1>2, <2>4, <3>1 DEF Weights
      <3>3. Value(g) = b0 + 2 * b1 + 4 * b2 + 8 * n + 16 * b4 + 32 * b5 + 64 * b6 + 128 * b7
        BY <3>2 DEF Value
      <3>4. f[w] = b3
        BY <1>2, <2>4
      <3> QED
        BY <1>3, <2>4, <3>1, <3>3, <3>4 DEF Bit
    <2>5. CASE w = 16
      <3>1. PICK n \in Bit : n = 1 - b4
        BY DEF Bit
      <3>2. b0 = g[1] /\ b1 = g[2] /\ b2 = g[4] /\ b3 = g[8] /\ n = g[16] /\ b5 = g[32] /\ b6 = g[64] /\ b7 = g[128]
        BY <1>1, <1>2, <2>5, <3>1 DEF Weights
      <3>3. Value(g) = b0 + 2 * b1 + 4 * b2 + 8 * b3 + 16 * n + 32 * b5 + 64 * b6 + 128 * b7
        BY <3>2 DEF Value
      <3>4. f[w] = b4
        BY <1>2, <2>5
      <3> QED
        BY <1>3, <2>5, <3>1, <3>3, <3>4 DEF Bit
    <2>6. CASE w = 32
      <3>1. PICK n \in Bit : n = 1 - b5
        BY DEF Bit
      <3>2. b0 = g[1] /\ b1 = g[2] /\ b2 = g[4] /\ b3 = g[8] /\ b4 = g[16] /\ n = g[32] /\ b6 = g[64] /\ b7 = g[128]
        BY <1>1, <1>2, <2>6, <3>1 DEF Weights
      <3>3. Value(g) = b0 + 2 * b1 + 4 * b2 + 8 * b3 + 16 * b4 + 32 * n + 64 * b6 + 128 * b7
        BY <3>2 DEF Value
      <3>4. f[w] = b5
        BY <1>2, <2>6
      <3> QED
        BY <1>3, <2>6, <3>1, <3>3, <3>4 DEF Bit
    <2>7. CASE w = 64
      <3>1. PICK n \in Bit : n = 1 - b6
        BY DEF Bit
      <3>2. b0 = g[1] /\ b1 = g[2] /\ b2 = g[4] /\ b3 = g[8] /\ b4 = g[16] /\ b5 = g[32] /\ n = g[64] /\ b7 = g[128]
        BY <1>1, <1>2, <2>7, <3>1 DEF Weights
      <3>3. Value(g) = b0 + 2 * b1 + 4 * b2 + 8 * b3 + 16 * b4 + 32 * b5 + 64 * n + 128 * b7
        BY <3>2 DEF Value
      <3>4. f[w] = b6
        BY <1>2, <2>7
      <3> QED
        BY <1>3, <2>7, <3>1, <3>3, <3>4 DEF Bit
    <2>8. CASE w = 128
      <3>1. PICK n \in Bit : n = 1 - b7
        BY DEF Bit
      <3>2. b0 = g[1] /\ b1 = g[2] /\ b2 = g[4] /\ b3 = g[8] /\ b4 = g[16] /\ b5 = g[32] /\ b6 = g[64] /\ n = g[128]
        BY <1>1, <1>2, <2>8, <3>1 DEF Weights
      <3>3. Value(g) = b0 + 2 * b1 + 4 * b2 + 8 * b3 + 16 * b4 + 32 * b5 + 64 * b6 + 128 * n
        BY <3>2 DEF Value
      <3>4. f[w] = b7
        BY <1>2, <2>8
      <3> QED
        BY <1>3, <2>8, <3>1, <3>3, <3>4 DEF Bit
    <2> QED
      BY <2>1, <2>2, <2>3, <2>4, <2>5, <2>6, <2>7, <2>8 DEF Weights
  <1> QED
    BY <1>1, <1>4 DEF g

\* Inverting one bit of a byte inverts that bit and no other.
LEMMA ByteFlip ==
  ASSUME NEW x \in Byte, NEW w \in Weights,
         NEW v, v = IF (x \div w) % 2 = 1 THEN x - w ELSE x + w
  PROVE  v \in Byte /\ v # x /\ BitsOf(v) = [BitsOf(x) EXCEPT ![w] = 1 - @]
  <1> DEFINE f == BitsOf(x)
             g == [f EXCEPT ![w] = 1 - @]
  <1>1. f \in [Weights -> Bit] /\ f[w] = (x \div w) % 2 /\ Value(f) = x
    BY ByteIsBits DEF BitsOf
  <1> HIDE DEF f
  <1>2. /\ g \in [Weights -> Bit]
        /\ Value(g) = IF f[w] = 1 THEN Value(f) - w ELSE Value(f) + w
        /\ Value(g) # Value(f)
    BY <1>1, ValueFlip
  <1> HIDE DEF g
  <1>3. v = Value(g) /\ v # x
    <2>1. CASE f[w] = 1
      <3>1. v = x - w /\ Value(g) = Value(f) - w
        BY <1>1, <1>2, <2>1
      <3> QED
        BY <1>1, <1>2, <3>1
    <2>2. CASE f[w] # 1
      <3>1. v = x + w /\ Value(g) = Value(f) + w
        BY <1>1, <1>2, <2>2
      <3> QED
        BY <1>1, <1>2, <3>1
    <2> QED
      BY <2>1, <2>2
  <1>4. v \in Byte /\ BitsOf(v) = g
    BY <1>2, <1>3, ValueBits
  <1> QED
    BY <1>3, <1>4 DEF f, g

LEMMA FlippedBytes ==
  ASSUME NEW b \in Seq(Byte), NEW i \in 1..Len(b), NEW w \in Weights
  PROVE  /\ Flipped(b, i, w) \in Seq(Byte) /\ Len(Flipped(b, i, w)) = Len(b)
         /\ Flipped(b, i, w)[i] # b[i]
         /\ \A u \in Weights :
              BitsOf(Flipped(b, i, w)[i])[u] = IF u = w THEN 1 - BitsOf(b[i])[u] ELSE BitsOf(b[i])[u]
         /\ \A j \in 1..Len(b) : j # i => Flipped(b, i, w)[j] = b[j]
  <1> DEFINE v == IF (b[i] \div w) % 2 = 1 THEN b[i] - w ELSE b[i] + w
  <1>1. b[i] \in Byte
    BY ElementOfSeq
  <1>2. v \in Byte /\ v # b[i] /\ BitsOf(v) = [BitsOf(b[i]) EXCEPT ![w] = 1 - @]
    BY <1>1, ByteFlip
  <1>3. Flipped(b, i, w) = [b EXCEPT ![i] = v]
    BY DEF Flipped
  <1>4. \A u \in Weights : BitsOf(v)[u] = IF u = w THEN 1 - BitsOf(b[i])[u] ELSE BitsOf(b[i])[u]
    <2>1. BitsOf(b[i]) \in [Weights -> Bit]
      BY <1>1, ByteIsBits
    <2> HIDE DEF v
    <2> QED
      BY <1>2, <2>1
  <1> HIDE DEF v
  <1>5. /\ [b EXCEPT ![i] = v] \in Seq(Byte)
        /\ Len([b EXCEPT ![i] = v]) = Len(b)
        /\ \A j \in 1..Len(b) : [b EXCEPT ![i] = v][j] = IF j = i THEN v ELSE b[j]
    BY <1>2, ExceptSeq
  <1> QED
    BY <1>2, <1>3, <1>4, <1>5

\* One inverted bit changes the number of bits that are set.
LEMMA FlipCounts ==
  ASSUME NEW b \in Seq(Byte), NEW i \in 1..Len(b), NEW w \in Weights
  PROVE  BitCount(Flipped(b, i, w)) # BitCount(b)
  <1> DEFINE c == Flipped(b, i, w)
             e == <<i, w>>
  <1>1. /\ Len(c) = Len(b)
        /\ \A u \in Weights : BitsOf(c[i])[u] = IF u = w THEN 1 - BitsOf(b[i])[u] ELSE BitsOf(b[i])[u]
        /\ \A j \in 1..Len(b) : j # i => c[j] = b[j]
    <2>1. Len(c) = Len(b) /\ \A j \in 1..Len(b) : j # i => c[j] = b[j]
      BY FlippedBytes
    <2>2. \A u \in Weights : BitsOf(c[i])[u] = IF u = w THEN 1 - BitsOf(b[i])[u] ELSE BitsOf(b[i])[u]
      BY FlippedBytes
    <2> QED
      BY <2>1, <2>2
  <1> HIDE DEF c
  <1>2. \A a \in Seq(Byte) : \A p \in (1..Len(a)) \X Weights :
          p \in SetBits(a) <=> BitsOf(a[p[1]])[p[2]] = 1
    <2> TAKE a \in Seq(Byte)
    <2> TAKE p \in (1..Len(a)) \X Weights
    <2>1. p \in SetBits(a) <=> (a[p[1]] \div p[2]) % 2 = 1
      BY DEF SetBits
    <2>2. p[2] \in Weights
      OBVIOUS
    <2>3. BitsOf(a[p[1]])[p[2]] = (a[p[1]] \div p[2]) % 2
      BY <2>2, Zenon DEF BitsOf
    <2> QED
      BY <2>1, <2>3, Zenon
  <1>3. c \in Seq(Byte)
    BY FlippedBytes DEF c
  <1>4. BitsOf(b[i]) \in [Weights -> Bit]
    BY ElementOfSeq, ByteIsBits
  <1>5. ASSUME NEW p \in (1..Len(b)) \X Weights, p # e
        PROVE  p \in SetBits(c) <=> p \in SetBits(b)
    <2>1. BitsOf(c[p[1]])[p[2]] = BitsOf(b[p[1]])[p[2]]
      <3>1. CASE p[1] # i
        BY <1>1, <3>1
      <3>2. CASE p[1] = i
        <4>1. p[2] # w
          BY <1>5, <3>2
        <4> QED
          BY <1>1, <1>4, <3>2, <4>1
      <3> QED
        BY <3>1, <3>2
    <2> QED
      BY <1>1, <1>2, <1>3, <2>1
  <1>6. e \in (1..Len(b)) \X Weights
    OBVIOUS
  <1>7. e \in SetBits(c) <=> e \notin SetBits(b)
    <2>1. BitsOf(c[i])[w] = 1 - BitsOf(b[i])[w] /\ BitsOf(b[i])[w] \in Bit
      BY <1>1, <1>4
    <2>2. BitsOf(c[i])[w] = 1 <=> BitsOf(b[i])[w] # 1
      BY <2>1 DEF Bit
    <2> QED
      BY <1>1, <1>2, <1>3, <1>6, <2>2
  <1>8. /\ SetBits(b) \subseteq (1..Len(b)) \X Weights
        /\ SetBits(c) \subseteq (1..Len(b)) \X Weights
    BY <1>1 DEF SetBits
  <1>9. /\ IsFiniteSet(SetBits(b)) /\ Cardinality(SetBits(b)) \in Nat
        /\ IsFiniteSet(SetBits(c)) /\ Cardinality(SetBits(c)) \in Nat
    BY <1>3, SetBitsFinite DEF BitCount
  <1> HIDE DEF e
  <1>10. CASE e \in SetBits(b)
    <2>1. SetBits(b) = SetBits(c) \cup {e} /\ e \notin SetBits(c)
      BY <1>5, <1>7, <1>8, <1>10
    <2>2. Cardinality(SetBits(b)) = Cardinality(SetBits(c)) + 1
      BY <1>9, <2>1, FS_AddElement
    <2> QED
      BY <1>9, <2>2 DEF BitCount, c
  <1>11. CASE e \notin SetBits(b)
    <2>1. SetBits(c) = SetBits(b) \cup {e}
      BY <1>5, <1>6, <1>7, <1>8, <1>11
    <2>2. Cardinality(SetBits(c)) = Cardinality(SetBits(b)) + 1
      BY <1>9, <1>11, <2>1, FS_AddElement
    <2> QED
      BY <1>9, <2>2 DEF BitCount, c
  <1> QED
    BY <1>10, <1>11

LEMMA WeightsCount == IsFiniteSet(Weights) /\ Cardinality(Weights) = 8
  <1>1. IsFiniteSet({}) /\ Cardinality({}) = 0
    BY FS_EmptySet
  <1>2. IsFiniteSet({1}) /\ Cardinality({1}) = 1
    <2>1. {1} = {} \cup {1} /\ 1 \notin {}
      OBVIOUS
    <2> QED
      BY <1>1, <2>1, FS_AddElement
  <1>3. IsFiniteSet({1, 2}) /\ Cardinality({1, 2}) = 2
    <2>1. {1, 2} = {1} \cup {2} /\ 2 \notin {1}
      OBVIOUS
    <2> QED
      BY <1>2, <2>1, FS_AddElement
  <1>4. IsFiniteSet({1, 2, 4}) /\ Cardinality({1, 2, 4}) = 3
    <2>1. {1, 2, 4} = {1, 2} \cup {4} /\ 4 \notin {1, 2}
      OBVIOUS
    <2> QED
      BY <1>3, <2>1, FS_AddElement
  <1>5. IsFiniteSet({1, 2, 4, 8}) /\ Cardinality({1, 2, 4, 8}) = 4
    <2>1. {1, 2, 4, 8} = {1, 2, 4} \cup {8} /\ 8 \notin {1, 2, 4}
      OBVIOUS
    <2> QED
      BY <1>4, <2>1, FS_AddElement
  <1>6. IsFiniteSet({1, 2, 4, 8, 16}) /\ Cardinality({1, 2, 4, 8, 16}) = 5
    <2>1. {1, 2, 4, 8, 16} = {1, 2, 4, 8} \cup {16} /\ 16 \notin {1, 2, 4, 8}
      OBVIOUS
    <2> QED
      BY <1>5, <2>1, FS_AddElement
  <1>7. IsFiniteSet({1, 2, 4, 8, 16, 32}) /\ Cardinality({1, 2, 4, 8, 16, 32}) = 6
    <2>1. {1, 2, 4, 8, 16, 32} = {1, 2, 4, 8, 16} \cup {32} /\ 32 \notin {1, 2, 4, 8, 16}
      OBVIOUS
    <2> QED
      BY <1>6, <2>1, FS_AddElement
  <1>8. IsFiniteSet({1, 2, 4, 8, 16, 32, 64}) /\ Cardinality({1, 2, 4, 8, 16, 32, 64}) = 7
    <2>1. {1, 2, 4, 8, 16, 32, 64} = {1, 2, 4, 8, 16, 32} \cup {64} /\ 64 \notin {1, 2, 4, 8, 16, 32}
      OBVIOUS
    <2> QED
      BY <1>7, <2>1, FS_AddElement
  <1>9. IsFiniteSet({1, 2, 4, 8, 16, 32, 64, 128}) /\ Cardinality({1, 2, 4, 8, 16, 32, 64, 128}) = 8
    <2>1. {1, 2, 4, 8, 16, 32, 64, 128} = {1, 2, 4, 8, 16, 32, 64} \cup {128} /\ 128 \notin {1, 2, 4, 8, 16, 32, 64}
      OBVIOUS
    <2> QED
      BY <1>8, <2>1, FS_AddElement
  <1> QED
    BY <1>9 DEF Weights

LEMMA BitCountBound ==
  ASSUME NEW b \in Seq(Byte)
  PROVE  BitCount(b) <= Len(b) * 8
  <1>1. Len(b) \in Nat
    BY LenProperties
  <1>2. IsFiniteSet(1..Len(b)) /\ Cardinality(1..Len(b)) = Len(b)
    BY <1>1, FS_Interval
  <1>3. /\ IsFiniteSet((1..Len(b)) \X Weights)
        /\ Cardinality((1..Len(b)) \X Weights) = Cardinality(1..Len(b)) * Cardinality(Weights)
    BY <1>2, WeightsCount, FS_Product
  <1>4. SetBits(b) \in SUBSET ((1..Len(b)) \X Weights)
    BY DEF SetBits
  <1>5. Cardinality(SetBits(b)) <= Cardinality((1..Len(b)) \X Weights)
    BY <1>3, <1>4, FS_Subset
  <1> QED
    BY <1>2, <1>3, <1>5, WeightsCount DEF BitCount

LEMMA Prefix ==
  ASSUME NEW b \in Seq(Byte), NEW n \in Nat, n <= Len(b)
  PROVE  /\ SubSeq(b, 1, n) \in Seq(Byte)
         /\ Len(SubSeq(b, 1, n)) = n
         /\ \A j \in 1..n : SubSeq(b, 1, n)[j] = b[j]
  <1>1. \A j \in 1..n : b[j] \in Byte
    BY LenProperties
  <1>2. /\ SubSeq(b, 1, n) \in Seq(Byte)
        /\ Len(SubSeq(b, 1, n)) = IF 1 <= n THEN n - 1 + 1 ELSE 0
        /\ \A j \in 1..(n - 1 + 1) : SubSeq(b, 1, n)[j] = b[1 + j - 1]
    BY <1>1, SubSeqProperties
  <1> QED
    BY <1>2

\* CheckCRC tells a sealed packet from one with a bit inverted, as long as the
\* number of bits that are set fits in the byte it is compared with.
LEMMA SealedDamage ==
  ASSUME NEW b, Sealed(b), BitCount(SubSeq(b, 1, Len(b) - CRCSIZE)) < 256
  PROVE  /\ CheckCRC(b, Len(b))
         /\ \A i \in 1..Len(b), w \in Weights : ~CheckCRC(Flipped(b, i, w), Len(b))
  <1> DEFINE n == Len(b) - CRCSIZE
             s == SubSeq(b, 1, n)
  <1>1. b \in Seq(Byte) /\ Len(b) \in Nat /\ n \in Nat /\ n = Len(b) - 1 /\ n < Len(b) /\ n >= 1
    BY LenProperties DEF Sealed, HEADERSIZE, CRCSIZE
  <1> HIDE DEF n
  <1>2. s \in Seq(Byte) /\ Len(s) = n /\ \A j \in 1..n : s[j] = b[j]
    BY <1>1, Prefix
  <1>3. b[Len(b)] = BitCount(s)
    <2>1. BitCount(s) \in Nat /\ BitCount(s) < 256 /\ b[Len(b)] = BitCount(s) % 256
      BY <1>2, SetBitsFinite DEF Sealed, n
    <2> QED
      BY <2>1
  <1>4. \A c : CheckCRC(c, Len(b)) <=> BitCount(SubSeq(c, 1, n)) = c[Len(b)]
    BY DEF CheckCRC, n
  <1> HIDE DEF s
  <1>5. CheckCRC(b, Len(b))
    BY <1>3, <1>4 DEF s
  <1>6. ASSUME NEW i \in 1..Len(b), NEW w \in Weights
        PROVE  ~CheckCRC(Flipped(b, i, w), Len(b))
    <2> DEFINE c == Flipped(b, i, w)
               t == SubSeq(c, 1, n)
    <2>1. /\ c \in Seq(Byte) /\ Len(c) = Len(b) /\ c[i] # b[i]
          /\ \A j \in 1..Len(b) : j # i => c[j] = b[j]
      <3>1. c \in Seq(Byte) /\ Len(c) = Len(b) /\ c[i] # b[i]
        BY <1>1, FlippedBytes
      <3>2. \A j \in 1..Len(b) : j # i => Flipped(b, i, w)[j] = b[j]
        <4>1. b \in Seq(Byte)
          BY <1>1
        <4> QED
          BY <4>1, FlippedBytes
      <3> QED
        BY <3>1, <3>2 DEF c
    <2>2. c[i] = IF (b[i] \div w) % 2 = 1 THEN b[i] - w ELSE b[i] + w
      BY <1>1 DEF Flipped
    <2> HIDE DEF c
    <2>3. t \in Seq(Byte) /\ Len(t) = n /\ \A j \in 1..n : t[j] = c[j]
      BY <1>1, <2>1, Prefix
    <2> HIDE DEF t
    <2>4. CASE i = Len(b)
      <3>1. \A j \in 1..n : t[j] = s[j]
        BY <1>1, <1>2, <2>1, <2>3, <2>4
      <3>2. t = s
        BY <1>2, <2>3, <3>1, SeqEqual
      <3>3. BitCount(t) # c[Len(b)]
        BY <1>3, <2>1, <2>4, <3>2
      <3>4. BitCount(SubSeq(c, 1, n)) # c[Len(b)]
        BY <3>3 DEF t
      <3> QED
        BY <1>4, <3>4, Zenon DEF c
    <2>5. CASE i # Len(b)
      <3>1. i \in 1..Len(s) /\ i \in 1..n
        BY <1>1, <1>2, <2>5
      <3>2. /\ Flipped(s, i, w) \in Seq(Byte) /\ Len(Flipped(s, i, w)) = n
            /\ \A j \in 1..n : j # i => Flipped(s, i, w)[j] = s[j]
        BY <1>2, <3>1, FlippedBytes
      <3>3. Flipped(s, i, w)[i] = IF (s[i] \div w) % 2 = 1 THEN s[i] - w ELSE s[i] + w
        BY <1>2, <3>1 DEF Flipped
      <3>4. Flipped(s, i, w)[i] = t[i]
        <4>1. s[i] = b[i] /\ t[i] = c[i]
          BY <1>2, <2>3, <3>1
        <4> QED
          BY <2>2, <3>3, <4>1, Zenon
      <3>5. \A j \in 1..n : j # i => Flipped(s, i, w)[j] = t[j]
        BY <1>1, <1>2, <2>1, <2>3, <3>2
      <3>6. \A j \in 1..n : Flipped(s, i, w)[j] = t[j]
        BY <3>4, <3>5, Zenon
      <3>7. Flipped(s, i, w) = t
        BY <2>3, <3>2, <3>6, SeqEqual
      <3>8. BitCount(t) # BitCount(s)
        BY <1>2, <3>1, <3>7, FlipCounts
      <3>9. c[Len(b)] = b[Len(b)]
        BY <1>1, <2>1, <2>5
      <3> QED
        BY <1>3, <1>4, <3>8, <3>9 DEF c, t
    <2> QED
      BY <2>4, <2>5
  <1> QED
    BY <1>5, <1>6

-----------------------------------------------------------------------------
(* The invariant of the object *)

\* Bodies for which every packet has fewer than 256 bits in front of the
\* checksum: at most 27 bytes behind the header.
ShortBodies == \A d \in Bodies : Len(d) <= 27

\* What the setters keep up between the constructor and GenPacket: the parts of
\* a new object that GenPacket and the properties rely on.
New ==
  /\ Data # Null => header.Drive = 1 /\ Data \in Bodies
  /\ Data = Null => header.Length \in {0, HEADERSIZE + CRCSIZE}
  /\ bodySet => header.Length >= HEADERSIZE + CRCSIZE
  /\ RawBuffer # Garbage
  /\ RawBuffer # Null => Sealed(RawBuffer) /\ (ShortBodies => Len(RawBuffer) <= 32)

PInv ==
  /\ TypeOK
  /\ Fit(header, Data)
  /\ FaultMeansNoBody
  /\ UnsetOnlyForDriveBody
  /\ made = "none" => Data = Null /\ ~bodySet
  /\ made = "default" => New

LEMMA DataOfFits ==
  ASSUME NEW b \in Datagrams
  PROVE  /\ b \in Seq(Byte)
         /\ HeaderOf(b) \in Header
         /\ DataOf(b) \in Seq(Byte) \cup {Null}
         /\ DataOf(b) # Null => Len(DataOf(b)) = PayloadSize(HeaderOf(b))
         /\ Fit(HeaderOf(b), DataOf(b))
         /\ PayloadSize(HeaderOf(b)) = TELEMETRY_BODYSIZE => DataOf(b) \in Seq(Byte)
  <1>1. b \in Seq(Byte) /\ Len(b) > HEADERSIZE /\ b[4] = Len(b)
    BY PacketAssumption
  <1>2. HeaderOf(b) \in Header /\ HeaderOf(b).Length = Len(b)
    <2>1. Len(b) >= HEADERSIZE
      BY <1>1, LenProperties DEF HEADERSIZE
    <2> QED
      BY <1>1, <2>1, HeaderOfType DEF HeaderOf
  <1> DEFINE size == PayloadSize(HeaderOf(b))
  <1>3. size = Len(b) - 5
    BY <1>2 DEF PayloadSize, HEADERSIZE, CRCSIZE
  <1>4. DataOf(b) = IF size \in {DRIVER_BODYSIZE, TELEMETRY_BODYSIZE}
                    THEN SubSeq(b, HEADERSIZE + 1, HEADERSIZE + size) ELSE Null
    BY DEF DataOf
  <1> HIDE DEF size
  <1>5. CASE size \in {DRIVER_BODYSIZE, TELEMETRY_BODYSIZE}
    <2> DEFINE t == SubSeq(b, HEADERSIZE + 1, HEADERSIZE + size)
    <2>1. size \in Nat /\ HEADERSIZE \in Nat /\ HEADERSIZE + size <= Len(b)
      BY <1>1, <1>3, <1>5, LenProperties DEF DRIVER_BODYSIZE, TELEMETRY_BODYSIZE, HEADERSIZE
    <2>2. t \in Seq(Byte) /\ Len(t) = size
      BY <1>1, <2>1, SubSeqShift
    <2>3. t # Null /\ DataOf(b) = t
      BY <1>4, <1>5, <2>2, PacketAssumption
    <2> HIDE DEF t
    <2>4. Fit(HeaderOf(b), DataOf(b))
      BY <1>1, <1>2, <1>3, <2>2, <2>3, LenProperties DEF Fit, HEADERSIZE, CRCSIZE
    <2> QED
      BY <1>1, <1>2, <2>2, <2>3, <2>4 DEF size
  <1>6. CASE size \notin {DRIVER_BODYSIZE, TELEMETRY_BODYSIZE}
    <2>1. DataOf(b) = Null /\ size # TELEMETRY_BODYSIZE
      BY <1>4, <1>6
    <2> QED
      BY <1>1, <1>2, <2>1 DEF Fit, size
  <1> QED
    BY <1>5, <1>6

\* What GenPacket writes is sealed, and short if the bodies are.
LEMMA SerialisedShort ==
  ASSUME NEW h \in Header, NEW d \in Bodies \cup {Null}, Fit(h, d)
  PROVE  Sealed(Serialised(h, d)) /\ (ShortBodies => Len(Serialised(h, d)) <= 32)
  <1>1. d \in Seq(Byte) \cup {Null}
    BY PacketAssumption
  <1>2. Sealed(Serialised(h, d))
    BY <1>1, SerialisedSealed
  <1>3. Len(Serialised(h, d)) = HEADERSIZE + Len(Payload(h, d)) + 1
    BY <1>1, SerialisedParts
  <1>4. ShortBodies => Len(Payload(h, d)) <= 27
    <2>1. Len(Payload(h, d)) = IF d = Null THEN 0 ELSE Len(d)
      BY <1>1, PayloadType
    <2> QED
      BY <2>1 DEF ShortBodies
  <1>5. Len(Payload(h, d)) \in Nat
    BY <1>1, PayloadType, LenProperties
  <1> QED
    BY <1>2, <1>3, <1>4, <1>5 DEF HEADERSIZE

LEMMA SealedShortCounts ==
  ASSUME NEW b, Sealed(b), Len(b) <= 32
  PROVE  BitCount(SubSeq(b, 1, Len(b) - CRCSIZE)) < 256
  <1>1. PICK n \in Nat : n = Len(b) - CRCSIZE /\ n <= 31 /\ n <= Len(b)
    BY LenProperties DEF Sealed, HEADERSIZE, CRCSIZE
  <1>2. SubSeq(b, 1, n) \in Seq(Byte) /\ Len(SubSeq(b, 1, n)) = n
    BY <1>1, Prefix DEF Sealed
  <1>3. BitCount(SubSeq(b, 1, n)) \in Nat /\ BitCount(SubSeq(b, 1, n)) <= n * 8
    BY <1>2, SetBitsFinite, BitCountBound
  <1> QED
    BY <1>1, <1>3

LEMMA ZeroHeaderType == ZeroHeader \in Header /\ ZeroHeader.Length = 0 /\ 0 \in Byte
  <1>1. 0 \in Word /\ 0 \in Bit /\ 0 \in Nibble /\ 0 \in Byte
    <2>1. 0 < PktCountMod
      BY DEF PktCountMod
    <2>2. 0 \in Word
      BY <2>1, InWord
    <2> QED
      BY <2>2 DEF Bit, Nibble, Byte
  <1> QED
    BY <1>1 DEF ZeroHeader, Header

LEMMA PInvInit == Init => PInv
  <1> SUFFICES ASSUME Init PROVE PInv
    OBVIOUS
  <1>1. ZeroHeader \in Header /\ <<>> \in Seq(Byte) /\ 0 \in Byte
    BY ZeroHeaderType
  <1>2. TypeOK
    BY <1>1 DEF Init, TypeOK
  <1> QED
    BY <1>2 DEF Init, PInv, Fit, FaultMeansNoBody, UnsetOnlyForDriveBody, New

LEMMA PInvDefault ==
  ASSUME PInv, Default
  PROVE  PInv'
  <1>1. header' \in Header /\ header'.Length = 0 /\ 0 \in Byte
    <2>1. header' = [ZeroHeader EXCEPT !.Ack = 1] /\ 1 \in Bit
      BY DEF Default, Bit
    <2>2. header' \in Header /\ header'.Length = ZeroHeader.Length
      BY <2>1, ZeroHeaderType DEF Header
    <2> QED
      BY <2>2, ZeroHeaderType
  <1>2. TypeOK'
    BY <1>1 DEF PInv, TypeOK, Default
  <1>3. New'
    BY <1>1, PacketAssumption DEF PInv, Default, New
  <1> QED
    BY <1>2, <1>3 DEF PInv, Default, Fit, FaultMeansNoBody, UnsetOnlyForDriveBody

LEMMA PInvParse ==
  ASSUME PInv, NEW b \in Datagrams, Parse(b)
  PROVE  PInv'
  <1>1. /\ b \in Seq(Byte) /\ header' \in Header /\ Data' \in Seq(Byte) \cup {Null}
        /\ Fit(header', Data') /\ telemetryBody' \in Seq(Byte) \cup {Garbage}
    BY DataOfFits DEF Parse
  <1>2. CRC' \in Byte
    BY <1>1, CRCType DEF Parse, Fit
  <1>3. TypeOK'
    BY <1>1, <1>2 DEF PInv, TypeOK, Parse
  <1>4. UnsetOnlyForDriveBody'
    <2> SUFFICES ASSUME Data' # Null, telemetryBody' = Garbage
                 PROVE  Len(Data') = DRIVER_BODYSIZE
      BY DEF UnsetOnlyForDriveBody
    <2>1. PayloadSize(HeaderOf(b)) # TELEMETRY_BODYSIZE
      BY DataOfFits, PacketAssumption DEF Parse
    <2>2. PayloadSize(HeaderOf(b)) = DRIVER_BODYSIZE
      BY <2>1 DEF Parse, DataOf
    <2> QED
      BY <2>2, DataOfFits DEF Parse
  <1> QED
    BY <1>1, <1>3, <1>4 DEF PInv, Parse, Fit, FaultMeansNoBody

\* SetCmd and SetPktCount leave the length and a set Drive flag alone.
LEMMA PInvHeader ==
  ASSUME PInv, Usable, header' \in Header,
         header'.Length = header.Length, header.Drive = 1 => header'.Drive = 1,
         UNCHANGED <<made, Data, CRC, RawBuffer, telemetryBody, fault, bodySet, wire>>
  PROVE  PInv'
  <1>1. TypeOK'
    BY DEF PInv, TypeOK
  <1>2. made' = "default" => New'
    BY DEF PInv, New
  <1> QED
    BY <1>1, <1>2 DEF PInv, Fit, FaultMeansNoBody, UnsetOnlyForDriveBody

LEMMA PInvSetCmd ==
  ASSUME PInv, NEW t \in {"DRIVE", "RESPONSE", "SLEEP"}, SetCmd(t)
  PROVE  PInv'
  <1>1. header \in Header /\ 1 \in Bit
    BY DEF PInv, TypeOK, Bit
  <1>2. /\ header' \in Header /\ header'.Length = header.Length
        /\ header.Drive = 1 => header'.Drive = 1
    BY <1>1 DEF SetCmd, Header
  <1> QED
    BY <1>2, PInvHeader DEF SetCmd

LEMMA PInvSetPktCount ==
  ASSUME PInv, NEW c \in Counts, SetPktCount(c)
  PROVE  PInv'
  <1>1. c % PktCountMod \in Word
    <2>1. c \in Int
      BY PacketAssumption
    <2>2. PICK x \in Nat : x = c % PktCountMod /\ x < PktCountMod
      BY <2>1 DEF PktCountMod
    <2>3. x \in Word
      BY <2>2, InWord
    <2> QED
      BY <2>2, <2>3
  <1>2. header \in Header
    BY DEF PInv, TypeOK
  <1>3. /\ header' \in Header /\ header'.Length = header.Length
        /\ header'.Drive = header.Drive
    BY <1>1, <1>2 DEF SetPktCount, Header
  <1> QED
    BY <1>3, PInvHeader DEF SetPktCount

LEMMA PInvSetBodyData ==
  ASSUME PInv, NEW d \in Bodies, SetBodyData(d)
  PROVE  PInv'
  <1>1. d \in Seq(Byte) /\ d # Null /\ Len(d) \in Nat /\ Len(d) <= 250
    BY PacketAssumption, LenProperties DEF MaxBody, HEADERSIZE, CRCSIZE
  <1>2. PICK n \in Byte : n = HEADERSIZE + Len(d) + CRCSIZE /\ n = (HEADERSIZE + Len(d) + CRCSIZE) % 256 /\ n >= 5
    <2>1. PICK n \in Nat : n = HEADERSIZE + Len(d) + CRCSIZE /\ n < 256 /\ n >= 5
      BY <1>1 DEF HEADERSIZE, CRCSIZE
    <2>2. n \in Byte
      BY <2>1, InByte
    <2>3. n % 256 = n
      BY <2>1
    <2> QED
      BY <2>1, <2>2, <2>3, Zenon
  <1>3. PICK m \in Byte : m = HEADERSIZE + CRCSIZE /\ m = 5
    BY DEF Byte, HEADERSIZE, CRCSIZE
  <1>4. header \in Header
    BY DEF PInv, TypeOK
  <1>5. /\ header' \in Header /\ header'.Drive = header.Drive
        /\ IF header.Drive = 0 THEN Data' = Null /\ header'.Length = m
                               ELSE Data' = d /\ header'.Length = n
    BY <1>2, <1>3, <1>4 DEF SetBodyData, Header
  <1>6. header'.Length >= HEADERSIZE + CRCSIZE
    BY <1>2, <1>3, <1>5
  <1>7. Fit(header', Data')
    BY <1>2, <1>5 DEF Fit
  <1>8. Data' # Null => header'.Drive = 1 /\ Data' \in Bodies
    <2>1. header.Drive \in {0, 1}
      BY <1>4 DEF Header, Bit
    <2> QED
      BY <1>5, <2>1
  <1>9. Data' = Null => header'.Length \in {0, HEADERSIZE + CRCSIZE}
    BY <1>1, <1>3, <1>5
  <1>10. UNCHANGED <<made, CRC, RawBuffer, telemetryBody, fault, wire>> /\ bodySet' = TRUE
         /\ fault = "none" /\ made # "none"
    BY DEF SetBodyData, Usable
  <1>11. TypeOK'
    BY <1>1, <1>5, <1>10 DEF PInv, TypeOK
  <1>12. made' = "default" => New'
    BY <1>6, <1>8, <1>9, <1>10 DEF PInv, New
  <1> QED
    BY <1>7, <1>10, <1>11, <1>12 DEF PInv, Fit, FaultMeansNoBody, UnsetOnlyForDriveBody

\* delete[] of an unset pointer happens on a parsed object only, and too short
\* a length is one that no SetBodyData has set.
LEMMA PInvFault ==
  ASSUME PInv, GenPacketFrees \/ GenPacketOverflows
  PROVE  PInv'
  <1>1. made = "parsed" \/ ~bodySet
    <2>1. CASE GenPacketFrees
      BY <2>1 DEF GenPacketFrees, PInv, New, Usable, TypeOK
    <2>2. CASE GenPacketOverflows
      <3>1. header.Length \in Int
        <4>1. header.Length \in Byte
          BY DEF PInv, TypeOK, Header
        <4> QED
          BY <4>1 DEF Byte
      <3> QED
        BY <2>2, <3>1 DEF GenPacketOverflows, PInv, New, Usable, TypeOK, HEADERSIZE, CRCSIZE
    <2> QED
      BY <2>1, <2>2
  <1>2. /\ UNCHANGED <<made, header, Data, CRC, RawBuffer, telemetryBody, bodySet, wire>>
        /\ fault' \in {"overflow", "bad_free"} /\ made # "none"
    BY DEF GenPacketFrees, GenPacketOverflows, Usable
  <1>3. TypeOK' /\ Fit(header', Data')
    BY <1>2 DEF PInv, TypeOK
  <1>4. made' = "default" => New'
    BY <1>2 DEF PInv, New
  <1> QED
    BY <1>1, <1>2, <1>3, <1>4 DEF PInv, FaultMeansNoBody, UnsetOnlyForDriveBody, Fit

LEMMA PInvGenPacket ==
  ASSUME PInv, GenPacket
  PROVE  PInv'
  <1>1. header \in Header /\ Data \in Seq(Byte) \cup {Null} /\ Fit(header, Data)
    BY DEF PInv, TypeOK
  <1>2. CRC' \in Byte /\ RawBuffer' \in Seq(Byte) /\ RawBuffer' = Serialised(header, Data)
    BY <1>1, CRCType, SerialisedParts DEF GenPacket, Fit
  <1>3. UNCHANGED <<made, header, Data, telemetryBody, fault, bodySet, wire>> /\ made # "none" /\ fault = "none"
    BY DEF GenPacket, Usable
  <1>4. TypeOK'
    BY <1>2, <1>3 DEF PInv, TypeOK
  <1>5. made' = "default" => New'
    <2> SUFFICES ASSUME made = "default" PROVE New'
      BY <1>3
    <2>1. Data \in Bodies \cup {Null}
      BY DEF PInv, New
    <2>2. Sealed(RawBuffer') /\ (ShortBodies => Len(RawBuffer') <= 32)
      BY <1>1, <1>2, <2>1, SerialisedShort
    <2> QED
      BY <1>2, <1>3, <2>2, PacketAssumption DEF PInv, New
  <1> QED
    BY <1>3, <1>4, <1>5 DEF PInv, FaultMeansNoBody, UnsetOnlyForDriveBody, Fit

LEMMA PInvNext == PInv /\ [Next]_vars => PInv'
  <1> SUFFICES ASSUME PInv, [Next]_vars PROVE PInv'
    OBVIOUS
  <1>1. CASE Default
    BY <1>1, PInvDefault
  <1>2. CASE \E b \in Datagrams : Parse(b)
    BY <1>2, PInvParse
  <1>3. CASE \E t \in {"DRIVE", "RESPONSE", "SLEEP"} : SetCmd(t)
    BY <1>3, PInvSetCmd
  <1>4. CASE \E c \in Counts : SetPktCount(c)
    BY <1>4, PInvSetPktCount
  <1>5. CASE \E d \in Bodies : SetBodyData(d)
    BY <1>5, PInvSetBodyData
  <1>6. CASE GenPacketFrees \/ GenPacketOverflows
    BY <1>6, PInvFault
  <1>7. CASE GenPacket
    BY <1>7, PInvGenPacket
  <1>8. CASE UNCHANGED vars
    BY <1>8 DEF vars, PInv, TypeOK, Fit, FaultMeansNoBody, UnsetOnlyForDriveBody, New
  <1> QED
    BY <1>1, <1>2, <1>3, <1>4, <1>5, <1>6, <1>7, <1>8 DEF Next

LEMMA PInvAlways == Spec => []PInv
  BY PInvInit, PInvNext, PTL DEF Spec

-----------------------------------------------------------------------------
(* The theorems *)

\* The members of a packet keep to their types and widths through any calls.
THEOREM PacketTypeCorrect == Spec => []TypeOK
  <1>1. PInv => TypeOK
    BY DEF PInv
  <1> QED
    BY <1>1, PInvAlways, PTL

\* However the setters are called, body, Drive flag and length go together.
THEOREM BodyGoesWithLength == Spec => []BodyMatchesLength
  <1>1. PInv => BodyMatchesLength
    BY DEF PInv, New, Fit, BodyMatchesLength
  <1> QED
    BY <1>1, PInvAlways, PTL

\* After SetBodyData, GenPacket on a new object makes no memory error.
THEOREM NoFaultAfterBody == Spec => []FaultMeansNoBody
  <1>1. PInv => FaultMeansNoBody
    BY DEF PInv
  <1> QED
    BY <1>1, PInvAlways, PTL

\* Unset telemetry fields are printed for a drive body only.
THEOREM UnsetForDriveBody == Spec => []UnsetOnlyForDriveBody
  <1>1. PInv => UnsetOnlyForDriveBody
    BY DEF PInv
  <1> QED
    BY <1>1, PInvAlways, PTL

\* Every packet of the protocol's sizes comes back from the wire unchanged.
THEOREM PacketsRoundTrip == Spec => []RoundTrips
  <1>1. PInv => RoundTrips
    <2> SUFFICES ASSUME PInv, made = "default", bodySet,
                        Data # Null => Len(Data) \in {DRIVER_BODYSIZE, TELEMETRY_BODYSIZE}
                 PROVE  LET b == Serialised(header, Data)
                        IN HeaderOf(b) = header /\ DataOf(b) = Data /\ Len(b) = header.Length
      BY DEF RoundTrips
    <2>1. header \in Header /\ Data \in Seq(Byte) \cup {Null} /\ Fit(header, Data)
      BY DEF PInv, TypeOK
    <2>2. Data = Null => header.Length = HEADERSIZE + CRCSIZE
      BY DEF PInv, New, HEADERSIZE, CRCSIZE
    <2> QED
      BY <2>1, <2>2, SerialisedRoundTrips
  <1> QED
    BY <1>1, PInvAlways, PTL

\* With bodies of at most 27 bytes, which all those of the protocol are,
\* CheckCRC accepts every generated packet and refuses it with any one bit
\* inverted.  For longer bodies it may not: CheckCRC does not cut its count to
\* a byte, as CalcCRC does.
THEOREM DamageIsDetected ==
  ASSUME ShortBodies
  PROVE  Spec => []DamageDetected
  <1>1. PInv => DamageDetected
    <2> SUFFICES ASSUME PInv, made = "default", RawBuffer # Null
                 PROVE  /\ CheckCRC(RawBuffer, Len(RawBuffer))
                        /\ \A i \in 1..Len(RawBuffer), w \in Weights :
                             ~CheckCRC(Flipped(RawBuffer, i, w), Len(RawBuffer))
      BY DEF DamageDetected
    <2>1. Sealed(RawBuffer) /\ Len(RawBuffer) <= 32
      BY ShortBodies DEF PInv, New
    <2> QED
      BY <2>1, SealedShortCounts, SealedDamage
  <1> QED
    BY <1>1, PInvAlways, PTL
=============================================================================
