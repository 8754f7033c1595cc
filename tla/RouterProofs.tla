----------------------------- MODULE RouterProofs -----------------------------
(***************************************************************************)
(* The properties of Router for any routes and any requests: first what    *)
(* one tree answers, then what the router makes of it.                     *)
(***************************************************************************)
EXTENDS Router, SequenceTheorems, WellFoundedInduction, TLAPS

-------------------------------------------------------------------------------
(* Numbers and sequences.                                                  *)

\* A set of numbers that is not empty has a least one.
LEMMA Least ==
  ASSUME NEW T, T \subseteq Nat, T # {}
  PROVE  \E x \in T : \A y \in T : x <= y
<1> DEFINE R == OpToRel(<, Nat)
<1>1. PICK x \in T : \A y \in T : ~ (<<y, x>> \in R)
  BY NatLessThanWellFounded, WFMin
<1>2. \A y, z \in Nat : y < z => <<y, z>> \in R
  BY DEF OpToRel
<1> HIDE DEF R
<1>3. ASSUME NEW y \in T PROVE x <= y
  <2>1. x \in Nat /\ y \in Nat
    BY <1>1
  <2>2. ~ (y < x)
    BY <1>1, <1>2, <2>1
  <2> QED
    BY <2>1, <2>2
<1> QED
  BY <1>1, <1>3

LEMMA MinIsLeast ==
  ASSUME NEW T, T \subseteq Nat, T # {}
  PROVE  Min(T) \in T /\ \A y \in T : Min(T) <= y
<1>1. \E x \in T : \A y \in T : x <= y
  BY Least
<1> QED
  BY <1>1 DEF Min

\* A set of numbers up to n that is not empty has a greatest one.
LEMMA Greatest ==
  ASSUME NEW n \in Nat, NEW T, T \subseteq 0..n, T # {}
  PROVE  \E x \in T : \A y \in T : y <= x
<1>1. PICK z \in {n - x : x \in T} : \A y \in {n - x : x \in T} : z <= y
  <2>1. \A x \in T : n - x \in Nat
    OBVIOUS
  <2>2. {n - x : x \in T} \subseteq Nat
    BY <2>1
  <2>3. {n - x : x \in T} # {}
    OBVIOUS
  <2> QED
    BY <2>2, <2>3, Least
<1>2. PICK x \in T : z = n - x
  BY <1>1
<1>3. ASSUME NEW y \in T PROVE y <= x
  <2>1. z <= n - y
    BY <1>1
  <2> QED
    BY <1>2, <2>1
<1> QED
  BY <1>2, <1>3

LEMMA OneOf ==
  ASSUME NEW S, NEW s \in Seq(S), NEW i \in 1..Len(s)
  PROVE  SubSeq(s, i, i) = <<s[i]>>
<1>1. SubSeq(s, i, i) = <<s[i]>> \o SubSeq(s, i + 1, i)
  BY SubSeqRecursiveFirst
<1>2. SubSeq(s, i + 1, i) = <<>>
  BY SubSeqEmpty
<1>3. <<s[i]>> \in Seq(S)
  OBVIOUS
<1> QED
  BY <1>1, <1>2, <1>3, ConcatEmptySeq

LEMMA TextIs ==
  ASSUME NEW url \in Seq(STRING), NEW pos \in 1..(Len(url) + 1), NEW e \in pos..(Len(url) + 1)
  PROVE  /\ Text(url, pos, e) \in Seq(STRING)
         /\ Len(Text(url, pos, e)) = e - pos
         /\ DOMAIN Text(url, pos, e) = 1..(e - pos)
         /\ \A i \in 1..(e - pos) : Text(url, pos, e)[i] = url[pos + i - 1]
<1>1. \A i \in pos..(e - 1) : url[i] \in STRING
  OBVIOUS
<1>2. pos \in Int /\ e - 1 \in Int
  OBVIOUS
<1>3. /\ Text(url, pos, e) \in Seq(STRING)
      /\ Len(Text(url, pos, e)) = IF pos <= e - 1 THEN e - 1 - pos + 1 ELSE 0
      /\ \A i \in 1..(e - 1 - pos + 1) : Text(url, pos, e)[i] = url[pos + i - 1]
  BY <1>1, <1>2, SubSeqProperties DEF Text
<1> QED
  BY <1>3

\* A text is blank only if it has no characters.
LEMMA TextEmpty ==
  ASSUME NEW url \in Seq(STRING), NEW pos \in 1..(Len(url) + 1), NEW e \in pos..(Len(url) + 1)
  PROVE  Text(url, pos, e) = <<>> <=> e = pos
<1>1. Text(url, pos, e) \in Seq(STRING) /\ Len(Text(url, pos, e)) = e - pos
  BY TextIs
<1>2. Text(url, pos, e) = <<>> <=> Len(Text(url, pos, e)) = 0
  BY <1>1, EmptySeq
<1> QED
  BY <1>1, <1>2

LEMMA OverText ==
  ASSUME NEW url \in Seq(STRING), NEW pos \in 1..(Len(url) + 1), NEW e \in pos..(Len(url) + 1),
         NEW chars
  PROVE  Over(Text(url, pos, e), chars) <=> e > pos /\ \A i \in pos..(e - 1) : url[i] \in chars
<1> DEFINE t == Text(url, pos, e)
<1>1. DOMAIN t = 1..(e - pos) /\ \A i \in 1..(e - pos) : t[i] = url[pos + i - 1]
  BY TextIs
<1>2. t # <<>> <=> e > pos
  BY TextEmpty
<1>3. ToSet(t) \subseteq chars <=> \A i \in 1..(e - pos) : t[i] \in chars
  BY <1>1 DEF ToSet
<1>4. (\A i \in 1..(e - pos) : t[i] \in chars) <=> \A i \in pos..(e - 1) : url[i] \in chars
  <2>1. ASSUME \A i \in 1..(e - pos) : t[i] \in chars, NEW i \in pos..(e - 1)
        PROVE  url[i] \in chars
    <3>1. i - pos + 1 \in 1..(e - pos) /\ pos + (i - pos + 1) - 1 = i
      OBVIOUS
    <3> QED
      BY <2>1, <3>1, <1>1
  <2>2. ASSUME \A i \in pos..(e - 1) : url[i] \in chars, NEW i \in 1..(e - pos)
        PROVE  t[i] \in chars
    <3>1. pos + i - 1 \in pos..(e - 1)
      OBVIOUS
    <3> QED
      BY <2>2, <3>1, <1>1
  <2> QED
    BY <2>1, <2>2
<1> QED
  BY <1>2, <1>3, <1>4 DEF Over

\* Where the digits of a numeral start.
Start(url, pos, signs) == IF CharAt(url, pos) \in signs THEN pos + 1 ELSE pos

LEMMA UnsignedText ==
  ASSUME NEW url \in Seq(STRING), NEW pos \in 1..(Len(url) + 1), NEW e \in (pos + 1)..(Len(url) + 1),
         NEW signs
  PROVE  /\ Unsigned(Text(url, pos, e), signs) = Text(url, Start(url, pos, signs), e)
         /\ Start(url, pos, signs) \in pos..(pos + 1)
         /\ CharAt(url, pos) = url[pos]
<1>1. pos \in 1..Len(url) /\ CharAt(url, pos) = url[pos] /\ e - 1 \in pos..Len(url)
  BY DEF CharAt
<1>2. /\ Head(Text(url, pos, e)) = url[pos]
      /\ Tail(Text(url, pos, e)) = Text(url, pos + 1, e)
  BY <1>1, HeadTailOfSubSeq DEF Text
<1>3. Text(url, pos, e) # <<>>
  BY TextEmpty
<1>4. CASE url[pos] \in signs
  <2>1. Start(url, pos, signs) = pos + 1
    BY <1>1, <1>4 DEF Start
  <2>2. Unsigned(Text(url, pos, e), signs) = Text(url, pos + 1, e)
    BY <1>2, <1>3, <1>4, Zenon DEF Unsigned
  <2> QED
    BY <1>1, <2>1, <2>2
<1>5. CASE url[pos] \notin signs
  <2>1. Start(url, pos, signs) = pos
    BY <1>1, <1>5 DEF Start
  <2>2. Unsigned(Text(url, pos, e), signs) = Text(url, pos, e)
    BY <1>2, <1>3, <1>5, Zenon DEF Unsigned
  <2> QED
    BY <1>1, <2>1, <2>2
<1> QED
  BY <1>4, <1>5

LEMMA AfterIs ==
  ASSUME NEW url \in Seq(STRING), NEW pos \in 1..(Len(url) + 1), NEW chars
  PROVE  /\ After(url, pos, chars) \in pos..(Len(url) + 1)
         /\ \A i \in pos..(After(url, pos, chars) - 1) : url[i] \in chars
         /\ After(url, pos, chars) <= Len(url) => url[After(url, pos, chars)] \notin chars
<1> DEFINE T == {e \in pos..(Len(url) + 1) : e > Len(url) \/ url[e] \notin chars}
<1>1. T \subseteq Nat /\ Len(url) + 1 \in T
  OBVIOUS
<1>2. Min(T) \in T /\ \A y \in T : Min(T) <= y
  BY <1>1, MinIsLeast
<1>3. ASSUME NEW i \in pos..(Min(T) - 1) PROVE url[i] \in chars
  <2>1. i \notin T
    BY <1>2
  <2> QED
    BY <1>2, <2>1
<1> QED
  BY <1>2, <1>3 DEF After

\* A run of characters that ends at e, and goes no further, ends where After says.
LEMMA AfterUnique ==
  ASSUME NEW url \in Seq(STRING), NEW pos \in 1..(Len(url) + 1), NEW chars,
         NEW e \in pos..(Len(url) + 1)
  PROVE  (/\ \A i \in pos..(e - 1) : url[i] \in chars
          /\ e <= Len(url) => url[e] \notin chars) <=> e = After(url, pos, chars)
<1> DEFINE a == After(url, pos, chars)
<1>1. /\ a \in pos..(Len(url) + 1) /\ \A i \in pos..(a - 1) : url[i] \in chars
      /\ a <= Len(url) => url[a] \notin chars
  BY AfterIs
<1> HIDE DEF a
<1>2. ASSUME \A i \in pos..(e - 1) : url[i] \in chars, e <= Len(url) => url[e] \notin chars
      PROVE  e = a
  <2>1. ~ a < e
    BY <1>1, <1>2
  <2>2. ~ e < a
    BY <1>1, <1>2
  <2> QED
    BY <1>1, <2>1, <2>2
<1> QED
  BY <1>1, <1>2 DEF a

-------------------------------------------------------------------------------
(* One token: where the tree's lookup stops is where the longest text ends  *)
(* that the token takes.                                                    *)

LEMMA NumeralText ==
  ASSUME NEW url \in Seq(STRING), NEW pos \in 1..Len(url), NEW f \in (pos + 1)..(Len(url) + 1),
         NEW signs
  PROVE  IsNumeral(Text(url, pos, f), signs) <=>
           /\ f > Start(url, pos, signs)
           /\ \A i \in Start(url, pos, signs)..(f - 1) : url[i] \in Digits
<1>1. /\ Unsigned(Text(url, pos, f), signs) = Text(url, Start(url, pos, signs), f)
      /\ Start(url, pos, signs) \in pos..(pos + 1)
  BY UnsignedText
<1>2. /\ Start(url, pos, signs) \in 1..(Len(url) + 1)
      /\ f \in Start(url, pos, signs)..(Len(url) + 1)
  BY <1>1
<1> QED
  BY <1>1, <1>2, OverText DEF IsNumeral

LEMMA NumeralTaken ==
  ASSUME NEW url \in Seq(STRING), NEW pos \in 1..Len(url), NEW e \in (pos + 1)..(Len(url) + 1),
         NEW signs, signs \subseteq Signs
  PROVE  (/\ IsNumeral(Text(url, pos, e), signs)
          /\ \A f \in (e + 1)..(Len(url) + 1) : ~IsNumeral(Text(url, pos, f), signs)
          /\ Len(Unsigned(Text(url, pos, e), Signs)) <= MaxDigits)
         <=> NumeralEnd(url, pos, signs) = e
<1> DEFINE d == Start(url, pos, signs)
           a == After(url, d, Digits)
           Num(f) == f > d /\ \A i \in d..(f - 1) : url[i] \in Digits
<1>1. d \in pos..(pos + 1) /\ d \in 1..(Len(url) + 1) /\ CharAt(url, pos) = url[pos]
  BY UnsignedText
<1>2. \A f \in (pos + 1)..(Len(url) + 1) : IsNumeral(Text(url, pos, f), signs) <=> Num(f)
  BY NumeralText
<1>3. /\ a \in d..(Len(url) + 1)
      /\ \A i \in d..(a - 1) : url[i] \in Digits
      /\ a <= Len(url) => url[a] \notin Digits
  BY <1>1, AfterIs
<1>4. NumeralEnd(url, pos, signs) = IF a - d \in 1..MaxDigits THEN a ELSE pos
  BY DEF NumeralEnd, Start
<1>5. Num(e) => Len(Unsigned(Text(url, pos, e), Signs)) = e - d
  <2> SUFFICES ASSUME Num(e) PROVE Len(Unsigned(Text(url, pos, e), Signs)) = e - d
    OBVIOUS
  <2>1. Start(url, pos, Signs) = d
    <3>1. CASE url[pos] \in signs
      BY <1>1, <3>1 DEF Start
    <3>2. CASE url[pos] \notin signs
      <4>1. d = pos
        BY <1>1, <3>2 DEF Start
      <4>2. url[pos] \in Digits
        BY <4>1
      <4>3. url[pos] \notin Signs
        BY <4>2 DEF Digits, Signs
      <4> QED
        BY <1>1, <4>1, <4>3 DEF Start
    <3> QED
      BY <3>1, <3>2
  <2>2. Unsigned(Text(url, pos, e), Signs) = Text(url, d, e)
    BY <2>1, UnsignedText
  <2>3. Len(Text(url, d, e)) = e - d
    <3>1. e \in d..(Len(url) + 1)
      BY <1>1
    <3> QED
      BY <1>1, <3>1, TextIs
  <2> QED
    BY <2>2, <2>3
<1> HIDE DEF a, d
<1>6. ASSUME Num(e), \A f \in (e + 1)..(Len(url) + 1) : ~Num(f), e - d <= MaxDigits
      PROVE  a = e /\ a - d \in 1..MaxDigits
  <2>1. e <= Len(url) => url[e] \notin Digits
    <3> SUFFICES ASSUME e <= Len(url), url[e] \in Digits PROVE FALSE
      OBVIOUS
    <3>1. e + 1 \in (e + 1)..(Len(url) + 1) /\ Num(e + 1)
      BY <1>1, <1>6
    <3> QED
      BY <1>6, <3>1
  <2>2. e \in d..(Len(url) + 1)
    BY <1>1
  <2>3. e = a
    BY <1>1, <1>6, <2>1, <2>2, AfterUnique DEF a
  <2> QED
    BY <1>1, <1>6, <2>3, MaxDigitsIsPositive
<1>7. ASSUME a - d \in 1..MaxDigits, a = e
      PROVE  Num(e) /\ (\A f \in (e + 1)..(Len(url) + 1) : ~Num(f)) /\ e - d <= MaxDigits
  <2>1. ASSUME NEW f \in (e + 1)..(Len(url) + 1), Num(f) PROVE FALSE
    <3>1. e \in d..(f - 1) /\ e <= Len(url)
      BY <1>1, <1>3, <1>7
    <3> QED
      BY <1>3, <1>7, <2>1, <3>1
  <2> QED
    BY <1>1, <1>3, <1>7, <2>1, MaxDigitsIsPositive
<1>8. (e + 1)..(Len(url) + 1) \subseteq (pos + 1)..(Len(url) + 1)
  OBVIOUS
<1>9. a - d \in 1..MaxDigits \/ NumeralEnd(url, pos, signs) # e
  BY <1>4
<1> HIDE DEF Num
<1> QED
  BY <1>2, <1>4, <1>5, <1>6, <1>7, <1>8, <1>9

LEMMA DecimalText ==
  ASSUME NEW url \in Seq(STRING), NEW pos \in 1..Len(url), NEW f \in (pos + 1)..(Len(url) + 1),
         NEW d, d = Start(url, pos, Signs)
  PROVE  IsDecimal(Text(url, pos, f)) <=>
           /\ f > d
           /\ \A i \in d..(f - 1) : url[i] \in Digits \cup {"."}
           /\ ~(f = d + 1 /\ url[d] = ".")
           /\ \A i, j \in d..(f - 1) : url[i] = "." /\ url[j] = "." => i = j
<1> DEFINE t == Text(url, d, f)
<1>1. Unsigned(Text(url, pos, f), Signs) = t /\ d \in pos..(pos + 1)
  BY UnsignedText
<1>2. d \in 1..(Len(url) + 1) /\ f \in d..(Len(url) + 1)
  BY <1>1
<1>3. Over(t, Digits \cup {"."}) <=> f > d /\ \A i \in d..(f - 1) : url[i] \in Digits \cup {"."}
  BY <1>2, OverText
<1>4. /\ t \in Seq(STRING) /\ Len(t) = f - d /\ DOMAIN t = 1..(f - d)
      /\ \A i \in 1..(f - d) : t[i] = url[d + i - 1]
  BY <1>2, TextIs
<1>5. t = <<".">> <=> f = d + 1 /\ url[d] = "."
  <2>1. t = <<".">> => Len(t) = 1 /\ t[1] = "."
    OBVIOUS
  <2>2. f = d + 1 => t[1] = url[d]
    BY <1>2, <1>4
  <2>3. ASSUME f = d + 1, url[d] = "." PROVE t = <<".">>
    <3>1. t = SubSeq(url, d, d) /\ d \in 1..Len(url)
      <4>1. d \in 1..Len(url) /\ f - 1 = d
        BY <1>2, <2>3
      <4> QED
        BY <4>1 DEF Text
    <3>2. SubSeq(url, d, d) = <<url[d]>>
      BY <3>1, OneOf
    <3> HIDE DEF t
    <3> QED
      BY <2>3, <3>1, <3>2
  <2>4. ASSUME t = <<".">> PROVE f = d + 1 /\ url[d] = "."
    <3>1. f = d + 1
      BY <1>2, <1>4, <2>1, <2>4
    <3> QED
      BY <2>1, <2>2, <2>4, <3>1
  <2> QED
    BY <2>3, <2>4
<1>6. (\A i, j \in {k \in DOMAIN t : t[k] = "."} : i = j)
        <=> \A i, j \in d..(f - 1) : url[i] = "." /\ url[j] = "." => i = j
  <2> HIDE DEF t
  <2>1. ASSUME \A i, j \in {k \in DOMAIN t : t[k] = "."} : i = j,
               NEW i \in d..(f - 1), NEW j \in d..(f - 1), url[i] = ".", url[j] = "."
        PROVE  i = j
    <3>1. i - d + 1 \in 1..(f - d) /\ j - d + 1 \in 1..(f - d)
      BY <1>2
    <3>2. t[i - d + 1] = url[i] /\ t[j - d + 1] = url[j]
      <4>1. d + (i - d + 1) - 1 = i /\ d + (j - d + 1) - 1 = j
        BY <1>2
      <4> QED
        BY <1>4, <3>1, <4>1
    <3>3. /\ i - d + 1 \in {k \in DOMAIN t : t[k] = "."}
          /\ j - d + 1 \in {k \in DOMAIN t : t[k] = "."}
      BY <1>4, <2>1, <3>1, <3>2
    <3>4. i - d + 1 = j - d + 1
      BY <2>1, <3>3, Zenon
    <3> QED
      BY <1>2, <3>4
  <2>2. ASSUME \A i, j \in d..(f - 1) : url[i] = "." /\ url[j] = "." => i = j,
               NEW i \in DOMAIN t, NEW j \in DOMAIN t, t[i] = ".", t[j] = "."
        PROVE  i = j
    <3>1. d + i - 1 \in d..(f - 1) /\ d + j - 1 \in d..(f - 1)
      BY <1>2, <1>4
    <3>2. d + i - 1 = d + j - 1
      BY <1>4, <2>2, <3>1
    <3>3. i \in Nat /\ j \in Nat /\ d \in Nat
      BY <1>2, <1>4
    <3> QED
      BY <3>2, <3>3
  <2> QED
    BY <2>1, <2>2
<1> HIDE DEF t
<1> QED
  BY <1>1, <1>3, <1>5, <1>6 DEF IsDecimal

LEMMA DecimalTaken ==
  ASSUME NEW url \in Seq(STRING), NEW pos \in 1..Len(url), NEW e \in (pos + 1)..(Len(url) + 1)
  PROVE  (/\ IsDecimal(Text(url, pos, e))
          /\ \A f \in (e + 1)..(Len(url) + 1) : ~IsDecimal(Text(url, pos, f)))
         <=> DecimalEnd(url, pos) = e
<1> DEFINE d == Start(url, pos, Signs)
           a == After(url, d, Digits)
           b == After(url, a + 1, Digits)
           Dec(f) == /\ f > d
                     /\ \A i \in d..(f - 1) : url[i] \in Digits \cup {"."}
                     /\ ~(f = d + 1 /\ url[d] = ".")
                     /\ \A i, j \in d..(f - 1) : url[i] = "." /\ url[j] = "." => i = j
<1>1. d \in pos..(pos + 1) /\ d \in 1..(Len(url) + 1)
  BY UnsignedText
<1>2. \A f \in (pos + 1)..(Len(url) + 1) : IsDecimal(Text(url, pos, f)) <=> Dec(f)
  BY DecimalText
<1>3. /\ a \in d..(Len(url) + 1)
      /\ \A i \in d..(a - 1) : url[i] \in Digits
      /\ a <= Len(url) => url[a] \notin Digits
  BY <1>1, AfterIs
<1>4. CharAt(url, a) = "." <=> a <= Len(url) /\ url[a] = "."
  BY DEF CharAt
<1>5. "." \notin Digits
  BY DEF Digits
<1>6. a <= Len(url) => /\ b \in (a + 1)..(Len(url) + 1)
                       /\ \A i \in (a + 1)..(b - 1) : url[i] \in Digits
                       /\ b <= Len(url) => url[b] \notin Digits
  <2> SUFFICES ASSUME a <= Len(url)
               PROVE  /\ b \in (a + 1)..(Len(url) + 1)
                      /\ \A i \in (a + 1)..(b - 1) : url[i] \in Digits
                      /\ b <= Len(url) => url[b] \notin Digits
    OBVIOUS
  <2>1. a + 1 \in 1..(Len(url) + 1)
    BY <1>1, <1>3
  <2> HIDE DEF a
  <2> QED
    BY <2>1, AfterIs
<1>7. DecimalEnd(url, pos) =
        LET f == IF CharAt(url, a) = "." THEN b ELSE a
        IN  IF (IF f = a THEN a - d ELSE (f - d) - 1) > 0 THEN f ELSE pos
  BY DEF DecimalEnd, Start
<1>8. \A i \in d..(e - 1) : i \in 1..Len(url)
  BY <1>1
<1> HIDE DEF d
\* A decimal that goes on as far as it can ends where DecimalEnd says.
<1>9. ASSUME Dec(e), \A f \in (e + 1)..(Len(url) + 1) : ~Dec(f)
      PROVE  DecimalEnd(url, pos) = e
  <2>1. CASE \A i \in d..(e - 1) : url[i] # "."
    <3>1. \A i \in d..(e - 1) : url[i] \in Digits
      BY <1>9, <2>1
    <3>2. e <= Len(url) => url[e] \notin Digits \cup {"."}
      <4> SUFFICES ASSUME e <= Len(url), url[e] \in Digits \cup {"."} PROVE FALSE
        OBVIOUS
      <4>1. e + 1 \in (e + 1)..(Len(url) + 1)
        OBVIOUS
      <4>2. Dec(e + 1)
        <5>1. d..((e + 1) - 1) = d..(e - 1) \cup {e}
          BY <1>1, <1>9
        <5>2. ~(e + 1 = d + 1)
          BY <1>1, <1>9
        <5> QED
          BY <1>1, <1>9, <2>1, <5>1, <5>2
      <4> QED
        BY <1>9, <4>1, <4>2
    <3>3. e = a
      <4>1. e \in d..(Len(url) + 1)
        BY <1>1
      <4> QED
        BY <1>1, <3>1, <3>2, <4>1, AfterUnique
    <3> HIDE DEF a, b
    <3>4. CharAt(url, a) # "."
      BY <1>4, <3>2, <3>3
    <3>5. a - d > 0
      BY <1>1, <1>9, <3>3
    <3> QED
      BY <1>7, <3>3, <3>4, <3>5
  <2>2. CASE \E k \in d..(e - 1) : url[k] = "."
    <3>1. PICK k \in d..(e - 1) : url[k] = "."
      BY <2>2
    <3>2. \A i \in d..(e - 1) : i # k => url[i] \in Digits
      BY <1>9, <3>1
    <3>3. k = a
      <4>1. \A i \in d..(k - 1) : url[i] \in Digits
        BY <1>1, <3>1, <3>2
      <4>2. k \in d..(Len(url) + 1) /\ url[k] \notin Digits
        BY <1>1, <1>5, <3>1
      <4> QED
        BY <1>1, <4>1, <4>2, AfterUnique
    <3>4. e <= Len(url) => url[e] \notin Digits
      <4> SUFFICES ASSUME e <= Len(url), url[e] \in Digits PROVE FALSE
        OBVIOUS
      <4>1. e + 1 \in (e + 1)..(Len(url) + 1)
        OBVIOUS
      <4>2. Dec(e + 1)
        <5>1. d..((e + 1) - 1) = d..(e - 1) \cup {e}
          BY <1>1, <1>9
        <5>2. ~(e + 1 = d + 1)
          BY <1>1, <1>9
        <5>3. url[e] # "."
          BY <1>5
        <5> QED
          BY <1>1, <1>9, <5>1, <5>2, <5>3
      <4> QED
        BY <1>9, <4>1, <4>2
    <3>5. a <= Len(url) /\ a + 1 \in 1..(Len(url) + 1) /\ e \in (a + 1)..(Len(url) + 1)
      BY <1>1, <3>1, <3>3
    <3>6. \A i \in (a + 1)..(e - 1) : url[i] \in Digits
      BY <1>1, <3>1, <3>2, <3>3
    <3>7. e = b
      <4> HIDE DEF a
      <4> QED
        BY <3>4, <3>5, <3>6, AfterUnique
    <3> HIDE DEF a, b
    <3>8. CharAt(url, a) = "."
      BY <1>4, <3>1, <3>3, <3>5
    <3>9. b # a /\ (b - d) - 1 > 0
      BY <1>1, <1>9, <3>1, <3>3, <3>5, <3>7
    <3> QED
      BY <1>7, <3>7, <3>8, <3>9
  <2> QED
    BY <2>1, <2>2
\* Where DecimalEnd stops there is a decimal, and no longer one.
<1> HIDE DEF a, b
<1>10. ASSUME DecimalEnd(url, pos) = e
       PROVE  Dec(e) /\ \A f \in (e + 1)..(Len(url) + 1) : ~Dec(f)
  <2>1. CASE CharAt(url, a) = "."
    <3>1. a <= Len(url) /\ url[a] = "."
      BY <1>4, <2>1
    <3>2. e = b /\ b # a /\ (b - d) - 1 > 0
      BY <1>1, <1>3, <1>6, <1>7, <1>10, <2>1, <3>1
    <3>3. Dec(e)
      <4>1. \A i \in d..(e - 1) : i # a => url[i] \in Digits
        <5> TAKE i \in d..(e - 1)
        <5>1. CASE i < a
          BY <1>1, <1>3, <5>1
        <5>2. CASE i > a
          BY <1>1, <1>3, <1>6, <3>1, <3>2, <5>2
        <5> QED
          BY <1>1, <1>3, <5>1, <5>2
      <4>2. \A i \in d..(e - 1) : url[i] = "." => i = a
        BY <1>5, <4>1
      <4>3. e > d /\ e # d + 1
        BY <1>1, <1>6, <3>1, <3>2
      <4> QED
        BY <3>1, <4>1, <4>2, <4>3
    <3>4. ASSUME NEW f \in (e + 1)..(Len(url) + 1), Dec(f) PROVE FALSE
      <4>1. e \in d..(f - 1) /\ a \in d..(f - 1) /\ e <= Len(url) /\ e # a
        BY <1>1, <1>3, <1>6, <3>1, <3>2
      <4>2. url[e] \notin Digits
        BY <1>6, <3>1, <3>2, <4>1
      <4> QED
        BY <3>1, <3>4, <4>1, <4>2
    <3> HIDE DEF Dec
    <3> QED
      BY <3>3, <3>4
  <2>2. CASE CharAt(url, a) # "."
    <3>1. e = a /\ a - d > 0
      BY <1>1, <1>3, <1>7, <1>10, <2>2
    <3>2. Dec(e)
      BY <1>1, <1>3, <1>5, <3>1
    <3>3. ASSUME NEW f \in (e + 1)..(Len(url) + 1), Dec(f) PROVE FALSE
      <4>1. e \in d..(f - 1) /\ e <= Len(url)
        BY <1>1, <1>3, <3>1
      <4>2. url[e] \notin Digits /\ url[e] # "."
        BY <1>3, <1>4, <2>2, <3>1, <4>1
      <4> QED
        BY <3>3, <4>1, <4>2
    <3> HIDE DEF Dec
    <3> QED
      BY <3>2, <3>3
  <2> QED
    BY <2>1, <2>2
<1>11. (e + 1)..(Len(url) + 1) \subseteq (pos + 1)..(Len(url) + 1)
  OBVIOUS
<1> HIDE DEF Dec
<1> QED
  BY <1>2, <1>9, <1>10, <1>11

LEMMA StringTaken ==
  ASSUME NEW url \in Seq(STRING), NEW pos \in 1..Len(url), NEW e \in (pos + 1)..(Len(url) + 1)
  PROVE  Takes("<string>", url, pos, e) <=> After(url, pos, ToSet(url) \ {"/"}) = e
<1> DEFINE chars == ToSet(url) \ {"/"}
           NoSlash(f) == \A i \in pos..(f - 1) : url[i] \in chars
<1>1. ASSUME NEW f \in (pos + 1)..(Len(url) + 1)
      PROVE  Spells("<string>", Text(url, pos, f)) <=> NoSlash(f)
  <2>1. f \in pos..(Len(url) + 1) /\ f > pos
    OBVIOUS
  <2>2. /\ DOMAIN Text(url, pos, f) = 1..(f - pos)
        /\ \A i \in 1..(f - pos) : Text(url, pos, f)[i] = url[pos + i - 1]
    BY <2>1, TextIs
  <2>3. Text(url, pos, f) # <<>>
    BY <2>1, TextEmpty
  <2>4. Over(Text(url, pos, f), chars) <=> NoSlash(f)
    BY <2>1, OverText
  <2>5. ToSet(Text(url, pos, f)) \subseteq ToSet(url)
    <3>1. \A i \in 1..(f - pos) : pos + i - 1 \in DOMAIN url
      OBVIOUS
    <3> QED
      BY <2>2, <3>1 DEF ToSet
  <2>6. Over(Text(url, pos, f), chars) <=> "/" \notin ToSet(Text(url, pos, f))
    BY <2>3, <2>5 DEF Over
  <2>7. Spells("<string>", Text(url, pos, f)) <=> "/" \notin ToSet(Text(url, pos, f))
    BY <2>3 DEF Spells
  <2> QED
    BY <2>4, <2>6, <2>7
<1>2. Takes("<string>", url, pos, e) <=>
        NoSlash(e) /\ \A f \in (e + 1)..(Len(url) + 1) : ~NoSlash(f)
  <2>1. "<string>" \in ParamTypes /\ "<string>" \notin {"<int>", "<uint>"}
    BY DEF ParamTypes
  <2>2. (e + 1)..(Len(url) + 1) \subseteq (pos + 1)..(Len(url) + 1)
    OBVIOUS
  <2> HIDE DEF NoSlash
  <2> QED
    BY <1>1, <2>1, <2>2 DEF Takes
<1>3. (\A f \in (e + 1)..(Len(url) + 1) : ~NoSlash(f)) <=> (e <= Len(url) => url[e] \notin chars)
      \/ ~NoSlash(e)
  <2>1. ASSUME \A f \in (e + 1)..(Len(url) + 1) : ~NoSlash(f), NoSlash(e), e <= Len(url)
        PROVE  url[e] \notin chars
    <3>1. e + 1 \in (e + 1)..(Len(url) + 1)
      BY <2>1
    <3>2. ~NoSlash(e + 1)
      BY <2>1, <3>1
    <3> QED
      BY <2>1, <3>2
  <2>2. ASSUME e <= Len(url) => url[e] \notin chars, NEW f \in (e + 1)..(Len(url) + 1)
        PROVE  ~NoSlash(f)
    <3>1. e \in pos..(f - 1) /\ e <= Len(url)
      OBVIOUS
    <3> QED
      BY <2>2, <3>1
  <2>3. ASSUME ~NoSlash(e), NEW f \in (e + 1)..(Len(url) + 1) PROVE ~NoSlash(f)
    BY <2>3
  <2> QED
    BY <2>1, <2>2, <2>3
<1>4. NoSlash(e) /\ (e <= Len(url) => url[e] \notin chars) <=> After(url, pos, chars) = e
  <2>1. e \in pos..(Len(url) + 1) /\ pos \in 1..(Len(url) + 1)
    OBVIOUS
  <2> HIDE DEF chars
  <2> QED
    BY <2>1, AfterUnique
<1> QED
  BY <1>2, <1>3, <1>4

\* Where a node ends a token is where the token takes no more, if it takes anything.
LEMMA TokenTaken ==
  ASSUME NEW url \in Seq(STRING), NEW pos \in 1..Len(url), NEW e \in (pos + 1)..(Len(url) + 1),
         NEW token
  PROVE  Takes(token, url, pos, e) <=> NodeEnd(NodeFor(token), url, pos) = e
<1>1. CASE token \in ParamTypes
  <2>1. NodeEnd(NodeFor(token), url, pos) = ParamEnd(token, url, pos)
    <3>1. NodeFor(token).param = token
      BY <1>1 DEF NodeFor, EmptyNode
    <3>2. token # "none"
      BY <1>1 DEF ParamTypes
    <3> QED
      BY <3>1, <3>2 DEF NodeEnd
  <2>2. CASE token = "<int>"
    <3>1. Takes(token, url, pos, e) <=>
            /\ IsNumeral(Text(url, pos, e), Signs)
            /\ \A f \in (e + 1)..(Len(url) + 1) : ~IsNumeral(Text(url, pos, f), Signs)
            /\ Len(Unsigned(Text(url, pos, e), Signs)) <= MaxDigits
      BY <1>1, <2>2 DEF Takes, Spells
    <3>2. ParamEnd(token, url, pos) = NumeralEnd(url, pos, Signs)
      BY <2>2 DEF ParamEnd
    <3> QED
      BY <2>1, <3>1, <3>2, NumeralTaken
  <2>3. CASE token = "<uint>"
    <3>1. Takes(token, url, pos, e) <=>
            /\ IsNumeral(Text(url, pos, e), {"+"})
            /\ \A f \in (e + 1)..(Len(url) + 1) : ~IsNumeral(Text(url, pos, f), {"+"})
            /\ Len(Unsigned(Text(url, pos, e), Signs)) <= MaxDigits
      BY <1>1, <2>3 DEF Takes, Spells
    <3>2. ParamEnd(token, url, pos) = NumeralEnd(url, pos, {"+"})
      BY <2>3 DEF ParamEnd
    <3>3. {"+"} \subseteq Signs
      BY DEF Signs
    <3> QED
      BY <2>1, <3>1, <3>2, <3>3, NumeralTaken
  <2>4. CASE token = "<double>"
    <3>1. Takes(token, url, pos, e) <=>
            /\ IsDecimal(Text(url, pos, e))
            /\ \A f \in (e + 1)..(Len(url) + 1) : ~IsDecimal(Text(url, pos, f))
      BY <1>1, <2>4 DEF Takes, Spells
    <3>2. ParamEnd(token, url, pos) = DecimalEnd(url, pos)
      BY <2>4 DEF ParamEnd
    <3> QED
      BY <2>1, <3>1, <3>2, DecimalTaken
  <2>5. CASE token = "<string>"
    <3>1. ParamEnd(token, url, pos) = After(url, pos, ToSet(url) \ {"/"})
      BY <2>5 DEF ParamEnd
    <3> QED
      BY <2>1, <2>5, <3>1, StringTaken
  <2>6. CASE token = "<path>"
    <3>1. ParamEnd(token, url, pos) = Len(url) + 1
      BY <2>6 DEF ParamEnd
    <3>2. \A f \in (pos + 1)..(Len(url) + 1) : Spells(token, Text(url, pos, f))
      <4> TAKE f \in (pos + 1)..(Len(url) + 1)
      <4>1. Text(url, pos, f) # <<>>
        BY TextEmpty
      <4> QED
        BY <2>6, <4>1 DEF Spells
    <3>3. Takes(token, url, pos, e) <=> (e + 1)..(Len(url) + 1) = {}
      <4>1. \A f \in (e + 1)..(Len(url) + 1) : f \in (pos + 1)..(Len(url) + 1)
        OBVIOUS
      <4>2. token \notin {"<int>", "<uint>"}
        BY <2>6
      <4> QED
        BY <1>1, <3>2, <4>1, <4>2 DEF Takes
    <3>4. (e + 1)..(Len(url) + 1) = {} <=> e = Len(url) + 1
      <4>1. e # Len(url) + 1 => e + 1 \in (e + 1)..(Len(url) + 1)
        OBVIOUS
      <4>2. \A f \in (e + 1)..(Len(url) + 1) : e # Len(url) + 1
        OBVIOUS
      <4> QED
        BY <4>1, <4>2
    <3> QED
      BY <2>1, <3>1, <3>3, <3>4
  <2> QED
    BY <1>1, <2>2, <2>3, <2>4, <2>5, <2>6 DEF ParamTypes
<1>2. CASE token \notin ParamTypes
  <2>1. NodeFor(token).key = <<token>> /\ NodeFor(token).param = "none"
    BY <1>2 DEF NodeFor, EmptyNode
  <2>2. Spells(token, Text(url, pos, e)) <=> Text(url, pos, e) = <<token>>
    BY <1>2 DEF Spells, ParamTypes
  <2>3. Takes(token, url, pos, e) <=> Text(url, pos, e) = <<token>>
    BY <1>2, <2>2 DEF Takes, ParamTypes
  <2>4. SubSeq(url, pos, pos) = <<url[pos]>>
    BY OneOf
  <2>5. Text(url, pos, e) = <<token>> <=> e = pos + 1 /\ SubSeq(url, pos, pos) = <<token>>
    <3>1. Len(Text(url, pos, e)) = e - pos
      <4>1. pos \in 1..(Len(url) + 1) /\ e \in pos..(Len(url) + 1)
        OBVIOUS
      <4> QED
        BY <4>1, TextIs
    <3>2. Text(url, pos, e) = <<token>> => e = pos + 1
      BY <3>1
    <3>3. e = pos + 1 => Text(url, pos, e) = SubSeq(url, pos, pos)
      BY DEF Text
    <3> QED
      BY <3>2, <3>3
  <2>6. NodeEnd(NodeFor(token), url, pos)
          = IF SubSeq(url, pos, pos) = <<token>> THEN pos + 1 ELSE pos
    <3>1. Len(<<token>>) = 1 /\ (pos + 1) - 1 = pos /\ pos <= Len(url)
      OBVIOUS
    <3> QED
      BY <2>1, <3>1 DEF NodeEnd
  <2> DEFINE matches == SubSeq(url, pos, pos) = <<token>>
  <2>7. (IF matches THEN pos + 1 ELSE pos) = e <=> e = pos + 1 /\ matches
    <3> HIDE DEF matches
    <3> QED
      OBVIOUS
  <2> QED
    BY <2>3, <2>5, <2>6, <2>7, Zenon
<1> QED
  BY <1>1, <1>2

\* A node takes a text from pos on, or nothing.
LEMMA NodeEndRange ==
  ASSUME NEW url \in Seq(STRING), NEW pos \in 1..Len(url), NEW node,
         node.param \in ParamTypes \cup {"none"}, node.key \in Seq(STRING)
  PROVE  NodeEnd(node, url, pos) \in pos..(Len(url) + 1)
<1>1. pos \in 1..(Len(url) + 1)
  OBVIOUS
<1>2. ASSUME NEW signs PROVE NumeralEnd(url, pos, signs) \in pos..(Len(url) + 1)
  <2> DEFINE d == Start(url, pos, signs)
  <2>1. d \in pos..(pos + 1)
    BY DEF Start
  <2>2. After(url, d, Digits) \in d..(Len(url) + 1)
    BY <2>1, AfterIs
  <2> QED
    BY <2>1, <2>2 DEF NumeralEnd, Start
<1>3. DecimalEnd(url, pos) \in pos..(Len(url) + 1)
  <2> DEFINE d == Start(url, pos, Signs)
             a == After(url, d, Digits)
  <2>1. d \in pos..(pos + 1)
    BY DEF Start
  <2>2. a \in d..(Len(url) + 1)
    BY <2>1, AfterIs
  <2>3. CharAt(url, a) = "." => After(url, a + 1, Digits) \in (a + 1)..(Len(url) + 1)
    <3>1. CharAt(url, a) = "." => a <= Len(url)
      BY DEF CharAt
    <3>2. a <= Len(url) => a + 1 \in 1..(Len(url) + 1)
      BY <2>1, <2>2
    <3> HIDE DEF a
    <3> QED
      BY <3>1, <3>2, AfterIs
  <2>4. DecimalEnd(url, pos) \in {a, After(url, a + 1, Digits), pos}
        /\ (DecimalEnd(url, pos) = After(url, a + 1, Digits) => 
               CharAt(url, a) = "." \/ DecimalEnd(url, pos) \in {a, pos})
    BY DEF DecimalEnd, Start
  <2> HIDE DEF a, d
  <2> QED
    BY <2>1, <2>2, <2>3, <2>4
<1>4. CASE node.param \in ParamTypes
  <2>1. NodeEnd(node, url, pos) = ParamEnd(node.param, url, pos)
    BY <1>4 DEF NodeEnd, ParamTypes
  <2>2. /\ node.param = "<int>" => ParamEnd(node.param, url, pos) = NumeralEnd(url, pos, Signs)
        /\ node.param = "<uint>" => ParamEnd(node.param, url, pos) = NumeralEnd(url, pos, {"+"})
        /\ node.param = "<double>" => ParamEnd(node.param, url, pos) = DecimalEnd(url, pos)
        /\ node.param = "<string>" =>
             ParamEnd(node.param, url, pos) = After(url, pos, ToSet(url) \ {"/"})
        /\ node.param = "<path>" => ParamEnd(node.param, url, pos) = Len(url) + 1
    BY DEF ParamEnd
  <2>3. After(url, pos, ToSet(url) \ {"/"}) \in pos..(Len(url) + 1)
    BY <1>1, AfterIs
  <2> QED
    BY <1>2, <1>3, <1>4, <2>1, <2>2, <2>3 DEF ParamTypes
<1>5. CASE node.param = "none"
  <2>1. Len(node.key) \in Nat
    OBVIOUS
  <2> QED
    BY <1>5, <2>1 DEF NodeEnd
<1> QED
  BY <1>4, <1>5

-------------------------------------------------------------------------------
(* The recursive definitions: there is a function as each of them says.     *)

HasNodes(t) ==
  \A p \in DOMAIN t : /\ t[p].param \in ParamTypes \cup {"none"}
                      /\ t[p].key \in Seq(STRING)
                      /\ t[p].children \in Seq(DOMAIN t)

\* f is what is found from the k-th character on.
FindsFrom(t, url, k, f) ==
  f = [pos \in k..(Len(url) + 1) |-> [p \in DOMAIN t |-> FindAt(t, url, p, pos, f)]]

\* What is found from pos on rests on what is found further on.
LEMMA FindAtRests ==
  ASSUME NEW t, HasNodes(t), NEW url \in Seq(STRING), NEW p \in DOMAIN t,
         NEW pos \in 1..(Len(url) + 1), NEW f, NEW g,
         \A e \in (pos + 1)..(Len(url) + 1) : f[e] = g[e]
  PROVE  FindAt(t, url, p, pos, f) = FindAt(t, url, p, pos, g)
<1>1. CASE pos > Len(url)
  BY <1>1 DEF FindAt
<1>2. CASE pos <= Len(url)
  <2>1. pos \in 1..Len(url)
    BY <1>2
  <2>2. \A c \in DOMAIN t : Through(t, url, c, pos, f) = Through(t, url, c, pos, g)
    <3> TAKE c \in DOMAIN t
    <3>1. NodeEnd(t[c], url, pos) \in pos..(Len(url) + 1)
      BY <2>1, NodeEndRange DEF HasNodes
    <3>2. CASE NodeEnd(t[c], url, pos) = pos
      BY <3>2 DEF Through
    <3>3. CASE NodeEnd(t[c], url, pos) # pos
      <4>1. NodeEnd(t[c], url, pos) \in (pos + 1)..(Len(url) + 1)
        BY <3>1, <3>3
      <4>2. f[NodeEnd(t[c], url, pos)] = g[NodeEnd(t[c], url, pos)]
        BY <4>1
      <4> QED
        BY <4>2 DEF Through
    <3> QED
      BY <3>2, <3>3
  <2>3. \A i \in DOMAIN t[p].children : t[p].children[i] \in DOMAIN t
    BY DEF HasNodes
  <2>4. {<<i, Through(t, url, t[p].children[i], pos, f)>> : i \in DOMAIN t[p].children}
          = {<<i, Through(t, url, t[p].children[i], pos, g)>> : i \in DOMAIN t[p].children}
    BY <2>2, <2>3
  <2> QED
    BY <2>4 DEF FindAt
<1> QED
  BY <1>1, <1>2

LEMMA FindExists ==
  ASSUME NEW t, HasNodes(t), NEW url \in Seq(STRING), NEW k \in 1..(Len(url) + 1)
  PROVE  \E f : FindsFrom(t, url, k, f)
<1> DEFINE n == Len(url) + 1
           None == {j \in 1..n : ~\E f : FindsFrom(t, url, j, f)}
<1>1. SUFFICES ASSUME None # {} PROVE FALSE
  OBVIOUS
<1>2. PICK j \in None : \A x \in None : x <= j
  <2>1. None \subseteq 0..n /\ n \in Nat
    OBVIOUS
  <2> HIDE DEF None, n
  <2> QED
    BY <1>1, <2>1, Greatest
<1>3. PICK g : j = n \/ FindsFrom(t, url, j + 1, g)
  <2>1. j # n => j + 1 \in 1..n /\ j + 1 \notin None
    BY <1>2
  <2> QED
    BY <2>1
<1>4. PICK h : h = [pos \in j..n |-> IF pos = j THEN [p \in DOMAIN t |-> FindAt(t, url, p, j, g)]
                                     ELSE g[pos]]
  OBVIOUS
<1>5. \A pos \in (j + 1)..n : h[pos] = g[pos]
  BY <1>4
<1>6. ASSUME NEW pos \in j..n
      PROVE  h[pos] = [p \in DOMAIN t |-> FindAt(t, url, p, pos, h)]
  <2>1. \A p \in DOMAIN t : FindAt(t, url, p, pos, h) = FindAt(t, url, p, pos, g)
    <3>1. pos \in 1..(Len(url) + 1) /\ \A e \in (pos + 1)..(Len(url) + 1) : h[e] = g[e]
      BY <1>2, <1>5
    <3> QED
      BY <3>1, FindAtRests
  <2>2. h[pos] = [p \in DOMAIN t |-> FindAt(t, url, p, pos, g)]
    <3>1. CASE pos = j
      BY <1>4, <3>1
    <3>2. CASE pos # j
      <4>1. pos \in (j + 1)..n /\ FindsFrom(t, url, j + 1, g)
        BY <1>2, <1>3, <3>2
      <4>2. g[pos] = [p \in DOMAIN t |-> FindAt(t, url, p, pos, g)]
        BY <4>1 DEF FindsFrom
      <4> QED
        BY <1>5, <4>1, <4>2
    <3> QED
      BY <3>1, <3>2
  <2> QED
    BY <2>1, <2>2
<1>7. FindsFrom(t, url, j, h)
  <2>1. DOMAIN h = j..n /\ h = [pos \in j..n |-> h[pos]]
    BY <1>4
  <2> QED
    BY <1>6, <2>1 DEF FindsFrom
<1> QED
  BY <1>2, <1>7

LEMMA FindIs ==
  ASSUME NEW t, HasNodes(t), NEW url \in Seq(STRING)
  PROVE  \E f : FindsFrom(t, url, 1, f) /\ Find(t, url) = f[1][<<>>]
<1>1. \E f : f = [pos \in 1..(Len(url) + 1) |-> [p \in DOMAIN t |-> FindAt(t, url, p, pos, f)]]
  <2>1. PICK f : FindsFrom(t, url, 1, f)
    <3>1. 1 \in 1..(Len(url) + 1)
      OBVIOUS
    <3> QED
      BY <3>1, FindExists
  <2> QED
    BY <2>1 DEF FindsFrom
<1>2. Find(t, url) =
        (CHOOSE f : f = [pos \in 1..(Len(url) + 1) |->
                            [p \in DOMAIN t |-> FindAt(t, url, p, pos, f)]])[1][<<>>]
  BY Zenon DEF Find
<1> QED
  BY <1>1, <1>2 DEF FindsFrom

\* f is what fits from the k-th character on.
FitsAfter(path, url, k, f) ==
  f = [pos \in k..(Len(url) + 1) |->
         [i \in 1..(Len(path) + 1) |-> FitsFrom(path, url, i, pos, f)]]

LEMMA FitsFromRests ==
  ASSUME NEW path, NEW url \in Seq(STRING), NEW i, NEW pos \in 1..(Len(url) + 1), NEW f, NEW g,
         \A e \in (pos + 1)..(Len(url) + 1) : f[e] = g[e]
  PROVE  FitsFrom(path, url, i, pos, f) = FitsFrom(path, url, i, pos, g)
<1> DEFINE ends == {e \in (pos + 1)..(Len(url) + 1) : Takes(path[i], url, pos, e)}
<1>1. \A e \in ends : f[e] = g[e]
  OBVIOUS
<1> HIDE DEF ends
<1>2. {f[e][i + 1] : e \in ends} = {g[e][i + 1] : e \in ends}
  BY <1>1
<1>3. {{<<<<path[i], Text(url, pos, e)>>>> \o p : p \in f[e][i + 1]} : e \in ends}
        = {{<<<<path[i], Text(url, pos, e)>>>> \o p : p \in g[e][i + 1]} : e \in ends}
  BY <1>1
<1> QED
  BY <1>2, <1>3 DEF FitsFrom, ends

LEMMA FitsExists ==
  ASSUME NEW path \in Seq(STRING), NEW url \in Seq(STRING), NEW k \in 1..(Len(url) + 1)
  PROVE  \E f : FitsAfter(path, url, k, f)
<1> DEFINE n == Len(url) + 1
           None == {j \in 1..n : ~\E f : FitsAfter(path, url, j, f)}
<1>1. SUFFICES ASSUME None # {} PROVE FALSE
  OBVIOUS
<1>2. PICK j \in None : \A x \in None : x <= j
  <2>1. None \subseteq 0..n /\ n \in Nat
    OBVIOUS
  <2> HIDE DEF None, n
  <2> QED
    BY <1>1, <2>1, Greatest
<1>3. PICK g : j = n \/ FitsAfter(path, url, j + 1, g)
  <2>1. j # n => j + 1 \in 1..n /\ j + 1 \notin None
    BY <1>2
  <2> QED
    BY <2>1
<1>4. PICK h : h = [pos \in j..n |->
                      IF pos = j THEN [i \in 1..(Len(path) + 1) |-> FitsFrom(path, url, i, j, g)]
                                 ELSE g[pos]]
  OBVIOUS
<1>5. \A pos \in (j + 1)..n : h[pos] = g[pos]
  BY <1>4
<1>6. ASSUME NEW pos \in j..n
      PROVE  h[pos] = [i \in 1..(Len(path) + 1) |-> FitsFrom(path, url, i, pos, h)]
  <2>1. \A i \in 1..(Len(path) + 1) :
          FitsFrom(path, url, i, pos, h) = FitsFrom(path, url, i, pos, g)
    <3>1. pos \in 1..(Len(url) + 1) /\ \A e \in (pos + 1)..(Len(url) + 1) : h[e] = g[e]
      BY <1>2, <1>5
    <3> QED
      BY <3>1, FitsFromRests
  <2>2. h[pos] = [i \in 1..(Len(path) + 1) |-> FitsFrom(path, url, i, pos, g)]
    <3>1. CASE pos = j
      BY <1>4, <3>1
    <3>2. CASE pos # j
      <4>1. pos \in (j + 1)..n /\ FitsAfter(path, url, j + 1, g)
        BY <1>2, <1>3, <3>2
      <4>2. g[pos] = [i \in 1..(Len(path) + 1) |-> FitsFrom(path, url, i, pos, g)]
        BY <4>1 DEF FitsAfter
      <4> QED
        BY <1>5, <4>1, <4>2
    <3> QED
      BY <3>1, <3>2
  <2> QED
    BY <2>1, <2>2
<1>7. FitsAfter(path, url, j, h)
  <2>1. DOMAIN h = j..n /\ h = [pos \in j..n |-> h[pos]]
    BY <1>4
  <2> QED
    BY <1>6, <2>1 DEF FitsAfter
<1> QED
  BY <1>2, <1>7

\* What of the path, from its i-th token on, fits the URL from pos on.
FitsAt(path, url, i, pos) == (CHOOSE f : FitsAfter(path, url, 1, f))[pos][i]

LEMMA FitsIs ==
  ASSUME NEW path \in Seq(STRING), NEW url \in Seq(STRING)
  PROVE  Fits(path, url) = FitsAt(path, url, 1, 1)
  BY Zenon DEF Fits, FitsAt, FitsAfter

\* The i-th token takes some text at pos, and the tokens after it fit the rest.
FitsHere(path, url, i, pos, params) ==
  \E e \in (pos + 1)..(Len(url) + 1) :
    /\ Takes(path[i], url, pos, e)
    /\ \E rest \in FitsAt(path, url, i + 1, e) :
         params = IF path[i] \in ParamTypes
                  THEN <<<<path[i], Text(url, pos, e)>>>> \o rest ELSE rest

LEMMA FitsStep ==
  ASSUME NEW path \in Seq(STRING), NEW url \in Seq(STRING),
         NEW i \in 1..(Len(path) + 1), NEW pos \in 1..(Len(url) + 1)
  PROVE  /\ i = Len(path) + 1 =>
              FitsAt(path, url, i, pos) = IF pos = Len(url) + 1 THEN {<<>>} ELSE {}
         /\ i <= Len(path) => \A params :
              params \in FitsAt(path, url, i, pos) <=> FitsHere(path, url, i, pos, params)
<1> DEFINE f == CHOOSE g : FitsAfter(path, url, 1, g)
<1>1. FitsAfter(path, url, 1, f)
  <2>1. 1 \in 1..(Len(url) + 1)
    OBVIOUS
  <2>2. \E g : FitsAfter(path, url, 1, g)
    BY <2>1, FitsExists
  <2> QED
    BY <2>2
<1>2. \A j, e : FitsAt(path, url, j, e) = f[e][j]
  BY DEF FitsAt
<1> HIDE DEF f
<1>3. f[pos][i] = FitsFrom(path, url, i, pos, f)
  <2>1. f[pos] = [j \in 1..(Len(path) + 1) |-> FitsFrom(path, url, j, pos, f)]
    BY <1>1 DEF FitsAfter
  <2> QED
    BY <2>1
<1> DEFINE ends == {e \in (pos + 1)..(Len(url) + 1) : Takes(path[i], url, pos, e)}
<1>4. ASSUME i = Len(path) + 1
      PROVE  f[pos][i] = IF pos = Len(url) + 1 THEN {<<>>} ELSE {}
  <2>1. i > Len(path) /\ (pos > Len(url) <=> pos = Len(url) + 1)
    BY <1>4
  <2> QED
    BY <1>3, <2>1 DEF FitsFrom
<1>5. ASSUME i <= Len(path), path[i] \in ParamTypes, NEW params
      PROVE  params \in f[pos][i] <=>
               \E e \in (pos + 1)..(Len(url) + 1) :
                 Takes(path[i], url, pos, e) /\ \E rest \in f[e][i + 1] :
                    params = <<<<path[i], Text(url, pos, e)>>>> \o rest
  <2>1. ~(i > Len(path))
    BY <1>5
  <2> DEFINE With(e) == {<<<<path[i], Text(url, pos, e)>>>> \o p : p \in f[e][i + 1]}
  <2>2. f[pos][i] = UNION {With(e) : e \in ends}
    BY <1>3, <1>5, <2>1, Zenon DEF FitsFrom
  <2>3. \A e : params \in With(e) <=>
               \E rest \in f[e][i + 1] : params = <<<<path[i], Text(url, pos, e)>>>> \o rest
    OBVIOUS
  <2> HIDE DEF With
  <2>4. params \in UNION {With(e) : e \in ends} <=> \E e \in ends : params \in With(e)
    BY Zenon
  <2> QED
    BY <2>2, <2>3, <2>4
<1>6. ASSUME i <= Len(path), path[i] \notin ParamTypes, NEW params
      PROVE  params \in f[pos][i] <=>
               \E e \in (pos + 1)..(Len(url) + 1) :
                 Takes(path[i], url, pos, e) /\ params \in f[e][i + 1]
  <2>1. ~(i > Len(path))
    BY <1>6
  <2>2. f[pos][i] = UNION {f[e][i + 1] : e \in ends}
    BY <1>3, <1>6, <2>1, Zenon DEF FitsFrom
  <2> QED
    BY <2>2, Zenon
<1>7. CASE path[i] \in ParamTypes
  BY <1>2, <1>4, <1>5, <1>7 DEF FitsHere
<1>8. CASE path[i] \notin ParamTypes
  BY <1>2, <1>4, <1>6, <1>8 DEF FitsHere
<1> QED
  BY <1>7, <1>8

-------------------------------------------------------------------------------
(* A tree, and what is found in it.                                         *)

ChildrenOf(t, p) == {t[p].children[i] : i \in DOMAIN t[p].children}

Nodes(paths) == [rule : Nat, key : Seq(STRING), param : ParamTypes \cup {"none"},
                 children : Seq(paths)]

\* What every tree is like before it is compressed.
IsTree(t) ==
  /\ HasNodes(t) /\ \A p \in DOMAIN t : t[p] \in Nodes(DOMAIN t)
  /\ <<>> \in DOMAIN t /\ t[<<>>].param = "none"
  /\ \A p \in DOMAIN t : p \in Seq(STRING) /\ \A k \in 0..Len(p) : SubSeq(p, 1, k) \in DOMAIN t
  /\ \E n \in Nat : \A p \in DOMAIN t : Len(p) <= n
  /\ \A p \in DOMAIN t : t[p].rule \in Nat
  /\ \A p \in DOMAIN t \ {<<>>} : /\ t[p].key = NodeFor(Last(p)).key
                                  /\ t[p].param = NodeFor(Last(p)).param
  /\ \A p \in DOMAIN t : ChildrenOf(t, p) = {q \in DOMAIN t \ {<<>>} : Front(q) = p}
  /\ \A p \in DOMAIN t : \A i, j \in DOMAIN t[p].children :
       t[p].children[i] = t[p].children[j] => i = j

Extends(q, p) == Len(p) <= Len(q) /\ \A i \in 1..Len(p) : q[i] = p[i]

LEMMA PrefixIs ==
  ASSUME NEW q \in Seq(STRING), NEW k \in 0..Len(q)
  PROVE  /\ SubSeq(q, 1, k) \in Seq(STRING) /\ Len(SubSeq(q, 1, k)) = k
         /\ \A i \in 1..k : SubSeq(q, 1, k)[i] = q[i]
         /\ Extends(q, SubSeq(q, 1, k))
<1>1. \A i \in 1..k : q[i] \in STRING
  OBVIOUS
<1>2. 1 \in Int /\ k \in Int
  OBVIOUS
<1>3. /\ SubSeq(q, 1, k) \in Seq(STRING)
      /\ Len(SubSeq(q, 1, k)) = IF 1 <= k THEN k - 1 + 1 ELSE 0
      /\ \A i \in 1..(k - 1 + 1) : SubSeq(q, 1, k)[i] = q[1 + i - 1]
  BY <1>1, <1>2, SubSeqProperties
<1> QED
  BY <1>3 DEF Extends

LEMMA FrontIs ==
  ASSUME NEW q \in Seq(STRING), q # <<>>
  PROVE  /\ Front(q) \in Seq(STRING) /\ Len(Front(q)) = Len(q) - 1
         /\ \A i \in 1..(Len(q) - 1) : Front(q)[i] = q[i]
         /\ Last(q) = q[Len(q)] /\ Last(q) \in STRING /\ Len(q) \in Nat \ {0}
<1>1. Len(q) \in Nat \ {0}
  BY EmptySeq
<1>2. Len(q) - 1 \in 0..Len(q)
  BY <1>1
<1>3. q[Len(q)] \in STRING
  BY <1>1
<1> QED
  BY <1>1, <1>2, <1>3, PrefixIs DEF Front, Last

LEMMA ExtendsSame ==
  ASSUME NEW p \in Seq(STRING), NEW q \in Seq(STRING), Extends(q, p), Len(q) = Len(p)
  PROVE  q = p
  BY SeqEqual DEF Extends

\* The node below p on the way to q.
LEMMA NextNode ==
  ASSUME NEW p \in Seq(STRING), NEW q \in Seq(STRING), Extends(q, p), Len(p) < Len(q),
         NEW c, c = SubSeq(q, 1, Len(p) + 1)
  PROVE  /\ c \in Seq(STRING) /\ c # <<>> /\ Front(c) = p /\ Extends(q, c)
         /\ Len(c) = Len(p) + 1 /\ Last(c) = q[Len(p) + 1]
<1>1. Len(p) + 1 \in 0..Len(q)
  OBVIOUS
<1>2. /\ c \in Seq(STRING) /\ Len(c) = Len(p) + 1 /\ Extends(q, c)
      /\ \A i \in 1..(Len(p) + 1) : c[i] = q[i]
  BY <1>1, PrefixIs
<1>3. c # <<>>
  BY <1>2
<1>4. Front(c) = p
  <2>1. /\ Front(c) \in Seq(STRING) /\ Len(Front(c)) = Len(p)
        /\ \A i \in 1..Len(p) : Front(c)[i] = c[i]
    <3>1. Len(c) - 1 = Len(p)
      BY <1>2
    <3> QED
      BY <1>2, <1>3, <3>1, FrontIs
  <2>2. \A i \in 1..Len(p) : c[i] = p[i]
    BY <1>2 DEF Extends
  <2> QED
    BY <2>1, <2>2, SeqEqual
<1> QED
  BY <1>2, <1>3, <1>4 DEF Last

LEMMA BelowChild ==
  ASSUME NEW c \in Seq(STRING), c # <<>>, NEW q \in Seq(STRING), Extends(q, c)
  PROVE  /\ Extends(q, Front(c)) /\ Len(c) = Len(Front(c)) + 1 /\ Last(c) = q[Len(c)]
         /\ Len(c) \in 1..Len(q)
<1>1. /\ Front(c) \in Seq(STRING) /\ Len(Front(c)) = Len(c) - 1
      /\ \A i \in 1..(Len(c) - 1) : Front(c)[i] = c[i]
      /\ Last(c) = c[Len(c)] /\ Len(c) \in Nat \ {0}
  BY FrontIs
<1> QED
  BY <1>1 DEF Extends

\* update_found over all children keeps the lowest rule that was found, if any.
BestOf(I, r, b) ==
  \/ b = NoResult /\ \A i \in I : r[i].rule = 0
  \/ \E i \in I : /\ b = r[i] /\ r[i].rule # 0
                  /\ \A j \in I : r[j].rule # 0 => r[i].rule <= r[j].rule

LEMMA BestIs ==
  ASSUME NEW I, I \subseteq Nat, NEW r, \A i \in I : r[i].rule \in Nat,
         NEW b, b = Best({<<i, r[i]>> : i \in I})
  PROVE  BestOf(I, r, b)
<1> SUFFICES \/ b = NoResult /\ \A i \in I : r[i].rule = 0
             \/ \E i \in I : /\ b = r[i] /\ r[i].rule # 0
                             /\ \A j \in I : r[j].rule # 0 => r[i].rule <= r[j].rule
  BY Zenon DEF BestOf
<1> DEFINE found == {<<i, r[i]>> : i \in I}
           matched == {f \in found : f[2].rule # 0}
           lowest == {f \in matched : \A g \in matched : f[2].rule <= g[2].rule}
           first == CHOOSE f \in lowest : \A g \in lowest : f[1] <= g[1]
<1>1. \A f \in found : f[1] \in I /\ f[2] = r[f[1]] /\ f = <<f[1], r[f[1]]>>
  OBVIOUS
<1>2. \A i \in I : <<i, r[i]>> \in found
  OBVIOUS
<1>3. b = IF matched = {} THEN NoResult ELSE first[2]
  BY DEF Best
<1> HIDE DEF found
<1>4. CASE matched = {}
  <2>1. \A i \in I : r[i].rule = 0
    <3> TAKE i \in I
    <3>1. <<i, r[i]>> \in found /\ <<i, r[i]>> \notin matched
      BY <1>2, <1>4
    <3>2. <<i, r[i]>>[2].rule = 0
      BY <3>1
    <3> QED
      BY <3>2
  <2> QED
    BY <1>3, <1>4, <2>1
<1>5. CASE matched # {}
  <2>1. PICK x \in {f[2].rule : f \in matched} : \A y \in {f[2].rule : f \in matched} : x <= y
    <3>1. {f[2].rule : f \in matched} \subseteq Nat
      BY <1>1
    <3>2. {f[2].rule : f \in matched} # {}
      BY <1>5
    <3> HIDE DEF matched
    <3> QED
      BY <3>1, <3>2, Least
  <2>2. lowest # {}
    BY <2>1
  <2>3. PICK z \in {f[1] : f \in lowest} : \A y \in {f[1] : f \in lowest} : z <= y
    <3>1. {f[1] : f \in lowest} \subseteq Nat
      BY <1>1
    <3>2. {f[1] : f \in lowest} # {}
      BY <2>2
    <3> HIDE DEF lowest
    <3> QED
      BY <3>1, <3>2, Least
  <2>4. \E f \in lowest : \A g \in lowest : f[1] <= g[1]
    BY <2>3
  <2>5. first \in lowest
    BY <2>4
  <2> HIDE DEF first
  <2>6. /\ first[1] \in I /\ first[2] = r[first[1]] /\ first[2].rule # 0
        /\ \A g \in matched : first[2].rule <= g[2].rule
    BY <1>1, <2>5
  <2>7. ASSUME NEW j \in I, r[j].rule # 0 PROVE first[2].rule <= r[j].rule
    <3>1. <<j, r[j]>> \in matched
      BY <1>2, <2>7
    <3>2. first[2].rule <= <<j, r[j]>>[2].rule
      BY <2>6, <3>1
    <3> QED
      BY <3>2
  <2> QED
    BY <1>3, <1>5, <2>6, <2>7
<1> QED
  BY <1>4, <1>5

\* What comes of a child at c, where find is what is found below it.
Passes(c, url, pos, find, r) ==
  \/ /\ r = NoResult
     /\ \A e \in (pos + 1)..(Len(url) + 1) : ~Takes(Last(c), url, pos, e)
  \/ \E e \in (pos + 1)..(Len(url) + 1) :
       /\ Takes(Last(c), url, pos, e)
       /\ \A f \in (pos + 1)..(Len(url) + 1) : Takes(Last(c), url, pos, f) => f = e
       /\ r = IF Last(c) \in ParamTypes
              THEN [find[e][c] EXCEPT !.params = <<<<Last(c), Text(url, pos, e)>>>> \o @]
              ELSE find[e][c]

\* What a child finds: nothing, unless its token takes some text, and then what is found
\* below it, with that text if it is a parameter.
LEMMA ThroughIs ==
  ASSUME NEW t, IsTree(t), NEW url \in Seq(STRING), NEW pos \in 1..Len(url), NEW find,
         NEW c \in DOMAIN t, c # <<>>,
         NEW r, r = Through(t, url, c, pos, find)
  PROVE  Passes(c, url, pos, find, r)
<1> DEFINE e == NodeEnd(t[c], url, pos)
<1>2. /\ t[c].key = NodeFor(Last(c)).key
      /\ t[c].param = NodeFor(Last(c)).param
  BY DEF IsTree
<1>3. e = NodeEnd(NodeFor(Last(c)), url, pos)
  BY <1>2 DEF NodeEnd
<1>4. e \in pos..(Len(url) + 1)
  BY NodeEndRange DEF IsTree, HasNodes
<1>5. \A f \in (pos + 1)..(Len(url) + 1) : Takes(Last(c), url, pos, f) <=> e = f
  <2> TAKE f \in (pos + 1)..(Len(url) + 1)
  <2>1. Takes(Last(c), url, pos, f) <=> NodeEnd(NodeFor(Last(c)), url, pos) = f
    BY TokenTaken
  <2> HIDE DEF e
  <2> QED
    BY <1>3, <2>1
<1>6. /\ Last(c) \in ParamTypes => t[c].param = Last(c) /\ t[c].param # "none"
      /\ Last(c) \notin ParamTypes => t[c].param = "none"
  BY <1>2 DEF NodeFor, EmptyNode, ParamTypes
<1>7. CASE e = pos
  <2>1. r = NoResult
    BY <1>7 DEF Through
  <2>2. \A f \in (pos + 1)..(Len(url) + 1) : f # e
    BY <1>7
  <2> HIDE DEF e
  <2> QED
    BY <1>5, <2>1, <2>2 DEF Passes
<1>8. CASE e # pos
  <2>1. e \in (pos + 1)..(Len(url) + 1)
    BY <1>4, <1>8
  <2>2. r = IF t[c].param = "none" THEN find[e][c]
            ELSE [find[e][c] EXCEPT !.params = <<<<t[c].param, Text(url, pos, e)>>>> \o @]
    BY <1>8, Zenon DEF Through, Text
  <2>3. r = IF Last(c) \in ParamTypes
            THEN [find[e][c] EXCEPT !.params = <<<<Last(c), Text(url, pos, e)>>>> \o @]
            ELSE find[e][c]
    BY <1>6, <2>2, Zenon
  <2> HIDE DEF e
  <2> QED
    BY <1>5, <2>1, <2>3 DEF Passes
<1> QED
  BY <1>7, <1>8

\* What a lookup may find at a node is a rule.
Result == [rule : Nat, params : Seq(ParamTypes \X Seq(STRING))]

LEMMA ThroughTyped ==
  ASSUME NEW t, IsTree(t), NEW url \in Seq(STRING), NEW pos \in 1..Len(url), NEW find,
         NEW c \in DOMAIN t, c # <<>>,
         \A e \in (pos + 1)..(Len(url) + 1) : find[e][c] \in Result
  PROVE  Through(t, url, c, pos, find) \in Result
<1>0. PICK r : r = Through(t, url, c, pos, find)
  OBVIOUS
<1>1. NoResult \in Result
  BY DEF NoResult, Result
<1>2. ASSUME NEW e \in (pos + 1)..(Len(url) + 1), Last(c) \in ParamTypes
      PROVE  [find[e][c] EXCEPT !.params = <<<<Last(c), Text(url, pos, e)>>>> \o @] \in Result
  <2>1. find[e][c] \in Result
    OBVIOUS
  <2>2. Text(url, pos, e) \in Seq(STRING)
    <3>1. pos \in 1..(Len(url) + 1) /\ e \in pos..(Len(url) + 1)
      OBVIOUS
    <3> QED
      BY <3>1, TextIs
  <2>3. <<<<Last(c), Text(url, pos, e)>>>> \in Seq(ParamTypes \X Seq(STRING))
    BY <1>2, <2>2
  <2>4. <<<<Last(c), Text(url, pos, e)>>>> \o find[e][c].params
          \in Seq(ParamTypes \X Seq(STRING))
    <3>1. find[e][c].params \in Seq(ParamTypes \X Seq(STRING))
      BY <2>1 DEF Result
    <3> QED
      BY <2>3, <3>1, ConcatProperties
  <2> QED
    BY <2>1, <2>4 DEF Result
<1>3. \/ r = NoResult
      \/ \E e \in (pos + 1)..(Len(url) + 1) :
           r = IF Last(c) \in ParamTypes
               THEN [find[e][c] EXCEPT !.params = <<<<Last(c), Text(url, pos, e)>>>> \o @]
               ELSE find[e][c]
  <2>1. Passes(c, url, pos, find, r)
    BY <1>0, ThroughIs
  <2> QED
    BY <2>1, Zenon DEF Passes
<1> QED
  BY <1>0, <1>1, <1>2, <1>3

\* The rules below p that fit what is left of the URL, and what a lookup must find there:
\* the least of them, with its parameters.
RulesBelow(t, url, p, pos) ==
  {q \in DOMAIN t : t[q].rule # 0 /\ Extends(q, p) /\ FitsAt(q, url, Len(p) + 1, pos) # {}}

FindsLeast(t, url, p, pos, r) ==
  /\ r \in Result
  /\ r.rule # 0 => \E q \in RulesBelow(t, url, p, pos) :
       t[q].rule = r.rule /\ r.params \in FitsAt(q, url, Len(p) + 1, pos)
  /\ \A q \in RulesBelow(t, url, p, pos) : r.rule # 0 /\ r.rule <= t[q].rule

\* At the end of the URL only the rule of the node itself fits.
LEMMA FoundAtEnd ==
  ASSUME NEW t, IsTree(t), NEW url \in Seq(STRING), NEW p \in DOMAIN t, NEW pos,
         pos = Len(url) + 1, NEW find
  PROVE  FindsLeast(t, url, p, pos, FindAt(t, url, p, pos, find))
<1> DEFINE r == FindAt(t, url, p, pos, find)
<1>1. r = [rule |-> t[p].rule, params |-> <<>>]
  BY DEF FindAt
<1>2. p \in Seq(STRING) /\ t[p].rule \in Nat /\ pos \in 1..(Len(url) + 1)
  BY DEF IsTree
<1>3. FitsAt(p, url, Len(p) + 1, pos) = {<<>>}
  <2>1. Len(p) + 1 \in 1..(Len(p) + 1)
    BY <1>2
  <2> QED
    BY <1>2, <2>1, FitsStep
<1>4. ASSUME NEW q \in RulesBelow(t, url, p, pos) PROVE q = p
  <2>1. q \in DOMAIN t /\ Extends(q, p) /\ FitsAt(q, url, Len(p) + 1, pos) # {}
    BY DEF RulesBelow
  <2>2. q \in Seq(STRING) /\ Len(p) <= Len(q)
    BY <2>1 DEF IsTree, Extends
  <2>3. ASSUME Len(p) < Len(q) PROVE FALSE
    <3>1. Len(p) + 1 \in 1..(Len(q) + 1) /\ Len(p) + 1 <= Len(q)
      BY <1>2, <2>2, <2>3
    <3>2. PICK params : params \in FitsAt(q, url, Len(p) + 1, pos)
      BY <2>1
    <3>3. FitsHere(q, url, Len(p) + 1, pos, params)
      BY <1>2, <2>2, <3>1, <3>2, FitsStep
    <3>4. PICK e \in (pos + 1)..(Len(url) + 1) : TRUE
      BY <3>3 DEF FitsHere
    <3> QED
      BY <1>2, <3>4
  <2>4. Len(q) = Len(p)
    BY <1>2, <2>2, <2>3
  <2> QED
    BY <1>2, <2>1, <2>2, <2>4, ExtendsSame
<1>5. Extends(p, p)
  BY <1>2 DEF Extends
<1>6. <<>> \in Seq(ParamTypes \X Seq(STRING))
  BY EmptySeq
<1> HIDE DEF r
<1>7. r \in Result /\ r.rule = t[p].rule /\ r.params = <<>>
  BY <1>1, <1>2, <1>6 DEF Result
<1>8. t[p].rule # 0 => p \in RulesBelow(t, url, p, pos)
  BY <1>3, <1>5 DEF RulesBelow
<1>9. \A q \in RulesBelow(t, url, p, pos) : t[q].rule # 0
  BY DEF RulesBelow
<1> QED
  BY <1>2, <1>3, <1>4, <1>7, <1>8, <1>9 DEF FindsLeast, r

\* Before the end the node finds the least that its children find.
LEMMA FoundBefore ==
  ASSUME NEW t, IsTree(t), NEW url \in Seq(STRING), NEW p \in DOMAIN t, NEW pos \in 1..Len(url),
         NEW find,
         \A e \in (pos + 1)..(Len(url) + 1) : \A c \in DOMAIN t :
           FindsLeast(t, url, c, e, find[e][c])
  PROVE  FindsLeast(t, url, p, pos, FindAt(t, url, p, pos, find))
<1> DEFINE I == DOMAIN t[p].children
           n == Len(p) + 1
<1>1. PICK r : r = [i \in I |-> Through(t, url, t[p].children[i], pos, find)]
  OBVIOUS
<1>2. PICK b : b = FindAt(t, url, p, pos, find)
  OBVIOUS
<1>3. b = Best({<<i, r[i]>> : i \in I})
  <2>1. b = Best({<<i, Through(t, url, t[p].children[i], pos, find)>> : i \in I})
    BY <1>2 DEF FindAt
  <2>2. {<<i, r[i]>> : i \in I} = {<<i, Through(t, url, t[p].children[i], pos, find)>> : i \in I}
    BY <1>1
  <2> QED
    BY <2>1, <2>2, Zenon
<1>4. I \subseteq Nat
  <2>1. t[p].children \in Seq(DOMAIN t)
    BY DEF IsTree, HasNodes
  <2> QED
    BY <2>1
<1>5. \A i \in I : /\ t[p].children[i] \in DOMAIN t \ {<<>>} /\ Front(t[p].children[i]) = p
  BY DEF IsTree, ChildrenOf
<1>6. p \in Seq(STRING) /\ n \in Nat /\ pos \in 1..(Len(url) + 1)
      /\ \A q \in DOMAIN t : q \in Seq(STRING)
  BY DEF IsTree
<1>7. \A i \in I : r[i] \in Result
  <2> TAKE i \in I
  <2>1. \A e \in (pos + 1)..(Len(url) + 1) : find[e][t[p].children[i]] \in Result
    BY <1>5 DEF FindsLeast
  <2> QED
    BY <1>1, <1>5, <2>1, ThroughTyped
<1>8. \A i \in I : r[i].rule \in Nat
  BY <1>7 DEF Result
<1>9. \/ b = NoResult /\ \A i \in I : r[i].rule = 0
      \/ \E i \in I : /\ b = r[i] /\ r[i].rule # 0
                      /\ \A j \in I : r[j].rule # 0 => r[i].rule <= r[j].rule
  <2>1. BestOf(I, r, b)
    BY <1>3, <1>4, <1>8, BestIs, Zenon
  <2> QED
    BY <2>1, Zenon DEF BestOf
<1>10. \A i \in I : Passes(t[p].children[i], url, pos, find, r[i])
  BY <1>1, <1>5, ThroughIs
\* What a child finds is a rule below p that fits.
<1>11. ASSUME NEW i \in I, r[i].rule # 0
       PROVE  \E q \in RulesBelow(t, url, p, pos) :
                t[q].rule = r[i].rule /\ r[i].params \in FitsAt(q, url, n, pos)
  <2> DEFINE c == t[p].children[i]
  <2>1. c \in DOMAIN t /\ c \in Seq(STRING) /\ c # <<>> /\ Front(c) = p
    BY <1>5, <1>6
  <2>0. Passes(c, url, pos, find, r[i]) /\ r[i] # NoResult
    BY <1>10, <1>11 DEF NoResult
  <2> HIDE DEF c
  <2>2. PICK e \in (pos + 1)..(Len(url) + 1) :
          /\ Takes(Last(c), url, pos, e)
          /\ r[i] = IF Last(c) \in ParamTypes
                    THEN [find[e][c] EXCEPT !.params = <<<<Last(c), Text(url, pos, e)>>>> \o @]
                    ELSE find[e][c]
    BY <2>0, Zenon DEF Passes
  <2>3. FindsLeast(t, url, c, e, find[e][c])
    BY <2>1
  <2>4. find[e][c] \in Result
    BY <2>3 DEF FindsLeast
  <2>5. /\ r[i].rule = find[e][c].rule
        /\ r[i].params = IF Last(c) \in ParamTypes
                         THEN <<<<Last(c), Text(url, pos, e)>>>> \o find[e][c].params
                         ELSE find[e][c].params
    <3>1. CASE Last(c) \in ParamTypes
      <4>1. r[i] = [find[e][c] EXCEPT !.params = <<<<Last(c), Text(url, pos, e)>>>> \o @]
        BY <2>2, <3>1
      <4> QED
        BY <2>4, <3>1, <4>1 DEF Result
    <3>2. CASE Last(c) \notin ParamTypes
      BY <2>2, <3>2
    <3> QED
      BY <3>1, <3>2
  <2>6. PICK q \in RulesBelow(t, url, c, e) :
          t[q].rule = find[e][c].rule /\ find[e][c].params \in FitsAt(q, url, Len(c) + 1, e)
    BY <1>11, <2>3, <2>5 DEF FindsLeast
  <2>7. q \in DOMAIN t /\ q \in Seq(STRING) /\ Extends(q, c)
    BY <1>6, <2>6 DEF RulesBelow
  <2>8. /\ Extends(q, p) /\ Len(c) = n /\ Last(c) = q[n] /\ n \in 1..Len(q)
    BY <2>1, <2>7, BelowChild
  <2>9. r[i].params \in FitsAt(q, url, n, pos)
    <3>1. n \in 1..(Len(q) + 1) /\ n <= Len(q)
      BY <2>8
    <3>2. \E rest \in FitsAt(q, url, n + 1, e) :
            r[i].params = IF q[n] \in ParamTypes
                          THEN <<<<q[n], Text(url, pos, e)>>>> \o rest ELSE rest
      BY <2>5, <2>6, <2>8
    <3>3. Takes(q[n], url, pos, e)
      BY <2>2, <2>8
    <3>4. FitsHere(q, url, n, pos, r[i].params)
      BY <3>2, <3>3 DEF FitsHere
    <3> HIDE DEF n
    <3> QED
      BY <1>6, <2>7, <3>1, <3>4, FitsStep
  <2>10. q \in RulesBelow(t, url, p, pos)
    BY <1>11, <2>5, <2>6, <2>7, <2>8, <2>9 DEF RulesBelow
  <2> QED
    BY <2>5, <2>6, <2>9, <2>10
\* A rule below p that fits is below a child, which finds it or a lower one.
<1>12. ASSUME NEW q \in RulesBelow(t, url, p, pos)
       PROVE  \E i \in I : r[i].rule # 0 /\ r[i].rule <= t[q].rule
  <2>1. /\ q \in DOMAIN t /\ q \in Seq(STRING) /\ Extends(q, p) /\ t[q].rule # 0
        /\ FitsAt(q, url, n, pos) # {}
    BY <1>6 DEF RulesBelow
  <2>2. n \in 1..(Len(q) + 1)
    BY <1>6, <2>1 DEF Extends
  <2>3. n <= Len(q)
    <3>1. n = Len(q) + 1 => FitsAt(q, url, n, pos) = {}
      <4>1. pos # Len(url) + 1
        OBVIOUS
      <4> HIDE DEF n
      <4> QED
        BY <1>6, <2>1, <2>2, <4>1, FitsStep
    <3> QED
      BY <1>6, <2>1, <2>2, <3>1
  <2>4. PICK e \in (pos + 1)..(Len(url) + 1) :
          Takes(q[n], url, pos, e) /\ FitsAt(q, url, n + 1, e) # {}
    <3>1. PICK params : params \in FitsAt(q, url, n, pos)
      BY <2>1
    <3>2. FitsHere(q, url, n, pos, params)
      <4> HIDE DEF n
      <4> QED
        BY <1>6, <2>1, <2>2, <2>3, <3>1, FitsStep
    <3> HIDE DEF n
    <3> QED
      BY <3>2 DEF FitsHere
  <2> DEFINE c == SubSeq(q, 1, n)
  <2>5. c \in DOMAIN t
    <3>1. n \in 0..Len(q)
      BY <1>6, <2>3
    <3> QED
      BY <2>1, <3>1 DEF IsTree
  <2>6. /\ c \in Seq(STRING) /\ c # <<>> /\ Front(c) = p /\ Extends(q, c)
        /\ Len(c) = n /\ Last(c) = q[n]
    <3>1. Len(p) < Len(q)
      BY <1>6, <2>1, <2>3
    <3> QED
      BY <1>6, <2>1, <3>1, NextNode
  <2> HIDE DEF c
  <2>7. PICK i \in I : t[p].children[i] = c
    <3>1. c \in ChildrenOf(t, p)
      BY <2>5, <2>6 DEF IsTree
    <3> QED
      BY <3>1 DEF ChildrenOf
  <2>8. r[i] = IF Last(c) \in ParamTypes
               THEN [find[e][c] EXCEPT !.params = <<<<Last(c), Text(url, pos, e)>>>> \o @]
               ELSE find[e][c]
    <3>1. Passes(c, url, pos, find, r[i]) /\ Takes(Last(c), url, pos, e)
      BY <1>10, <2>4, <2>6, <2>7
    <3> QED
      BY <3>1 DEF Passes
  <2>9. FindsLeast(t, url, c, e, find[e][c])
    BY <2>5
  <2>10. r[i].rule = find[e][c].rule
    <3>1. find[e][c] \in Result
      BY <2>9 DEF FindsLeast
    <3> QED
      BY <2>8, <3>1 DEF Result
  <2>11. q \in RulesBelow(t, url, c, e)
    BY <2>1, <2>4, <2>6 DEF RulesBelow
  <2>12. r[i].rule # 0 /\ r[i].rule <= t[q].rule
    BY <2>9, <2>10, <2>11 DEF FindsLeast
  <2> QED
    BY <2>12
<1>13. \A q \in RulesBelow(t, url, p, pos) : t[q].rule \in Nat
  BY DEF RulesBelow, IsTree
<1>14. CASE b = NoResult /\ \A i \in I : r[i].rule = 0
  <2>1. b \in Result /\ b.rule = 0
    BY <1>14 DEF NoResult, Result
  <2> QED
    BY <1>2, <1>12, <1>14, <2>1 DEF FindsLeast
<1>15. ASSUME NEW i \in I, b = r[i], r[i].rule # 0,
              \A j \in I : r[j].rule # 0 => r[i].rule <= r[j].rule
       PROVE  FindsLeast(t, url, p, pos, b)
  <2>1. \A q \in RulesBelow(t, url, p, pos) : b.rule # 0 /\ b.rule <= t[q].rule
    <3> TAKE q \in RulesBelow(t, url, p, pos)
    <3>1. PICK j \in I : r[j].rule # 0 /\ r[j].rule <= t[q].rule
      BY <1>12
    <3> QED
      BY <1>8, <1>13, <1>15, <3>1
  <2> QED
    BY <1>7, <1>11, <1>15, <2>1 DEF FindsLeast
<1> QED
  BY <1>2, <1>9, <1>14, <1>15

\* What the lookup finds anywhere in a tree.
LEMMA FindsLeastRule ==
  ASSUME NEW t, IsTree(t), NEW url \in Seq(STRING), NEW find, FindsFrom(t, url, 1, find)
  PROVE  \A pos \in 1..(Len(url) + 1) : \A p \in DOMAIN t :
           FindsLeast(t, url, p, pos, find[pos][p])
<1> DEFINE n == Len(url) + 1
           Bad == {pos \in 1..n : \E p \in DOMAIN t : ~FindsLeast(t, url, p, pos, find[pos][p])}
<1>1. SUFFICES ASSUME Bad # {} PROVE FALSE
  OBVIOUS
<1>2. PICK pos \in Bad : \A x \in Bad : x <= pos
  <2>1. Bad \subseteq 0..n /\ n \in Nat
    OBVIOUS
  <2> HIDE DEF Bad, n
  <2> QED
    BY <1>1, <2>1, Greatest
<1>3. PICK p \in DOMAIN t : ~FindsLeast(t, url, p, pos, find[pos][p])
  BY <1>2
<1>4. pos \in 1..n /\ \A e \in (pos + 1)..n : e \notin Bad
  BY <1>2
<1>5. \A e \in (pos + 1)..n : \A c \in DOMAIN t : FindsLeast(t, url, c, e, find[e][c])
  BY <1>4
<1>6. find[pos][p] = FindAt(t, url, p, pos, find)
  <2>1. find[pos] = [c \in DOMAIN t |-> FindAt(t, url, c, pos, find)]
    BY <1>4 DEF FindsFrom
  <2> QED
    BY <2>1
<1> HIDE DEF Bad
<1>7. CASE pos = n
  BY <1>3, <1>6, <1>7, FoundAtEnd
<1>8. CASE pos # n
  <2>1. pos \in 1..Len(url)
    BY <1>4, <1>8
  <2> QED
    BY <1>3, <1>5, <1>6, <2>1, FoundBefore
<1> QED
  BY <1>7, <1>8

-------------------------------------------------------------------------------
(* The compressed tree.                                                     *)

LEMMA ChildIs ==
  ASSUME NEW t, IsTree(t), NEW p \in DOMAIN t, NEW i \in DOMAIN t[p].children,
         NEW c, c = t[p].children[i]
  PROVE  /\ c \in DOMAIN t /\ c # <<>> /\ Front(c) = p /\ c \in ChildrenOf(t, p)
         /\ Len(c) = Len(p) + 1 /\ Len(p) \in Nat
<1>1. c \in ChildrenOf(t, p)
  BY DEF ChildrenOf
<1>2. c \in DOMAIN t /\ c # <<>> /\ Front(c) = p
  BY <1>1 DEF IsTree
<1>3. c \in Seq(STRING) /\ p \in Seq(STRING)
  BY <1>2 DEF IsTree
<1>4. Len(Front(c)) = Len(c) - 1
  BY <1>2, <1>3, FrontIs
<1> QED
  BY <1>1, <1>2, <1>3, <1>4

\* A node that is merged with its only child, a text like itself.
Merged(t, p) == p # <<>> /\ t[p].children # <<>> /\ IsSimple(t, p)

LEMMA MergedIs ==
  ASSUME NEW t, IsTree(t), NEW p \in DOMAIN t, Merged(t, p), NEW c, c = t[p].children[1]
  PROVE  /\ 1 \in DOMAIN t[p].children /\ DOMAIN t[p].children = {1}
         /\ c \in DOMAIN t /\ c # <<>> /\ Len(c) = Len(p) + 1
         /\ t[c].param = "none" /\ t[p].rule = 0 /\ t[p].param = "none"
         /\ t[p].key = <<Last(p)>> /\ Last(p) \notin ParamTypes
<1>1. t[p].children \in Seq(DOMAIN t) /\ t[p].children # <<>> /\ Len(t[p].children) < 2
  BY DEF Merged, IsSimple, IsTree, HasNodes
<1>2. Len(t[p].children) = 1 /\ DOMAIN t[p].children = 1..Len(t[p].children)
  <2>1. Len(t[p].children) \in Nat \ {0}
    BY <1>1, EmptySeq
  <2>2. DOMAIN t[p].children = 1..Len(t[p].children)
    BY <1>1, LenProperties
  <2> DEFINE l == Len(t[p].children)
  <2>3. l \in Nat \ {0} /\ l < 2
    BY <1>1, <2>1
  <2> HIDE DEF l
  <2>4. l = 1
    BY <2>3
  <2> QED
    BY <2>2, <2>4 DEF l
<1>3. DOMAIN t[p].children = {1}
  BY <1>2
<1>4. /\ c \in DOMAIN t /\ c # <<>> /\ Len(c) = Len(p) + 1
  BY <1>3, ChildIs
<1>5. t[c].param = "none" /\ t[p].rule = 0 /\ t[p].param = "none"
  BY <1>3 DEF Merged, IsSimple
<1>6. t[p].key = NodeFor(Last(p)).key /\ NodeFor(Last(p)).param = "none"
  BY <1>5 DEF Merged, IsTree
<1>7. t[p].key = <<Last(p)>> /\ Last(p) \notin ParamTypes
  BY <1>6 DEF NodeFor, EmptyNode, ParamTypes
<1> QED
  BY <1>3, <1>4, <1>5, <1>7

LEMMA OptimizeNodeIs ==
  ASSUME NEW t, NEW p, p # <<>>, NEW f
  PROVE  OptimizeNode(t, p, f) = IF Merged(t, p)
                                 THEN [f[t[p].children[1]] EXCEPT !.key = t[p].key \o @]
                                 ELSE t[p]
<1>1. CASE Merged(t, p)
  BY <1>1, Zenon DEF OptimizeNode, Merged
<1>2. CASE ~Merged(t, p)
  BY <1>2, Zenon DEF OptimizeNode, Merged
<1> QED
  BY <1>1, <1>2

\* w is the compressed tree from depth k on.
OptimizesFrom(t, k, w) ==
  w = [p \in {q \in DOMAIN t : Len(q) >= k} |->
         IF p = <<>> THEN t[p] ELSE OptimizeNode(t, p, w)]

LEMMA OptimizeExists ==
  ASSUME NEW t, IsTree(t)
  PROVE  \E w : OptimizesFrom(t, 0, w)
<1>1. PICK n \in Nat : \A p \in DOMAIN t : Len(p) <= n
  BY DEF IsTree
<1>2. \A p \in DOMAIN t : Len(p) \in Nat
  BY DEF IsTree
<1> DEFINE None == {k \in 0..(n + 1) : ~\E w : OptimizesFrom(t, k, w)}
           At(k) == {q \in DOMAIN t : Len(q) >= k}
<1>3. SUFFICES ASSUME None # {} PROVE FALSE
  OBVIOUS
<1>4. PICK k \in None : \A x \in None : x <= k
  <2>1. None \subseteq 0..(n + 1) /\ n + 1 \in Nat
    OBVIOUS
  <2> HIDE DEF None
  <2> QED
    BY <1>3, <2>1, Greatest
<1>5. k # n + 1
  <2>1. At(n + 1) = {}
    BY <1>1, <1>2
  <2>2. PICK w : w = [p \in {} |-> 0]
    OBVIOUS
  <2>3. OptimizesFrom(t, n + 1, w)
    BY <2>1, <2>2 DEF OptimizesFrom
  <2> QED
    BY <1>4, <2>3
<1>6. k \in 0..n /\ k + 1 \in 0..(n + 1) /\ k + 1 \notin None
  BY <1>4, <1>5
<1>7. PICK g : OptimizesFrom(t, k + 1, g)
  BY <1>6
<1>8. PICK h : h = [p \in At(k) |-> IF Len(p) = k
                                    THEN IF p = <<>> THEN t[p] ELSE OptimizeNode(t, p, g)
                                    ELSE g[p]]
  OBVIOUS
<1>9. \A p \in At(k + 1) : h[p] = g[p]
  BY <1>2, <1>6, <1>8
<1>10. ASSUME NEW p \in At(k)
       PROVE  h[p] = IF p = <<>> THEN t[p] ELSE OptimizeNode(t, p, h)
  <2>1. h[p] = IF p = <<>> THEN t[p] ELSE OptimizeNode(t, p, g)
    <3>1. CASE Len(p) = k
      BY <1>8, <3>1
    <3>2. CASE Len(p) # k
      <4>1. p \in At(k + 1)
        BY <1>2, <1>6, <3>2
      <4>2. g[p] = IF p = <<>> THEN t[p] ELSE OptimizeNode(t, p, g)
        BY <1>7, <4>1 DEF OptimizesFrom
      <4> QED
        BY <1>9, <4>1, <4>2
    <3> QED
      BY <3>1, <3>2
  <2>2. p # <<>> => OptimizeNode(t, p, h) = OptimizeNode(t, p, g)
    <3>1. CASE p # <<>> /\ Merged(t, p)
      <4>1. PICK c : c = t[p].children[1]
        OBVIOUS
      <4>2. c \in DOMAIN t /\ Len(c) = Len(p) + 1
        BY <3>1, <4>1, MergedIs
      <4>3. c \in At(k + 1)
        BY <1>2, <1>6, <4>2
      <4>4. h[c] = g[c]
        BY <1>9, <4>3
      <4>5. \A f : OptimizeNode(t, p, f) = [f[c] EXCEPT !.key = t[p].key \o @]
        <5> TAKE f
        <5> QED
          BY <3>1, <4>1, OptimizeNodeIs, Zenon
      <4> QED
        BY <4>4, <4>5, Zenon
    <3>2. CASE p # <<>> /\ ~Merged(t, p)
      BY <3>2, OptimizeNodeIs
    <3> QED
      BY <3>1, <3>2
  <2> QED
    BY <2>1, <2>2
<1>11. OptimizesFrom(t, k, h)
  <2>1. h = [p \in At(k) |-> h[p]]
    BY <1>8
  <2>2. h = [p \in At(k) |-> IF p = <<>> THEN t[p] ELSE OptimizeNode(t, p, h)]
    BY <1>10, <2>1
  <2> QED
    BY <2>2 DEF OptimizesFrom
<1> QED
  BY <1>4, <1>11

LEMMA OptimizeIs ==
  ASSUME NEW t, IsTree(t), NEW w, w = Optimize(t)
  PROVE  /\ DOMAIN w = DOMAIN t
         /\ \A p \in DOMAIN t : w[p] = IF p = <<>> THEN t[p] ELSE OptimizeNode(t, p, w)
<1>1. {q \in DOMAIN t : Len(q) >= 0} = DOMAIN t
  <2>1. \A q \in DOMAIN t : Len(q) >= 0
    BY DEF IsTree
  <2> QED
    BY <2>1
<1>2. \E f : f = [p \in DOMAIN t |-> IF p = <<>> THEN t[p] ELSE OptimizeNode(t, p, f)]
  <2>1. PICK f : OptimizesFrom(t, 0, f)
    BY OptimizeExists
  <2> QED
    BY <1>1, <2>1 DEF OptimizesFrom
<1>3. w = CHOOSE f : f = [p \in DOMAIN t |-> IF p = <<>> THEN t[p] ELSE OptimizeNode(t, p, f)]
  BY Zenon DEF Optimize
<1>4. w = [p \in DOMAIN t |-> IF p = <<>> THEN t[p] ELSE OptimizeNode(t, p, w)]
  BY <1>2, <1>3
<1> QED
  BY <1>4

\* A property of the nodes that goes from the children of a node to the node is true of all.
LEMMA Upwards ==
  ASSUME NEW t, IsTree(t), NEW Good, NEW p \in DOMAIN t,
         \A q \in DOMAIN t : (\A c \in ChildrenOf(t, q) : c \in Good) => q \in Good
  PROVE  p \in Good
<1>1. PICK n \in Nat : \A q \in DOMAIN t : Len(q) <= n
  BY DEF IsTree
<1> DEFINE Bad == {Len(q) : q \in DOMAIN t \ Good}
<1>2. SUFFICES ASSUME p \notin Good PROVE FALSE
  OBVIOUS
<1>3. \A q \in DOMAIN t : Len(q) \in 0..n
  BY <1>1 DEF IsTree
<1>4. Bad \subseteq 0..n /\ Bad # {}
  BY <1>2, <1>3
<1>5. PICK x \in Bad : \A y \in Bad : y <= x
  <2> HIDE DEF Bad
  <2> QED
    BY <1>4, Greatest
<1>6. PICK q \in DOMAIN t \ Good : x = Len(q)
  BY <1>5
<1>7. ASSUME NEW c \in ChildrenOf(t, q) PROVE c \in Good
  <2>1. PICK i \in DOMAIN t[q].children : c = t[q].children[i]
    BY DEF ChildrenOf
  <2>2. c \in DOMAIN t /\ Len(c) = Len(q) + 1 /\ Len(q) \in Nat
    BY <1>6, <2>1, ChildIs
  <2> QED
    BY <1>5, <1>6, <2>2
<1> QED
  BY <1>6, <1>7

\* A compressed node: a node like those of the tree, and a text that is not empty.
CompressedNode(t, w, p) ==
  /\ w[p] \in Nodes(DOMAIN t) /\ w[p].param = t[p].param
  /\ w[p].param = "none" => w[p].key # <<>>

LEMMA OptimizeTyped ==
  ASSUME NEW t, IsTree(t), NEW w, w = Optimize(t)
  PROVE  /\ \A p \in DOMAIN t \ {<<>>} : CompressedNode(t, w, p)
         /\ w[<<>>] = t[<<>>] /\ HasNodes(w)
<1> DEFINE Good == {p \in DOMAIN t : p # <<>> => CompressedNode(t, w, p)}
<1>1. /\ DOMAIN w = DOMAIN t
      /\ \A p \in DOMAIN t : w[p] = IF p = <<>> THEN t[p] ELSE OptimizeNode(t, p, w)
  BY OptimizeIs
<1>2. ASSUME NEW p \in DOMAIN t, \A c \in ChildrenOf(t, p) : c \in Good, p # <<>>
      PROVE  CompressedNode(t, w, p)
  <2>1. p \in Seq(STRING) /\ Last(p) \in STRING /\ t[p] \in Nodes(DOMAIN t)
    BY <1>2, FrontIs DEF IsTree
  <2>2. CASE Merged(t, p)
    <3>1. PICK c : c = t[p].children[1]
      OBVIOUS
    <3>2. /\ c \in DOMAIN t /\ c # <<>> /\ t[c].param = "none" /\ t[p].param = "none"
          /\ t[p].key = <<Last(p)>> /\ 1 \in DOMAIN t[p].children
      BY <2>2, <3>1, MergedIs
    <3>3. CompressedNode(t, w, c)
      <4>1. c \in ChildrenOf(t, p)
        BY <3>1, <3>2 DEF ChildrenOf
      <4> QED
        BY <1>2, <3>2, <4>1
    <3>4. w[p] = [w[c] EXCEPT !.key = <<Last(p)>> \o @]
      <4>1. w[p] = OptimizeNode(t, p, w)
        BY <1>1, <1>2, Zenon
      <4>2. OptimizeNode(t, p, w) = [w[t[p].children[1]] EXCEPT !.key = t[p].key \o @]
        BY <1>2, <2>2, OptimizeNodeIs, Zenon
      <4> QED
        BY <3>1, <3>2, <4>1, <4>2, Zenon
    <3>5. w[c] \in Nodes(DOMAIN t) /\ w[c].param = "none" /\ w[c].key \in Seq(STRING)
      BY <3>2, <3>3 DEF CompressedNode, Nodes
    <3>6. <<Last(p)>> \o w[c].key \in Seq(STRING) /\ <<Last(p)>> \o w[c].key # <<>>
      BY <2>1, <3>5
    <3>7. w[p] \in Nodes(DOMAIN t) /\ w[p].param = "none" /\ w[p].key = <<Last(p)>> \o w[c].key
      BY <3>4, <3>5, <3>6 DEF Nodes
    <3> QED
      BY <3>2, <3>6, <3>7 DEF CompressedNode
  <2>3. CASE ~Merged(t, p)
    <3>1. w[p] = t[p]
      <4>1. w[p] = OptimizeNode(t, p, w)
        BY <1>1, <1>2, Zenon
      <4> QED
        BY <1>2, <2>3, <4>1, OptimizeNodeIs, Zenon
    <3>2. t[p].param = "none" => t[p].key # <<>>
      <4>1. t[p].key = NodeFor(Last(p)).key /\ t[p].param = NodeFor(Last(p)).param
        BY <1>2 DEF IsTree
      <4>2. NodeFor(Last(p)).param = "none" => NodeFor(Last(p)).key = <<Last(p)>>
        BY DEF NodeFor, EmptyNode, ParamTypes
      <4>3. <<Last(p)>> # <<>>
        OBVIOUS
      <4> QED
        BY <4>1, <4>2, <4>3, Zenon
    <3> QED
      BY <2>1, <3>1, <3>2 DEF CompressedNode
  <2> QED
    BY <2>2, <2>3
<1>3. \A p \in DOMAIN t : p \in Good
  <2>1. \A p \in DOMAIN t : (\A c \in ChildrenOf(t, p) : c \in Good) => p \in Good
    BY <1>2
  <2> HIDE DEF Good
  <2> QED
    BY <2>1, Upwards
<1>4. w[<<>>] = t[<<>>] /\ <<>> \in DOMAIN t
  BY <1>1 DEF IsTree
<1>5. \A p \in DOMAIN w : w[p] \in Nodes(DOMAIN w)
  BY <1>1, <1>3, <1>4 DEF CompressedNode, IsTree
<1> QED
  BY <1>3, <1>4, <1>5 DEF HasNodes, Nodes

\* A lookup that finds no rule finds nothing.
LEMMA FoundNone ==
  ASSUME NEW t, IsTree(t), NEW url \in Seq(STRING), NEW find, FindsFrom(t, url, 1, find),
         NEW p \in DOMAIN t, NEW pos \in 1..(Len(url) + 1), find[pos][p].rule = 0
  PROVE  find[pos][p] = NoResult
<1>1. find[pos][p] = FindAt(t, url, p, pos, find)
  <2>1. find[pos] = [c \in DOMAIN t |-> FindAt(t, url, c, pos, find)]
    BY DEF FindsFrom
  <2> QED
    BY <2>1
<1>2. CASE pos > Len(url)
  BY <1>1, <1>2 DEF FindAt, NoResult
<1>3. CASE pos <= Len(url)
  <2> DEFINE I == DOMAIN t[p].children
  <2>1. PICK r : r = [i \in I |-> Through(t, url, t[p].children[i], pos, find)]
    OBVIOUS
  <2>2. find[pos][p] = Best({<<i, r[i]>> : i \in I})
    <3>1. find[pos][p] = Best({<<i, Through(t, url, t[p].children[i], pos, find)>> : i \in I})
      BY <1>1, <1>3 DEF FindAt
    <3>2. {<<i, r[i]>> : i \in I} = {<<i, Through(t, url, t[p].children[i], pos, find)>> : i \in I}
      BY <2>1
    <3> QED
      BY <3>1, <3>2, Zenon
  <2>3. I \subseteq Nat /\ \A i \in I : t[p].children[i] \in DOMAIN t \ {<<>>}
    <3>1. t[p].children \in Seq(DOMAIN t)
      BY DEF IsTree, HasNodes
    <3> QED
      BY <3>1, ChildIs
  <2>4. \A i \in I : r[i].rule \in Nat
    <3> TAKE i \in I
    <3>1. \A e \in (pos + 1)..(Len(url) + 1) : \A c \in DOMAIN t : find[e][c] \in Result
      BY FindsLeastRule DEF FindsLeast
    <3>2. r[i] \in Result
      <4>1. pos \in 1..Len(url)
        BY <1>3
      <4> QED
        BY <2>1, <2>3, <3>1, <4>1, ThroughTyped
    <3> QED
      BY <3>2 DEF Result
  <2>5. PICK b : b = find[pos][p]
    OBVIOUS
  <2>6. b = Best({<<i, r[i]>> : i \in I})
    BY <2>2, <2>5
  <2> HIDE DEF I
  <2>7. \/ b = NoResult /\ \A i \in I : r[i].rule = 0
        \/ \E i \in I : /\ b = r[i] /\ r[i].rule # 0
                        /\ \A j \in I : r[j].rule # 0 => r[i].rule <= r[j].rule
    <3>1. I \subseteq Nat
      BY <2>3
    <3> QED
      <4>1. BestOf(I, r, b)
        BY <2>4, <2>6, <3>1, BestIs, Zenon
      <4> QED
        BY <4>1, Zenon DEF BestOf
  <2>8. b.rule = 0
    BY <2>5
  <2>9. b = NoResult
    BY <2>7, <2>8
  <2> QED
    BY <2>5, <2>9
<1> QED
  BY <1>2, <1>3

\* With a single child, what is found is what the child finds.
LEMMA BestOfOne ==
  ASSUME NEW r, r.rule \in Nat
  PROVE  Best({<<1, r>>}) = IF r.rule = 0 THEN NoResult ELSE r
<1>1. PICK f : f = [i \in {1} |-> r]
  OBVIOUS
<1>2. PICK b : b = Best({<<1, r>>})
  OBVIOUS
<1>3. PICK I : I = {1}
  OBVIOUS
<1>4. I \subseteq Nat /\ 1 \in I /\ \A i \in I : f[i] = r
  BY <1>1, <1>3
<1>5. {<<i, f[i]>> : i \in I} = {<<1, r>>}
  BY <1>1, <1>3
<1>6. b = Best({<<i, f[i]>> : i \in I})
  BY <1>2, <1>5, Zenon
<1>7. \/ b = NoResult /\ \A i \in I : f[i].rule = 0
      \/ \E i \in I : /\ b = f[i] /\ f[i].rule # 0
                      /\ \A j \in I : f[j].rule # 0 => f[i].rule <= f[j].rule
  <2>1. I \subseteq Nat
    BY <1>4
  <2>2. \A i \in I : f[i].rule \in Nat
    BY <1>4
  <2> QED
    <3>1. BestOf(I, f, b)
      BY <1>6, <2>1, <2>2, BestIs, Zenon
    <3> QED
      BY <3>1, Zenon DEF BestOf
<1> QED
  BY <1>2, <1>4, <1>7

\* Through a node that will be merged: its text, and then the child's.
LEMMA MergedFinds ==
  ASSUME NEW t, IsTree(t), NEW url \in Seq(STRING), NEW find, FindsFrom(t, url, 1, find),
         NEW p \in DOMAIN t, Merged(t, p), NEW c, c = t[p].children[1], NEW pos \in 1..Len(url)
  PROVE  Through(t, url, p, pos, find)
           = IF url[pos] = Last(p) /\ pos < Len(url) THEN Through(t, url, c, pos + 1, find)
             ELSE NoResult
<1>1. /\ DOMAIN t[p].children = {1} /\ c \in DOMAIN t /\ c # <<>>
      /\ t[c].param = "none" /\ t[p].rule = 0 /\ t[p].param = "none" /\ t[p].key = <<Last(p)>>
  BY MergedIs
<1>2. SubSeq(url, pos, (pos + 1) - 1) = <<url[pos]>>
  <2>1. (pos + 1) - 1 = pos
    OBVIOUS
  <2> QED
    BY <2>1, OneOf
<1>3. NodeEnd(t[p], url, pos) = IF url[pos] = Last(p) THEN pos + 1 ELSE pos
  <2>1. Len(<<Last(p)>>) = 1 /\ (pos + 1) - 1 <= Len(url)
    OBVIOUS
  <2>2. <<url[pos]>> = <<Last(p)>> <=> url[pos] = Last(p)
    OBVIOUS
  <2> QED
    BY <1>1, <1>2, <2>1, <2>2, Zenon DEF NodeEnd
<1>4. CASE url[pos] # Last(p)
  BY <1>3, <1>4 DEF Through
<1>5. CASE url[pos] = Last(p)
  <2>1. Through(t, url, p, pos, find) = find[pos + 1][p]
    BY <1>1, <1>3, <1>5 DEF Through
  <2>2. find[pos + 1][p] = FindAt(t, url, p, pos + 1, find)
    <3>1. find[pos + 1] = [q \in DOMAIN t |-> FindAt(t, url, q, pos + 1, find)]
      BY DEF FindsFrom
    <3> QED
      BY <3>1
  <2>3. CASE pos = Len(url)
    BY <1>1, <1>5, <2>1, <2>2, <2>3 DEF FindAt, NoResult
  <2>4. CASE pos < Len(url)
    <3>1. PICK r : r = Through(t, url, c, pos + 1, find)
      OBVIOUS
    <3>2. find[pos + 1][p] = Best({<<1, r>>})
      <4>1. find[pos + 1][p] = Best({<<i, Through(t, url, t[p].children[i], pos + 1, find)>> :
                                       i \in DOMAIN t[p].children})
        BY <2>2, <2>4 DEF FindAt
      <4>2. {<<i, Through(t, url, t[p].children[i], pos + 1, find)>> : i \in DOMAIN t[p].children}
              = {<<1, r>>}
        BY <1>1, <3>1
      <4> QED
        BY <4>1, <4>2, Zenon
    <3>3. r.rule = 0 => r = NoResult
      <4>1. NodeEnd(t[c], url, pos + 1) \in (pos + 1)..(Len(url) + 1)
        <5>1. pos + 1 \in 1..Len(url)
          BY <2>4
        <5>2. t[c].param \in ParamTypes \cup {"none"} /\ t[c].key \in Seq(STRING)
          BY <1>1 DEF IsTree, HasNodes
        <5> QED
          BY <5>1, <5>2, NodeEndRange
      <4>2. r = NoResult \/ r = find[NodeEnd(t[c], url, pos + 1)][c]
        BY <1>1, <3>1, Zenon DEF Through
      <4>3. NodeEnd(t[c], url, pos + 1) \in 1..(Len(url) + 1)
        BY <4>1
      <4> QED
        BY <1>1, <4>2, <4>3, FoundNone
    <3>4. r.rule \in Nat
      <4>1. \A e \in (pos + 2)..(Len(url) + 1) : find[e][c] \in Result
        BY <1>1, FindsLeastRule DEF FindsLeast
      <4>2. r \in Result
        BY <1>1, <2>4, <3>1, <4>1, ThroughTyped
      <4> QED
        BY <4>2 DEF Result
    <3> QED
      BY <1>5, <2>1, <2>4, <3>1, <3>2, <3>3, <3>4, BestOfOne
  <2> QED
    BY <2>3, <2>4
<1> QED
  BY <1>4, <1>5

LEMMA LongerText ==
  ASSUME NEW S, NEW x \in S, NEW y \in Seq(S), NEW z, z = <<x>> \o y
  PROVE  z \in Seq(S) /\ Len(z) = Len(y) + 1 /\ z[1] = x /\ \A i \in 1..Len(y) : z[i + 1] = y[i]
<1>1. PICK h : h = <<x>>
  OBVIOUS
<1>2. h \in Seq(S) /\ Len(h) = 1 /\ h[1] = x
  BY <1>1
<1>3. Len(y) \in Nat
  OBVIOUS
<1>4. z = h \o y
  BY <1>1
<1>5. /\ z \in Seq(S) /\ Len(z) = Len(h) + Len(y)
      /\ \A i \in 1..(Len(h) + Len(y)) : z[i] = IF i <= Len(h) THEN h[i] ELSE y[i - Len(h)]
  BY <1>2, <1>4, ConcatProperties
<1>6. z[1] = h[1]
  BY <1>2, <1>3, <1>5
<1>7. \A i \in 1..Len(y) : z[i + 1] = y[i]
  BY <1>2, <1>3, <1>5
<1> QED
  BY <1>2, <1>5, <1>6, <1>7

LEMMA SameHeads ==
  ASSUME NEW S, NEW s \in Seq(S), NEW u \in Seq(S), NEW a, NEW b
  PROVE  (<<a>> \o s = <<b>> \o u <=> a = b /\ s = u) /\ Len(<<a>> \o s) = Len(s) + 1
<1>1. PICK R : R = S \cup {a, b}
  OBVIOUS
<1>2. a \in R /\ b \in R /\ s \in Seq(R) /\ u \in Seq(R)
  BY <1>1
<1>3. ASSUME <<a>> \o s = <<b>> \o u PROVE a = b /\ s = u
  <2>1. PICK z : z = <<a>> \o s
    OBVIOUS
  <2>2. Len(z) = Len(s) + 1 /\ z[1] = a /\ \A i \in 1..Len(s) : z[i + 1] = s[i]
    BY <1>2, <2>1, LongerText
  <2>3. z = <<b>> \o u
    BY <1>3, <2>1
  <2>4. Len(z) = Len(u) + 1 /\ z[1] = b /\ \A i \in 1..Len(u) : z[i + 1] = u[i]
    BY <1>2, <2>3, LongerText
  <2>5. Len(s) = Len(u) /\ \A i \in 1..Len(s) : s[i] = u[i]
    BY <2>2, <2>4
  <2> QED
    BY <2>2, <2>4, <2>5, SeqEqual
<1>4. Len(<<a>> \o s) = Len(s) + 1
  <2>1. PICK z : z = <<a>> \o s
    OBVIOUS
  <2>2. Len(z) = Len(s) + 1
    BY <1>2, <2>1, LongerText
  <2> QED
    BY <2>1, <2>2
<1> QED
  BY <1>3, <1>4

\* A node that carries the text of another after one more character.
Prefixed(w, p, c, a, k) ==
  /\ w[c].key = k /\ w[c].param = "none" /\ w[p].param = "none" /\ w[p].key = <<a>> \o k
  /\ w[p].rule = w[c].rule /\ w[p].children = w[c].children

LEMMA CompressedFinds ==
  ASSUME NEW w, HasNodes(w), NEW url \in Seq(STRING), NEW find, FindsFrom(w, url, 1, find),
         NEW p \in DOMAIN w, NEW c \in DOMAIN w, NEW a, NEW k \in Seq(STRING),
         k # <<>>, Prefixed(w, p, c, a, k), NEW pos \in 1..Len(url)
  PROVE  Through(w, url, p, pos, find)
           = IF url[pos] = a /\ pos < Len(url) THEN Through(w, url, c, pos + 1, find)
             ELSE NoResult
<1>1. PICK l : l = Len(k)
  OBVIOUS
<1>2. l \in Nat \ {0} /\ Len(<<a>> \o k) = l + 1
  <2>1. l \in Nat \ {0}
    BY <1>1, EmptySeq
  <2>2. Len(<<a>> \o k) = Len(k) + 1
    BY SameHeads
  <2> QED
    BY <1>1, <2>1, <2>2
<1>3. PICK e \in Nat : e = pos + (l + 1)
  BY <1>2
<1>12. e > pos + 1 /\ e = (pos + 1) + l
  BY <1>2, <1>3
<1> DEFINE spelt == e - 1 <= Len(url) /\ SubSeq(url, pos + 1, e - 1) = k
<1>4. NodeEnd(w[c], url, pos + 1) = IF spelt THEN e ELSE pos + 1
  <2>1. w[c].key = k /\ w[c].param = "none"
    BY DEF Prefixed
  <2> QED
    BY <1>1, <1>12, <2>1, Zenon DEF NodeEnd
<1>5. NodeEnd(w[p], url, pos) = IF url[pos] = a /\ spelt THEN e ELSE pos
  <2>1. NodeEnd(w[p], url, pos)
          = IF e - 1 <= Len(url) /\ SubSeq(url, pos, e - 1) = <<a>> \o k THEN e ELSE pos
    <3>1. w[p].key = <<a>> \o k /\ w[p].param = "none"
      BY DEF Prefixed
    <3> QED
      BY <1>2, <1>3, <3>1, Zenon DEF NodeEnd
  <2>2. e - 1 <= Len(url) =>
          (SubSeq(url, pos, e - 1) = <<a>> \o k <=> url[pos] = a /\ SubSeq(url, pos + 1, e - 1) = k)
    <3> HAVE e - 1 <= Len(url)
    <3>1. SubSeq(url, pos, e - 1) = <<url[pos]>> \o SubSeq(url, pos + 1, e - 1)
      <4>1. e - 1 \in pos..Len(url)
        BY <1>12
      <4> QED
        BY <4>1, SubSeqRecursiveFirst
    <3>2. SubSeq(url, pos + 1, e - 1) \in Seq(STRING)
      <4>1. pos + 1 \in 1..(Len(url) + 1) /\ e \in (pos + 1)..(Len(url) + 1)
        BY <1>12
      <4> QED
        BY <4>1, TextIs DEF Text
    <3> QED
      <4>1. PICK v : v = SubSeq(url, pos + 1, e - 1)
        OBVIOUS
      <4>2. PICK h : h = url[pos]
        OBVIOUS
      <4>3. <<h>> \o v = <<a>> \o k <=> h = a /\ v = k
        <5>1. PICK S : S = STRING
          OBVIOUS
        <5>2. v \in Seq(S) /\ k \in Seq(S)
          BY <3>2, <4>1, <5>1
        <5> QED
          BY <5>2, SameHeads
      <4> QED
        <5>1. SubSeq(url, pos, e - 1) = <<h>> \o v
          BY <3>1, <4>1, <4>2, Zenon
        <5>2. CASE h = a /\ v = k
          BY <4>1, <4>2, <4>3, <5>1, <5>2
        <5>3. CASE ~(h = a /\ v = k)
          BY <4>1, <4>2, <4>3, <5>1, <5>3
        <5> QED
          BY <5>2, <5>3
  <2> QED
    BY <2>1, <2>2
<1>6. spelt => pos < Len(url)
  BY <1>12
<1>7. spelt => find[e][p] = find[e][c]
  <2> HAVE spelt
  <2>1. e \in 1..(Len(url) + 1)
    BY <1>12
  <2>2. find[e] = [q \in DOMAIN w |-> FindAt(w, url, q, e, find)]
    BY <2>1 DEF FindsFrom
  <2>3. FindAt(w, url, p, e, find) = FindAt(w, url, c, e, find)
    BY Zenon DEF FindAt, Prefixed
  <2> QED
    BY <2>2, <2>3
<1>8. Through(w, url, p, pos, find) = IF NodeEnd(w[p], url, pos) = pos THEN NoResult
                                      ELSE find[NodeEnd(w[p], url, pos)][p]
  BY Zenon DEF Through, Prefixed
<1>9. Through(w, url, c, pos + 1, find)
        = IF NodeEnd(w[c], url, pos + 1) = pos + 1 THEN NoResult
          ELSE find[NodeEnd(w[c], url, pos + 1)][c]
  BY Zenon DEF Through, Prefixed
<1> HIDE DEF spelt
<1>10. CASE spelt
  <2>1. e # pos /\ e # pos + 1
    BY <1>12
  <2>2. CASE url[pos] = a
    BY <1>4, <1>5, <1>6, <1>7, <1>8, <1>9, <1>10, <2>1, <2>2, Zenon
  <2>3. CASE url[pos] # a
    BY <1>5, <1>8, <2>3, Zenon
  <2> QED
    BY <2>2, <2>3
<1>11. CASE ~spelt
  BY <1>4, <1>5, <1>8, <1>9, <1>11, Zenon
<1> QED
  BY <1>10, <1>11

\* Compressing a tree does not change what is found in it.
THEOREM OptimizeFinds ==
  ASSUME NEW t, IsTree(t), NEW url \in Seq(STRING), NEW w, w = Optimize(t)
  PROVE  Find(w, url) = Find(t, url)
<1>1. /\ \A p \in DOMAIN t \ {<<>>} : CompressedNode(t, w, p)
      /\ w[<<>>] = t[<<>>] /\ HasNodes(w)
  BY OptimizeTyped
<1>2. /\ DOMAIN w = DOMAIN t /\ <<>> \in DOMAIN t
      /\ \A p \in DOMAIN t : w[p] = IF p = <<>> THEN t[p] ELSE OptimizeNode(t, p, w)
  BY OptimizeIs DEF IsTree
<1>3. PICK f : FindsFrom(t, url, 1, f) /\ Find(t, url) = f[1][<<>>]
  BY FindIs DEF IsTree
<1>4. PICK g : FindsFrom(w, url, 1, g) /\ Find(w, url) = g[1][<<>>]
  BY <1>1, FindIs
<1> DEFINE Same(p) == \A pos \in 1..Len(url) :
                        Through(w, url, p, pos, g) = Through(t, url, p, pos, f)
           Good == {p \in DOMAIN t : p # <<>> => Same(p)}
\* At a node that is not merged, whose children are as they should be.
<1>5. ASSUME NEW p \in DOMAIN t, \A c \in ChildrenOf(t, p) : c \in Good, w[p] = t[p],
             NEW pos \in 1..(Len(url) + 1)
      PROVE  g[pos][p] = f[pos][p]
  <2>1. f[pos][p] = FindAt(t, url, p, pos, f)
    <3>1. f[pos] = [c \in DOMAIN t |-> FindAt(t, url, c, pos, f)]
      BY <1>3 DEF FindsFrom
    <3> QED
      BY <3>1
  <2>2. g[pos][p] = FindAt(w, url, p, pos, g)
    <3>1. g[pos] = [c \in DOMAIN w |-> FindAt(w, url, c, pos, g)]
      BY <1>4 DEF FindsFrom
    <3> QED
      BY <1>2, <3>1
  <2>3. CASE pos > Len(url)
    BY <1>5, <2>1, <2>2, <2>3 DEF FindAt
  <2>4. CASE pos <= Len(url)
    <3>1. \A i \in DOMAIN t[p].children :
            Through(w, url, t[p].children[i], pos, g) = Through(t, url, t[p].children[i], pos, f)
      <4> TAKE i \in DOMAIN t[p].children
      <4>1. PICK c : c = t[p].children[i]
        OBVIOUS
      <4>2. c \in ChildrenOf(t, p) /\ c \in DOMAIN t /\ c # <<>>
        BY <4>1, ChildIs
      <4>3. Same(c)
        BY <1>5, <4>2
      <4>4. pos \in 1..Len(url)
        BY <2>4
      <4> QED
        BY <4>1, <4>3, <4>4
    <3>2. {<<i, Through(w, url, w[p].children[i], pos, g)>> : i \in DOMAIN w[p].children}
            = {<<i, Through(t, url, t[p].children[i], pos, f)>> : i \in DOMAIN t[p].children}
      <4> HIDE DEF Good
      <4> QED
        BY <1>5, <3>1
    <3>3. ~(pos > Len(url))
      BY <2>4
    <3> QED
      BY <2>1, <2>2, <3>2, <3>3, Zenon DEF FindAt
  <2> QED
    BY <2>3, <2>4
<1>6. ASSUME NEW p \in DOMAIN t, \A c \in ChildrenOf(t, p) : c \in Good, p # <<>>
      PROVE  Same(p)
  <2>1. p \in Seq(STRING) /\ Last(p) \in STRING
    BY <1>6, FrontIs DEF IsTree
  <2>2. CASE Merged(t, p)
    <3>1. PICK c : c = t[p].children[1]
      OBVIOUS
    <3>2. /\ c \in DOMAIN t /\ c # <<>> /\ t[c].param = "none" /\ t[p].param = "none"
          /\ t[p].key = <<Last(p)>> /\ 1 \in DOMAIN t[p].children
      BY <2>2, <3>1, MergedIs
    <3>3. Same(c)
      <4>1. c \in ChildrenOf(t, p)
        BY <3>1, <3>2 DEF ChildrenOf
      <4> QED
        BY <1>6, <3>2, <4>1
    <3>4. CompressedNode(t, w, c) /\ CompressedNode(t, w, p)
      BY <1>1, <1>6, <3>2
    <3>5. w[c] \in Nodes(DOMAIN t) /\ w[c].param = "none" /\ w[c].key # <<>> /\ w[p].param = "none"
      BY <3>2, <3>4 DEF CompressedNode
    <3>6. w[p] = [w[c] EXCEPT !.key = <<Last(p)>> \o @]
      <4>1. w[p] = OptimizeNode(t, p, w)
        BY <1>2, <1>6, Zenon
      <4>2. OptimizeNode(t, p, w) = [w[t[p].children[1]] EXCEPT !.key = t[p].key \o @]
        BY <1>6, <2>2, OptimizeNodeIs, Zenon
      <4> QED
        BY <3>1, <3>2, <4>1, <4>2, Zenon
    <3>7. Prefixed(w, p, c, Last(p), w[c].key) /\ w[c].key \in Seq(STRING)
      BY <3>5, <3>6 DEF Nodes, Prefixed
    <3> SUFFICES ASSUME NEW pos \in 1..Len(url)
                 PROVE  Through(w, url, p, pos, g) = Through(t, url, p, pos, f)
      OBVIOUS
    <3> HIDE DEF Good
    <3>8. Through(w, url, p, pos, g)
            = IF url[pos] = Last(p) /\ pos < Len(url) THEN Through(w, url, c, pos + 1, g)
              ELSE NoResult
      <4>1. PICK k : k = w[c].key
        OBVIOUS
      <4>2. k \in Seq(STRING) /\ k # <<>> /\ Prefixed(w, p, c, Last(p), k)
        BY <3>5, <3>7, <4>1
      <4>3. p \in DOMAIN w /\ c \in DOMAIN w /\ HasNodes(w)
        BY <1>1, <1>2, <3>2
      <4> QED
        BY <1>4, <4>2, <4>3, CompressedFinds
    <3>9. Through(t, url, p, pos, f)
            = IF url[pos] = Last(p) /\ pos < Len(url) THEN Through(t, url, c, pos + 1, f)
              ELSE NoResult
      BY <1>3, <2>2, <3>1, MergedFinds
    <3>10. pos < Len(url) => Through(w, url, c, pos + 1, g) = Through(t, url, c, pos + 1, f)
      BY <3>3
    <3> QED
      BY <3>8, <3>9, <3>10
  <2>3. CASE ~Merged(t, p)
    <3>1. w[p] = t[p]
      <4>1. w[p] = OptimizeNode(t, p, w)
        BY <1>2, <1>6, Zenon
      <4> QED
        BY <1>6, <2>3, <4>1, OptimizeNodeIs, Zenon
    <3> SUFFICES ASSUME NEW pos \in 1..Len(url)
                 PROVE  Through(w, url, p, pos, g) = Through(t, url, p, pos, f)
      OBVIOUS
    <3>2. NodeEnd(t[p], url, pos) \in 1..(Len(url) + 1)
      <4>1. t[p].param \in ParamTypes \cup {"none"} /\ t[p].key \in Seq(STRING)
        BY DEF IsTree, HasNodes
      <4>2. NodeEnd(t[p], url, pos) \in pos..(Len(url) + 1)
        BY <4>1, NodeEndRange
      <4> QED
        BY <4>2
    <3>3. g[NodeEnd(t[p], url, pos)][p] = f[NodeEnd(t[p], url, pos)][p]
      BY <1>5, <1>6, <3>1, <3>2
    <3> QED
      BY <3>1, <3>3, Zenon DEF Through
  <2> QED
    BY <2>2, <2>3
<1>7. \A p \in DOMAIN t : p \in Good
  <2>1. \A p \in DOMAIN t : (\A c \in ChildrenOf(t, p) : c \in Good) => p \in Good
    BY <1>6
  <2> HIDE DEF Good
  <2> QED
    BY <2>1, Upwards
<1>8. g[1][<<>>] = f[1][<<>>]
  <2>1. \A c \in ChildrenOf(t, <<>>) : c \in Good
    BY <1>2, <1>7 DEF IsTree
  <2>2. 1 \in 1..(Len(url) + 1)
    OBVIOUS
  <2> QED
    BY <1>1, <1>2, <1>5, <2>1, <2>2
<1> QED
  BY <1>3, <1>4, <1>8

-------------------------------------------------------------------------------
(* How a tree grows: adding a path makes a tree again, which has the rule at *)
(* the path and nowhere else than before.                                    *)

LEMMA PrefixesAre ==
  ASSUME NEW path \in Seq(STRING), NEW q
  PROVE  /\ q \in Prefixes(path) <=> q \in Seq(STRING) /\ Extends(path, q)
         /\ q \in Prefixes(path) => /\ Len(q) \in 0..Len(path) /\ q = SubSeq(path, 1, Len(q))
                                    /\ \A k \in 0..Len(q) : SubSeq(q, 1, k) \in Prefixes(path)
<1>1. ASSUME q \in Prefixes(path)
      PROVE  /\ q \in Seq(STRING) /\ Extends(path, q)
             /\ Len(q) \in 0..Len(path) /\ q = SubSeq(path, 1, Len(q))
  <2>1. PICK k \in 0..Len(path) : q = SubSeq(path, 1, k)
    BY <1>1 DEF Prefixes
  <2>2. q \in Seq(STRING) /\ Len(q) = k /\ Extends(path, q)
    BY <2>1, PrefixIs
  <2> QED
    BY <2>1, <2>2
<1>2. ASSUME q \in Seq(STRING), Extends(path, q) PROVE q \in Prefixes(path)
  <2>1. Len(q) \in 0..Len(path)
    BY <1>2 DEF Extends
  <2>2. PICK r : r = SubSeq(path, 1, Len(q))
    OBVIOUS
  <2>3. /\ r \in Seq(STRING) /\ Len(r) = Len(q) /\ \A i \in 1..Len(q) : r[i] = path[i]
        /\ r \in Prefixes(path)
    BY <2>1, <2>2, PrefixIs DEF Prefixes
  <2>4. q = r
    BY <1>2, <2>3, SeqEqual DEF Extends
  <2> QED
    BY <2>3, <2>4
<1>3. ASSUME q \in Prefixes(path), NEW k \in 0..Len(q) PROVE SubSeq(q, 1, k) \in Prefixes(path)
  <2>1. PICK r : r = SubSeq(q, 1, k)
    OBVIOUS
  <2>2. q \in Seq(STRING) /\ Len(q) \in 0..Len(path) /\ \A i \in 1..Len(q) : path[i] = q[i]
    BY <1>1, <1>3 DEF Extends
  <2>3. r \in Seq(STRING) /\ Len(r) = k /\ \A i \in 1..k : r[i] = q[i]
    BY <2>1, <2>2, PrefixIs
  <2>4. k \in 0..Len(path)
    BY <2>2
  <2>5. PICK s : s = SubSeq(path, 1, k)
    OBVIOUS
  <2>6. s \in Seq(STRING) /\ Len(s) = k /\ \A i \in 1..k : s[i] = path[i]
    BY <2>4, <2>5, PrefixIs
  <2>7. r = s
    BY <2>2, <2>3, <2>6, SeqEqual
  <2> QED
    BY <2>1, <2>4, <2>5, <2>7 DEF Prefixes
<1> QED
  BY <1>1, <1>2, <1>3

\* The node at p before a path is added, or the node made for it; and the node that the
\* path goes on to from p, which p may have to learn of.
OldNode(t, p) == IF p \in DOMAIN t THEN t[p] ELSE NodeFor(Last(p))
GoesOn(path, p) == SubSeq(path, 1, Len(p) + 1)
Grows(t, path, p) == p # path /\ p \in Prefixes(path) /\ GoesOn(path, p) \notin DOMAIN t

LEMMA GoesOnIs ==
  ASSUME NEW path \in Seq(STRING), NEW p \in Prefixes(path), p # path, NEW c, c = GoesOn(path, p)
  PROVE  /\ c \in Prefixes(path) \ {<<>>} /\ Front(c) = p /\ p \in Seq(STRING)
<1>1. p \in Seq(STRING) /\ Extends(path, p) /\ Len(p) \in 0..Len(path)
  BY PrefixesAre
<1>2. Len(p) < Len(path)
  <2>1. Len(p) # Len(path)
    BY <1>1, ExtendsSame
  <2> QED
    BY <1>1, <2>1
<1>3. c \in Seq(STRING) /\ c # <<>> /\ Front(c) = p /\ Extends(path, c)
  BY <1>1, <1>2, NextNode DEF GoesOn
<1>4. c \in Prefixes(path)
  BY <1>3, PrefixesAre, Zenon
<1> QED
  BY <1>1, <1>3, <1>4, Zenon

\* What becomes of the node at p.
AddedNode(t, path, rule, u, p) ==
  /\ OldNode(t, p) \in Nodes(DOMAIN t) /\ u[p] \in Nodes(DOMAIN u)
  /\ u[p].param = OldNode(t, p).param /\ u[p].key = OldNode(t, p).key
  /\ u[p].rule = IF p = path THEN rule ELSE OldNode(t, p).rule
  /\ u[p].children = IF Grows(t, path, p)
                     THEN Append(OldNode(t, p).children, GoesOn(path, p))
                     ELSE OldNode(t, p).children

LEMMA AddNode ==
  ASSUME NEW t, IsTree(t), NEW path \in Seq(STRING), NEW rule \in Nat,
         NEW u, u = Add(t, path, rule), NEW p \in DOMAIN u
  PROVE  AddedNode(t, path, rule, u, p)
<1>1. DOMAIN u = DOMAIN t \cup Prefixes(path)
  BY DEF Add
<1>2. PICK o : o = OldNode(t, p)
  OBVIOUS
<1>3. o \in Nodes(DOMAIN t)
  <2>1. CASE p \in DOMAIN t
    BY <1>2, <2>1 DEF OldNode, IsTree
  <2>2. CASE p \notin DOMAIN t
    <3>1. p \in Seq(STRING) /\ p # <<>>
      <4>1. p \in Prefixes(path)
        BY <1>1, <2>2
      <4>2. p \in Seq(STRING)
        BY <4>1, PrefixesAre
      <4> QED
        BY <2>2, <4>2 DEF IsTree
    <3>2. PICK token : token = Last(p)
      OBVIOUS
    <3>3. token \in STRING
      BY <3>1, <3>2, FrontIs
    <3>4. o = NodeFor(token)
      BY <1>2, <2>2, <3>2 DEF OldNode
    <3>5. EmptyNode \in Nodes(DOMAIN t)
      BY DEF EmptyNode, Nodes
    <3>6. CASE token \in ParamTypes
      BY <3>4, <3>5, <3>6 DEF NodeFor, Nodes
    <3>7. CASE token \notin ParamTypes
      <4>0. PICK k : k = <<token>>
        OBVIOUS
      <4>1. k \in Seq(STRING)
        <5>1. PICK S : S = STRING
          OBVIOUS
        <5>2. token \in S
          BY <3>3, <5>1
        <5>3. k \in Seq(S)
          BY <4>0, <5>2
        <5> QED
          BY <5>1, <5>3
      <4>2. o = [EmptyNode EXCEPT !.key = k]
        BY <3>4, <3>7, <4>0 DEF NodeFor
      <4> QED
        BY <3>5, <4>1, <4>2 DEF Nodes
    <3> QED
      BY <3>6, <3>7
  <2> QED
    BY <2>1, <2>2
<1>4. u[p] = IF p = path THEN [o EXCEPT !.rule = rule]
             ELSE IF Grows(t, path, p) THEN [o EXCEPT !.children = Append(@, GoesOn(path, p))]
             ELSE o
  <2>1. u[p] = IF p = path THEN [OldNode(t, p) EXCEPT !.rule = rule]
               ELSE IF p \in Prefixes(path) /\ GoesOn(path, p) \notin DOMAIN t
               THEN [OldNode(t, p) EXCEPT !.children = Append(@, GoesOn(path, p))]
               ELSE OldNode(t, p)
    BY DEF Add, OldNode, GoesOn
  <2>2. p # path => (Grows(t, path, p) <=> p \in Prefixes(path) /\ GoesOn(path, p) \notin DOMAIN t)
    BY DEF Grows
  <2> QED
    BY <1>2, <2>1, <2>2
<1>5. CASE p = path
  <2>1. u[p] = [o EXCEPT !.rule = rule] /\ ~Grows(t, path, p)
    BY <1>4, <1>5 DEF Grows
  <2>2. o.children \in Seq(DOMAIN u)
    BY <1>1, <1>3 DEF Nodes
  <2> QED
    BY <1>1, <1>2, <1>3, <1>5, <2>1, <2>2 DEF Nodes, AddedNode
<1>6. CASE Grows(t, path, p)
  <2>1. p # path
    BY <1>6 DEF Grows
  <2>2. PICK c : c = GoesOn(path, p)
    OBVIOUS
  <2>3. c \in DOMAIN u
    BY <1>1, <1>6, <2>2, GoesOnIs DEF Grows
  <2>4. u[p] = [o EXCEPT !.children = Append(@, c)]
    BY <1>4, <1>6, <2>1, <2>2
  <2>5. o.children \in Seq(DOMAIN u)
    BY <1>1, <1>3 DEF Nodes
  <2>6. Append(o.children, c) \in Seq(DOMAIN u)
    BY <2>3, <2>5, AppendProperties
  <2>7. u[p] \in Nodes(DOMAIN u) /\ u[p].children = Append(o.children, c)
    BY <1>3, <2>4, <2>6 DEF Nodes
  <2>8. u[p].param = o.param /\ u[p].key = o.key /\ u[p].rule = o.rule
    BY <1>3, <2>4 DEF Nodes
  <2> QED
    BY <1>1, <1>2, <1>3, <1>6, <2>1, <2>2, <2>7, <2>8 DEF AddedNode
<1>7. CASE p # path /\ ~Grows(t, path, p)
  <2>1. u[p] = o
    BY <1>4, <1>7
  <2>2. o \in Nodes(DOMAIN u)
    BY <1>1, <1>3 DEF Nodes
  <2> QED
    BY <1>1, <1>2, <1>3, <1>7, <2>1, <2>2 DEF AddedNode
<1> QED
  BY <1>5, <1>6, <1>7

\* Every node still lists the nodes one token further on, each of them once.
LEMMA AddChildren ==
  ASSUME NEW t, IsTree(t), NEW path \in Seq(STRING), NEW rule \in Nat,
         NEW u, u = Add(t, path, rule), NEW p \in DOMAIN u
  PROVE  /\ ChildrenOf(u, p) = {q \in DOMAIN u \ {<<>>} : Front(q) = p}
         /\ \A i, j \in DOMAIN u[p].children : u[p].children[i] = u[p].children[j] => i = j
<1>1. DOMAIN u = DOMAIN t \cup Prefixes(path)
  BY DEF Add
<1>2. PICK old : old = OldNode(t, p).children
  OBVIOUS
<1>3. PICK c : c = GoesOn(path, p)
  OBVIOUS
<1>4. /\ old \in Seq(DOMAIN t)
      /\ u[p].children = IF Grows(t, path, p) THEN Append(old, c) ELSE old
  <2>1. AddedNode(t, path, rule, u, p)
    BY AddNode
  <2> QED
    BY <1>2, <1>3, <2>1 DEF AddedNode, Nodes
<1>5. /\ {old[i] : i \in DOMAIN old} = {q \in DOMAIN t \ {<<>>} : Front(q) = p}
      /\ \A i, j \in DOMAIN old : old[i] = old[j] => i = j
  <2>1. CASE p \in DOMAIN t
    BY <1>2, <2>1 DEF OldNode, IsTree, ChildrenOf
  <2>2. CASE p \notin DOMAIN t
    <3>1. old = <<>>
      BY <1>2, <2>2 DEF OldNode, NodeFor, EmptyNode
    <3>2. ASSUME NEW q \in DOMAIN t \ {<<>>} PROVE Front(q) # p
      <4>1. q \in Seq(STRING) /\ Len(q) - 1 \in 0..Len(q)
        <5>1. q \in Seq(STRING) /\ q # <<>>
          BY <3>2 DEF IsTree
        <5>2. Len(q) \in Nat \ {0}
          BY <5>1, FrontIs
        <5> QED
          BY <5>1, <5>2
      <4>2. Front(q) \in DOMAIN t
        BY <3>2, <4>1 DEF Front, IsTree
      <4> QED
        BY <2>2, <4>2
    <3> QED
      BY <3>1, <3>2
  <2> QED
    BY <2>1, <2>2
\* A new node below p is the one that the path goes on to.
<1>6. ASSUME NEW q \in DOMAIN u \ {<<>>}, q \notin DOMAIN t, Front(q) = p
      PROVE  Grows(t, path, p) /\ q = c
  <2>1. q \in Prefixes(path) /\ q \in Seq(STRING) /\ Extends(path, q) /\ Len(q) \in 0..Len(path)
    BY <1>1, <1>6, PrefixesAre
  <2>2. Len(q) \in Nat \ {0} /\ Len(p) = Len(q) - 1
    BY <1>6, <2>1, FrontIs
  <2>3. p \in Prefixes(path)
    <3>1. Len(q) - 1 \in 0..Len(q)
      BY <2>2
    <3> QED
      BY <1>6, <2>1, <3>1, PrefixesAre DEF Front
  <2>4. p # path
    BY <2>1, <2>2
  <2>5. c = q
    <3>1. Len(p) + 1 = Len(q)
      BY <2>2
    <3>2. q = SubSeq(path, 1, Len(q))
      BY <2>1, PrefixesAre
    <3> QED
      BY <1>3, <3>1, <3>2 DEF GoesOn
  <2> QED
    BY <1>3, <1>6, <2>3, <2>4, <2>5 DEF Grows
<1>7. CASE Grows(t, path, p)
  <2>1. c \in DOMAIN u \ {<<>>} /\ c \notin DOMAIN t /\ Front(c) = p
    BY <1>1, <1>3, <1>7, GoesOnIs DEF Grows
  <2>2. PICK new : new = u[p].children
    OBVIOUS
  <2>3. PICK n : n = Len(old)
    OBVIOUS
  <2>4. new = Append(old, c)
    BY <1>4, <1>7, <2>2
  <2>5. old \in Seq(DOMAIN u) /\ n \in Nat /\ DOMAIN old = 1..n
    BY <1>1, <1>4, <2>3
  <2>6. /\ new \in Seq(DOMAIN u) /\ Len(new) = n + 1
        /\ \A i \in 1..n : new[i] = old[i]
        /\ new[n + 1] = c
    BY <2>1, <2>3, <2>4, <2>5, AppendProperties
  <2>7. DOMAIN new = 1..(n + 1)
    BY <2>5, <2>6
  <2>8. \A i \in 1..n : old[i] \in DOMAIN t
    BY <1>4, <2>5
  <2>9. {new[i] : i \in DOMAIN new} = {old[i] : i \in DOMAIN old} \cup {c}
    <3>1. \A i \in 1..(n + 1) : i \in 1..n \/ i = n + 1
      BY <2>5
    <3>2. \A i \in 1..n : i \in 1..(n + 1)
      BY <2>5
    <3>3. n + 1 \in 1..(n + 1)
      BY <2>5
    <3> QED
      BY <2>5, <2>6, <2>7, <3>1, <3>2, <3>3
  <2>10. {q \in DOMAIN u \ {<<>>} : Front(q) = p} = {q \in DOMAIN t \ {<<>>} : Front(q) = p} \cup {c}
    BY <1>1, <1>6, <2>1
  <2>11. ASSUME NEW i \in DOMAIN new, NEW j \in DOMAIN new, new[i] = new[j] PROVE i = j
    <3>1. \A k \in 1..n : new[k] # c
      BY <2>1, <2>6, <2>8
    <3>2. (i \in 1..n \/ i = n + 1) /\ (j \in 1..n \/ j = n + 1)
      BY <2>5, <2>7
    <3>3. CASE i \in 1..n /\ j \in 1..n
      BY <1>5, <2>5, <2>6, <2>11, <3>3
    <3> QED
      BY <2>6, <2>11, <3>1, <3>2, <3>3
  <2> QED
    <3>1. {new[i] : i \in DOMAIN new} = {q \in DOMAIN u \ {<<>>} : Front(q) = p}
      BY <1>5, <2>9, <2>10
    <3>2. \A i, j \in DOMAIN new : new[i] = new[j] => i = j
      BY <2>11
    <3>3. ChildrenOf(u, p) = {new[i] : i \in DOMAIN new}
      BY <2>2 DEF ChildrenOf
    <3> QED
      BY <2>2, <3>1, <3>2, <3>3
<1>8. CASE ~Grows(t, path, p)
  <2>1. u[p].children = old
    BY <1>4, <1>8
  <2>2. {q \in DOMAIN u \ {<<>>} : Front(q) = p} = {q \in DOMAIN t \ {<<>>} : Front(q) = p}
    BY <1>1, <1>6, <1>8
  <2> QED
    BY <1>5, <2>1, <2>2 DEF ChildrenOf
<1> QED
  BY <1>7, <1>8

LEMMA AddTree ==
  ASSUME NEW t, IsTree(t), NEW path \in Seq(STRING), NEW rule \in Nat,
         NEW u, u = Add(t, path, rule)
  PROVE  IsTree(u)
<1>1. DOMAIN u = DOMAIN t \cup Prefixes(path) /\ <<>> \in DOMAIN t
  BY DEF Add, IsTree
<1>10. \A p \in DOMAIN u : AddedNode(t, path, rule, u, p)
  BY AddNode
<1>2. \A p \in DOMAIN u : u[p] \in Nodes(DOMAIN u)
  BY <1>10 DEF AddedNode
<1>3. HasNodes(u) /\ \A p \in DOMAIN u : u[p].rule \in Nat
  BY <1>2 DEF HasNodes, Nodes
<1>4. u[<<>>].param = "none"
  <2>1. u[<<>>].param = OldNode(t, <<>>).param
    BY <1>1, <1>10 DEF AddedNode
  <2>2. OldNode(t, <<>>) = t[<<>>] /\ t[<<>>].param = "none"
    BY <1>1 DEF OldNode, IsTree
  <2> QED
    BY <2>1, <2>2
<1>5. ASSUME NEW p \in DOMAIN u
      PROVE  p \in Seq(STRING) /\ \A k \in 0..Len(p) : SubSeq(p, 1, k) \in DOMAIN u
  <2>1. CASE p \in DOMAIN t
    BY <1>1, <2>1 DEF IsTree
  <2>2. CASE p \in Prefixes(path)
    BY <1>1, <2>2, PrefixesAre
  <2> QED
    BY <1>1, <2>1, <2>2
<1>6. \E n \in Nat : \A p \in DOMAIN u : Len(p) <= n
  <2>1. PICK n \in Nat : \A p \in DOMAIN t : Len(p) <= n
    BY DEF IsTree
  <2>2. \A p \in DOMAIN u : Len(p) \in Nat
    BY <1>5
  <2>3. PICK l \in Nat : l = Len(path)
    OBVIOUS
  <2>4. \A p \in Prefixes(path) : Len(p) \in 0..l
    BY <2>3, PrefixesAre
  <2>5. n + l \in Nat /\ \A p \in DOMAIN u : Len(p) <= n + l
    BY <1>1, <2>1, <2>2, <2>4
  <2> QED
    BY <2>5
<1>7. ASSUME NEW p \in DOMAIN u \ {<<>>}
      PROVE  u[p].key = NodeFor(Last(p)).key /\ u[p].param = NodeFor(Last(p)).param
  <2>1. u[p].param = OldNode(t, p).param /\ u[p].key = OldNode(t, p).key
    BY <1>10 DEF AddedNode
  <2>2. OldNode(t, p).key = NodeFor(Last(p)).key /\ OldNode(t, p).param = NodeFor(Last(p)).param
    BY <1>7 DEF OldNode, IsTree
  <2> QED
    BY <2>1, <2>2
<1>8. \A p \in DOMAIN u :
        /\ ChildrenOf(u, p) = {q \in DOMAIN u \ {<<>>} : Front(q) = p}
        /\ \A i, j \in DOMAIN u[p].children : u[p].children[i] = u[p].children[j] => i = j
  BY AddChildren
<1>9. <<>> \in DOMAIN u
  BY <1>1
<1> QED
  BY <1>2, <1>3, <1>4, <1>5, <1>6, <1>7, <1>8, <1>9, Zenon DEF IsTree

LEMMA RuleAtAdded ==
  ASSUME NEW t, IsTree(t), NEW path \in Seq(STRING), NEW rule \in Nat, NEW p
  PROVE  RuleAt(Add(t, path, rule), p) = IF p = path THEN rule ELSE RuleAt(t, p)
<1>1. PICK u : u = Add(t, path, rule)
  OBVIOUS
<1>2. DOMAIN u = DOMAIN t \cup Prefixes(path)
  BY <1>1 DEF Add
<1>3. path \in Prefixes(path)
  BY PrefixesAre DEF Extends
<1>4. p \in DOMAIN u => u[p].rule = IF p = path THEN rule ELSE OldNode(t, p).rule
  <2>1. p \in DOMAIN u => AddedNode(t, path, rule, u, p)
    BY <1>1, AddNode
  <2> QED
    BY <2>1 DEF AddedNode
<1>5. OldNode(t, p).rule = RuleAt(t, p)
  BY DEF OldNode, RuleAt, NodeFor, EmptyNode
<1>6. p \notin DOMAIN u => p # path /\ RuleAt(t, p) = 0
  BY <1>2, <1>3 DEF RuleAt
<1>7. RuleAt(u, p) = IF p = path THEN rule ELSE RuleAt(t, p)
  BY <1>2, <1>3, <1>4, <1>5, <1>6 DEF RuleAt
<1> QED
  BY <1>1, <1>7

LEMMA EmptyTrieIsTree == IsTree(EmptyTrie) /\ \A p : RuleAt(EmptyTrie, p) = 0
<1>1. PICK t : t = EmptyTrie
  OBVIOUS
<1>2. DOMAIN t = {<<>>} /\ t[<<>>] = EmptyNode
  BY <1>1 DEF EmptyTrie
<1>3. EmptyNode \in Nodes(DOMAIN t)
  BY DEF EmptyNode, Nodes
<1>4. /\ t[<<>>].param = "none" /\ t[<<>>].rule = 0 /\ t[<<>>].children = <<>>
      /\ t[<<>>].key = <<>>
  BY <1>2 DEF EmptyNode
<1>5. <<>> \in Seq(STRING) /\ Len(<<>>) = 0
  BY EmptySeq
<1>6. \A k \in 0..Len(<<>>) : SubSeq(<<>>, 1, k) \in DOMAIN t
  <2>1. \A k \in 0..Len(<<>>) : k = 0
    BY <1>5
  <2>2. SubSeq(<<>>, 1, 0) = <<>>
    BY <1>5, SubSeqEmpty
  <2> QED
    BY <1>2, <2>1, <2>2
<1>7. \E n \in Nat : \A p \in DOMAIN t : Len(p) <= n
  BY <1>2, <1>5
<1>8. ChildrenOf(t, <<>>) = {} /\ \A i, j \in DOMAIN t[<<>>].children : i = j
  BY <1>4 DEF ChildrenOf
<1>9. HasNodes(t) /\ \A p \in DOMAIN t : t[p] \in Nodes(DOMAIN t)
  BY <1>2, <1>3 DEF HasNodes, Nodes
<1>10. \A p \in DOMAIN t : ChildrenOf(t, p) = {q \in DOMAIN t \ {<<>>} : Front(q) = p}
  BY <1>2, <1>8
<1>11. IsTree(t)
  BY <1>2, <1>4, <1>5, <1>6, <1>7, <1>8, <1>9, <1>10 DEF IsTree
<1>12. \A p : RuleAt(t, p) = 0
  BY <1>2, <1>4 DEF RuleAt
<1> QED
  BY <1>1, <1>11, <1>12

\* How a rule at p comes from the k-th rule of a method, whose path this is.
ComesFrom(t, p, k, path) ==
  \/ p = path /\ RuleAt(t, p) = k + 1
  \/ HasSlash(path) /\ p = Front(path) /\ RuleAt(t, p) = RedirectSlash

\* The tree has the rules that a method lists, each under its index, and the redirections.
Placed(t, l, rs) ==
  /\ IsTree(t)
  /\ \A k \in DOMAIN l : /\ RuleAt(t, rs[l[k]].path) = k + 1
                         /\ HasSlash(rs[l[k]].path) =>
                              RuleAt(t, Front(rs[l[k]].path)) = RedirectSlash
  /\ \A p : RuleAt(t, p) # 0 => \E k \in DOMAIN l : ComesFrom(t, p, k, rs[l[k]].path)

LEMMA WithRuleIs ==
  ASSUME NEW t, IsTree(t), NEW path \in Seq(STRING), path # <<>>, NEW index \in Nat,
         NEW u, u = WithRule(t, path, index)
  PROVE  /\ IsTree(u)
         /\ \A p : RuleAt(u, p) = IF HasSlash(path) /\ p = Front(path) THEN RedirectSlash
                                  ELSE IF p = path THEN index ELSE RuleAt(t, p)
         /\ HasSlash(path) => Front(path) # path
<1>1. Front(path) \in Seq(STRING) /\ Len(Front(path)) = Len(path) - 1 /\ Len(path) \in Nat
  BY FrontIs
<1>2. Front(path) # path
  BY <1>1
<1>3. PICK v : v = Add(t, path, index)
  OBVIOUS
<1>4. IsTree(v) /\ \A p : RuleAt(v, p) = IF p = path THEN index ELSE RuleAt(t, p)
  BY <1>3, AddTree, RuleAtAdded
<1>5. CASE HasSlash(path)
  <2>1. PICK f : f = Front(path)
    OBVIOUS
  <2>2. u = Add(v, f, RedirectSlash) /\ f \in Seq(STRING) /\ RedirectSlash \in Nat
    BY <1>1, <1>3, <1>5, <2>1 DEF WithRule, RedirectSlash
  <2>3. IsTree(u) /\ \A p : RuleAt(u, p) = IF p = f THEN RedirectSlash ELSE RuleAt(v, p)
    BY <1>4, <2>2, AddTree, RuleAtAdded
  <2> QED
    BY <1>2, <1>4, <1>5, <2>1, <2>3
<1>6. CASE ~HasSlash(path)
  BY <1>3, <1>4, <1>6 DEF WithRule
<1> QED
  BY <1>5, <1>6

LEMMA PlacedNext ==
  ASSUME NEW t, NEW l \in Seq(Nat), NEW rs, Placed(t, l, rs), NEW i \in Nat,
         NEW path \in Seq(STRING), path # <<>>, rs[i].path = path, ~AlreadyThere(t, path),
         NEW u, u = WithRule(t, path, NextIndex(l)), NEW n, n = Append(l, i)
  PROVE  Placed(u, n, rs)
<1>1. PICK len \in Nat : len = Len(l)
  OBVIOUS
<1>2. /\ DOMAIN l = 1..len /\ DOMAIN n = 1..(len + 1)
      /\ \A k \in 1..len : n[k] = l[k]
      /\ n[len + 1] = i
  <2>1. /\ n \in Seq(Nat) /\ Len(n) = len + 1
        /\ \A k \in 1..len : n[k] = l[k]
        /\ n[len + 1] = i
    BY <1>1, AppendProperties
  <2> QED
    BY <1>1, <2>1
<1>3. NextIndex(l) = len + 2 /\ len + 2 \in Nat
  BY <1>1 DEF NextIndex
<1>4. /\ IsTree(u)
      /\ \A p : RuleAt(u, p) = IF HasSlash(path) /\ p = Front(path) THEN RedirectSlash
                               ELSE IF p = path THEN len + 2 ELSE RuleAt(t, p)
      /\ HasSlash(path) => Front(path) # path
  <2>1. IsTree(t) /\ u = WithRule(t, path, len + 2)
    BY <1>3 DEF Placed
  <2> QED
    BY <1>3, <2>1, WithRuleIs
<1>5. \A p : RuleAt(t, p) # 0 => RuleAt(u, p) = RuleAt(t, p)
  BY <1>4 DEF AlreadyThere
<1>6. ASSUME NEW k \in DOMAIN n
      PROVE  /\ RuleAt(u, rs[n[k]].path) = k + 1
             /\ HasSlash(rs[n[k]].path) => RuleAt(u, Front(rs[n[k]].path)) = RedirectSlash
  <2>1. k \in 1..len \/ k = len + 1
    BY <1>2
  <2>2. CASE k \in 1..len
    <3>1. /\ RuleAt(t, rs[l[k]].path) = k + 1
          /\ HasSlash(rs[l[k]].path) => RuleAt(t, Front(rs[l[k]].path)) = RedirectSlash
      BY <1>2, <2>2 DEF Placed
    <3>2. k + 1 # 0 /\ RedirectSlash # 0
      BY <2>2 DEF RedirectSlash
    <3> QED
      BY <1>2, <1>5, <2>2, <3>1, <3>2
  <2>3. CASE k = len + 1
    <3>1. rs[n[k]].path = path /\ k + 1 = len + 2
      BY <1>2, <2>3
    <3> QED
      BY <1>4, <3>1
  <2> QED
    BY <2>1, <2>2, <2>3
<1>7. ASSUME NEW p, RuleAt(u, p) # 0
      PROVE  \E k \in DOMAIN n : ComesFrom(u, p, k, rs[n[k]].path)
  <2>1. len + 1 \in DOMAIN n /\ rs[n[len + 1]].path = path /\ (len + 1) + 1 = len + 2
    BY <1>2
  <2>2. CASE (HasSlash(path) /\ p = Front(path)) \/ p = path
    <3>1. ComesFrom(u, p, len + 1, path)
      BY <1>4, <2>1, <2>2 DEF ComesFrom
    <3> QED
      BY <2>1, <3>1
  <2>3. CASE ~((HasSlash(path) /\ p = Front(path)) \/ p = path)
    <3>1. RuleAt(u, p) = RuleAt(t, p)
      BY <1>4, <2>3
    <3>2. PICK k \in DOMAIN l : ComesFrom(t, p, k, rs[l[k]].path)
      BY <1>7, <3>1 DEF Placed
    <3>3. k \in DOMAIN n /\ n[k] = l[k]
      BY <1>2
    <3>4. ComesFrom(u, p, k, rs[l[k]].path)
      BY <3>1, <3>2 DEF ComesFrom
    <3> QED
      BY <3>3, <3>4
  <2> QED
    BY <2>2, <2>3
<1> QED
  BY <1>4, <1>6, <1>7 DEF Placed

-------------------------------------------------------------------------------
(* The inductive invariant.                                                 *)

\* l lists, in ascending order, those of the first n rules that a method has.
Lists(l, m, n, rs) ==
  /\ l \in Seq(1..n)
  /\ \A i, j \in DOMAIN l : i < j => l[i] < l[j]
  /\ \A i \in 1..n : m \in rs[i].methods <=> \E k \in DOMAIN l : l[k] = i

LEMMA ListsNext ==
  ASSUME NEW l, NEW m, NEW n \in Nat, NEW rs, Lists(l, m, n, rs),
         NEW k, k = IF m \in rs[n + 1].methods THEN Append(l, n + 1) ELSE l
  PROVE  Lists(k, m, n + 1, rs)
<1>1. l \in Seq(1..(n + 1)) /\ l \in Seq(1..n)
  BY DEF Lists
<1>2. PICK len \in Nat : len = Len(l) /\ DOMAIN l = 1..len
  BY <1>1
<1>3. \A i \in DOMAIN l : l[i] \in 1..n
  BY <1>1
<1>4. n + 1 \in 1..(n + 1) /\ \A i \in 1..(n + 1) : i \in 1..n \/ i = n + 1
  OBVIOUS
<1>5. CASE m \in rs[n + 1].methods
  <2>1. k = Append(l, n + 1)
    BY <1>5
  <2>2. /\ k \in Seq(1..(n + 1)) /\ Len(k) = len + 1
        /\ \A i \in 1..len : k[i] = l[i]
        /\ k[len + 1] = n + 1
    <3>1. PICK S : S = 1..(n + 1)
      OBVIOUS
    <3>2. l \in Seq(S) /\ n + 1 \in S
      BY <1>1, <1>4, <3>1
    <3>3. /\ k \in Seq(S) /\ Len(k) = Len(l) + 1
          /\ \A i \in 1..Len(l) : k[i] = l[i]
          /\ k[Len(l) + 1] = n + 1
      BY <2>1, <3>2, AppendProperties
    <3> QED
      BY <1>2, <3>1, <3>3
  <2>3. DOMAIN k = 1..(len + 1) /\ \A i \in 1..(len + 1) : i \in 1..len \/ i = len + 1
    BY <2>2
  <2>4. ASSUME NEW i \in DOMAIN k, NEW j \in DOMAIN k, i < j PROVE k[i] < k[j]
    <3>1. i \in 1..len
      BY <2>3, <2>4
    <3>2. CASE j \in 1..len
      BY <1>2, <2>2, <2>4, <3>1, <3>2 DEF Lists
    <3>3. CASE j = len + 1
      <4>1. k[i] \in 1..n
        BY <1>2, <1>3, <2>2, <3>1
      <4> QED
        BY <2>2, <3>3, <4>1
    <3> QED
      BY <2>3, <3>2, <3>3
  <2>5. ASSUME NEW i \in 1..(n + 1)
        PROVE  m \in rs[i].methods <=> \E j \in DOMAIN k : k[j] = i
    <3>1. CASE i = n + 1
      <4>1. len + 1 \in DOMAIN k /\ k[len + 1] = i
        BY <2>2, <2>3, <3>1
      <4> QED
        BY <1>5, <3>1, <4>1
    <3>2. CASE i \in 1..n
      <4>1. m \in rs[i].methods <=> \E j \in DOMAIN l : l[j] = i
        BY <3>2 DEF Lists
      <4>2. i # n + 1
        BY <3>2
      <4>3. (\E j \in DOMAIN l : l[j] = i) <=> \E j \in DOMAIN k : k[j] = i
        <5>1. \A j \in DOMAIN l : j \in DOMAIN k /\ k[j] = l[j]
          BY <1>2, <2>2, <2>3
        <5>2. \A j \in DOMAIN k : k[j] = i => j \in DOMAIN l /\ k[j] = l[j]
          BY <1>2, <2>2, <2>3, <4>2
        <5> QED
          BY <5>1, <5>2
      <4> QED
        BY <4>1, <4>3
    <3> QED
      BY <1>4, <3>1, <3>2
  <2> QED
    BY <2>2, <2>4, <2>5 DEF Lists
<1>6. CASE m \notin rs[n + 1].methods
  <2>1. k = l
    BY <1>6
  <2>2. ASSUME NEW i \in 1..(n + 1)
        PROVE  m \in rs[i].methods <=> \E j \in DOMAIN l : l[j] = i
    <3>1. CASE i = n + 1
      <4>1. \A j \in DOMAIN l : l[j] # i
        BY <1>3, <3>1
      <4> QED
        BY <1>6, <3>1, <4>1
    <3>2. CASE i \in 1..n
      BY <3>2 DEF Lists
    <3> QED
      BY <1>4, <3>1, <3>2
  <2> QED
    BY <1>1, <2>1, <2>2 DEF Lists
<1> QED
  BY <1>5, <1>6

LEMMA ListsNone == ASSUME NEW m, NEW rs PROVE Lists(<<>>, m, 0, rs)
<1>1. PICK l : l = <<>>
  OBVIOUS
<1>2. l \in Seq(1..0) /\ DOMAIN l = {}
  BY <1>1
<1>3. 1..0 = {}
  OBVIOUS
<1> HIDE <1>1
<1>4. Lists(l, m, 0, rs)
  BY <1>2, <1>3 DEF Lists
<1> QED
  BY <1>1, <1>4

HeldBy(w, l, rs, serving) == \E t : Placed(t, l, rs) /\ w = IF serving THEN Optimize(t) ELSE t

Registered ==
  /\ rules \in Seq(Routes) /\ added \in 0..Len(rules)
  /\ stage = "register" => added = 0
  /\ stage = "serving" => added = Len(rules)
Listed == \A m \in Methods : Lists(list[m], m, added, rules)
Held == \A m \in Methods : HeldBy(trie[m], list[m], rules, stage = "serving")
Fitted == \A j \in 1..added : /\ rules[j].handled /\ Head(rules[j].path) = "/"
                              /\ \A i \in 1..added : i < j => ~Conflict(i, j)
Thrown == stage = "thrown" => Unfit
InProgress ==
  /\ asked # NoAsk => stage = "serving" /\ IsAsk(asked)
  /\ answer # NoAnswer => asked # NoAsk /\ answer = AnswerTo(asked)

\* The routes registered so far are routes, every method lists its own in order, its tree
\* holds just these, no two of them meet, and an answer is the one that the request gets.
RouterInv == Registered /\ Listed /\ Held /\ Fitted /\ Thrown /\ InProgress

LEMMA RoutesTyped ==
  ASSUME Registered, NEW i \in 1..Len(rules)
  PROVE  /\ rules[i] \in Routes /\ rules[i].path \in Seq(STRING) /\ rules[i].path # <<>>
         /\ rules[i].methods \subseteq Methods
<1>1. rules[i] \in Routes
  BY DEF Registered
<1> QED
  <2>1. \A r \in Routes : IsRoute(r)
    BY RoutesAreRoutes DEF RoutesAreRoutes
  <2> QED
    <3>1. IsRoute(rules[i])
      BY <1>1, <2>1, Zenon
    <3> QED
      BY <1>1, <3>1, Zenon DEF IsRoute

LEMMA InitInv == Init => RouterInv
<1> SUFFICES ASSUME Init PROVE RouterInv
  OBVIOUS
<1>1. rules = <<>> /\ added = 0 /\ stage = "register" /\ asked = NoAsk /\ answer = NoAnswer
      /\ \A m \in Methods : list[m] = <<>> /\ trie[m] = EmptyTrie
  BY DEF Init
<1>2. Registered
  BY <1>1 DEF Registered
<1>3. Listed
  <2> SUFFICES ASSUME NEW m \in Methods PROVE Lists(list[m], m, 0, rules)
    BY <1>1 DEF Listed
  <2> QED
    BY <1>1, ListsNone
<1>4. Held
  <2> SUFFICES ASSUME NEW m \in Methods PROVE HeldBy(trie[m], list[m], rules, stage = "serving")
    BY DEF Held
  <2>1. PICK t : t = EmptyTrie
    OBVIOUS
  <2>2. IsTree(t) /\ \A p : RuleAt(t, p) = 0
    BY <2>1, EmptyTrieIsTree
  <2>3. Placed(t, list[m], rules)
    <3>1. DOMAIN list[m] = {}
      BY <1>1
    <3> QED
      BY <2>2, <3>1 DEF Placed
  <2>4. trie[m] = t /\ ~(stage = "serving")
    BY <1>1, <2>1
  <2> QED
    BY <2>3, <2>4 DEF HeldBy
<1>5. Fitted /\ Thrown /\ InProgress
  BY <1>1 DEF Fitted, Thrown, InProgress
<1> QED
  BY <1>2, <1>3, <1>4, <1>5 DEF RouterInv

\* Before anything is added, one more route is only one more route.
LEMMA RouteInv ==
  ASSUME RouterInv, NEW r \in Routes, Route(r)
  PROVE  RouterInv'
<1>1. /\ stage = "register" /\ added = 0 /\ rules' = Append(rules, r) /\ rules \in Seq(Routes)
      /\ UNCHANGED <<catchall, stage, added, list, trie, asked, query, answer>>
  BY DEF Route, RouterInv, Registered
<1>2. rules' \in Seq(Routes)
  BY <1>1
<1>3. Registered'
  <2>1. Len(rules') \in Nat
    BY <1>2
  <2> QED
    BY <1>1, <1>2, <2>1 DEF Registered
<1>4. ASSUME NEW m \in Methods PROVE list[m] = <<>> /\ DOMAIN list[m] = {}
  <2>1. list[m] \in Seq(1..0)
    BY <1>1 DEF RouterInv, Listed, Lists
  <2> QED
    BY <2>1
<1>5. Listed'
  <2> SUFFICES ASSUME NEW m \in Methods PROVE Lists(list[m], m, 0, rules')
    BY <1>1 DEF Listed
  <2> QED
    BY <1>4, ListsNone
<1>6. Held'
  <2> SUFFICES ASSUME NEW m \in Methods PROVE HeldBy(trie[m], list[m], rules', FALSE)
    BY <1>1 DEF Held
  <2>1. PICK t : Placed(t, list[m], rules) /\ trie[m] = t
    BY <1>1 DEF RouterInv, Held, HeldBy
  <2>2. Placed(t, list[m], rules')
    BY <1>4, <2>1 DEF Placed
  <2> QED
    BY <2>1, <2>2 DEF HeldBy
<1>7. Fitted' /\ Thrown'
  BY <1>1 DEF Fitted, Thrown
<1>8. InProgress'
  <2>1. asked = NoAsk /\ answer = NoAnswer
    BY <1>1 DEF RouterInv, InProgress
  <2> QED
    BY <1>1, <2>1 DEF InProgress
<1> QED
  BY <1>3, <1>5, <1>6, <1>7, <1>8 DEF RouterInv

\* The rule that is added next, and what its method's tree is then.
LEMMA AddRuleInv ==
  ASSUME RouterInv, AddRule
  PROVE  RouterInv'
<1> DEFINE n == added + 1
           r == rules[n]
<1>1. /\ stage = "validate" /\ Head(r.path) = "/" /\ r.handled /\ added' = n
      /\ \A m \in r.methods : ~AlreadyThere(trie[m], r.path)
      /\ \A m \in Methods : list'[m] = IF m \in r.methods THEN Append(list[m], n) ELSE list[m]
      /\ \A m \in Methods : trie'[m] = IF m \in r.methods
                                       THEN WithRule(trie[m], r.path, NextIndex(list[m]))
                                       ELSE trie[m]
      /\ UNCHANGED <<rules, catchall, stage, asked, query, answer>>
  BY DEF AddRule
<1>2. /\ rules \in Seq(Routes) /\ added \in Nat /\ n \in 1..Len(rules)
  BY DEF AddRule, RouterInv, Registered
<1>3. r.path \in Seq(STRING) /\ r.path # <<>> /\ r.methods \subseteq Methods
  BY <1>2, RoutesTyped DEF RouterInv
<1>4. Registered'
  BY <1>1, <1>2 DEF Registered
<1>5. Listed'
  <2> SUFFICES ASSUME NEW m \in Methods PROVE Lists(list'[m], m, n, rules)
    BY <1>1 DEF Listed
  <2>1. Lists(list[m], m, added, rules)
    BY DEF RouterInv, Listed
  <2> QED
    BY <1>1, <1>2, <2>1, ListsNext
<1>6. ASSUME NEW m \in Methods PROVE Placed(trie[m], list[m], rules) /\ list[m] \in Seq(Nat)
  <2>1. list[m] \in Seq(1..added)
    BY DEF RouterInv, Listed, Lists
  <2>2. list[m] \in Seq(Nat)
    BY <1>2, <2>1
  <2> QED
    BY <1>1, <2>2 DEF RouterInv, Held, HeldBy
<1>7. Held'
  <2> SUFFICES ASSUME NEW m \in Methods PROVE HeldBy(trie'[m], list'[m], rules, FALSE)
    BY <1>1 DEF Held
  <2>1. Placed(trie'[m], list'[m], rules)
    <3>1. CASE m \in r.methods
      <4>1. PICK u : u = trie'[m]
        OBVIOUS
      <4>2. PICK k : k = list'[m]
        OBVIOUS
      <4>3. PICK t : t = trie[m]
        OBVIOUS
      <4>4. PICK l : l = list[m]
        OBVIOUS
      <4>5. PICK path : path = r.path
        OBVIOUS
      <4>6. u = WithRule(t, path, NextIndex(l)) /\ k = Append(l, n) /\ ~AlreadyThere(t, path)
        BY <1>1, <3>1, <4>1, <4>2, <4>3, <4>4, <4>5
      <4>7. Placed(t, l, rules) /\ l \in Seq(Nat) /\ rules[n].path = path /\ n \in Nat
            /\ path \in Seq(STRING) /\ path # <<>>
        BY <1>2, <1>3, <1>6, <4>3, <4>4, <4>5
      <4> HIDE DEF n
      <4>8. Placed(u, k, rules)
        BY <4>6, <4>7, PlacedNext
      <4> QED
        BY <4>1, <4>2, <4>8
    <3>2. CASE m \notin r.methods
      BY <1>1, <1>6, <3>2
    <3> QED
      BY <3>1, <3>2
  <2> QED
    BY <2>1 DEF HeldBy
\* A rule that meets one added before would have been there already.
<1>8. ASSUME NEW i \in 1..added PROVE ~Conflict(i, n)
  <2>1. SUFFICES ASSUME Conflict(i, n) PROVE FALSE
    OBVIOUS
  <2>2. PICK m : m \in rules[i].methods /\ m \in r.methods
    BY <2>1 DEF Conflict
  <2>3. PICK q : q \in Paths(rules[i]) /\ q \in Paths(r)
    BY <2>1 DEF Conflict
  <2>4. m \in Methods
    BY <1>3, <2>2
  <2>5. PICK k \in DOMAIN list[m] : list[m][k] = i
    BY <2>2, <2>4 DEF RouterInv, Listed, Lists
  <2>6. /\ RuleAt(trie[m], rules[i].path) = k + 1
        /\ HasSlash(rules[i].path) => RuleAt(trie[m], Front(rules[i].path)) = RedirectSlash
    BY <1>6, <2>4, <2>5 DEF Placed
  <2>7. k \in Nat \ {0}
    <3>1. list[m] \in Seq(Nat)
      BY <1>6, <2>4
    <3> QED
      BY <2>5, <3>1
  <2>8. k + 1 # 0 /\ RedirectSlash # 0
    BY <2>7 DEF RedirectSlash
  <2>9. RuleAt(trie[m], q) # 0
    BY <2>3, <2>6, <2>8 DEF Paths
  <2>10. q = r.path \/ (HasSlash(r.path) /\ q = Front(r.path))
    BY <2>3 DEF Paths
  <2>11. AlreadyThere(trie[m], r.path)
    BY <2>9, <2>10 DEF AlreadyThere
  <2> QED
    BY <1>1, <2>2, <2>11
<1>9. Fitted'
  <2>1. \A i, j : Conflict(i, j)' <=> Conflict(i, j)
    BY <1>1 DEF Conflict
  <2>2. ASSUME NEW j \in 1..n
        PROVE  /\ rules[j].handled /\ Head(rules[j].path) = "/"
               /\ \A i \in 1..n : i < j => ~Conflict(i, j)
    <3>1. CASE j = n
      <4>1. \A i \in 1..n : i < j => i \in 1..added
        BY <1>2, <3>1
      <4> QED
        BY <1>1, <1>8, <3>1, <4>1
    <3>2. CASE j # n
      <4>1. j \in 1..added /\ \A i \in 1..n : i < j => i \in 1..added
        BY <1>2, <3>2
      <4> QED
        BY <4>1 DEF RouterInv, Fitted
    <3> QED
      BY <3>1, <3>2
  <2> HIDE DEF n, r
  <2> QED
    BY <1>1, <2>1, <2>2 DEF Fitted
<1>10. Thrown'
  BY <1>1 DEF Thrown
<1>11. InProgress'
  <2>1. asked = NoAsk /\ answer = NoAnswer
    BY <1>1 DEF RouterInv, InProgress
  <2> QED
    BY <1>1, <2>1 DEF InProgress
<1> QED
  BY <1>4, <1>5, <1>7, <1>9, <1>10, <1>11 DEF RouterInv

\* What is already there comes from a rule that the new one cannot be served with.
LEMMA AddThrowsInv ==
  ASSUME RouterInv, AddThrows
  PROVE  RouterInv'
<1> DEFINE n == added + 1
           r == rules[n]
<1>1. /\ stage = "validate" /\ stage' = "thrown"
      /\ \/ Head(r.path) # "/" \/ ~r.handled
         \/ \E m \in r.methods : AlreadyThere(trie[m], r.path)
      /\ UNCHANGED <<rules, catchall, added, list, trie, asked, query, answer>>
  BY DEF AddThrows
<1>2. rules \in Seq(Routes) /\ added \in Nat /\ n \in 1..Len(rules) /\ DOMAIN rules = 1..Len(rules)
  BY DEF AddThrows, RouterInv, Registered
<1>3. r.methods \subseteq Methods
  BY <1>2, RoutesTyped DEF RouterInv
<1>4. Unfit
  <2>1. CASE Head(r.path) # "/" \/ ~r.handled
    BY <1>2, <2>1 DEF Unfit
  <2>2. ASSUME NEW m \in r.methods, AlreadyThere(trie[m], r.path) PROVE Unfit
    <3>1. m \in Methods
      BY <1>3, <2>2
    <3>2. PICK q : q \in Paths(r) /\ RuleAt(trie[m], q) # 0
      BY <2>2 DEF AlreadyThere, Paths
    <3>3. Placed(trie[m], list[m], rules)
      BY <1>1, <3>1 DEF RouterInv, Held, HeldBy
    <3>4. PICK k \in DOMAIN list[m] : ComesFrom(trie[m], q, k, rules[list[m][k]].path)
      BY <3>2, <3>3 DEF Placed
    <3>5. PICK i : i = list[m][k]
      OBVIOUS
    <3>6. i \in 1..added /\ m \in rules[i].methods
      <4>1. Lists(list[m], m, added, rules)
        BY <3>1 DEF RouterInv, Listed
      <4>2. list[m] \in Seq(1..added)
        BY <4>1 DEF Lists
      <4>3. i \in 1..added
        <5>1. PICK l, S : l = list[m] /\ S = 1..added
          OBVIOUS
        <5>2. l \in Seq(S) /\ k \in DOMAIN l /\ i = l[k]
          BY <3>4, <3>5, <4>2, <5>1
        <5>3. i \in S
          BY <5>2
        <5> QED
          BY <5>1, <5>3
      <4> QED
        BY <3>4, <3>5, <4>1, <4>3 DEF Lists
    <3>7. q \in Paths(rules[i])
      BY <3>4, <3>5 DEF ComesFrom, Paths
    <3>8. Conflict(i, n)
      BY <2>2, <3>2, <3>6, <3>7 DEF Conflict
    <3>9. i \in DOMAIN rules /\ n \in DOMAIN rules /\ i < n
      BY <1>2, <3>6
    <3> QED
      BY <3>8, <3>9 DEF Unfit
  <2> QED
    BY <1>1, <2>1, <2>2
<1>5. Registered' /\ Listed' /\ Fitted'
  BY <1>1 DEF RouterInv, Registered, Listed, Fitted, Conflict
<1>6. Held'
  BY <1>1 DEF RouterInv, Held
<1>7. Thrown'
  BY <1>1, <1>4 DEF Thrown, Unfit, Conflict
<1>8. InProgress'
  <2>1. asked = NoAsk /\ answer = NoAnswer
    BY <1>1 DEF RouterInv, InProgress
  <2> QED
    BY <1>1, <2>1 DEF InProgress
<1> QED
  BY <1>5, <1>6, <1>7, <1>8 DEF RouterInv

\* Every path in a tree that is not yet compressed starts with the slash.
Rooted ==
  stage # "serving" => \A m \in Methods : \A p \in DOMAIN trie[m] : p # <<>> => p[1] = "/"

LEMMA RootedAdd ==
  ASSUME NEW t, NEW path \in Seq(STRING), path # <<>>, path[1] = "/", NEW index,
         \A p \in DOMAIN t : p # <<>> => p[1] = "/",
         NEW u, u = Add(t, path, index)
  PROVE  \A p \in DOMAIN u : p # <<>> => p[1] = "/"
<1> SUFFICES ASSUME NEW p \in DOMAIN u, p # <<>> PROVE p[1] = "/"
  OBVIOUS
<1>1. DOMAIN u = DOMAIN t \cup Prefixes(path)
  BY DEF Add
<1>2. CASE p \in Prefixes(path)
  <2>1. PICK k \in 0..Len(path) : p = SubSeq(path, 1, k)
    BY <1>2 DEF Prefixes
  <2>2. /\ p \in Seq(STRING) /\ Len(p) = k
        /\ \A i \in 1..k : p[i] = path[i]
    BY <2>1, PrefixIs
  <2>3. Len(p) \in Nat \ {0}
    BY <2>2, EmptySeq
  <2>4. 1 \in 1..k
    BY <2>2, <2>3
  <2> QED
    BY <2>2, <2>4
<1> QED
  BY <1>1, <1>2

LEMMA RootedWithRule ==
  ASSUME NEW t, NEW path \in Seq(STRING), path # <<>>, path[1] = "/", NEW index,
         \A p \in DOMAIN t : p # <<>> => p[1] = "/",
         NEW u, u = WithRule(t, path, index)
  PROVE  \A p \in DOMAIN u : p # <<>> => p[1] = "/"
<1>1. PICK v : v = Add(t, path, index)
  OBVIOUS
<1>2. \A p \in DOMAIN v : p # <<>> => p[1] = "/"
  BY <1>1, RootedAdd
<1>3. CASE HasSlash(path)
  <2>1. PICK front : front = Front(path)
    OBVIOUS
  <2>2. /\ front \in Seq(STRING) /\ Len(front) = Len(path) - 1
        /\ \A i \in 1..(Len(path) - 1) : front[i] = path[i]
    BY <2>1, FrontIs
  <2>3. Len(path) \in Nat /\ Len(path) > 1
    BY <1>3 DEF HasSlash
  <2>4. front # <<>> /\ 1 \in 1..(Len(path) - 1)
    BY <2>2, <2>3
  <2>5. front[1] = "/"
    BY <2>2, <2>4
  <2>6. u = Add(v, front, RedirectSlash)
    BY <1>1, <1>3, <2>1 DEF WithRule
  <2> QED
    BY <1>2, <2>2, <2>4, <2>5, <2>6, RootedAdd
<1>4. CASE ~HasSlash(path)
  BY <1>1, <1>2, <1>4 DEF WithRule
<1> QED
  BY <1>3, <1>4

LEMMA RootedInv ==
  ASSUME RouterInv, Rooted, [Next]_vars
  PROVE  Rooted'
<1>1. CASE AddRule
  <2> DEFINE r == rules[added + 1]
  <2>1. /\ stage = "validate" /\ stage' = stage /\ Head(r.path) = "/"
        /\ \A m \in Methods : \/ trie'[m] = WithRule(trie[m], r.path, NextIndex(list[m]))
                             \/ trie'[m] = trie[m]
    BY <1>1 DEF AddRule
  <2>2. added + 1 \in 1..Len(rules)
    BY <1>1 DEF AddRule, RouterInv, Registered
  <2>3. r.path \in Seq(STRING) /\ r.path # <<>>
    BY <2>2, RoutesTyped DEF RouterInv
  <2>4. PICK path : path = r.path
    OBVIOUS
  <2>5. path \in Seq(STRING) /\ path # <<>> /\ path[1] = "/"
    BY <2>1, <2>3, <2>4
  <2> SUFFICES ASSUME NEW m \in Methods
               PROVE  \A p \in DOMAIN trie'[m] : p # <<>> => p[1] = "/"
    BY DEF Rooted
  <2>6. \A p \in DOMAIN trie[m] : p # <<>> => p[1] = "/"
    BY <2>1 DEF Rooted
  <2>7. CASE trie'[m] = WithRule(trie[m], r.path, NextIndex(list[m]))
    <3>1. PICK t, u, i : t = trie[m] /\ u = trie'[m] /\ i = NextIndex(list[m])
      OBVIOUS
    <3>2. u = WithRule(t, path, i)
      BY <2>4, <2>7, <3>1
    <3> QED
      BY <2>5, <2>6, <3>1, <3>2, RootedWithRule
  <2> QED
    BY <2>1, <2>6, <2>7
<1>2. CASE Validated
  <2>1. stage = "validate" /\ (stage' = "serving" \/ trie' = trie)
    BY <1>2 DEF Validated
  <2> QED
    BY <2>1 DEF Rooted
<1>3. ASSUME trie' = trie, stage' = "serving" \/ stage # "serving" PROVE Rooted'
  BY <1>3 DEF Rooted
<1>4. CASE UNCHANGED vars
  BY <1>3, <1>4 DEF vars
<1>5. ASSUME NEW r \in Routes, Route(r) PROVE Rooted'
  BY <1>3, <1>5 DEF Route
<1>6. CASE CatchAll \/ Run \/ AddThrows
  BY <1>3, <1>6 DEF CatchAll, Run, AddThrows
<1>7. CASE OnUrl
  BY <1>3, <1>7 DEF OnUrl
<1>8. CASE Answer \/ Forget
  <2>1. trie' = trie /\ stage' = stage
    BY <1>8 DEF Answer, Forget
  <2> QED
    BY <2>1 DEF Rooted
<1> QED
  BY <1>1, <1>2, <1>4, <1>5, <1>6, <1>7, <1>8 DEF Next

\* The head of a tree has no rule, no parameter and at most the child "/": validate() never
\* throws "Trie header should be simple!".
LEMMA HeadsAreSimple ==
  ASSUME RouterInv, Rooted, stage = "validate"
  PROVE  \A m \in Methods : IsSimple(trie[m], <<>>)
<1> SUFFICES ASSUME NEW m \in Methods, NEW t, t = trie[m] PROVE IsSimple(t, <<>>)
  OBVIOUS
<1>1. /\ Placed(t, list[m], rules) /\ IsTree(t)
      /\ \A p \in DOMAIN t : p # <<>> => p[1] = "/"
  BY DEF RouterInv, Held, HeldBy, Placed, Rooted
<1>2. <<>> \in DOMAIN t /\ t[<<>>].param = "none" /\ t[<<>>].children \in Seq(DOMAIN t)
  BY <1>1 DEF IsTree, HasNodes
<1>3. t[<<>>].rule = 0
  <2>1. SUFFICES ASSUME RuleAt(t, <<>>) # 0 PROVE FALSE
    BY <1>2 DEF RuleAt
  <2>2. PICK k \in DOMAIN list[m] : ComesFrom(t, <<>>, k, rules[list[m][k]].path)
    BY <1>1, <2>1 DEF Placed
  <2>3. list[m][k] \in 1..Len(rules)
    <3>1. list[m] \in Seq(1..added) /\ added \in 0..Len(rules)
      BY DEF RouterInv, Registered, Listed, Lists
    <3>2. PICK l, S : l = list[m] /\ S = 1..added
      OBVIOUS
    <3>3. l \in Seq(S) /\ k \in DOMAIN l
      BY <2>2, <3>1, <3>2
    <3>4. l[k] \in S
      BY <3>3
    <3> QED
      BY <3>1, <3>2, <3>4
  <2>4. PICK path : path = rules[list[m][k]].path
    OBVIOUS
  <2>5. path \in Seq(STRING) /\ path # <<>>
    BY <2>3, <2>4, RoutesTyped DEF RouterInv
  <2>6. HasSlash(path) /\ <<>> = Front(path)
    BY <2>2, <2>4, <2>5 DEF ComesFrom
  <2>7. PICK n, f : n = Len(path) /\ f = Front(path)
    OBVIOUS
  <2>8. Len(f) = n - 1 /\ n > 1 /\ n \in Nat
    BY <2>5, <2>6, <2>7, FrontIs DEF HasSlash
  <2>9. f = <<>>
    BY <2>6, <2>7
  <2> QED
    BY <2>8, <2>9
<1>4. ASSUME NEW i \in DOMAIN t[<<>>].children PROVE t[<<>>].children[i] = <<"/">>
  <2>1. PICK c : c = t[<<>>].children[i]
    OBVIOUS
  <2>2. PICK h : h = <<>>
    OBVIOUS
  <2>3. h \in DOMAIN t /\ i \in DOMAIN t[h].children /\ c = t[h].children[i]
    BY <1>2, <1>4, <2>1, <2>2
  <2>4. c \in DOMAIN t /\ c # <<>> /\ Len(c) = Len(h) + 1
    BY <1>1, <2>3, ChildIs
  <2>5. Len(h) = 0
    BY <2>2
  <2>6. c \in Seq(STRING) /\ c[1] = "/" /\ Len(c) = 1
    BY <1>1, <2>4, <2>5 DEF IsTree
  <2>7. c = <<"/">>
    BY <2>6
  <2> QED
    BY <2>1, <2>7
<1>5. Len(t[<<>>].children) < 2
  <2>1. PICK s : s = t[<<>>].children
    OBVIOUS
  <2>2. PICK n \in Nat : n = Len(s) /\ DOMAIN s = 1..n
    BY <1>2, <2>1
  <2>3. ASSUME NEW i \in 1..n, NEW j \in 1..n PROVE i = j
    <3>1. s[i] = s[j]
      BY <1>4, <2>1, <2>2
    <3>2. \A x, y \in DOMAIN s : s[x] = s[y] => x = y
      BY <1>1, <1>2, <2>1, Zenon DEF IsTree
    <3> QED
      BY <2>2, <3>1, <3>2
  <2>4. ~(n >= 2)
    <3>1. SUFFICES ASSUME n >= 2 PROVE FALSE
      OBVIOUS
    <3>2. 1 \in 1..n /\ 2 \in 1..n
      BY <3>1
    <3>3. 1 = 2
      BY <2>3, <3>2
    <3> QED
      BY <3>3
  <2> QED
    BY <2>1, <2>2, <2>4
<1>6. ASSUME NEW i \in DOMAIN t[<<>>].children PROVE t[t[<<>>].children[i]].param = "none"
  <2>1. PICK c : c = t[<<>>].children[i]
    OBVIOUS
  <2>2. c = <<"/">> /\ c \in DOMAIN t /\ c # <<>>
    BY <1>1, <1>2, <1>4, <2>1, ChildIs
  <2>3. Last(c) = "/"
    BY <2>2 DEF Last
  <2>4. t[c].param = NodeFor(Last(c)).param
    BY <1>1, <2>2 DEF IsTree
  <2>5. NodeFor("/").param = "none"
    BY DEF NodeFor, ParamTypes, EmptyNode
  <2> QED
    BY <2>1, <2>3, <2>4, <2>5
<1> QED
  BY <1>2, <1>3, <1>5, <1>6 DEF IsSimple

\* The trees are compressed when all rules are in.
LEMMA ValidatedInv ==
  ASSUME RouterInv, Rooted, Validated
  PROVE  RouterInv'
<1>0. stage = "validate"
  BY DEF Validated
<1>1. /\ stage = "validate" /\ added = Len(rules) /\ stage' = "serving"
      /\ \A m \in Methods : trie'[m] = Optimize(trie[m])
      /\ UNCHANGED <<rules, catchall, added, list, asked, query, answer>>
  BY <1>0, HeadsAreSimple DEF Validated
<1>2. Registered' /\ Listed' /\ Fitted'
  BY <1>1 DEF RouterInv, Registered, Listed, Fitted, Conflict
<1>3. Held'
  <2> SUFFICES ASSUME NEW m \in Methods PROVE HeldBy(trie'[m], list[m], rules, TRUE)
    BY <1>1 DEF Held
  <2>1. Placed(trie[m], list[m], rules)
    BY <1>1 DEF RouterInv, Held, HeldBy
  <2> QED
    BY <1>1, <2>1 DEF HeldBy
<1>4. Thrown'
  BY <1>1 DEF Thrown
<1>5. InProgress'
  <2>1. asked = NoAsk /\ answer = NoAnswer
    BY <1>1 DEF RouterInv, InProgress
  <2> QED
    BY <1>1, <2>1 DEF InProgress
<1> QED
  BY <1>2, <1>3, <1>4, <1>5 DEF RouterInv

\* A step that leaves the routes, the lists and the trees alone.
LEMMA TablesKept ==
  ASSUME RouterInv, UNCHANGED <<rules, added, list, trie>>,
         stage' = stage \/ (stage = "register" /\ stage' = "validate")
  PROVE  (Registered /\ Listed /\ Held /\ Fitted /\ Thrown)'
<1>1. Registered' /\ Listed' /\ Fitted'
  BY DEF RouterInv, Registered, Listed, Fitted, Conflict
<1>2. Held'
  BY DEF RouterInv, Held
<1>3. Thrown'
  BY DEF RouterInv, Thrown, Unfit, Conflict
<1> QED
  BY <1>1, <1>2, <1>3

LEMMA AnswerKept ==
  ASSUME UNCHANGED <<rules, catchall, list, trie, asked, query>>
  PROVE  AnswerTo(asked)' = AnswerTo(asked)
  BY DEF AnswerTo, AnswerHead, AnswerOptions, AnswerOther, AnswerUpgrade, HasRoute, RefusalCode, Refused,
         Matched, Lookup, HeadMethod, Handled, Allow

LEMMA InductiveInv == RouterInv /\ Rooted /\ [Next]_vars => RouterInv'
<1> SUFFICES ASSUME RouterInv, Rooted, [Next]_vars PROVE RouterInv'
  OBVIOUS
<1>1. ASSUME NEW r \in Routes, Route(r) PROVE RouterInv'
  BY <1>1, RouteInv
<1>2. ASSUME CatchAll PROVE RouterInv'
  <2>1. stage = "register" /\ UNCHANGED <<rules, stage, added, list, trie, asked, query, answer>>
    BY <1>2 DEF CatchAll
  <2>2. asked = NoAsk /\ answer = NoAnswer
    BY <2>1 DEF RouterInv, InProgress
  <2>3. InProgress'
    BY <2>1, <2>2 DEF InProgress
  <2> QED
    BY <2>1, <2>3, TablesKept DEF RouterInv
<1>3. ASSUME Run PROVE RouterInv'
  <2>1. /\ stage = "register" /\ stage' = "validate"
        /\ UNCHANGED <<rules, catchall, added, list, trie, asked, query, answer>>
    BY <1>3 DEF Run
  <2>2. asked = NoAsk /\ answer = NoAnswer
    BY <2>1 DEF RouterInv, InProgress
  <2>3. InProgress'
    BY <2>1, <2>2 DEF InProgress
  <2> QED
    BY <2>1, <2>3, TablesKept DEF RouterInv
<1>4. CASE AddRule
  BY <1>4, AddRuleInv
<1>5. CASE AddThrows
  BY <1>5, AddThrowsInv
<1>6. CASE Validated
  BY <1>6, ValidatedInv
<1>7. ASSUME OnUrl PROVE RouterInv'
  <2>1. /\ stage = "serving" /\ asked = NoAsk /\ IsAsk(asked')
        /\ UNCHANGED <<rules, catchall, stage, added, list, trie, answer>>
    BY <1>7 DEF OnUrl
  <2>2. answer = NoAnswer
    BY <2>1 DEF RouterInv, InProgress
  <2>3. InProgress'
    BY <2>1, <2>2 DEF InProgress, IsAsk
  <2> QED
    BY <2>1, <2>3, TablesKept DEF RouterInv
<1>8. ASSUME Answer PROVE RouterInv'
  <2>1. /\ asked # NoAsk /\ answer' = AnswerTo(asked)
        /\ UNCHANGED <<rules, catchall, stage, added, list, trie, asked, query>>
    BY <1>8 DEF Answer
  <2>2. AnswerTo(asked)' = AnswerTo(asked)
    BY <2>1, AnswerKept
  <2>3. stage = "serving" /\ IsAsk(asked)
    BY <2>1 DEF RouterInv, InProgress
  <2>4. InProgress'
    BY <2>1, <2>2, <2>3 DEF InProgress, IsAsk
  <2> QED
    BY <2>1, <2>4, TablesKept DEF RouterInv
<1>9. ASSUME Forget PROVE RouterInv'
  <2>1. /\ asked' = NoAsk /\ answer' = NoAnswer
        /\ UNCHANGED <<rules, catchall, stage, added, list, trie>>
    BY <1>9 DEF Forget
  <2>2. InProgress'
    BY <2>1 DEF InProgress
  <2> QED
    BY <2>1, <2>2, TablesKept DEF RouterInv
<1>10. ASSUME UNCHANGED vars PROVE RouterInv'
  <2>1. UNCHANGED <<rules, catchall, stage, added, list, trie, asked, query, answer>>
    BY <1>10 DEF vars
  <2>2. AnswerTo(asked)' = AnswerTo(asked)
    BY <2>1, AnswerKept
  <2>3. InProgress'
    BY <2>1, <2>2 DEF RouterInv, InProgress, IsAsk
  <2> QED
    BY <2>1, <2>3, TablesKept DEF RouterInv
<1> QED
  BY <1>1, <1>2, <1>3, <1>4, <1>5, <1>6, <1>7, <1>8, <1>9, <1>10 DEF Next

\* The inductive invariant holds in every reachable state.
THEOREM Invariant == Spec => []RouterInv
<1>1. Init => RouterInv /\ Rooted
  <2>1. DOMAIN EmptyTrie = {<<>>}
    BY DEF EmptyTrie
  <2>2. Init => \A m \in Methods : trie[m] = EmptyTrie
    BY DEF Init
  <2> QED
    BY <2>1, <2>2, InitInv DEF Rooted
<1>2. RouterInv /\ Rooted /\ [Next]_vars => (RouterInv /\ Rooted)'
  BY InductiveInv, RootedInv
<1> QED
  BY <1>1, <1>2, PTL DEF Spec

\* validate() throws for the routes that cannot all be served, and for no others: two that
\* answer one path of one method, one without a handler, one without a leading slash.
THEOREM Throws == Spec => []ThrowsOnlyIfUnfit
<1>1. RouterInv => ThrowsOnlyIfUnfit
  <2> SUFFICES ASSUME RouterInv PROVE ThrowsOnlyIfUnfit
    OBVIOUS
  <2>1. stage = "thrown" => Unfit
    BY DEF RouterInv, Thrown
  <2>2. ASSUME stage = "serving" PROVE ~Unfit
    <3>1. DOMAIN rules = 1..added
      BY <2>2 DEF RouterInv, Registered
    <3> QED
      BY <3>1 DEF RouterInv, Fitted, Unfit
  <2> QED
    BY <2>1, <2>2 DEF ThrowsOnlyIfUnfit
<1> QED
  BY <1>1, Invariant, PTL

-------------------------------------------------------------------------------
(* What a lookup finds, in terms of the routes.                             *)

\* A request of the routes that are served.
Served == RouterInv /\ stage = "serving"

\* What r must be for a method and a URL: the first rule that fits, a redirection, or nothing.
FindsRoute(m, url, r) ==
  /\ r.rule \in Nat
  /\ r.rule = 0 <=> ~Answers(m, url)
  /\ r.rule = RedirectSlash <=> Redirected(m, url) # {}
  /\ r.rule \notin {0, RedirectSlash} =>
       /\ list[m][r.rule - 1] = Min(Fitting(m, url)) /\ Fitting(m, url) # {}
       /\ list[m][r.rule - 1] \in DOMAIN rules
       /\ r.params \in Fits(rules[list[m][r.rule - 1]].path, url)

\* The rules of the tree that fit the whole URL.
LEMMA RulesOfTree ==
  ASSUME NEW t, IsTree(t), NEW url \in Seq(STRING), NEW q
  PROVE  q \in RulesBelow(t, url, <<>>, 1) <=> RuleAt(t, q) # 0 /\ Fits(q, url) # {}
<1>1. ASSUME q \in DOMAIN t PROVE FitsAt(q, url, Len(<<>>) + 1, 1) = Fits(q, url) /\ Extends(q, <<>>)
  <2>1. q \in Seq(STRING)
    BY <1>1 DEF IsTree
  <2>2. Len(<<>>) = 0 /\ 0 + 1 = 1 /\ Len(q) \in Nat
    BY <2>1
  <2>3. Fits(q, url) = FitsAt(q, url, 1, 1)
    BY <2>1, FitsIs
  <2> QED
    BY <2>2, <2>3 DEF Extends
<1>2. q \in DOMAIN t => RuleAt(t, q) = t[q].rule
  BY DEF RuleAt
<1>3. q \notin DOMAIN t => RuleAt(t, q) = 0
  BY DEF RuleAt
<1> QED
  BY <1>1, <1>2, <1>3 DEF RulesBelow

\* What the compressed tree of a method finds for a URL: the rule registered first among those
\* whose path fits it, with its own parameters, or the redirection if one fits but for a slash.
THEOREM LookupIs ==
  ASSUME Served, NEW m \in Methods, NEW url \in Seq(STRING)
  PROVE  FindsRoute(m, url, Lookup(m, url))
<1>1. PICK r : r = Lookup(m, url)
  OBVIOUS
<1>2. PICK t : Placed(t, list[m], rules) /\ trie[m] = Optimize(t)
  BY DEF Served, RouterInv, Held, HeldBy
<1>3. IsTree(t)
  BY <1>2 DEF Placed
<1>4. PICK f : FindsFrom(t, url, 1, f) /\ Find(t, url) = f[1][<<>>]
  BY <1>3, FindIs DEF IsTree
<1>5. r = f[1][<<>>]
  BY <1>1, <1>2, <1>3, <1>4, OptimizeFinds DEF Lookup
<1>6. FindsLeast(t, url, <<>>, 1, r)
  <2>1. <<>> \in DOMAIN t /\ 1 \in 1..(Len(url) + 1)
    BY <1>3 DEF IsTree
  <2> QED
    BY <1>3, <1>4, <1>5, <2>1, FindsLeastRule
<1>7. PICK l, n, S : l = list[m] /\ n = Len(rules) /\ S = 1..n
  OBVIOUS
<1>8. n \in Nat /\ DOMAIN rules = 1..n /\ Lists(l, m, n, rules)
  BY <1>7 DEF Served, RouterInv, Registered, Listed
<1>9. /\ l \in Seq(1..n) /\ l \in Seq(S)
      /\ \A k \in DOMAIN l : k \in Nat \ {0} /\ l[k] \in 1..n
  <2>1. l \in Seq(S)
    BY <1>7, <1>8 DEF Lists
  <2>2. \A k \in DOMAIN l : k \in Nat \ {0} /\ l[k] \in S
    BY <2>1
  <2> QED
    BY <1>7, <2>1, <2>2
<1>10. \A i : i \in RulesOf(m) <=> \E k \in DOMAIN l : l[k] = i
  BY <1>8, <1>9 DEF RulesOf, Lists
\* A rule that fits, and one that fits but for its last slash, is found.
<1>11. ASSUME NEW k \in DOMAIN l, l[k] \in Fitting(m, url)
       PROVE  r.rule # 0 /\ r.rule <= k + 1
  <2>1. RuleAt(t, rules[l[k]].path) = k + 1 /\ k + 1 # 0
    BY <1>2, <1>7, <1>9 DEF Placed
  <2>2. Fits(rules[l[k]].path, url) # {}
    BY <1>11 DEF Fitting
  <2>3. PICK q : q = rules[l[k]].path
    OBVIOUS
  <2>4. q \in RulesBelow(t, url, <<>>, 1)
    BY <1>3, <2>1, <2>2, <2>3, RulesOfTree
  <2>5. t[q].rule = k + 1
    BY <2>1, <2>3, <2>4 DEF RulesBelow, RuleAt
  <2> QED
    BY <1>6, <2>4, <2>5 DEF FindsLeast
<1>12. r.rule \in Nat
  BY <1>6 DEF FindsLeast, Result
<1>13. ASSUME NEW i \in Redirected(m, url) PROVE r.rule = RedirectSlash
  <2>1. PICK k \in DOMAIN l : l[k] = i
    BY <1>10 DEF Redirected
  <2>2. PICK q : q = Front(rules[i].path)
    OBVIOUS
  <2>3. HasSlash(rules[i].path) /\ Fits(q, url) # {}
    BY <2>2 DEF Redirected
  <2>4. RuleAt(t, q) = RedirectSlash
    BY <1>2, <1>7, <2>1, <2>2, <2>3 DEF Placed
  <2>5. q \in RulesBelow(t, url, <<>>, 1)
    BY <1>3, <2>3, <2>4, RulesOfTree DEF RedirectSlash
  <2>6. t[q].rule = 1
    BY <2>4, <2>5 DEF RulesBelow, RuleAt, RedirectSlash
  <2> QED
    BY <1>6, <1>12, <2>5, <2>6 DEF FindsLeast, RedirectSlash
\* What is found is one or the other.
<1>14. ASSUME r.rule # 0
       PROVE  \/ r.rule = RedirectSlash /\ Redirected(m, url) # {}
              \/ \E k \in DOMAIN l : /\ r.rule = k + 1 /\ l[k] \in Fitting(m, url)
                                     /\ r.params \in Fits(rules[l[k]].path, url)
  <2>1. PICK q \in RulesBelow(t, url, <<>>, 1) :
          t[q].rule = r.rule /\ r.params \in FitsAt(q, url, Len(<<>>) + 1, 1)
    BY <1>6, <1>14 DEF FindsLeast
  <2>2. RuleAt(t, q) = r.rule /\ Fits(q, url) # {} /\ q \in DOMAIN t
    BY <1>3, <2>1, RulesOfTree DEF RulesBelow, RuleAt
  <2>3. r.params \in Fits(q, url)
    <3>1. q \in Seq(STRING)
      BY <1>3, <2>2 DEF IsTree
    <3>2. Len(<<>>) = 0 /\ 0 + 1 = 1
      BY EmptySeq
    <3> QED
      BY <2>1, <3>1, <3>2, FitsIs
  <2>4. PICK k \in DOMAIN l : ComesFrom(t, q, k, rules[l[k]].path)
    BY <1>2, <1>7, <1>14, <2>2 DEF Placed
  <2>5. l[k] \in RulesOf(m)
    BY <1>10
  <2>6. CASE q = rules[l[k]].path /\ RuleAt(t, q) = k + 1
    BY <2>2, <2>3, <2>5, <2>6 DEF Fitting
  <2>7. CASE HasSlash(rules[l[k]].path) /\ q = Front(rules[l[k]].path)
             /\ RuleAt(t, q) = RedirectSlash
    BY <2>2, <2>5, <2>7 DEF Redirected
  <2> QED
    BY <2>4, <2>6, <2>7 DEF ComesFrom
<1>15. \A i \in Fitting(m, url) : \E k \in DOMAIN l : l[k] = i
  BY <1>10 DEF Fitting
<1>16. r.rule = 0 <=> ~Answers(m, url)
  <2>1. Fitting(m, url) # {} => r.rule # 0
    BY <1>11, <1>15
  <2>2. Redirected(m, url) # {} => r.rule # 0
    BY <1>13 DEF RedirectSlash
  <2>3. r.rule # 0 => Fitting(m, url) # {} \/ Redirected(m, url) # {}
    BY <1>14
  <2> QED
    BY <2>1, <2>2, <2>3 DEF Answers
<1>17. r.rule = RedirectSlash <=> Redirected(m, url) # {}
  <2>1. ASSUME r.rule = RedirectSlash PROVE Redirected(m, url) # {}
    <3>1. \A k \in DOMAIN l : r.rule # k + 1
      BY <1>9, <2>1 DEF RedirectSlash
    <3> QED
      BY <1>14, <2>1, <3>1 DEF RedirectSlash
  <2> QED
    BY <1>13, <2>1
<1>18. ASSUME r.rule \notin {0, RedirectSlash}
       PROVE  /\ l[r.rule - 1] = Min(Fitting(m, url)) /\ Fitting(m, url) # {}
              /\ l[r.rule - 1] \in DOMAIN rules
              /\ r.params \in Fits(rules[l[r.rule - 1]].path, url)
  <2>1. PICK k \in DOMAIN l : /\ r.rule = k + 1 /\ l[k] \in Fitting(m, url)
                              /\ r.params \in Fits(rules[l[k]].path, url)
    BY <1>14, <1>18
  <2>2. k = r.rule - 1 /\ l[k] \in DOMAIN rules /\ l[k] \in Nat
    BY <1>8, <1>9, <2>1
  <2>3. ASSUME NEW i \in Fitting(m, url) PROVE l[k] <= i /\ i \in Nat
    <3>1. PICK j \in DOMAIN l : l[j] = i
      BY <1>15
    <3>2. k + 1 <= j + 1
      BY <1>11, <2>1, <3>1
    <3>3. k = j \/ k < j
      BY <1>9, <3>2
    <3>4. k < j => l[k] < l[j]
      BY <1>8 DEF Lists
    <3> QED
      BY <1>9, <3>1, <3>3, <3>4
  <2>4. PICK T, x : T = Fitting(m, url) /\ x = Min(T)
    OBVIOUS
  <2>5. T \subseteq Nat /\ T # {} /\ l[k] \in T /\ \A i \in T : l[k] <= i
    BY <2>1, <2>3, <2>4
  <2>6. Min(T) \in T /\ \A y \in T : Min(T) <= y
    BY <2>5, MinIsLeast
  <2>7. x = l[k]
    <3>1. x \in Nat /\ x <= l[k] /\ l[k] <= x
      BY <2>4, <2>5, <2>6
    <3> QED
      BY <2>2, <3>1
  <2> QED
    BY <2>1, <2>2, <2>4, <2>5, <2>7
<1> QED
  BY <1>1, <1>7, <1>12, <1>16, <1>17, <1>18 DEF FindsRoute

-------------------------------------------------------------------------------
(* What a request is answered with.                                         *)

LEMMA AnsweredIs ==
  ASSUME RouterInv, Answered
  PROVE  /\ Served /\ answer = AnswerTo(asked)
         /\ asked.method \in Methods /\ asked.upgrade \in BOOLEAN
         /\ asked.path \in Seq(STRING)
  BY DEF RouterInv, InProgress, Answered, Served, IsAsk

\* The handler of a rule that a lookup found, or the redirection.
HandledBy(m, url, a) ==
  /\ a.code \in {200, 301, 500}
  /\ a.code = 301 <=> Redirected(m, url) # {}
  /\ a.rule # 0 <=> Redirected(m, url) = {}
  /\ a.rule # 0 => /\ Fitting(m, url) # {} /\ a.rule = Min(Fitting(m, url))
                   /\ a.params \in Fits(rules[a.rule].path, url)

LEMMA HandledIs ==
  ASSUME Served, NEW m \in Methods, NEW url \in Seq(STRING), NEW a,
         NEW found, found = Lookup(m, url), found.rule # 0,
         NEW h, h = Handled(m, found, a)
  PROVE  HandledBy(m, url, h) /\ Answers(m, url)
<1>1. FindsRoute(m, url, found)
  BY LookupIs
<1>2. CASE found.rule = RedirectSlash
  <2>1. h = [NoAnswer EXCEPT !.code = 301]
    BY <1>2, Zenon DEF Handled
  <2>2. h.code = 301 /\ h.rule = 0
    BY <2>1 DEF NoAnswer
  <2> QED
    BY <1>1, <1>2, <2>2 DEF FindsRoute, HandledBy
<1>3. CASE found.rule # RedirectSlash
  <2> DEFINE i == list[m][found.rule - 1]
             got == [n \in rules[i].needs |-> Get(query, <<n>>)]
             throws == \/ \E n \in rules[i].needs : got[n] = Missing
                       \/ \E n \in rules[i].numbers : ~IsNumber(got[n])
  <2>1. h = [NoAnswer EXCEPT !.code = IF throws THEN 500 ELSE 200,
                             !.rule = i, !.params = found.params, !.got = got]
    BY <1>3, Zenon DEF Handled
  <2> HIDE DEF throws, got, i
  <2>2. h.code = (IF throws THEN 500 ELSE 200) /\ h.rule = i /\ h.params = found.params
    BY <2>1 DEF NoAnswer
  <2>3. /\ i = Min(Fitting(m, url)) /\ Fitting(m, url) # {} /\ i \in DOMAIN rules
        /\ found.params \in Fits(rules[i].path, url)
    BY <1>1, <1>3 DEF FindsRoute, i
  <2>4. i # 0
    BY <2>3 DEF Served, RouterInv, Registered
  <2>5. Redirected(m, url) = {} /\ Answers(m, url)
    BY <1>1, <1>3 DEF FindsRoute
  <2>6. h.code \in {200, 500}
    BY <2>2
  <2> QED
    BY <2>2, <2>3, <2>4, <2>5, <2>6 DEF HandledBy
<1> QED
  BY <1>2, <1>3

\* The methods that have a rule for a URL are those whose trees find one.
LEMMA MatchedIs ==
  ASSUME Served, NEW url \in Seq(STRING)
  PROVE  /\ \A m \in Methods : Lookup(m, url).rule # 0 <=> Answers(m, url)
         /\ Matched(url) = {m \in Methods : Answers(m, url)}
<1>1. ASSUME NEW m \in Methods PROVE Lookup(m, url).rule # 0 <=> Answers(m, url)
  <2>1. FindsRoute(m, url, Lookup(m, url))
    BY LookupIs
  <2> QED
    BY <2>1 DEF FindsRoute
<1> QED
  BY <1>1 DEF Matched

\* Every answer that is not handle_upgrade's and not an OPTIONS', in one way or the other.
LEMMA RouteAnswer ==
  ASSUME RouterInv, Answered, ~(asked.upgrade /\ HasRoute(asked)), asked.method # "OPTIONS"
  PROVE  /\ Effective \in Methods
         /\ \/ HandledBy(Effective, asked.path, answer) /\ Answers(Effective, asked.path)
            \/ /\ answer.code \in {404, 405} /\ answer.rule = 0
               /\ ~Answers(Effective, asked.path)
<1>1. /\ Served /\ answer = AnswerTo(asked) /\ asked.method \in Methods
      /\ asked.path \in Seq(STRING)
  BY AnsweredIs
<1>2. PICK url : url = asked.path
  OBVIOUS
<1>3. \A m \in Methods : Lookup(m, url).rule # 0 <=> Answers(m, url)
  BY <1>1, <1>2, MatchedIs
<1>4. CASE asked.method = "HEAD"
  <2>1. answer = AnswerHead(asked)
    BY <1>1, <1>4 DEF AnswerTo
  <2>2. HeadMethod(url) = Effective /\ Effective \in Methods
    BY <1>2, <1>3, <1>4 DEF HeadMethod, Effective, Methods
  <2>3. PICK found : found = Lookup(Effective, url)
    OBVIOUS
  <2>4. answer = IF found.rule = 0 THEN [NoAnswer EXCEPT !.code = 404]
                 ELSE Handled(Effective, found, asked)
    BY <1>2, <2>1, <2>2, <2>3, Zenon DEF AnswerHead
  <2>5. CASE found.rule = 0
    BY <1>2, <1>3, <2>2, <2>3, <2>4, <2>5 DEF NoAnswer
  <2>6. CASE found.rule # 0
    BY <1>1, <1>2, <2>2, <2>3, <2>4, <2>6, HandledIs
  <2> QED
    BY <2>2, <2>5, <2>6
<1>5. CASE asked.method # "HEAD"
  <2>1. answer = AnswerOther(asked)
    BY <1>1, <1>5 DEF AnswerTo
  <2>2. asked.method = Effective /\ Effective \in Methods
    BY <1>1, <1>5 DEF Effective
  <2>3. PICK found : found = Lookup(Effective, url)
    OBVIOUS
  <2>4. answer = IF found.rule # 0 THEN Handled(Effective, found, asked)
                 ELSE Refused(RefusalCode(url))
    BY <1>2, <2>1, <2>2, <2>3, Zenon DEF AnswerOther
  <2>5. CASE found.rule = 0
    <3>1. answer.code = RefusalCode(url) /\ answer.rule = 0
      BY <2>4, <2>5 DEF Refused, NoAnswer
    <3> QED
      BY <1>2, <1>3, <2>2, <2>3, <2>5, <3>1 DEF RefusalCode
  <2>6. CASE found.rule # 0
    BY <1>1, <1>2, <2>2, <2>3, <2>4, <2>6, HandledIs
  <2> QED
    BY <2>2, <2>5, <2>6
<1> QED
  BY <1>4, <1>5

\* A request that reaches a handler reaches the one registered first among those whose path
\* fits its URL, with that rule's own parameters; it is redirected if and only if a rule
\* fits it but for a last slash.
THEOREM Routed == Spec => []RoutedToFirstMatch
<1>1. RouterInv => RoutedToFirstMatch
  <2> SUFFICES ASSUME RouterInv, Answered, ~asked.upgrade, asked.method # "OPTIONS",
                      NEW m, m = Effective, NEW first, first = Fitting(m, asked.path)
               PROVE  /\ answer.code = 301 <=> Redirected(m, asked.path) # {}
                      /\ answer.rule # 0 <=> first # {} /\ Redirected(m, asked.path) = {}
                      /\ answer.rule # 0 =>
                           /\ answer.rule = Min(first)
                           /\ answer.params \in Fits(rules[answer.rule].path, asked.path)
    BY DEF RoutedToFirstMatch
  <2>1. \/ HandledBy(m, asked.path, answer) /\ Answers(m, asked.path)
        \/ answer.code \in {404, 405} /\ answer.rule = 0 /\ ~Answers(m, asked.path)
    BY RouteAnswer
  <2>2. CASE HandledBy(m, asked.path, answer) /\ Answers(m, asked.path)
    BY <2>2 DEF HandledBy, Answers
  <2>3. CASE answer.code \in {404, 405} /\ answer.rule = 0 /\ ~Answers(m, asked.path)
    BY <2>3 DEF Answers
  <2> QED
    BY <2>1, <2>2, <2>3
<1> QED
  BY <1>1, Invariant, PTL

\* What an upgrade is answered with: the rule, the redirection, or why there is none.
LEMMA UpgradeAnswer ==
  ASSUME RouterInv, Answered, asked.upgrade, HasRoute(asked)
  PROVE  /\ answer.code \in {301, 404, 405}
         /\ answer.code = 301 => Redirected(asked.method, asked.path) # {}
         /\ answer.code = 405 => /\ ~Answers(asked.method, asked.path)
                                 /\ Matched(asked.path) # {}
<1>1. /\ Served /\ answer = AnswerUpgrade(asked) /\ asked.method \in Methods
      /\ asked.path \in Seq(STRING)
  BY AnsweredIs DEF AnswerTo
<1>2. PICK found : found = Lookup(asked.method, asked.path)
  OBVIOUS
<1>3. FindsRoute(asked.method, asked.path, found)
  BY <1>1, <1>2, LookupIs
<1>4. answer.code = IF found.rule = 0 THEN RefusalCode(asked.path)
                    ELSE IF found.rule = RedirectSlash THEN 301 ELSE 404
  BY <1>1, <1>2 DEF AnswerUpgrade, NoAnswer
<1>5. RefusalCode(asked.path) \in {404, 405}
      /\ (RefusalCode(asked.path) = 405 => Matched(asked.path) # {})
  BY DEF RefusalCode
<1> QED
  BY <1>3, <1>4, <1>5 DEF FindsRoute

\* A request without a rule learns why: 404 if no method has one for its URL, 405 if another
\* method has, and OPTIONS lists exactly the methods that have one.
THEOREM Refuses == Spec => []RefusalTellsWhy
<1>1. RouterInv => RefusalTellsWhy
  <2> SUFFICES ASSUME RouterInv, Answered, NEW able, able = {m \in Methods : Answers(m, asked.path)}
               PROVE  /\ answer.code = 405 => able # {} /\ asked.method \notin able
                      /\ answer.code = 404 /\ ~ asked.upgrade =>
                           IF asked.method = "HEAD" THEN able \cap {"HEAD", "GET"} = {} ELSE able = {}
                      /\ answer.code = 204 /\ asked.path # <<"/", "*">> =>
                           able # {} /\ answer.allow = able \cup {"OPTIONS", "HEAD"}
    BY DEF RefusalTellsWhy
  <2>1. /\ Served /\ answer = AnswerTo(asked) /\ asked.method \in Methods
        /\ asked.upgrade \in BOOLEAN /\ asked.path \in Seq(STRING)
    BY AnsweredIs
  <2>2. /\ \A m \in Methods : Lookup(m, asked.path).rule # 0 <=> m \in able
        /\ Matched(asked.path) = able
    BY <2>1, MatchedIs
  <2>3. CASE asked.upgrade /\ HasRoute(asked)
    BY <2>1, <2>2, <2>3, UpgradeAnswer
  <2>4. CASE ~(asked.upgrade /\ HasRoute(asked)) /\ asked.method = "HEAD"
    <3>2. answer = AnswerHead(asked)
      BY <2>1, <2>4 DEF AnswerTo
    <3>3. PICK m, found : m = HeadMethod(asked.path) /\ found = Lookup(m, asked.path)
      OBVIOUS
    <3>4. answer = IF found.rule = 0 THEN [NoAnswer EXCEPT !.code = 404]
                   ELSE Handled(m, found, asked)
      BY <3>2, <3>3, Zenon DEF AnswerHead
    <3>5. m \in Methods /\ m = IF Lookup("HEAD", asked.path).rule # 0 THEN "HEAD" ELSE "GET"
      BY <3>3 DEF HeadMethod, Methods
    <3>6. CASE found.rule = 0
      <4>1. answer.code = 404
        BY <3>4, <3>6 DEF NoAnswer
      <4>2. able \cap {"HEAD", "GET"} = {}
        BY <2>2, <3>3, <3>5, <3>6 DEF Methods
      <4> QED
        BY <2>4, <4>1, <4>2
    <3>7. CASE found.rule # 0
      <4>1. HandledBy(m, asked.path, answer)
        BY <2>1, <3>3, <3>4, <3>5, <3>7, HandledIs
      <4> QED
        BY <4>1 DEF HandledBy
    <3> QED
      BY <3>6, <3>7
  <2>5. CASE ~(asked.upgrade /\ HasRoute(asked)) /\ asked.method = "OPTIONS"
    <3>1. answer = AnswerOptions(asked)
      BY <2>1, <2>5 DEF AnswerTo
    <3>2. CASE asked.path = <<"/", "*">>
      <4>1. answer.code = 204
        BY <3>1, <3>2 DEF AnswerOptions, NoAnswer
      <4> QED
        BY <3>2, <4>1
    <3>3. CASE asked.path # <<"/", "*">> /\ able = {}
      <4>1. answer.code = 404
        BY <2>2, <3>1, <3>3 DEF AnswerOptions, NoAnswer
      <4> QED
        BY <3>3, <4>1
    <3>4. CASE asked.path # <<"/", "*">> /\ able # {}
      <4>1. answer = [NoAnswer EXCEPT !.code = 204, !.allow = Allow(able)]
        BY <2>2, <3>1, <3>4, Zenon DEF AnswerOptions
      <4>2. answer.code = 204 /\ answer.allow = {"OPTIONS", "HEAD"} \cup able
        BY <4>1 DEF NoAnswer, Allow
      <4> QED
        BY <3>4, <4>2
    <3> QED
      BY <3>2, <3>3, <3>4
  <2>6. CASE ~(asked.upgrade /\ HasRoute(asked)) /\ asked.method \notin {"HEAD", "OPTIONS"}
    <3>1. answer = AnswerOther(asked)
      BY <2>1, <2>6 DEF AnswerTo
    <3>2. PICK found : found = Lookup(asked.method, asked.path)
      OBVIOUS
    <3>3. answer = IF found.rule # 0 THEN Handled(asked.method, found, asked)
                   ELSE Refused(RefusalCode(asked.path))
      BY <3>1, <3>2, Zenon DEF AnswerOther
    <3>4. CASE found.rule = 0
      <4>1. answer.code = IF able # {} THEN 405 ELSE 404
        BY <2>2, <3>3, <3>4 DEF Refused, RefusalCode, NoAnswer
      <4>2. asked.method \notin able
        BY <2>1, <2>2, <3>2, <3>4
      <4> QED
        BY <2>6, <4>1, <4>2
    <3>5. CASE found.rule # 0
      <4>1. HandledBy(asked.method, asked.path, answer)
        BY <2>1, <3>2, <3>3, <3>5, HandledIs
      <4> QED
        BY <4>1 DEF HandledBy
    <3> QED
      BY <3>4, <3>5
  <2> QED
    BY <2>1, <2>3, <2>4, <2>5, <2>6
<1> QED
  BY <1>1, Invariant, PTL

-------------------------------------------------------------------------------
(* The redirection: what fits but for the last slash fits with it.          *)

\* A text that ends in a slash is no parameter's but "<path>"'s.
LEMMA EndsInSlash ==
  ASSUME NEW url \in Seq(STRING), NEW pos \in 1..Len(url), url[Len(url)] = "/", NEW token,
         NEW e, e = Len(url) + 1, Spells(token, Text(url, pos, e))
  PROVE  token \in {"<path>", "/"}
<1>1. /\ pos \in 1..(Len(url) + 1) /\ e \in (pos + 1)..(Len(url) + 1) /\ e \in pos..(Len(url) + 1)
      /\ e - 1 = Len(url)
  OBVIOUS
<1>2. ASSUME NEW signs, NEW chars, Over(Unsigned(Text(url, pos, e), signs), chars)
      PROVE  "/" \in chars
  <2>1. PICK s : s = Start(url, pos, signs)
    OBVIOUS
  <2>2. Unsigned(Text(url, pos, e), signs) = Text(url, s, e) /\ s \in pos..(pos + 1)
    BY <1>1, <2>1, UnsignedText
  <2>3. s \in 1..(Len(url) + 1) /\ e \in s..(Len(url) + 1)
    BY <1>1, <2>2
  <2>4. e > s /\ \A i \in s..(e - 1) : url[i] \in chars
    BY <1>2, <2>2, <2>3, OverText
  <2>5. Len(url) \in s..(e - 1)
    BY <1>1, <2>3, <2>4
  <2> QED
    BY <2>4, <2>5
<1>3. CASE token \in {"<int>", "<uint>"}
  <2>1. \E signs : Over(Unsigned(Text(url, pos, e), signs), Digits)
    BY <1>3 DEF Spells, IsNumeral
  <2>2. "/" \in Digits
    BY <1>2, <2>1
  <2> QED
    BY <2>2 DEF Digits
<1>4. CASE token = "<double>"
  <2>1. Over(Unsigned(Text(url, pos, e), Signs), Digits \cup {"."})
    BY <1>4 DEF Spells, IsDecimal
  <2>2. "/" \in Digits \cup {"."}
    BY <1>2, <2>1
  <2> QED
    BY <2>2 DEF Digits
<1>5. /\ Len(Text(url, pos, e)) = e - pos /\ DOMAIN Text(url, pos, e) = 1..(e - pos)
      /\ \A i \in 1..(e - pos) : Text(url, pos, e)[i] = url[pos + i - 1]
  BY <1>1, TextIs
<1>6. e - pos \in 1..(e - pos) /\ pos + (e - pos) - 1 = Len(url)
  BY <1>1
<1>7. Text(url, pos, e)[e - pos] = "/"
  BY <1>5, <1>6
<1>8. CASE token = "<string>"
  <2>1. "/" \notin ToSet(Text(url, pos, e))
    BY <1>8 DEF Spells
  <2>2. "/" \in ToSet(Text(url, pos, e))
    BY <1>5, <1>6, <1>7 DEF ToSet
  <2> QED
    BY <2>1, <2>2
<1>9. CASE token \notin ParamTypes
  <2>1. Text(url, pos, e) = <<token>>
    BY <1>9 DEF Spells, ParamTypes
  <2>2. e - pos = 1
    BY <1>1, <1>5, <2>1
  <2> QED
    BY <1>7, <2>1, <2>2
<1> QED
  BY <1>3, <1>4, <1>8, <1>9 DEF ParamTypes

\* One slash more.  (That "/" is in STRING the provers know only from a path that has one.)
LEMMA OneSlash ==
  ASSUME "/" \in STRING, NEW url \in Seq(STRING), NEW there, there = url \o <<"/">>
  PROVE  /\ there \in Seq(STRING) /\ Len(there) = Len(url) + 1
         /\ \A i \in 1..Len(url) : there[i] = url[i]
         /\ there[Len(url) + 1] = "/"
         /\ \A pos \in 1..(Len(url) + 1) : \A e \in pos..(Len(url) + 1) :
              Text(there, pos, e) = Text(url, pos, e)
<1>0. <<"/">> \in Seq(STRING) /\ Len(<<"/">>) = 1 /\ <<"/">>[1] = "/"
  <2>1. \A S, x : x \in S => <<x>> \in Seq(S) /\ Len(<<x>>) = 1 /\ <<x>>[1] = x
    OBVIOUS
  <2> QED
    BY <2>1, Zenon
<1>1. PICK S, h, n : S = STRING /\ h = <<"/">> /\ n = Len(url)
  OBVIOUS
<1>2. h \in Seq(S) /\ Len(h) = 1 /\ h[1] = "/" /\ url \in Seq(S) /\ there = url \o h /\ n \in Nat
  <2>1. h \in Seq(S) /\ Len(h) = 1 /\ h[1] = "/" /\ url \in Seq(S) /\ there = url \o h
    BY <1>0, <1>1, Zenon
  <2>2. n \in Nat
    BY <1>1
  <2> QED
    BY <2>1, <2>2
<1>3. /\ there \in Seq(S) /\ Len(there) = Len(url) + Len(h)
      /\ \A i \in 1..(Len(url) + Len(h)) :
           there[i] = IF i <= Len(url) THEN url[i] ELSE h[i - Len(url)]
  BY <1>2, ConcatProperties
<1>4. /\ Len(there) = n + 1 /\ \A i \in 1..n : there[i] = url[i]
      /\ there[n + 1] = "/"
  <2>1. Len(there) = n + 1
    BY <1>1, <1>2, <1>3
  <2>2. \A i \in 1..n : there[i] = url[i]
    BY <1>1, <1>2, <1>3
  <2>3. n + 1 \in 1..(n + 1) /\ ~(n + 1 <= n) /\ (n + 1) - n = 1
    BY <1>2
  <2>4. there[n + 1] = h[1]
    BY <1>1, <1>2, <1>3, <2>3
  <2> QED
    BY <1>2, <2>1, <2>2, <2>4
<1>5. there \in Seq(STRING)
  BY <1>1, <1>3
<1>6. ASSUME NEW pos \in 1..(n + 1), NEW e \in pos..(n + 1)
      PROVE  Text(there, pos, e) = Text(url, pos, e)
  <2>1. PICK a, b : a = Text(there, pos, e) /\ b = Text(url, pos, e)
    OBVIOUS
  <2>2. pos \in 1..(Len(there) + 1) /\ e \in pos..(Len(there) + 1)
    BY <1>2, <1>4
  <2>3. /\ a \in Seq(STRING) /\ Len(a) = e - pos
        /\ \A i \in 1..(e - pos) : a[i] = there[pos + i - 1]
    BY <1>5, <2>1, <2>2, TextIs
  <2>4. /\ b \in Seq(STRING) /\ Len(b) = e - pos
        /\ \A i \in 1..(e - pos) : b[i] = url[pos + i - 1]
    BY <1>1, <2>1, TextIs
  <2>5. \A i \in 1..(e - pos) : pos + i - 1 \in 1..n
    BY <1>2
  <2>6. a = b
    BY <1>4, <2>3, <2>4, <2>5, SeqEqual
  <2> QED
    BY <2>1, <2>6
<1> QED
  BY <1>1, <1>4, <1>5, <1>6

\* What a token takes, it takes with a slash after it too, unless it takes everything.
LEMMA TakesBeforeSlash ==
  ASSUME "/" \in STRING, NEW url \in Seq(STRING), NEW there, there = url \o <<"/">>, NEW token, token # "<path>",
         NEW pos \in 1..Len(url), NEW e \in (pos + 1)..(Len(url) + 1), Takes(token, url, pos, e)
  PROVE  Takes(token, there, pos, e)
<1>1. PICK n : n = Len(url) /\ n \in Nat /\ pos \in 1..n /\ e \in (pos + 1)..(n + 1)
  OBVIOUS
<1>2. /\ there \in Seq(STRING) /\ Len(there) = Len(url) + 1 /\ there[Len(url) + 1] = "/"
      /\ \A x \in 1..(Len(url) + 1) : \A y \in x..(Len(url) + 1) :
           Text(there, x, y) = Text(url, x, y)
  BY OneSlash, Zenon
<1>3. /\ Len(there) = n + 1 /\ there[Len(there)] = "/"
      /\ \A x \in 1..(n + 1) : \A y \in x..(n + 1) : Text(there, x, y) = Text(url, x, y)
  BY <1>1, <1>2, Zenon
<1>4. \A f \in pos..(n + 1) : Text(there, pos, f) = Text(url, pos, f)
  <2>1. pos \in 1..(n + 1)
    BY <1>1
  <2> QED
    BY <1>3, <2>1, Zenon
<1>5. e \in pos..(n + 1)
  BY <1>1
<1>6. Text(there, pos, e) = Text(url, pos, e)
  BY <1>4, <1>5, Zenon
<1>7. ASSUME token \in ParamTypes, NEW f \in (e + 1)..(n + 2)
      PROVE  ~Spells(token, Text(there, pos, f))
  <2>1. CASE f <= n + 1
    <3>1. f \in pos..(n + 1) /\ f \in (e + 1)..(n + 1)
      BY <1>1, <1>7, <2>1
    <3>2. ~Spells(token, Text(url, pos, f))
      BY <1>1, <1>7, <3>1, Zenon DEF Takes
    <3> QED
      BY <1>4, <3>1, <3>2, Zenon
  <2>2. CASE ~(f <= n + 1)
    <3>1. f = (n + 1) + 1 /\ pos \in 1..(n + 1)
      BY <1>1, <1>7, <2>2
    <3>2. f = Len(there) + 1 /\ pos \in 1..Len(there)
      BY <1>3, <3>1, Zenon
    <3>3. Spells(token, Text(there, pos, f)) => token \in {"<path>", "/"}
      BY <1>2, <1>3, <3>2, EndsInSlash, Zenon
    <3> QED
      BY <1>7, <3>3 DEF ParamTypes
  <2> QED
    BY <2>1, <2>2
<1>8. (e + 1)..(Len(there) + 1) = (e + 1)..(n + 2)
  <2>1. (n + 1) + 1 = n + 2
    BY <1>1
  <2> QED
    BY <1>3, <2>1, Zenon
<1> QED
  BY <1>6, <1>7, <1>8, Zenon DEF Takes

\* "<path>" takes everything.
LEMMA TakesPath ==
  ASSUME NEW url \in Seq(STRING), NEW pos \in 1..Len(url), NEW e \in (pos + 1)..(Len(url) + 1),
         Takes("<path>", url, pos, e)
  PROVE  e = Len(url) + 1
<1> SUFFICES ASSUME e # Len(url) + 1 PROVE FALSE
  OBVIOUS
<1>1. PICK f : f = Len(url) + 1
  OBVIOUS
<1>2. f \in (e + 1)..(Len(url) + 1) /\ pos \in 1..(Len(url) + 1) /\ f \in pos..(Len(url) + 1) /\ f - pos > 0
  BY <1>1
<1>3. Len(Text(url, pos, f)) = f - pos
  BY <1>2, TextIs
<1>4. Spells("<path>", Text(url, pos, f))
  BY <1>2, <1>3 DEF Spells
<1> QED
  BY <1>2, <1>4 DEF Takes, ParamTypes

\* Something fits: after the last token only at the end of the URL, and before it where a
\* token takes some text and the rest fits.
LEMMA FitsAtEnd ==
  ASSUME NEW path \in Seq(STRING), NEW url \in Seq(STRING),
         NEW pos \in 1..(Len(url) + 1)
  PROVE  FitsAt(path, url, Len(path) + 1, pos) # {} <=> pos = Len(url) + 1
<1>1. Len(path) + 1 \in 1..(Len(path) + 1)
  OBVIOUS
<1>2. /\ Len(path) + 1 = Len(path) + 1 =>
           FitsAt(path, url, Len(path) + 1, pos) = IF pos = Len(url) + 1 THEN {<<>>} ELSE {}
      /\ Len(path) + 1 <= Len(path) => \A params :
           params \in FitsAt(path, url, Len(path) + 1, pos) <=>
             FitsHere(path, url, Len(path) + 1, pos, params)
  BY <1>1, FitsStep, Zenon
<1> QED
  BY <1>2, Zenon

FitsOn(path, url, i, pos) ==
  \E e \in (pos + 1)..(Len(url) + 1) :
    Takes(path[i], url, pos, e) /\ FitsAt(path, url, i + 1, e) # {}

LEMMA FitsFurther ==
  ASSUME NEW path \in Seq(STRING), NEW url \in Seq(STRING),
         NEW i \in 1..Len(path), NEW pos \in 1..(Len(url) + 1)
  PROVE  FitsAt(path, url, i, pos) # {} <=> FitsOn(path, url, i, pos)
<1>1. i \in 1..(Len(path) + 1) /\ i <= Len(path)
  OBVIOUS
<1>2. \A params : params \in FitsAt(path, url, i, pos) <=> FitsHere(path, url, i, pos, params)
  BY <1>1, FitsStep, Zenon
<1> QED
  BY <1>2, Zenon DEF FitsHere, FitsOn

\* A path that ends in a slash, not after "<path>" or another slash, and what is before it.
BeforeSlash(path, front) ==
  /\ "/" \in STRING /\ path \in Seq(STRING) /\ front \in Seq(STRING)
  /\ Len(front) >= 1 /\ Len(path) = Len(front) + 1 /\ path[Len(path)] = "/"
  /\ front # <<>> /\ \A i \in 1..Len(front) : path[i] = front[i]
  /\ front[Len(front)] \notin {"<path>", "/"}

\* What fits but for the last slash fits with it, unless "<path>" comes before the slash.
LEMMA FitsBeforeSlash ==
  ASSUME NEW url \in Seq(STRING), NEW there, there = url \o <<"/">>,
         NEW path, NEW front, BeforeSlash(path, front), FitsAt(front, url, 1, 1) # {}
  PROVE  FitsAt(path, there, 1, 1) # {}
<1> SUFFICES ASSUME "/" \in STRING, path \in Seq(STRING), front \in Seq(STRING),
                    Len(front) >= 1, Len(path) = Len(front) + 1, path[Len(path)] = "/",
                    \A i \in 1..Len(front) : path[i] = front[i], front[Len(front)] # "<path>"
             PROVE  FitsAt(path, there, 1, 1) # {}
  BY Zenon DEF BeforeSlash
<1>1. PICK n, l : n = Len(url) /\ n \in Nat /\ l = Len(front) /\ l \in Nat /\ l >= 1 /\ Len(path) = l + 1
  <2>1. Len(url) \in Nat /\ Len(front) \in Nat
    OBVIOUS
  <2> QED
    BY <2>1, Zenon
<1>2. there \in Seq(STRING) /\ Len(there) = n + 1 /\ there[n + 1] = "/"
  <2>1. there \in Seq(STRING) /\ Len(there) = Len(url) + 1 /\ there[Len(url) + 1] = "/"
    BY OneSlash, Zenon
  <2> QED
    BY <1>1, <2>1, Zenon
<1> DEFINE Bad == {pos \in 1..(n + 1) : \E i \in 1..(l + 1) :
                     FitsAt(front, url, i, pos) # {} /\ FitsAt(path, there, i, pos) = {}}
<1>3. ASSUME NEW x \in 1..(n + 1), \A y \in (x + 1)..(n + 1) : y \notin Bad,
             NEW i \in 1..(l + 1), FitsAt(front, url, i, x) # {}
      PROVE  FitsAt(path, there, i, x) # {}
  <2>1. /\ x \in 1..(Len(there) + 1) /\ i \in 1..Len(path) /\ x \in 1..(Len(url) + 1)
        /\ i \in 1..(Len(front) + 1)
    BY <1>1, <1>2
  <2>2. FitsOn(path, there, i, x) => FitsAt(path, there, i, x) # {}
    BY <1>2, <2>1, FitsFurther, Zenon
  <2>3. CASE i = l + 1
    <3>0. i = Len(front) + 1
      BY <1>1, <2>3, Zenon
    <3>1. x = n + 1
      <4>1. FitsAt(front, url, Len(front) + 1, x) # {}
        BY <1>3, <3>0, Zenon
      <4>2. x = Len(url) + 1
        BY <2>1, <4>1, FitsAtEnd, Zenon
      <4> QED
        BY <1>1, <4>2, Zenon
    <3>2. PICK e : e = n + 2
      OBVIOUS
    <3>3. /\ e \in (x + 1)..(Len(there) + 1) /\ e \in x..(Len(there) + 1) /\ e - x = 1
          /\ e \in 1..(Len(there) + 1) /\ e = Len(there) + 1
          /\ i + 1 = Len(path) + 1 /\ x + 1 - 1 = n + 1
      BY <1>1, <1>2, <2>3, <3>1, <3>2
    <3>4. FitsAt(path, there, i + 1, e) # {}
      <4>1. FitsAt(path, there, Len(path) + 1, e) # {} <=> e = Len(there) + 1
        <5>1. PICK t : t = there
          OBVIOUS
        <5>2. t \in Seq(STRING) /\ e \in 1..(Len(t) + 1)
          BY <1>2, <3>3, <5>1, Zenon
        <5>3. FitsAt(path, t, Len(path) + 1, e) # {} <=> e = Len(t) + 1
          BY <5>2, FitsAtEnd
        <5> QED
          BY <5>1, <5>3, Zenon
      <4> QED
        BY <3>3, <4>1
    <3>5. Text(there, x, e) = <<"/">>
      <4>1. PICK a : a = Text(there, x, e)
        OBVIOUS
      <4>2. a \in Seq(STRING) /\ Len(a) = e - x /\ \A k \in 1..(e - x) : a[k] = there[x + k - 1]
        BY <1>2, <2>1, <3>3, <4>1, TextIs
      <4>3. PICK S : S = STRING
        OBVIOUS
      <4>4. \A b \in Seq(S) : Len(b) = 1 => b = <<b[1]>>
        OBVIOUS
      <4>5. Len(a) = 1
        BY <3>3, <4>2, Zenon
      <4>6. 1 \in 1..(e - x)
        BY <3>3
      <4>7. a[1] = there[x + 1 - 1]
        BY <4>2, <4>6, Zenon
      <4>8. a[1] = "/"
        BY <1>2, <3>3, <4>7, Zenon
      <4>9. a = <<a[1]>>
        BY <4>2, <4>3, <4>4, <4>5, Zenon
      <4> QED
        BY <4>1, <4>8, <4>9, Zenon
    <3>6. path[i] = "/"
      BY <1>1, <2>3
    <3>7. Takes(path[i], there, x, e)
      BY <3>5, <3>6 DEF Takes, Spells, ParamTypes
    <3> QED
      BY <2>2, <3>3, <3>4, <3>7, Zenon DEF FitsOn
  <2>4. CASE i <= l
    <3>1. PICK e \in (x + 1)..(Len(url) + 1) :
            Takes(front[i], url, x, e) /\ FitsAt(front, url, i + 1, e) # {}
      <4>1. i \in 1..Len(front)
        BY <1>1, <2>4
      <4>2. FitsOn(front, url, i, x)
        BY <1>3, <2>1, <4>1, FitsFurther, Zenon
      <4> QED
        BY <4>2, Zenon DEF FitsOn
    <3>2. /\ e \in 1..(n + 1) /\ e \in (x + 1)..(n + 1) /\ i + 1 \in 1..(l + 1) /\ x \in 1..Len(url)
          /\ e \in (x + 1)..(Len(there) + 1) /\ i \in 1..Len(front)
      BY <1>1, <1>2, <2>4, <3>1
    <3>3. FitsAt(path, there, i + 1, e) # {}
      BY <1>3, <3>1, <3>2
    <3>4. front[i] # "<path>"
      <4> SUFFICES ASSUME front[i] = "<path>" PROVE FALSE
        OBVIOUS
      <4>1. e = Len(url) + 1
        BY <3>1, <3>2, TakesPath
      <4>2. i # l
        BY <1>1
      <4>3. i + 1 \in 1..Len(front) /\ e \in 1..(Len(url) + 1)
        BY <1>1, <2>4, <3>2, <4>1, <4>2
      <4>4. \E f \in (e + 1)..(Len(url) + 1) : TRUE
        <5>1. PICK j : j = i + 1
          OBVIOUS
        <5>2. j \in 1..Len(front) /\ FitsAt(front, url, j, e) # {}
          BY <3>1, <4>3, <5>1, Zenon
        <5>3. FitsOn(front, url, j, e)
          BY <4>3, <5>2, FitsFurther, Zenon
        <5> QED
          BY <5>3, Zenon DEF FitsOn
      <4> QED
        BY <1>1, <4>1, <4>4
    <3>5. Takes(front[i], there, x, e)
      BY <3>1, <3>2, <3>4, TakesBeforeSlash
    <3>6. path[i] = front[i]
      BY <3>2
    <3> QED
      BY <2>2, <3>2, <3>3, <3>5, <3>6, Zenon DEF FitsOn
  <2> QED
    BY <1>1, <2>3, <2>4
<1>4. Bad = {}
  <2> SUFFICES ASSUME Bad # {} PROVE FALSE
    OBVIOUS
  <2>1. Bad \subseteq 0..(n + 1) /\ n + 1 \in Nat
    BY <1>1
  <2>2. PICK x \in Bad : \A y \in Bad : y <= x
    <3> HIDE DEF Bad
    <3> QED
      BY <2>1, Greatest
  <2>3. x \in 1..(n + 1)
    OBVIOUS
  <2>4. \A y \in (x + 1)..(n + 1) : y \notin Bad
    <3> HIDE DEF Bad
    <3> QED
      BY <2>2, <2>3
  <2>5. PICK i \in 1..(l + 1) : FitsAt(front, url, i, x) # {} /\ FitsAt(path, there, i, x) = {}
    OBVIOUS
  <2> HIDE DEF Bad
  <2> QED
    BY <1>3, <2>3, <2>4, <2>5
<1>5. 1 \in 1..(n + 1) /\ 1 \in 1..(l + 1)
  BY <1>1
<1> QED
  BY <1>4, <1>5

\* The last token of a path that fits takes the end of the URL.
LEMMA LastTakes ==
  ASSUME NEW path \in Seq(STRING), path # <<>>, NEW url \in Seq(STRING),
         FitsAt(path, url, 1, 1) # {}
  PROVE  \E x \in 1..Len(url) : Takes(path[Len(path)], url, x, Len(url) + 1)
<1>1. PICK n, l : n = Len(url) /\ n \in Nat /\ l = Len(path) /\ l \in Nat \ {0}
  BY EmptySeq
<1> DEFINE Ends == \E x \in 1..n : Takes(path[l], url, x, n + 1)
           Bad == {pos \in 1..(n + 1) : \E i \in 1..l : FitsAt(path, url, i, pos) # {} /\ ~Ends}
<1> HIDE DEF Ends
<1>2. ASSUME NEW x \in 1..(n + 1), \A y \in (x + 1)..(n + 1) : y \notin Bad,
             NEW i \in 1..l, FitsAt(path, url, i, x) # {}
      PROVE  Ends
  <2>1. PICK e \in (x + 1)..(n + 1) :
          Takes(path[i], url, x, e) /\ FitsAt(path, url, i + 1, e) # {}
    <3>1. x \in 1..(Len(url) + 1) /\ i \in 1..Len(path)
      BY <1>1
    <3>2. FitsOn(path, url, i, x)
      BY <1>2, <3>1, FitsFurther, Zenon
    <3> QED
      BY <1>1, <3>2, Zenon DEF FitsOn
  <2>2. e \in 1..(n + 1) /\ x \in 1..n
    BY <1>1, <2>1
  <2>3. CASE i = l
    <3>1. e \in 1..(Len(url) + 1) /\ i + 1 = Len(path) + 1
      BY <1>1, <2>2, <2>3
    <3>2. e = n + 1
      <4>1. FitsAt(path, url, Len(path) + 1, e) # {}
        BY <2>1, <3>1, Zenon
      <4>2. e = Len(url) + 1
        BY <3>1, <4>1, FitsAtEnd, Zenon
      <4> QED
        BY <1>1, <4>2, Zenon
    <3> QED
      BY <2>1, <2>2, <2>3, <3>2 DEF Ends
  <2>4. CASE i # l
    <3>1. i + 1 \in 1..l
      BY <1>1, <2>4
    <3> QED
      BY <1>2, <2>1, <2>2, <3>1
  <2> QED
    BY <2>3, <2>4
<1>3. Bad = {}
  <2> SUFFICES ASSUME Bad # {} PROVE FALSE
    OBVIOUS
  <2>1. Bad \subseteq 0..(n + 1) /\ n + 1 \in Nat
    BY <1>1
  <2>2. PICK x \in Bad : \A y \in Bad : y <= x
    <3> HIDE DEF Bad
    <3> QED
      BY <2>1, Greatest
  <2>3. x \in 1..(n + 1)
    OBVIOUS
  <2>4. \A y \in (x + 1)..(n + 1) : y \notin Bad
    <3> HIDE DEF Bad
    <3> QED
      BY <2>2, <2>3
  <2>5. PICK i \in 1..l : FitsAt(path, url, i, x) # {} /\ ~Ends
    OBVIOUS
  <2> HIDE DEF Bad
  <2> QED
    BY <1>2, <2>3, <2>4, <2>5
<1>4. 1 \in 1..(n + 1) /\ 1 \in 1..l
  BY <1>1
<1>5. Ends
  BY <1>3, <1>4
<1> QED
  BY <1>1, <1>5 DEF Ends

\* Following a redirection ends at a handler, as long as no rule of the method ends in
\* "<path>/" or in "//": the rule that redirects fits with the slash, and what fits with the
\* slash is no rule's but for a last slash, so that it is not redirected again.
THEOREM Redirects == Spec => []RedirectLeads
<1>1. RouterInv => RedirectLeads
  <2> SUFFICES ASSUME RouterInv, Answered, answer.code = 301,
                      NEW m, m = Effective, NEW url, url = asked.path,
                      NEW there, there = url \o <<"/">>,
                      \A i \in RulesOf(m) : Plain(rules[i].path)
               PROVE  Fitting(m, there) # {} /\ Redirected(m, there) = {}
    BY DEF RedirectLeads
  <2>1. /\ Served /\ answer = AnswerTo(asked) /\ asked.method \in Methods
        /\ asked.upgrade \in BOOLEAN /\ url \in Seq(STRING)
    BY AnsweredIs
  <2>2. m \in Methods /\ Redirected(m, url) # {}
    <3>1. CASE asked.upgrade /\ HasRoute(asked)
      <4>1. Redirected(asked.method, url) # {}
        BY <3>1, UpgradeAnswer
      <4>2. m = asked.method
        BY <4>1 DEF Effective, Answers
      <4> QED
        BY <2>1, <4>1, <4>2
    <3>2. CASE ~(asked.upgrade /\ HasRoute(asked)) /\ asked.method = "OPTIONS"
      <4>1. answer = AnswerOptions(asked)
        BY <2>1, <3>2 DEF AnswerTo
      <4>2. answer.code \in {204, 404}
        BY <4>1 DEF AnswerOptions, NoAnswer
      <4> QED
        BY <4>2
    <3>3. CASE ~(asked.upgrade /\ HasRoute(asked)) /\ asked.method # "OPTIONS"
      <4>1. /\ m \in Methods
            /\ \/ HandledBy(m, url, answer)
               \/ answer.code \in {404, 405}
        BY <3>3, RouteAnswer
      <4> QED
        BY <4>1 DEF HandledBy
    <3> QED
      BY <3>1, <3>2, <3>3
  <2>3. ASSUME NEW i \in RulesOf(m), HasSlash(rules[i].path),
               NEW path, path = rules[i].path, NEW front, front = Front(path)
        PROVE  BeforeSlash(path, front)
    <3>1. i \in 1..Len(rules)
      BY <2>1 DEF RulesOf, Served, RouterInv, Registered
    <3>2. path \in Seq(STRING) /\ path # <<>>
      BY <2>1, <2>3, <3>1, RoutesTyped DEF Served, RouterInv
    <3>3. /\ front \in Seq(STRING) /\ Len(front) = Len(path) - 1
          /\ \A k \in 1..(Len(path) - 1) : front[k] = path[k]
          /\ Last(path) = path[Len(path)] /\ Last(path) \in STRING /\ Len(path) \in Nat \ {0}
      BY <2>3, <3>2, FrontIs
    <3>4. Len(path) > 1 /\ Last(path) = "/" /\ path[Len(path) - 1] \notin {"<path>", "/"}
      BY <2>3 DEF HasSlash, Plain
    <3>5. "/" \in STRING /\ path[Len(path)] = "/"
      <4>1. Last(path) = "/" /\ Last(path) \in STRING /\ path[Len(path)] = Last(path)
        BY <3>3, <3>4, Zenon
      <4> QED
        BY <4>1
    <3>6. /\ Len(front) >= 1 /\ Len(path) = Len(front) + 1
          /\ Len(front) \in 1..(Len(path) - 1) /\ Len(front) = Len(path) - 1
      BY <3>3, <3>4
    <3>7. front # <<>>
      BY <3>6
    <3>8. front[Len(front)] \notin {"<path>", "/"}
      <4>1. front[Len(front)] = path[Len(front)]
        BY <3>3, <3>6, Zenon
      <4>2. front[Len(front)] = path[Len(path) - 1]
        BY <3>6, <4>1, Zenon
      <4> QED
        BY <3>4, <4>2
    <3>9. \A k \in 1..Len(front) : path[k] = front[k]
      BY <3>3, <3>6, Zenon
    <3> QED
      BY <3>2, <3>3, <3>5, <3>6, <3>7, <3>8, <3>9 DEF BeforeSlash
  <2>4. PICK i \in RulesOf(m) : HasSlash(rules[i].path) /\ Fits(Front(rules[i].path), url) # {}
    BY <2>2 DEF Redirected
  <2>5. Fits(rules[i].path, there) # {}
    <3>1. PICK path, front : path = rules[i].path /\ front = Front(path)
      OBVIOUS
    <3>2. BeforeSlash(path, front)
      BY <2>3, <2>4, <3>1
    <3>3. FitsAt(front, url, 1, 1) # {}
      <4>1. Fits(front, url) = FitsAt(front, url, 1, 1)
        <5>1. front \in Seq(STRING) /\ url \in Seq(STRING)
          BY <2>1, <3>2, Zenon DEF BeforeSlash
        <5> QED
          BY <5>1, FitsIs
      <4>2. Fits(front, url) # {}
        BY <2>4, <3>1, Zenon
      <4> QED
        BY <4>1, <4>2, Zenon
    <3>4. FitsAt(path, there, 1, 1) # {}
      <4>1. url \in Seq(STRING)
        BY <2>1, Zenon
      <4> QED
        BY <3>2, <3>3, <4>1, FitsBeforeSlash
    <3>5. there \in Seq(STRING)
      BY <2>1, <3>2, OneSlash DEF BeforeSlash
    <3>6. Fits(path, there) = FitsAt(path, there, 1, 1)
      <4>1. path \in Seq(STRING) /\ there \in Seq(STRING)
        BY <3>2, <3>5, Zenon DEF BeforeSlash
      <4> QED
        BY <4>1, FitsIs
    <3> QED
      BY <3>1, <3>4, <3>6, Zenon
  <2>6. ASSUME NEW j \in RulesOf(m), HasSlash(rules[j].path), Fits(Front(rules[j].path), there) # {}
        PROVE  FALSE
    <3>1. PICK path, front : path = rules[j].path /\ front = Front(path)
      OBVIOUS
    <3>2. /\ "/" \in STRING /\ front \in Seq(STRING) /\ front # <<>>
          /\ front[Len(front)] \notin {"<path>", "/"}
      BY <2>3, <2>6, <3>1 DEF BeforeSlash
    <3>3. there \in Seq(STRING) /\ there[Len(url) + 1] = "/" /\ Len(there) = Len(url) + 1
      BY <2>1, <3>2, OneSlash
    <3>4. FitsAt(front, there, 1, 1) # {}
      <4>1. Fits(front, there) = FitsAt(front, there, 1, 1)
        <5>1. front \in Seq(STRING) /\ there \in Seq(STRING)
          BY <3>2, <3>3, Zenon
        <5> QED
          BY <5>1, FitsIs
      <4>2. Fits(front, there) # {}
        BY <2>6, <3>1, Zenon
      <4> QED
        BY <4>1, <4>2, Zenon
    <3>5. PICK x \in 1..Len(there) : Takes(front[Len(front)], there, x, Len(there) + 1)
      BY <3>2, <3>3, <3>4, LastTakes, ZenonT(30)
    <3>6. Spells(front[Len(front)], Text(there, x, Len(there) + 1)) /\ there[Len(there)] = "/"
      BY <3>3, <3>5 DEF Takes
    <3>7. front[Len(front)] \in {"<path>", "/"}
      BY <3>3, <3>6, EndsInSlash
    <3> QED
      BY <3>2, <3>7
  <2> QED
    BY <2>4, <2>5, <2>6 DEF Fitting, Redirected
<1> QED
  BY <1>1, Invariant, PTL
===============================================================================
