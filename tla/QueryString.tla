------------------------------ MODULE QueryString ------------------------------
(***************************************************************************)
(* The parameters after the "?" of a URL (crow_all.h, qs_parse, qs_decode,  *)
(* qs_strncmp, qs_k2v and class query_string).  The text is cut and decoded *)
(* in place, in one buffer, and a pair is a position in that buffer; names  *)
(* are compared with the buffer only when a value is asked for.             *)
(***************************************************************************)
EXTENDS Integers, Sequences, SequencesExt, FiniteSetsExt

CONSTANT MaxPairs  \* MAX_KEY_VALUE_PAIRS_COUNT, 256 in the code
ASSUME MaxPairsIsPositive == MaxPairs \in Nat \ {0}

NUL == "nul"
HexDigits == {"2", "6", "b", "f"}

\* The character a pair of hexadecimal digits stands for; the bytes above 127
\* are not told apart.
Hex(u, l) ==
    IF u \in {"b", "f"} THEN "high"
    ELSE [x \in (HexDigits \X HexDigits) |->
            CASE x = <<"2", "2">> -> "quote" [] x = <<"2", "6">> -> "&"
              [] x = <<"2", "b">> -> "+"     [] x = <<"2", "f">> -> "/"
              [] x = <<"6", "2">> -> "b"     [] x = <<"6", "6">> -> "f"
              [] x = <<"6", "b">> -> "k"     [] x = <<"6", "f">> -> "o"][<<u, l>>]

\* CROW_QS_ISQSCHR
IsQsChr(c) == c \notin {"=", "#", "&", NUL}

\* A buffer is a sequence with a NUL after its last character.
ByteAt(buf, i) == IF i <= Len(buf) THEN buf[i] ELSE NUL
Store(buf, i, c) == IF i <= Len(buf) THEN [buf EXCEPT ![i] = c] ELSE buf

\* i + strcspn(buf + i, chars)
Span(buf, i, chars) ==
    Min({j \in i .. (Len(buf) + 1) : ByteAt(buf, j) \in chars \cup {NUL}})

(***************************************************************************)
(* qs_decode, reading at j and writing at i.  A bad escape ends the value.  *)
(***************************************************************************)
DecodeStep(d) ==
    LET c == ByteAt(d.buf, d.j)
        u == ByteAt(d.buf, d.j + 1)
        l == ByteAt(d.buf, d.j + 2)
        Put(char, n) == [d EXCEPT !.buf = Store(@, d.i, char), !.i = @ + 1, !.j = @ + n]
        bad == c = "%" /\ ~ {u, l} \subseteq HexDigits
    IN  IF d.ended THEN d
        ELSE IF ~ IsQsChr(c) \/ bad THEN [Put(NUL, 0) EXCEPT !.ended = TRUE]
        ELSE IF c = "+" THEN Put(" ", 1)
        ELSE IF c # "%" THEN Put(c, 1)
        ELSE Put(Hex(u, l), 3)

Decode(buf, i) ==
    LET after[n \in 0 .. (Len(buf) + 1)] ==
          IF n = 0 THEN [buf |-> buf, i |-> i, j |-> i, ended |-> FALSE]
                   ELSE DecodeStep(after[n - 1])
    IN  after[Len(buf) + 1].buf

\* A plausible slip: the blank pair is not ended where it ends.
Mut_DecodePair(buf, kv) ==
    LET s == Span(buf, kv, {"=", "&", "#"})
    IN  IF ByteAt(buf, s) \in {"&", NUL} THEN buf
                                         ELSE Decode(buf, s + 1)

\* The loop of qs_parse over one pair: blank, or its value decoded.
DecodePair(buf, kv) ==
    LET s == Span(buf, kv, {"=", "&", "#"})
    IN  IF ByteAt(buf, s) \in {"&", NUL} THEN Store(buf, s, NUL)
                                         ELSE Decode(buf, s + 1)

(***************************************************************************)
(* qs_parse: the pairs start after the "?" and after each "&".              *)
(***************************************************************************)
Starts(url) ==
    LET q == Span(url, 1, {"?", "#"})
        amps == {p \in (q + 1) .. Len(url) : url[p] = "&"}
        all == SetToSortSeq({q + 1} \cup {p + 1 : p \in amps}, <)
    IN  IF ByteAt(url, q) = NUL THEN <<>>
        ELSE SubSeq(all, 1, Min({MaxPairs, Len(all)}))

ParseQuery(url) ==
    LET kv == Starts(url)
    IN  [buf |-> FoldLeft(DecodePair, url, kv), pairs |-> kv]

(***************************************************************************)
(* qs_strncmp: one character of a key, with + and escapes read through.     *)
(***************************************************************************)
KeyChar(buf, i) ==
    LET c == ByteAt(buf, i)
    IN  IF c = "+" THEN [c |-> " ", next |-> i + 1]
        ELSE IF c # "%" THEN [c |-> IF IsQsChr(c) THEN c ELSE NUL, next |-> i + 1]
        ELSE [c |-> IF {ByteAt(buf, i + 1), ByteAt(buf, i + 2)} \subseteq HexDigits
                    THEN Hex(ByteAt(buf, i + 1), ByteAt(buf, i + 2)) ELSE NUL,
              next |-> i + 3]

\* at[n]: the position after n characters of the name, 0 if one differs.
SameKey(name, buf, i) ==
    LET at[n \in 0 .. Len(name)] ==
          LET before == at[n - 1]
              k == KeyChar(buf, before)
          IN  IF n = 0 THEN i
              ELSE IF before = 0 \/ name[n] # k.c THEN 0 ELSE k.next
        end == at[Len(name)]
    IN  end # 0 /\ ~ IsQsChr(ByteAt(buf, end))

(***************************************************************************)
(* query_string::get, which is qs_k2v for the first pair with the key: the  *)
(* text after its "=", up to the NUL, or Missing (a null pointer).          *)
(***************************************************************************)
Missing == "nullptr"

Get(query, name) ==
    LET j == SelectInSeq(query.pairs, LAMBDA p : SameKey(name, query.buf, p))
        eq == Span(query.buf, query.pairs[j], {"="})
        from == IF ByteAt(query.buf, eq) = "=" THEN eq + 1 ELSE eq
    IN  IF j = 0 THEN Missing
        ELSE SubSeq(query.buf, from, Span(query.buf, from, {}) - 1)
================================================================================
