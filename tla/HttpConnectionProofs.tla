------------------------- MODULE HttpConnectionProofs -------------------------
(***************************************************************************)
(* Proofs about a connection of the HTTP server with the real parser, for  *)
(* every site, every sequence of tokens that clients send, and every way   *)
(* to cut them into reads.                                                 *)
(***************************************************************************)
EXTENDS HttpConnection, TLAPS, SequenceTheorems, WellFoundedInduction

-----------------------------------------------------------------------------
(* The connection as a record                                              *)

Fields == {"state", "header_state", "errno", "content_length", "flags", "te", "upgrade",
           "mark", "halt", "message_complete", "req", "rule", "res", "onComplete", "close_connection",
           "open", "reading", "writes", "deadline", "threw", "reset", "out", "log"}
ReqFields == {"headers", "ver", "upgrade", "close_connection"}
ResFields == {"completed", "skip_body", "manual_length_header", "length", "file"}

HasFields(k) == /\ Fields \subseteq DOMAIN k
                /\ ReqFields \subseteq DOMAIN k.req /\ ResFields \subseteq DOMAIN k.res

-----------------------------------------------------------------------------
(* What holds of the parser's fields                                       *)

States == HeadStates \cup BodyStates

Struct(k) ==
  /\ k.content_length \in 0..UllongMax
  /\ k.state \in States /\ k.header_state \in HeaderStates
  /\ k.flags \subseteq Flags
  /\ k.halt \in BOOLEAN
  /\ k.state \in {"s_body_identity", "s_chunk_data"} => k.content_length > 0

\* The piece that is being read in each state.
Marked(s) ==
  IF s \in UrlStates THEN {"url"}
  ELSE IF s = "s_header_field" THEN {"header_field"}
  ELSE IF s = "s_header_value" THEN {"header_value"}
  ELSE IF s \in {"s_body_identity", "s_chunk_data", "s_chunk_data_almost_done"}
    THEN {NoMark, "body"}
  ELSE {NoMark}

Fits(k) == k.mark \in Marked(k.state)

\* The states before the URL is complete.
Unrouted == UrlStates \cup {"s_dead", "s_start_req", "s_req_method", "s_req_spaces_before_url"}

\* An operator that calls no handler changes the parser's fields only.
Quiet(k, d) ==
  /\ DOMAIN d = DOMAIN k
  /\ ReqFields \subseteq DOMAIN d.req
  /\ d.message_complete = k.message_complete
  /\ d.log = k.log /\ d.out = k.out
  /\ d.open = k.open /\ d.reset = k.reset /\ d.writes = k.writes
  /\ d.close_connection = k.close_connection /\ d.res = k.res /\ d.rule = k.rule
  /\ d.reading = k.reading /\ d.deadline = k.deadline /\ d.threw = k.threw

Moves(k, d) ==
  /\ Quiet(k, d) /\ Struct(d)
  /\ d.errno = "OK" => (k.state \in Unrouted => d.state \in Unrouted)
  /\ ~d.halt => d.errno = "OK" /\ Fits(d)

-----------------------------------------------------------------------------
(* The parser's states                                                     *)

Ready(k) == HasFields(k) /\ Struct(k) /\ ~k.halt /\ k.errno = "OK" /\ Fits(k)

\* The names that the parser's module takes from HttpTokens are the connection's.
LEMMA SameNames ==
  /\ Parser!Sp = Sp /\ Parser!Tab = Tab /\ Parser!Cr = Cr /\ Parser!Lf = Lf /\ Parser!Ctl = Ctl
  /\ Parser!Methods = Methods /\ Parser!Digits = Digits /\ Parser!White = White
  /\ Parser!DigitValue = DigitValue /\ Parser!HeaderState = HeaderState
  /\ Parser!UrlStates = UrlStates /\ Parser!HeadStates = HeadStates /\ Parser!NoMark = NoMark
  /\ \A k, e : Parser!Error(k, e) = Error(k, e)
  /\ \A t : /\ Parser!IsToken(t) = IsToken(t) /\ Parser!IsAlpha(t) = IsAlpha(t)
           /\ Parser!IsUrlChar(t) = IsUrlChar(t) /\ Parser!IsUserInfoChar(t) = IsUserInfoChar(t)
  <1>1. /\ Parser!Sp = Sp /\ Parser!Tab = Tab /\ Parser!Cr = Cr /\ Parser!Lf = Lf
        /\ Parser!Ctl = Ctl /\ Parser!NoMark = NoMark
    BY DEF Parser!Sp, Sp, Parser!Tab, Tab, Parser!Cr, Cr, Parser!Lf, Lf, Parser!Ctl, Ctl, Parser!NoMark,
       NoMark
  <1>2. Parser!Methods = Methods /\ Parser!White = White
    BY <1>1 DEF Parser!Methods, Methods, Parser!White, White
  <1>3. Parser!DigitValue = DigitValue
    BY DEF Parser!DigitValue, DigitValue
  <1>4. Parser!Digits = Digits
    BY <1>3 DEF Parser!Digits, Digits
  <1>5. Parser!HeaderState = HeaderState
    BY DEF Parser!HeaderState, HeaderState
  <1>6. Parser!UrlStates = UrlStates
    BY DEF Parser!UrlStates, UrlStates
  <1>7. Parser!HeadStates = HeadStates
    BY <1>6 DEF Parser!HeadStates, HeadStates
  <1>8. \A k, e : Parser!Error(k, e) = Error(k, e)
    BY DEF Parser!Error, Error
  <1>9. Parser!Marks = Marks
    BY DEF Parser!Marks, Marks
  <1>10. Parser!NotWords = NotWords
    BY <1>1, <1>2, <1>4, <1>9 DEF Parser!NotWords, NotWords
  <1>11. \A t : Parser!IsAlpha(t) = IsAlpha(t)
    BY <1>10 DEF Parser!IsAlpha, IsAlpha
  <1>12. \A t : /\ Parser!IsToken(t) = IsToken(t)
               /\ Parser!IsUrlChar(t) = IsUrlChar(t) /\ Parser!IsUserInfoChar(t) = IsUserInfoChar(t)
    BY <1>1, <1>2, <1>4, <1>11 DEF Parser!IsToken, IsToken, Parser!IsUrlChar, IsUrlChar,
       Parser!IsUserInfoChar, IsUserInfoChar
  <1> QED
    BY <1>1, <1>2, <1>3, <1>4, <1>5, <1>6, <1>7, <1>8, <1>11, <1>12

LEMMA StateNames ==
  /\ UrlStates \subseteq States
  /\ {"s_dead", "s_start_req", "s_req_method",
      "s_req_spaces_before_url", "s_req_http_start", "s_req_http_HTTP", "s_req_http_major",
      "s_req_http_dot", "s_req_http_minor", "s_req_http_end", "s_req_line_almost_done",
      "s_header_field_start", "s_header_field", "s_header_value_discard_ws",
      "s_header_value_discard_ws_almost_done", "s_header_value_discard_lws",
      "s_header_value", "s_header_value_lws",
      "s_header_almost_done", "s_chunk_size_start", "s_chunk_size", "s_chunk_parameters",
      "s_chunk_size_almost_done", "s_headers_almost_done", "s_headers_done"} \subseteq States
  /\ {"s_chunk_data", "s_chunk_data_almost_done", "s_chunk_data_done",
      "s_body_identity", "s_message_done"} \subseteq States
  BY DEF States, HeadStates, BodyStates

LEMMA ErrorMoves ==
  ASSUME NEW k, HasFields(k), NEW d, Quiet(k, d), Struct(d), NEW e, e # "OK"
  PROVE  Moves(k, Error(d, e))
  BY DEF Moves, Quiet, Struct, Error, HasFields, Fields

LEMMA MovesOn ==
  ASSUME NEW k, NEW m, NEW d, Moves(k, m), m.errno = "OK", Moves(m, d)
  PROVE  Moves(k, d)
  BY DEF Moves, Quiet

\* A step that leaves the connection ready for the next one.
LEMMA ReadyMoves ==
  ASSUME NEW k, HasFields(k), NEW d, Moves(k, d), ~d.halt
  PROVE  Ready(d)
  BY DEF Moves, Quiet, Ready, HasFields

LEMMA DigitValues == \A t \in Digits : DigitValue[t] \in 0..9
  BY DEF Digits, DigitValue

LEMMA GotoMoves ==
  ASSUME NEW k, Ready(k), k.state \notin Unrouted, NEW s \in States,
         k.mark = NoMark, NoMark \in Marked(s),
         s \in {"s_body_identity", "s_chunk_data"} => k.content_length > 0
  PROVE  Moves(k, Parser!Goto(k, s))
  BY DEF Moves, Quiet, Ready, Struct, Fits, HasFields, Fields, Parser!Goto

\* A change of header_state, flags or content_length only.
LEMMA HeaderStateMoves ==
  ASSUME NEW k, Ready(k), NEW h \in HeaderStates
  PROVE  Moves(k, [k EXCEPT !.header_state = h])
  BY DEF Moves, Quiet, Ready, Struct, Fits, HasFields, Fields

LEMMA FlagMoves ==
  ASSUME NEW k, Ready(k), NEW f \in SUBSET Flags
  PROVE  Moves(k, [k EXCEPT !.flags = @ \cup f])
  BY DEF Moves, Quiet, Ready, Struct, Fits, HasFields, Fields

LEMMA LengthMoves ==
  ASSUME NEW k, Ready(k), NEW n \in 0..UllongMax, k.state \notin {"s_body_identity", "s_chunk_data"}
  PROVE  Moves(k, [k EXCEPT !.content_length = n])
  BY DEF Moves, Quiet, Ready, Struct, Fits, HasFields, Fields

LEMMA HeaderStateNames ==
  {"h_general", "h_connection", "h_content_length", "h_content_length_num",
   "h_content_length_ws", "h_transfer_encoding", "h_upgrade",
   "h_matching_transfer_encoding_token_start", "h_matching_transfer_encoding_token",
   "h_transfer_encoding_chunked", "h_connection_keep_alive", "h_connection_close"} \subseteq HeaderStates
  BY DEF HeaderStates

LEMMA HeaderValueStartMoves ==
  ASSUME NEW k, Ready(k), NEW t, k.mark = NoMark, k.state \notin Unrouted
  PROVE  Moves(k, Parser!HeaderValueStart(k, t))
  <1> DEFINE m == [Parser!Mark(k, "header_value", t) EXCEPT !.state = "s_header_value"]
             d == Parser!HeaderValueStart(k, t)
             h == m.header_state
             In(s) == [m EXCEPT !.header_state = s]
  <1>1. Moves(k, m) /\ m.errno = "OK" /\ ~m.halt /\ m.state = "s_header_value"
    BY StateNames DEF Moves, Quiet, Ready, Struct, Fits, Marked, HasFields, Fields, Parser!Mark, NoMark,
       Unrouted, UrlStates
  <1>2. Ready(m)
    BY <1>1, ReadyMoves DEF Ready
  <1>10. d = CASE h = "h_upgrade" -> [In("h_general") EXCEPT !.flags = @ \cup {"F_UPGRADE"}]
        [] h = "h_transfer_encoding" -> In(IF t = "chunked" THEN "h_transfer_encoding_chunked"
                                           ELSE "h_matching_transfer_encoding_token")
        [] h \in {"h_matching_transfer_encoding_token_start", "h_content_length_ws"} -> m
        [] h = "h_content_length" ->
             IF t \notin Digits THEN Error(m, "INVALID_CONTENT_LENGTH")
             ELSE IF "F_CONTENTLENGTH" \in m.flags THEN Error(m, "UNEXPECTED_CONTENT_LENGTH")
             ELSE [In("h_content_length_num") EXCEPT !.flags = @ \cup {"F_CONTENTLENGTH"},
                                                     !.content_length = DigitValue[t]]
        [] h = "h_connection" /\ t = "keep-alive" -> In("h_connection_keep_alive")
        [] h = "h_connection" /\ t = "close"      -> In("h_connection_close")
        [] OTHER -> In("h_general")
    BY DEF Parser!HeaderValueStart
  <1> SUFFICES Moves(k, d)
    OBVIOUS
  <1> HIDE DEF m, d
  <1>3. h \in HeaderStates /\ HasFields(k) /\ HasFields(m)
    BY <1>2 DEF Ready, Struct
  <1>4. CASE h = "h_upgrade"
    <2> DEFINE e == [m EXCEPT !.header_state = "h_general"]
    <2>1. d = [e EXCEPT !.flags = @ \cup {"F_UPGRADE"}]
      BY <1>4, <1>10
    <2>2. Moves(m, e) /\ Ready(e)
      BY <1>2, <1>3, HeaderStateMoves, HeaderStateNames, ReadyMoves DEF Ready, HasFields, Fields
    <2> HIDE DEF e
    <2>4. {"F_UPGRADE"} \in SUBSET Flags
      BY DEF Flags
    <2>3. Moves(e, d)
      BY <2>1, <2>2, <2>4, FlagMoves
    <2> QED
      BY <1>1, <2>2, <2>3, MovesOn DEF Ready
  <1>5. ASSUME NEW g \in HeaderStates, d = [m EXCEPT !.header_state = g]
        PROVE  Moves(k, d)
    BY <1>1, <1>2, <1>5, HeaderStateMoves, MovesOn
  <1>6. CASE h = "h_transfer_encoding"
    <2>1. \/ d = [m EXCEPT !.header_state = "h_transfer_encoding_chunked"]
          \/ d = [m EXCEPT !.header_state = "h_matching_transfer_encoding_token"]
      BY <1>6, <1>10
    <2> QED
      BY <1>5, <2>1, HeaderStateNames
  <1>7. CASE h \in {"h_matching_transfer_encoding_token_start", "h_content_length_ws"}
    <2>1. d = m
      BY <1>7, <1>10
    <2> QED
      BY <1>1, <2>1
  <1>8. CASE h = "h_content_length"
    <2>1. CASE t \notin Digits
      <3>1. d = Error(m, "INVALID_CONTENT_LENGTH")
        BY <1>8, <2>1, <1>10
      <3> QED
        BY <1>1, <1>3, <3>1, ErrorMoves DEF Moves
    <2>2. CASE t \in Digits /\ "F_CONTENTLENGTH" \in m.flags
      <3>1. d = Error(m, "UNEXPECTED_CONTENT_LENGTH")
        BY <1>8, <2>2, <1>10
      <3> QED
        BY <1>1, <1>3, <3>1, ErrorMoves DEF Moves
    <2>3. CASE t \in Digits /\ "F_CONTENTLENGTH" \notin m.flags
      <3>1. d = [[m EXCEPT !.header_state = "h_content_length_num"] EXCEPT
                     !.flags = @ \cup {"F_CONTENTLENGTH"}, !.content_length = DigitValue[t]]
        BY <1>8, <2>3, <1>10
      <3>2. DigitValue[t] \in 0..UllongMax
        BY <2>3, DigitValues, ParserAssumption
      <3>3. "h_content_length_num" \in HeaderStates /\ "F_CONTENTLENGTH" \in Flags
        BY HeaderStateNames DEF Flags
      <3>4. Moves(m, d)
        BY <1>1, <1>2, <3>1, <3>2, <3>3 DEF Moves, Quiet, Ready, Struct, Fits, HasFields, Fields
      <3> QED
        BY <1>1, <3>4, MovesOn
    <2> QED
      BY <2>1, <2>2, <2>3
  <1>9. CASE h \notin {"h_upgrade", "h_transfer_encoding", "h_content_length",
                       "h_matching_transfer_encoding_token_start", "h_content_length_ws"}
    <2>1. \/ d = [m EXCEPT !.header_state = "h_connection_keep_alive"]
          \/ d = [m EXCEPT !.header_state = "h_connection_close"]
          \/ d = [m EXCEPT !.header_state = "h_general"]
      BY <1>9, <1>10
    <2> QED
      BY <1>5, <2>1, HeaderStateNames
  <1> QED
    BY <1>3, <1>4, <1>6, <1>7, <1>8, <1>9

\* A step that changes nothing, and one that fails.
LEMMA Stays ==
  ASSUME NEW k, Ready(k)
  PROVE  Moves(k, k)
  BY DEF Moves, Quiet, Ready, HasFields

LEMMA Fails ==
  ASSUME NEW k, Ready(k), NEW e, e # "OK"
  PROVE  Moves(k, Error(k, e))
  BY ErrorMoves DEF Quiet, Ready, HasFields

LEMMA StartReqMoves ==
  ASSUME NEW k, Ready(k), NEW t, k.state = "s_start_req", NEW d, d = Parser!StartReq(k, t)
  PROVE  Moves(k, d)
  <1>0. PICK m : m = [k EXCEPT !.flags = {}, !.te = FALSE, !.content_length = UllongMax]
    OBVIOUS
  <1>1. Moves(k, m) /\ Ready(m) /\ m.state = "s_start_req"
    <2>1. UllongMax \in 0..UllongMax
      BY ParserAssumption
    <2> QED
      BY <1>0, <2>1 DEF Moves, Quiet, Ready, Struct, Fits, HasFields, Fields
  <1>2. CASE t \in {Cr, Lf}
    <2>1. d = k
      BY <1>2, SameNames DEF Parser!StartReq
    <2> QED
      BY <2>1, Stays
  <1>3. CASE t \notin {Cr, Lf} /\ t \notin Methods
    <2>1. d = Error(m, "INVALID_METHOD")
      BY <1>0, <1>3, SameNames DEF Parser!StartReq
    <2> QED
      BY <1>1, <2>1, Fails, MovesOn DEF Ready
  <1>4. CASE t \notin {Cr, Lf} /\ t \in Methods
    <2>1. d = [m EXCEPT !.method = t, !.state = "s_req_method", !.req.method = t]
      BY <1>0, <1>4, SameNames DEF Parser!StartReq
    <2>2. /\ "s_req_method" \in States /\ Marked("s_req_method") = {NoMark}
          /\ m.mark = NoMark
      BY <1>1, StateNames DEF Marked, UrlStates, Ready, Fits
    <2>3. Moves(m, d)
      BY <1>1, <2>1, <2>2 DEF Moves, Quiet, Ready, Struct, Fits, HasFields, Fields, Unrouted
    <2> QED
      BY <1>1, <2>3, MovesOn DEF Ready
  <1> QED
    BY <1>2, <1>3, <1>4

LEMMA ReqMethodMoves ==
  ASSUME NEW k, Ready(k), NEW t, k.state = "s_req_method", NEW d, d = Parser!ReqMethod(k, t)
  PROVE  Moves(k, d)
  <1>0. /\ "s_req_spaces_before_url" \in States /\ Marked("s_req_spaces_before_url") = {NoMark}
        /\ k.mark = NoMark
    BY StateNames DEF Marked, UrlStates, Ready, Fits
  <1>1. Moves(k, Parser!Goto(k, "s_req_spaces_before_url"))
    BY <1>0 DEF Parser!Goto, Moves, Quiet, Ready, Struct, Fits, HasFields, Fields, Unrouted
  <1>2. Moves(k, Error(k, "INVALID_METHOD"))
    BY Fails
  <1> QED
    BY <1>1, <1>2, SameNames DEF Parser!ReqMethod

LEMMA UrlCharStates ==
  ASSUME NEW s, NEW t, s \in UrlStates \cup {"s_req_spaces_before_url"}
  PROVE  Parser!ParseUrlChar(s, t) \in UrlStates \cup {"s_dead"}
  <1> DEFINE d == Parser!ParseUrlChar(s, t)
             servers == {"s_req_server_start", "s_req_server", "s_req_server_with_at"}
  <1>1. CASE s \in servers
    <2>1. d \in {"s_req_path", "s_req_query_string_start", "s_req_server_with_at",
                "s_req_server", "s_dead"}
      BY <1>1 DEF Parser!ParseUrlChar
    <2> QED
      BY <2>1 DEF UrlStates
  <1>2. CASE s \notin servers
    <2>1. d \in {"s_dead", "s_req_path", "s_req_schema", "s_req_schema_slash",
                "s_req_schema_slash_slash", "s_req_server_start",
                "s_req_query_string_start", "s_req_query_string"}
      BY <1>2 DEF Parser!ParseUrlChar
    <2> QED
      BY <2>1 DEF UrlStates
  <1> QED
    BY <1>1, <1>2

LEMMA UrlCharMoves ==
  ASSUME NEW k, HasFields(k), Struct(k), ~k.halt, k.errno = "OK", k.mark = "url", NEW t,
         k.state \in UrlStates \cup {"s_req_spaces_before_url"},
         NEW d, d = Parser!UrlChar(k, t)
  PROVE  Moves(k, d)
  <1>0. PICK s : s = Parser!ParseUrlChar(k.state, t)
    OBVIOUS
  <1>1. s \in UrlStates \cup {"s_dead"}
    BY <1>0, UrlCharStates
  <1>2. CASE s = "s_dead"
    <2>1. d = Error(k, "INVALID_URL")
      BY <1>0, <1>2, SameNames DEF Parser!UrlChar
    <2> QED
      BY <2>1, ErrorMoves DEF Quiet, HasFields
  <1>3. CASE s \in UrlStates /\ s # "s_dead"
    <2>1. PICK qs : d = Parser!Extend([k EXCEPT !.state = s, !.qs_point = qs], t)
      BY <1>0, <1>3, SameNames DEF Parser!UrlChar
    <2>2. /\ s \in States /\ s \notin {"s_body_identity", "s_chunk_data"}
          /\ Marked(s) = {"url"} /\ s \in Unrouted
      BY <1>3, StateNames DEF Marked, Unrouted, UrlStates
    <2> QED
      BY <2>1, <2>2 DEF Parser!Extend, Moves, Quiet, Struct, Fits, HasFields, Fields
  <1> QED
    BY <1>1, <1>2, <1>3

LEMMA SpacesBeforeUrlMoves ==
  ASSUME NEW k, Ready(k), NEW t, k.state = "s_req_spaces_before_url",
         NEW d, d = Parser!SpacesBeforeUrl(k, t)
  PROVE  Moves(k, d)
  <1>0. PICK m : m = [k EXCEPT !.mark = "url", !.piece = <<>>, !.urlStart = TRUE,
                         !.state = IF k.method = "CONNECT" THEN "s_req_server_start" ELSE @]
    OBVIOUS
  <1>1. CASE t = Sp
    <2>1. d = k
      BY <1>1, SameNames DEF Parser!SpacesBeforeUrl
    <2> QED
      BY <2>1, Stays
  <1>2. CASE t # Sp
    <2>1. d = Parser!UrlChar(m, t)
      BY <1>0, <1>2, SameNames DEF Parser!SpacesBeforeUrl
    <2>2. m.state \in {"s_req_server_start", "s_req_spaces_before_url"}
      BY <1>0 DEF Ready, HasFields, Fields
    <2>3. /\ m.state \in UrlStates \cup {"s_req_spaces_before_url"}
          /\ m.state \in States /\ m.state \notin {"s_body_identity", "s_chunk_data"}
      BY <2>2, StateNames DEF UrlStates
    <2>4. /\ Quiet(k, m) /\ HasFields(m) /\ Struct(m) /\ ~m.halt /\ m.errno = "OK" /\ m.mark = "url"
      BY <1>0, <2>3 DEF Quiet, Ready, Struct, HasFields, Fields
    <2>5. Moves(m, d)
      BY <2>1, <2>3, <2>4, UrlCharMoves
    <2>6. m.state \in Unrouted
      BY <2>3 DEF Unrouted
    <2> QED
      BY <2>4, <2>5, <2>6 DEF Moves, Quiet
  <1> QED
    BY <1>1, <1>2

LEMMA VersionMoves ==
  ASSUME NEW k, Ready(k), NEW t,
         k.state \in {"s_req_http_start", "s_req_http_HTTP", "s_req_http_major",
                      "s_req_http_dot", "s_req_http_minor", "s_req_http_end"},
         NEW d, d = Parser!Version(k, t)
  PROVE  Moves(k, d)
  <1>1. k.mark = NoMark /\ k.state \notin Unrouted
    BY DEF Ready, Fits, Marked, UrlStates, Unrouted
  <1>2. ASSUME NEW s, s \in {"s_req_http_HTTP", "s_req_http_major", "s_req_http_dot",
                             "s_req_http_minor", "s_req_http_end", "s_req_line_almost_done",
                             "s_header_field_start"}, NEW v
        PROVE  /\ Moves(k, Parser!Goto(k, s))
               /\ Moves(k, [k EXCEPT !.ver = v, !.state = s])
    <2>1. s \in States /\ NoMark \in Marked(s) /\ s \notin {"s_body_identity", "s_chunk_data"}
      BY <1>2, StateNames DEF Marked, UrlStates
    <2> QED
      BY <1>1, <2>1 DEF Parser!Goto, Moves, Quiet, Ready, Struct, Fits, HasFields, Fields
  <1>3. ASSUME NEW e, e # "OK" PROVE Moves(k, Error(k, e))
    BY <1>3, Fails
  <1>4. Moves(k, k)
    BY Stays
  <1>5. CASE k.state = "s_req_http_start"
    <2>1. d \in {k, Parser!Goto(k, "s_req_http_HTTP"), Error(k, "INVALID_CONSTANT")}
      BY <1>5, SameNames DEF Parser!Version
    <2> QED
      BY <1>2, <1>3, <1>4, <2>1
  <1>6. CASE k.state = "s_req_http_HTTP"
    <2>1. d \in {Parser!Goto(k, "s_req_http_major"), Error(k, "STRICT")}
      BY <1>6, SameNames DEF Parser!Version, Parser!Strict
    <2> QED
      BY <1>2, <1>3, <2>1
  <1>7. CASE k.state \notin {"s_req_http_start", "s_req_http_HTTP"}
    <2>1. \/ d = [k EXCEPT !.ver = <<DigitValue[t], k.ver[2]>>, !.state = "s_req_http_dot"]
          \/ d = [k EXCEPT !.ver = <<k.ver[1], DigitValue[t]>>, !.state = "s_req_http_end"]
          \/ d = Parser!Goto(k, "s_req_http_minor")
          \/ d = Parser!Goto(k, "s_req_line_almost_done")
          \/ d = Parser!Goto(k, "s_header_field_start")
          \/ d = Error(k, "INVALID_VERSION")
      BY <1>7, SameNames DEF Parser!Version, Cr, Lf
    <2>2. /\ Moves(k, [k EXCEPT !.ver = <<DigitValue[t], k.ver[2]>>, !.state = "s_req_http_dot"])
          /\ Moves(k, [k EXCEPT !.ver = <<k.ver[1], DigitValue[t]>>, !.state = "s_req_http_end"])
          /\ Moves(k, Parser!Goto(k, "s_req_http_minor"))
          /\ Moves(k, Parser!Goto(k, "s_req_line_almost_done"))
          /\ Moves(k, Parser!Goto(k, "s_header_field_start"))
      BY <1>2
    <2>3. Moves(k, Error(k, "INVALID_VERSION"))
      BY <1>3
    <2> QED
      BY <2>1, <2>2, <2>3
  <1> QED
    BY <1>5, <1>6, <1>7

LEMMA ReqLineAlmostDoneMoves ==
  ASSUME NEW k, Ready(k), NEW t, k.state = "s_req_line_almost_done",
         NEW d, d = Parser!ReqLineAlmostDone(k, t)
  PROVE  Moves(k, d)
  <1>1. /\ k.mark = NoMark /\ k.state \notin Unrouted
        /\ "s_header_field_start" \in States /\ NoMark \in Marked("s_header_field_start")
    BY StateNames DEF Ready, Fits, Marked, UrlStates, Unrouted
  <1>2. Moves(k, Parser!Goto(k, "s_header_field_start"))
    BY <1>1, GotoMoves
  <1>3. Moves(k, Error(k, "LF_EXPECTED"))
    BY Fails
  <1> QED
    BY <1>2, <1>3, SameNames DEF Parser!ReqLineAlmostDone

\* A piece of a header or of a body that is delivered changes the request only.
LEMMA DeliverQuiets ==
  ASSUME NEW k, HasFields(k), Struct(k), ~k.halt, k.errno = "OK",
         k.mark \in {NoMark, "header_field", "header_value", "body"},
         NEW d, d = Parser!Deliver(k)
  PROVE  /\ Quiet(k, d) /\ Struct(d) /\ d.errno = "OK" /\ ~d.halt /\ d.mark = NoMark
         /\ d.state = k.state /\ d.flags = k.flags /\ d.header_state = k.header_state
  <1>1. CASE k.mark = NoMark
    <2>1. d = k
      BY <1>1, SameNames DEF Parser!Deliver
    <2> QED
      BY <1>1, <2>1 DEF Quiet, HasFields
  <1>2. CASE k.mark # NoMark
    <2>0. NoMark = "none"
      BY DEF NoMark
    <2>1. PICK called : called = CASE k.mark = "url"          -> Parser!OnUrl(k)
                       [] k.mark = "header_field" -> Parser!OnHeaderField(k)
                       [] k.mark = "header_value" -> Parser!OnHeaderValue(k)
                       [] k.mark = "body"         -> Parser!OnBody(k)
      OBVIOUS
    <2>2. d = Parser!HaltOnError([called EXCEPT !.mark = NoMark, !.piece = <<>>])
      BY <1>2, <2>1, SameNames DEF Parser!Deliver
    <2>3. /\ Quiet(k, called) /\ called.halt = k.halt /\ called.errno = k.errno
          /\ called.state = k.state /\ called.flags = k.flags /\ called.header_state = k.header_state
          /\ called.content_length = k.content_length
      <3>1. CASE k.mark = "header_field"
        <4>1. called = Parser!OnHeaderField(k)
          BY <2>1, <3>1
        <4>2. CASE k.building = 1
          BY <4>1, <4>2 DEF Parser!OnHeaderField, Quiet, HasFields, Fields
        <4>3. CASE k.building # 1
          <5>1. PICK before : before = IF k.header_value # <<>> THEN Parser!Emplace(k) ELSE k
            OBVIOUS
          <5>2. /\ Quiet(k, before) /\ before.halt = k.halt /\ before.errno = k.errno
                /\ before.state = k.state /\ before.flags = k.flags /\ before.header_state = k.header_state
                /\ before.content_length = k.content_length
            BY <5>1 DEF Parser!Emplace, Quiet, HasFields, Fields, ReqFields
          <5>3. called = [before EXCEPT !.header_field = k.piece, !.building = 1]
            BY <4>1, <4>3, <5>1 DEF Parser!OnHeaderField
          <5> QED
            BY <5>2, <5>3 DEF Quiet, HasFields, Fields
        <4> QED
          BY <4>2, <4>3
      <3>2. CASE k.mark = "header_value"
        <4>1. called = Parser!OnHeaderValue(k)
          BY <2>1, <3>2
        <4> QED
          BY <4>1 DEF Parser!OnHeaderValue, Quiet, HasFields, Fields
      <3>3. CASE k.mark = "body"
        <4>1. called = Parser!OnBody(k)
          BY <2>1, <3>3
        <4> QED
          BY <4>1 DEF Parser!OnBody, Quiet, HasFields, Fields, ReqFields
      <3> QED
        BY <1>2, <3>1, <3>2, <3>3
    <2>4. /\ Quiet(k, d) /\ d.halt = FALSE /\ d.errno = k.errno /\ d.mark = NoMark
          /\ d.state = k.state /\ d.flags = k.flags /\ d.header_state = k.header_state
          /\ d.content_length = k.content_length
      BY <2>2, <2>3 DEF Parser!HaltOnError, Quiet, HasFields, Fields, Struct
    <2> QED
      BY <2>4 DEF Struct
  <1> QED
    BY <1>1, <1>2

LEMMA DeliverMoves ==
  ASSUME NEW k, HasFields(k), Struct(k), ~k.halt, k.errno = "OK",
         k.mark \in {NoMark, "header_field", "header_value", "body"}, NoMark \in Marked(k.state),
         NEW d, d = Parser!Deliver(k)
  PROVE  /\ Moves(k, d) /\ d.errno = "OK" /\ ~d.halt /\ d.mark = NoMark
         /\ d.state = k.state /\ d.flags = k.flags /\ d.header_state = k.header_state
  BY DeliverQuiets DEF Moves, Fits

\* Going on to a state that no piece is read in delivers the piece.
LEMMA EndOfPieceMoves ==
  ASSUME NEW k, Ready(k), k.state \notin Unrouted, NEW s \in States,
         k.mark \in {NoMark, "header_field", "header_value", "body"}, NoMark \in Marked(s),
         s \notin {"s_body_identity", "s_chunk_data"},
         NEW d, d = Parser!Deliver(Parser!Goto(k, s))
  PROVE  /\ Moves(k, d) /\ d.errno = "OK" /\ ~d.halt /\ d.mark = NoMark
         /\ d.state = s /\ d.flags = k.flags /\ d.header_state = k.header_state
  <1>1. PICK m : m = Parser!Goto(k, s)
    OBVIOUS
  <1>2. /\ Quiet(k, m) /\ HasFields(m) /\ Struct(m) /\ ~m.halt /\ m.errno = "OK" /\ m.mark = k.mark
        /\ m.state = s /\ m.flags = k.flags /\ m.header_state = k.header_state
    BY <1>1 DEF Parser!Goto, Quiet, Ready, Struct, HasFields, Fields
  <1>3. /\ Moves(m, d) /\ d.errno = "OK" /\ ~d.halt /\ d.mark = NoMark
        /\ d.state = s /\ d.flags = k.flags /\ d.header_state = k.header_state
    BY <1>1, <1>2, DeliverMoves
  <1> QED
    BY <1>2, <1>3 DEF Moves, Quiet

LEMMA HeaderFieldMoves ==
  ASSUME NEW k, Ready(k), NEW t, k.state = "s_header_field",
         NEW d, d = Parser!HeaderField(k, t)
  PROVE  Moves(k, d)
  <1>1. /\ k.mark = "header_field" /\ k.state \notin Unrouted
        /\ "s_header_value_discard_ws" \in States /\ NoMark \in Marked("s_header_value_discard_ws")
    BY StateNames DEF Ready, Fits, Marked, UrlStates, Unrouted
  <1>2. PICK m : m = [Parser!Extend(k, t) EXCEPT !.header_state = "h_general"]
    OBVIOUS
  <1>3. Moves(k, m)
    BY <1>2, HeaderStateNames DEF Parser!Extend, Moves, Quiet, Ready, Struct, Fits, HasFields, Fields
  <1>4. Moves(k, Parser!Deliver(Parser!Goto(k, "s_header_value_discard_ws")))
    BY <1>1, EndOfPieceMoves
  <1>5. Moves(k, Error(k, "INVALID_HEADER_TOKEN"))
    BY Fails
  <1>6. \/ d = m
        \/ d = Parser!Deliver(Parser!Goto(k, "s_header_value_discard_ws"))
        \/ d = Error(k, "INVALID_HEADER_TOKEN")
    BY <1>2, SameNames DEF Parser!HeaderField
  <1> QED
    BY <1>3, <1>4, <1>5, <1>6

LEMMA HeaderAlmostDoneMoves ==
  ASSUME NEW k, Ready(k), NEW t, k.state = "s_header_almost_done",
         NEW d, d = Parser!HeaderAlmostDone(k, t)
  PROVE  Moves(k, d)
  <1>1. /\ k.mark = NoMark /\ k.state \notin Unrouted
        /\ "s_header_value_lws" \in States /\ NoMark \in Marked("s_header_value_lws")
    BY StateNames DEF Ready, Fits, Marked, UrlStates, Unrouted
  <1>2. Moves(k, Parser!Goto(k, "s_header_value_lws"))
    BY <1>1, GotoMoves
  <1>3. Moves(k, Error(k, "LF_EXPECTED"))
    BY Fails
  <1> QED
    BY <1>2, <1>3, SameNames DEF Parser!HeaderAlmostDone

LEMMA ValueStates ==
  ASSUME NEW h \in HeaderStates, NEW t
  PROVE  Parser!ValueState(h, t) \in HeaderStates
  <1>1. Parser!ValueState(h, t) \in {h, "h_content_length_ws", "h_transfer_encoding_chunked",
          "h_matching_transfer_encoding_token", "h_matching_transfer_encoding_token_start",
          "h_general"}
    BY DEF Parser!ValueState
  <1> QED
    BY <1>1, HeaderStateNames

\* The next digit is appended only if the length then still fits.
LEMMA AppendedDigit ==
  ASSUME NEW n \in 0..UllongMax, NEW v \in 0..9, ~((UllongMax - 10) \div 10 < n)
  PROVE  n * 10 + v \in 0..UllongMax
  <1>1. UllongMax \in Nat /\ UllongMax >= 9 /\ n \in Nat /\ v \in Nat /\ v <= 9
    BY ParserAssumption
  <1>2. PICK q \in Int : q = (UllongMax - 10) \div 10
    BY <1>1
  <1>3. 10 * q <= UllongMax - 10
    BY <1>1, <1>2
  <1>4. n <= q
    BY <1>1, <1>2
  <1>5. n * 10 + v <= UllongMax
    BY <1>1, <1>2, <1>3, <1>4
  <1> QED
    BY <1>1, <1>5

LEMMA AppendedHexDigit ==
  ASSUME NEW n \in 0..UllongMax, NEW v \in 0..9, ~((UllongMax - 16) \div 16 < n)
  PROVE  n * 16 + v \in 0..UllongMax
  <1>1. UllongMax \in Nat /\ UllongMax >= 9 /\ n \in Nat /\ v \in Nat /\ v <= 9
    BY ParserAssumption
  <1>2. PICK q \in Int : q = (UllongMax - 16) \div 16
    BY <1>1
  <1>3. 16 * q <= UllongMax - 16
    BY <1>1, <1>2
  <1>4. n <= q
    BY <1>1, <1>2
  <1>5. n * 16 + v <= UllongMax
    BY <1>1, <1>2, <1>3, <1>4
  <1> QED
    BY <1>1, <1>5

LEMMA HeaderValueMoves ==
  ASSUME NEW k, Ready(k), NEW t, k.state = "s_header_value",
         NEW d, d = Parser!HeaderValue(k, t)
  PROVE  Moves(k, d)
  <1>1. /\ k.mark = "header_value" /\ k.state \notin Unrouted
        /\ "s_header_almost_done" \in States /\ NoMark \in Marked("s_header_almost_done")
    BY StateNames DEF Ready, Fits, Marked, UrlStates, Unrouted
  <1>2. PICK more : more = [Parser!Extend(k, t) EXCEPT
                              !.header_state = Parser!ValueState(k.header_state, t)]
    OBVIOUS
  <1>3. Parser!ValueState(k.header_state, t) \in HeaderStates
    BY ValueStates DEF Ready, Struct
  <1>4. Moves(k, more) /\ ~more.halt /\ more.errno = "OK" /\ more.state = k.state
        /\ more.content_length = k.content_length
    BY <1>2, <1>3 DEF Parser!Extend, Moves, Quiet, Ready, Struct, Fits, HasFields, Fields
  <1>5. Ready(more)
    BY <1>4, ReadyMoves DEF Ready
  <1>6. PICK dd : dd = Parser!Deliver(Parser!Goto(k, "s_header_almost_done"))
    OBVIOUS
  <1>7. Moves(k, dd) /\ dd.errno = "OK" /\ ~dd.halt /\ dd.state = "s_header_almost_done"
    BY <1>1, <1>6, EndOfPieceMoves
  <1>8. Moves(k, Parser!HeaderAlmostDone(dd, t))
    BY <1>7, ReadyMoves, HeaderAlmostDoneMoves, MovesOn DEF Ready
  <1>9. \A e : e # "OK" => Moves(k, Error(k, e))
    BY Fails
  <1>10. CASE t \in Digits
    <2>1. PICK l : l = Parser!MoreLength(more, t)
      OBVIOUS
    <2>2. DigitValue[t] \in 0..9 /\ k.content_length \in 0..UllongMax
      BY <1>10, DigitValues DEF Ready, Struct
    <2>3. ASSUME (UllongMax - 10) \div 10 < k.content_length
          PROVE  Moves(k, l)
      <3>1. l = Error(more, "INVALID_CONTENT_LENGTH")
        BY <1>4, <2>1, <2>3, SameNames DEF Parser!MoreLength
      <3>2. Moves(more, l)
        BY <1>5, <3>1, Fails
      <3> QED
        BY <1>4, <3>2, MovesOn
    <2>4. ASSUME ~((UllongMax - 10) \div 10 < k.content_length)
          PROVE  Moves(k, l)
      <3>1. PICK n : n = k.content_length * 10 + DigitValue[t]
        OBVIOUS
      <3>2. n \in 0..UllongMax
        BY <2>2, <2>4, <3>1, AppendedDigit
      <3>3. l = [more EXCEPT !.content_length = n]
        BY <1>4, <2>1, <2>4, <3>1, SameNames DEF Parser!MoreLength
      <3>4. Moves(k, l)
        <4>1. Moves(more, l)
          BY <1>1, <1>4, <1>5, <3>2, <3>3, LengthMoves DEF Unrouted
        <4> QED
          BY <1>4, <4>1, MovesOn
      <3> QED
        BY <3>4
    <2>5. Moves(k, l)
      BY <2>3, <2>4
    <2> QED
      BY <2>1, <2>5, <1>2, <1>6, <1>7, <1>8, <1>9, <1>4, SameNames DEF Parser!HeaderValue
  <1>11. CASE t \notin Digits
    BY <1>11, <1>2, <1>6, <1>7, <1>8, <1>9, <1>4, SameNames DEF Parser!HeaderValue
  <1> QED
    BY <1>10, <1>11

\* The first token of a header's name.
LEMMA NameStartMoves ==
  ASSUME NEW k, Ready(k), NEW t, k.state = "s_header_field_start", IsToken(t),
         NEW d, d = Parser!HeaderFieldStart(k, t)
  PROVE  Moves(k, d)
  <1>1. /\ k.mark = NoMark /\ k.state \notin Unrouted
        /\ "s_header_field" \in States /\ Marked("s_header_field") = {"header_field"}
    BY StateNames DEF Ready, Fits, Marked, UrlStates, Unrouted
  <1>2. t # Cr /\ t # Lf
    BY DEF IsToken, IsAlpha, NotWords, Cr, Lf, Digits, DigitValue
  <1>3. PICK h : h = IF t \in DOMAIN HeaderState THEN HeaderState[t] ELSE "h_general"
    OBVIOUS
  <1>4. h \in HeaderStates
    BY <1>3 DEF HeaderState, HeaderStates
  <1>5. PICK te : te = (k.te \/ t = "transfer-encoding")
    OBVIOUS
  <1>6. d = [Parser!Mark(k, "header_field", t) EXCEPT
               !.state = "s_header_field", !.header_state = h, !.te = te]
    BY <1>1, <1>2, <1>3, <1>5, SameNames DEF Parser!HeaderFieldStart, Parser!Mark, NoMark
  <1> QED
    BY <1>1, <1>4, <1>6 DEF Parser!Mark, NoMark, Moves, Quiet, Ready, Struct, Fits, HasFields, Fields

\* A header's value that goes on in the next line.
LEMMA FoldedMoves ==
  ASSUME NEW k, Ready(k), NEW t, k.state = "s_header_value_lws", t \in White,
         NEW d, d = Parser!HeaderValueLws(k, t)
  PROVE  Moves(k, d)
  <1>1. k.mark = NoMark /\ k.state \notin Unrouted
    BY StateNames DEF Ready, Fits, Marked, UrlStates, Unrouted
  <1>2. PICK h : h = IF k.header_state = "h_content_length_num" THEN "h_content_length_ws"
                                                               ELSE k.header_state
    OBVIOUS
  <1>3. PICK m : m = [k EXCEPT !.header_state = h]
    OBVIOUS
  <1>4. h \in HeaderStates
    BY <1>2, HeaderStateNames DEF Ready, Struct
  <1>5. Moves(k, m) /\ Ready(m) /\ m.mark = NoMark /\ m.state \notin Unrouted
    BY <1>1, <1>3, <1>4, HeaderStateMoves DEF Ready, Moves, Quiet, Struct, Fits, HasFields, Fields
  <1>6. d = Parser!HeaderValueStart(m, t)
    BY <1>2, <1>3, SameNames DEF Parser!HeaderValueLws
  <1> QED
    BY <1>5, <1>6, HeaderValueStartMoves, MovesOn DEF Ready

\* Before a value, and in the lines that end one.
LEMMA DiscardWhiteMoves ==
  ASSUME NEW k, Ready(k), NEW t,
         \/ k.state \in {"s_header_value_discard_ws", "s_header_value_discard_ws_almost_done"}
         \/ k.state = "s_header_value_discard_lws" /\ t \in White,
         NEW d, d = Parser!DiscardWhite(k, t)
  PROVE  Moves(k, d)
  <1>1. k.mark = NoMark /\ k.state \notin Unrouted
    BY StateNames DEF Ready, Fits, Marked, UrlStates, Unrouted
  <1>2. ASSUME NEW s, s \in {"s_header_value_discard_ws", "s_header_value_discard_ws_almost_done",
                             "s_header_value_discard_lws"}
        PROVE  Moves(k, Parser!Goto(k, s))
    <2>1. s \in States /\ NoMark \in Marked(s) /\ s \notin {"s_body_identity", "s_chunk_data"}
      BY <1>2, StateNames DEF Marked, UrlStates
    <2> QED
      BY <1>1, <2>1, GotoMoves
  <1>3. Moves(k, k) /\ Moves(k, Error(k, "STRICT"))
    BY Stays, Fails
  <1>4. Moves(k, Parser!HeaderValueStart(k, t))
    BY <1>1, HeaderValueStartMoves
  <1>5. \/ d = k \/ d = Error(k, "STRICT") \/ d = Parser!HeaderValueStart(k, t)
        \/ d = Parser!Goto(k, "s_header_value_discard_ws")
        \/ d = Parser!Goto(k, "s_header_value_discard_ws_almost_done")
        \/ d = Parser!Goto(k, "s_header_value_discard_lws")
    BY SameNames DEF Parser!DiscardWhite, Parser!Strict
  <1>6. /\ Moves(k, Parser!Goto(k, "s_header_value_discard_ws"))
        /\ Moves(k, Parser!Goto(k, "s_header_value_discard_ws_almost_done"))
        /\ Moves(k, Parser!Goto(k, "s_header_value_discard_lws"))
    BY <1>2
  <1> QED
    BY <1>3, <1>4, <1>5, <1>6

ChunkHeads == {"s_chunk_size_start", "s_chunk_size", "s_chunk_parameters",
               "s_chunk_size_almost_done"}
ChunkStates == ChunkHeads \cup {"s_chunk_data", "s_chunk_data_almost_done", "s_chunk_data_done"}

LEMMA ChunkSizeMoves ==
  ASSUME NEW k, Ready(k), NEW t, k.state = "s_chunk_size",
         NEW d, d = Parser!ChunkSize(k, t)
  PROVE  Moves(k, d)
  <1>1. k.mark = NoMark /\ k.state \notin Unrouted
    BY StateNames DEF Ready, Fits, Marked, UrlStates, Unrouted
  <1>2. ASSUME NEW s, s \in ChunkHeads
        PROVE  Moves(k, Parser!Goto(k, s))
    <2>1. s \in States /\ NoMark \in Marked(s) /\ s \notin {"s_body_identity", "s_chunk_data"}
      BY <1>2, StateNames DEF Marked, UrlStates, ChunkHeads
    <2> QED
      BY <1>1, <2>1, GotoMoves
  <1>3. /\ Moves(k, Parser!Goto(k, "s_chunk_size_almost_done"))
        /\ Moves(k, Parser!Goto(k, "s_chunk_parameters"))
    BY <1>2 DEF ChunkHeads
  <1>4. \A e : e # "OK" => Moves(k, Error(k, e))
    BY Fails
  <1>5. ASSUME t \in Digits, ~((UllongMax - 16) \div 16 < k.content_length)
        PROVE  Moves(k, [k EXCEPT !.content_length = @ * 16 + DigitValue[t]])
    <2>1. DigitValue[t] \in 0..9 /\ k.content_length \in 0..UllongMax
      BY <1>5, DigitValues DEF Ready, Struct
    <2>2. PICK n : n = k.content_length * 16 + DigitValue[t]
      OBVIOUS
    <2>3. n \in 0..UllongMax
      BY <1>5, <2>1, <2>2, AppendedHexDigit
    <2>4. Moves(k, [k EXCEPT !.content_length = n])
      BY <2>3, LengthMoves
    <2> QED
      BY <2>2, <2>4
  <1> QED
    BY <1>3, <1>4, <1>5, SameNames DEF Parser!ChunkSize

LEMMA ChunkDataMoves ==
  ASSUME NEW k, Ready(k), NEW t, k.state = "s_chunk_data",
         NEW d, d = Parser!ChunkData(k, t)
  PROVE  Moves(k, d)
  <1>1. /\ k.mark \in {NoMark, "body"} /\ k.state \notin Unrouted
        /\ k.content_length \in 1..UllongMax /\ UllongMax \in Nat
    BY StateNames, ParserAssumption DEF Ready, Struct, Fits, Marked, UrlStates, Unrouted
  <1>2. PICK more : more = [Parser!Mark(k, "body", t) EXCEPT !.content_length = @ - 1]
    OBVIOUS
  <1>3. /\ Quiet(k, more) /\ more.content_length = k.content_length - 1 /\ more.mark = "body"
        /\ more.state = k.state /\ more.header_state = k.header_state /\ more.flags = k.flags
        /\ more.halt = k.halt /\ more.errno = k.errno
    BY <1>1, <1>2 DEF Parser!Mark, Quiet, Ready, HasFields, Fields
  <1>4. more.content_length \in 0..UllongMax
    BY <1>1, <1>3
  <1>5. /\ "s_chunk_data_almost_done" \in States /\ "body" \in Marked("s_chunk_data_almost_done")
        /\ "body" \in Marked("s_chunk_data")
    BY StateNames DEF Marked, UrlStates
  <1>6. CASE more.content_length = 0
    <2>1. d = Parser!Goto(more, "s_chunk_data_almost_done")
      BY <1>2, <1>6, SameNames DEF Parser!ChunkData
    <2>2. /\ Quiet(k, d) /\ d.content_length = more.content_length /\ d.mark = "body"
          /\ d.state = "s_chunk_data_almost_done" /\ d.header_state = k.header_state
          /\ d.flags = k.flags /\ d.halt = k.halt /\ d.errno = k.errno
      BY <1>3, <2>1 DEF Parser!Goto, Quiet, Ready, HasFields, Fields
    <2> QED
      BY <1>1, <1>4, <1>5, <2>2 DEF Moves, Ready, Struct, Fits
  <1>7. CASE more.content_length # 0
    <2>1. d = more
      BY <1>2, <1>7, SameNames DEF Parser!ChunkData
    <2>2. more.content_length > 0
      BY <1>4, <1>7
    <2> QED
      BY <1>1, <1>3, <1>4, <1>5, <2>1, <2>2 DEF Moves, Ready, Struct, Fits
  <1> QED
    BY <1>6, <1>7

LEMMA ChunkMoves ==
  ASSUME NEW k, Ready(k), NEW t, k.state \in ChunkStates,
         NEW d, d = Parser!Chunk(k, t)
  PROVE  Moves(k, d)
  <1>1. k.state \notin Unrouted
    BY DEF ChunkStates, ChunkHeads, UrlStates, Unrouted
  <1>2. \A e : e # "OK" => Moves(k, Error(k, e))
    BY Fails
  <1>3. ASSUME k.mark = NoMark, NEW s, s \in ChunkHeads
        PROVE  Moves(k, Parser!Goto(k, s))
    <2>1. s \in States /\ NoMark \in Marked(s) /\ s \notin {"s_body_identity", "s_chunk_data"}
      BY <1>3, StateNames DEF Marked, UrlStates, ChunkHeads
    <2> QED
      BY <1>1, <1>3, <2>1, GotoMoves
  <1>4. CASE k.state = "s_chunk_size_start"
    <2>0. k.mark = NoMark /\ "s_chunk_size" \in States /\ NoMark \in Marked("s_chunk_size")
      BY <1>4, StateNames DEF Ready, Fits, Marked, UrlStates
    <2>1. d = Parser!ChunkSizeStart(k, t)
      BY <1>4 DEF Parser!Chunk
    <2>2. CASE t \in Digits
      <3>1. d = [k EXCEPT !.content_length = DigitValue[t], !.state = "s_chunk_size"]
        BY <2>1, <2>2, SameNames DEF Parser!ChunkSizeStart
      <3>2. DigitValue[t] \in 0..UllongMax
        BY <2>2, DigitValues, ParserAssumption
      <3> QED
        BY <1>1, <2>0, <3>1, <3>2 DEF Moves, Quiet, Ready, Struct, Fits, HasFields, Fields
    <2>3. CASE t \notin Digits
      BY <2>1, <2>3, <1>2, SameNames DEF Parser!ChunkSizeStart
    <2> QED
      BY <2>2, <2>3
  <1>5. CASE k.state = "s_chunk_size"
    <2>1. d = Parser!ChunkSize(k, t)
      BY <1>5 DEF Parser!Chunk
    <2> QED
      BY <1>5, <2>1, ChunkSizeMoves
  <1>6. CASE k.state = "s_chunk_parameters"
    <2>0. k.mark = NoMark
      BY <1>6, StateNames DEF Ready, Fits, Marked, UrlStates
    <2>1. d = Parser!Goto(k, "s_chunk_size_almost_done") \/ d = k
      BY <1>6 DEF Parser!Chunk
    <2>2. Moves(k, Parser!Goto(k, "s_chunk_size_almost_done")) /\ Moves(k, k)
      BY <1>3, <2>0, Stays DEF ChunkHeads
    <2> QED
      BY <2>1, <2>2
  <1>7. CASE k.state = "s_chunk_size_almost_done"
    <2>0. /\ k.mark = NoMark
          /\ {"s_header_field_start", "s_chunk_data"} \subseteq States
          /\ NoMark \in Marked("s_header_field_start") /\ NoMark \in Marked("s_chunk_data")
      BY <1>7, StateNames DEF Ready, Fits, Marked, UrlStates
    <2>1. d = Parser!ChunkSizeAlmostDone(k, t)
      BY <1>7 DEF Parser!Chunk
    <2>2. CASE t # Lf
      BY <2>1, <2>2, <1>2, SameNames DEF Parser!ChunkSizeAlmostDone
    <2>3. CASE t = Lf /\ k.content_length = 0
      <3>1. d = [k EXCEPT !.nread = 0, !.flags = @ \cup {"F_TRAILING"},
                          !.state = "s_header_field_start"]
        BY <2>1, <2>3, SameNames DEF Parser!ChunkSizeAlmostDone
      <3>2. "F_TRAILING" \in Flags
        BY DEF Flags
      <3> QED
        BY <1>1, <2>0, <3>1, <3>2 DEF Moves, Quiet, Ready, Struct, Fits, HasFields, Fields
    <2>4. CASE t = Lf /\ k.content_length # 0
      <3>1. d = [k EXCEPT !.nread = 0, !.state = "s_chunk_data"]
        BY <2>1, <2>4, SameNames DEF Parser!ChunkSizeAlmostDone
      <3>2. k.content_length > 0
        BY <2>4, ParserAssumption DEF Ready, Struct
      <3> QED
        BY <1>1, <2>0, <3>1, <3>2 DEF Moves, Quiet, Ready, Struct, Fits, HasFields, Fields
    <2> QED
      BY <2>2, <2>3, <2>4
  <1>8. CASE k.state = "s_chunk_data"
    <2>1. d = Parser!ChunkData(k, t)
      BY <1>8 DEF Parser!Chunk
    <2> QED
      BY <1>8, <2>1, ChunkDataMoves
  <1>9. CASE k.state = "s_chunk_data_almost_done"
    <2>0. /\ k.mark \in {NoMark, "body"} /\ "s_chunk_data_done" \in States
          /\ NoMark \in Marked("s_chunk_data_done")
      BY <1>9, StateNames DEF Ready, Fits, Marked, UrlStates
    <2>1. d = Parser!Deliver(Parser!Goto(k, "s_chunk_data_done")) \/ d = Error(k, "STRICT")
      BY <1>9, SameNames DEF Parser!Chunk
    <2>2. Moves(k, Parser!Deliver(Parser!Goto(k, "s_chunk_data_done")))
      BY <1>1, <2>0, EndOfPieceMoves
    <2> QED
      BY <1>2, <2>1, <2>2
  <1>10. CASE k.state = "s_chunk_data_done"
    <2>0. k.mark = NoMark /\ "s_chunk_size_start" \in States /\ NoMark \in Marked("s_chunk_size_start")
      BY <1>10, StateNames DEF Ready, Fits, Marked, UrlStates
    <2>1. PICK n : n = IF t = Parser!Lf THEN 0 ELSE k.nread
      OBVIOUS
    <2>2. \/ d = [[k EXCEPT !.nread = n] EXCEPT !.state = "s_chunk_size_start"]
          \/ d = Error([k EXCEPT !.nread = n], "STRICT")
      BY <1>10, <2>1, SameNames DEF Parser!Chunk, Parser!Strict, Parser!Goto
    <2>3. Moves(k, [[k EXCEPT !.nread = n] EXCEPT !.state = "s_chunk_size_start"])
      BY <1>1, <2>0 DEF Moves, Quiet, Ready, Struct, Fits, HasFields, Fields
    <2>4. Quiet(k, [k EXCEPT !.nread = n]) /\ Struct([k EXCEPT !.nread = n])
      BY DEF Quiet, Ready, Struct, HasFields, Fields
    <2>5. Moves(k, Error([k EXCEPT !.nread = n], "STRICT"))
      BY <2>4, ErrorMoves DEF Ready
    <2> QED
      BY <2>2, <2>3, <2>5
  <1> QED
    BY <1>4, <1>5, <1>6, <1>7, <1>8, <1>9, <1>10 DEF ChunkStates, ChunkHeads

-----------------------------------------------------------------------------
(* What the connection does with a response                                *)

\* What a response that is not one to HEAD says of its body: nothing, unless it is a file.
Says(r) == /\ r.file \in Nat /\ ~r.manual_length_header
           /\ r.length = IF r.file = 0 THEN NoLength ELSE r.file

\* Until a HEAD request is routed everything that was sent has its length.
Told(out, r) ==
  /\ \E S : out \in Seq(S)
  /\ r.skip_body \/ (Says(r) /\ \A i \in DOMAIN out : out[i].length = out[i].body)

\* The response r that x becomes says no less.
Heir(x, r) ==
  /\ ResFields \subseteq DOMAIN r
  /\ x.skip_body => r.skip_body
  /\ x.skip_body \/ Says(x) => r.skip_body \/ Says(r)

LEMMA Appended ==
  ASSUME NEW S, NEW s \in Seq(S), NEW e, NEW d, d = Append(s, e)
  PROVE  /\ \E R : d \in Seq(R)
         /\ Len(s) \in Nat /\ DOMAIN s = 1..Len(s)
         /\ Len(d) = Len(s) + 1 /\ DOMAIN d = 1..Len(d)
         /\ d[Len(d)] = e /\ \A i \in 1..Len(s) : d[i] = s[i]
         /\ d # <<>> /\ (s # <<>> => Head(d) = Head(s)) /\ (s = <<>> => Head(d) = e)
  <1>1. s \in Seq(S \cup {e}) /\ e \in S \cup {e}
    OBVIOUS
  <1>2. /\ d \in Seq(S \cup {e}) /\ Len(d) = Len(s) + 1 /\ d[Len(d)] = e
        /\ \A i \in 1..Len(s) : d[i] = s[i]
    BY <1>1
  <1>3. Len(s) \in Nat /\ DOMAIN s = 1..Len(s) /\ DOMAIN d = 1..Len(d)
    BY <1>2
  <1> QED
    BY <1>1, <1>2, <1>3

LEMMA HeirTold ==
  ASSUME NEW out, NEW x, Told(out, x), NEW r, Heir(x, r)
  PROVE  Told(out, r)
  BY DEF Told, Heir

LEMMA SameHeir ==
  ASSUME NEW x, ResFields \subseteq DOMAIN x, NEW r,
         DOMAIN r = DOMAIN x, r.file = x.file, r.length = x.length,
         r.skip_body = x.skip_body, r.manual_length_header = x.manual_length_header
  PROVE  Heir(x, r)
  BY DEF Heir, Says

\* What no answer changes.
Kept(k, d) ==
  /\ DOMAIN d = DOMAIN k /\ ReqFields \subseteq DOMAIN d.req /\ ResFields \subseteq DOMAIN d.res
  /\ Told(k.out, k.res) => Told(d.out, d.res)
  /\ d.header_state = k.header_state /\ d.errno = k.errno /\ d.flags = k.flags
  /\ d.content_length = k.content_length /\ d.te = k.te /\ d.upgrade = k.upgrade
  /\ d.mark = k.mark /\ d.halt = k.halt /\ d.rule = k.rule /\ d.log = k.log
  /\ d.threw = k.threw /\ d.reset = k.reset /\ d.close_connection = k.close_connection
  /\ k.reading \in BOOLEAN => d.reading \in BOOLEAN
  /\ k.deadline \in BOOLEAN => d.deadline \in BOOLEAN

\* The request stays, and the parser where it is.
Stands(k, d) == d.state = k.state /\ d.message_complete = k.message_complete /\ d.req = k.req
                /\ d.open = k.open

\* The ends that a response has: it is given to the socket; it is written at once; it
\* cannot be written; it is complete, and nobody waits for it.
Queued(k, d)     == /\ Stands(k, d) /\ d.writes = Append(k.writes, k.open /\ k.reset = "no")
                    /\ k.res.completed => d.res.completed
WrittenNow(k, d) == /\ k.reset = "no" /\ d.state = "s_start_req" /\ ~d.message_complete
                    /\ d.open = (k.open /\ ~k.close_connection) /\ d.writes = k.writes
Lost(k, d)       == Stands(k, d) /\ d.writes = k.writes /\ k.reset # "no" /\ d.res.completed
Held(k, d)       == Stands(k, d) /\ d.writes = k.writes /\ d.res.completed

Replies(k, d) == Kept(k, d) /\ (Queued(k, d) \/ WrittenNow(k, d) \/ Lost(k, d))

Cleared(k, d) ==
  /\ DOMAIN d = DOMAIN k /\ d.res = k.res
  /\ ReqFields \subseteq DOMAIN d.req
  /\ d.state = "s_start_req" /\ d.message_complete = FALSE
  /\ d.header_state = k.header_state /\ d.errno = k.errno
  /\ d.flags = k.flags /\ d.content_length = k.content_length
  /\ d.te = k.te /\ d.upgrade = k.upgrade /\ d.mark = k.mark
  /\ d.halt = k.halt /\ d.rule = k.rule /\ d.log = k.log /\ d.out = k.out
  /\ d.threw = k.threw /\ d.reset = k.reset
  /\ d.close_connection = k.close_connection /\ d.open = k.open
  /\ d.writes = k.writes /\ d.reading = k.reading /\ d.deadline = k.deadline

LEMMA ClearIs ==
  ASSUME NEW k, HasFields(k), NEW d, d = Clear(k)
  PROVE  Cleared(k, d)
  BY DEF Cleared, Clear, HasFields, Fields, ReqFields, NoRequest

\* A step of the connection that changes the response only, and things that are not
\* followed here.
Alike(k, d) == /\ HasFields(d) /\ Kept(k, d) /\ Stands(k, d) /\ d.writes = k.writes
               /\ (d.res.completed <=> k.res.completed)

LEMMA AlikeOn ==
  ASSUME NEW k, NEW m, Alike(k, m), NEW d, Alike(m, d)
  PROVE  Alike(k, d)
  BY DEF Alike, Kept, Stands

LEMMA NewResponseIsAlike ==
  ASSUME NEW k, HasFields(k), NEW r, Heir(k.res, r), r.completed <=> k.res.completed,
         NEW d, d = [k EXCEPT !.res = r]
  PROVE  Alike(k, d)
  <1>1. ResFields \subseteq DOMAIN r /\ (Told(k.out, k.res) => Told(k.out, r))
    BY HeirTold DEF Heir
  <1> QED
    BY <1>1 DEF Alike, Kept, Stands, HasFields, Fields

LEMMA RepliesOn ==
  ASSUME NEW k, NEW m, Alike(k, m), NEW d, Replies(m, d)
  PROVE  Replies(k, d)
  BY DEF Alike, Replies, Kept, Stands, Queued, WrittenNow, Lost

LEMMA AssignIs ==
  ASSUME NEW x, ResFields \subseteq DOMAIN x, NEW code
  PROVE  Heir(x, Assign(x, code)) /\ ~Assign(x, code).completed
  BY DEF Assign, Heir, Says, ResFields

\* What the head promises of a response's own body.
LEMMA SentIs ==
  ASSUME NEW k, NEW size, size = IF k.res.file # 0 THEN k.res.file ELSE k.res.body
  PROVE  Says(k.res) => Sent(k, size).length = Sent(k, size).body
  BY DEF Sent, Says, NoLength

LEMMA AppendTold ==
  ASSUME NEW out, NEW x, Told(out, x), NEW e, x.skip_body \/ e.length = e.body,
         NEW d, d = Append(out, e)
  PROVE  Told(d, x)
  <1>1. PICK S : out \in Seq(S)
    BY DEF Told
  <1>2. PICK R : d \in Seq(R)
    BY <1>1, Appended
  <1>3. /\ Len(out) \in Nat /\ DOMAIN out = 1..Len(out)
        /\ Len(d) = Len(out) + 1 /\ DOMAIN d = 1..Len(d)
        /\ d[Len(d)] = e /\ \A i \in 1..Len(out) : d[i] = out[i]
    BY <1>1, Appended
  <1>4. CASE x.skip_body
    BY <1>2, <1>4 DEF Told
  <1>5. CASE ~x.skip_body
    <2>1. Says(x) /\ \A i \in DOMAIN out : out[i].length = out[i].body
      BY <1>5 DEF Told
    <2>2. ASSUME NEW i \in DOMAIN d PROVE d[i].length = d[i].body
      <3>1. i = Len(d) \/ i \in DOMAIN out
        BY <1>3
      <3> QED
        BY <1>3, <1>5, <2>1, <3>1
    <2> QED
      BY <1>2, <2>1, <2>2 DEF Told
  <1> QED
    BY <1>4, <1>5

LEMMA WrittenReplies ==
  ASSUME NEW k, HasFields(k), k.reset = "no",
         NEW size, size = IF k.res.file # 0 THEN k.res.file ELSE k.res.body,
         NEW d, d = Written(k, size)
  PROVE  Kept(k, d) /\ WrittenNow(k, d)
  <1>1. PICK out, res : /\ res = ClearResponse(k.res) /\ out = Append(k.out, Sent(k, size))
                        /\ d = Clear([k EXCEPT !.out = out, !.res = res,
                                               !.open = k.open /\ ~k.close_connection])
    BY DEF Written, HasFields, Fields
  <1>2. ResFields \subseteq DOMAIN res /\ (Told(k.out, k.res) => Told(out, res))
    <2>1. Heir(k.res, res)
      BY <1>1, AssignIs DEF ClearResponse, HasFields
    <2>2. ASSUME Told(k.out, k.res) PROVE Told(out, res)
      <3>1. k.res.skip_body \/ Sent(k, size).length = Sent(k, size).body
        BY <2>2, SentIs DEF Told
      <3>2. Told(out, k.res)
        BY <1>1, <2>2, <3>1, AppendTold
      <3> QED
        BY <2>1, <3>2, HeirTold
    <2> QED
      BY <2>1, <2>2 DEF Heir
  <1>3. PICK m : m = [k EXCEPT !.out = out, !.res = res, !.open = k.open /\ ~k.close_connection]
    OBVIOUS
  <1>4. HasFields(m) /\ DOMAIN m = DOMAIN k
    BY <1>2, <1>3 DEF HasFields, Fields
  <1>5. /\ m.header_state = k.header_state /\ m.errno = k.errno /\ m.flags = k.flags
        /\ m.content_length = k.content_length /\ m.te = k.te /\ m.upgrade = k.upgrade
        /\ m.mark = k.mark /\ m.halt = k.halt /\ m.rule = k.rule /\ m.log = k.log /\ m.out = out
        /\ m.threw = k.threw /\ m.reset = k.reset /\ m.close_connection = k.close_connection
        /\ m.reading = k.reading /\ m.deadline = k.deadline /\ m.writes = k.writes
        /\ m.open = (k.open /\ ~k.close_connection) /\ m.res = res
    BY <1>3 DEF HasFields, Fields
  <1>6. d = Clear(m)
    BY <1>1, <1>3
  <1>7. Cleared(m, d)
    BY <1>4, <1>6, ClearIs
  <1>8. Kept(k, d)
    BY <1>2, <1>4, <1>5, <1>7 DEF Kept, Cleared
  <1>9. WrittenNow(k, d)
    BY <1>5, <1>7 DEF WrittenNow, Cleared
  <1> QED
    BY <1>8, <1>9

LEMMA PreparedIsAlike ==
  ASSUME NEW k, HasFields(k), NEW d, d = PrepareBuffers([k EXCEPT !.needAfter = FALSE])
  PROVE  Alike(k, d)
  <1>1. PICK n : n = [[k EXCEPT !.needAfter = FALSE] EXCEPT !.onComplete = FALSE]
    OBVIOUS
  <1>2. PICK b : b = IF k.open /\ k.res.code >= 400 /\ k.res.body = 0 THEN 1 ELSE k.res.body
    OBVIOUS
  <1>3. PICK r : r = [k.res EXCEPT !.body = b]
    OBVIOUS
  <1>4. Alike(k, n) /\ n.res = k.res /\ HasFields(n)
    BY <1>1 DEF Alike, HasFields, Fields, Kept, Stands
  <1>5. d = [n EXCEPT !.res = r]
    BY <1>1, <1>2, <1>3 DEF PrepareBuffers, HasFields, Fields
  <1>6. r.completed = n.res.completed /\ Heir(n.res, r)
    BY <1>3, <1>4, SameHeir DEF HasFields, ResFields
  <1>7. Alike(n, d)
    BY <1>4, <1>5, <1>6, NewResponseIsAlike
  <1> QED
    BY <1>4, <1>7, AlikeOn

LEMMA DoWriteQueues ==
  ASSUME NEW k, HasFields(k),
         NEW message, Says(k.res) => k.res.skip_body \/ message.length = message.body,
         NEW d, d = DoWrite(k, message)
  PROVE  HasFields(d) /\ Kept(k, d) /\ Queued(k, d) /\ d.res = k.res
  <1>1. PICK out : /\ out = k.out \/ out = Append(k.out, message)
                   /\ d = [k EXCEPT !.out = out, !.writes = Append(@, k.open /\ k.reset = "no")]
    BY DEF DoWrite, HasFields, Fields
  <1>2. Told(k.out, k.res) => Told(out, k.res)
    <2>1. ASSUME Told(k.out, k.res) PROVE k.res.skip_body \/ message.length = message.body
      BY <2>1 DEF Told
    <2> QED
      BY <1>1, <2>1, AppendTold
  <1> QED
    BY <1>1, <1>2 DEF HasFields, Fields, Kept, Stands, Queued

LEMMA FailedIsLost ==
  ASSUME NEW k, HasFields(k), k.reset # "no", NEW d, d = Failed(k)
  PROVE  Kept(k, d) /\ Lost(k, d)
  <1>1. PICK r : r = [Assign(k.res, 500) EXCEPT !.completed = TRUE]
    OBVIOUS
  <1>2. d = [k EXCEPT !.res = r]
    BY <1>1 DEF Failed, HasFields, Fields
  <1>3. PICK a : a = Assign(k.res, 500)
    OBVIOUS
  <1>4. Heir(k.res, a) /\ r = [a EXCEPT !.completed = TRUE]
    BY <1>1, <1>3, AssignIs DEF HasFields
  <1>5. Heir(a, r) /\ r.completed = TRUE
    BY <1>4, SameHeir DEF Heir, ResFields
  <1>6. ResFields \subseteq DOMAIN r /\ (Told(k.out, k.res) => Told(k.out, r))
    BY <1>4, <1>5, HeirTold DEF Heir
  <1> QED
    BY <1>2, <1>5, <1>6 DEF HasFields, Fields, Kept, Stands, Lost

LEMMA GeneralReplies ==
  ASSUME NEW k, HasFields(k), k.res.file = 0, NEW d, d = DoWriteGeneral(k)
  PROVE  Replies(k, d)
  <1>1. CASE k.res.body < Threshold
    <2>1. PICK r : r = [k.res EXCEPT !.body = k.copy]
      OBVIOUS
    <2>2. PICK m : m = [k EXCEPT !.copy = k.res.body]
      OBVIOUS
    <2>3. PICK n : n = [m EXCEPT !.res = r]
      OBVIOUS
    <2>4. PICK wrote : wrote = DoWrite(n, Sent(k, k.res.body))
      OBVIOUS
    <2>5. Alike(k, m) /\ HasFields(m) /\ m.res = k.res
      BY <2>2 DEF Alike, HasFields, Fields, Kept, Stands
    <2>6. r.completed = m.res.completed /\ Heir(m.res, r)
      BY <2>1, <2>5, SameHeir DEF HasFields, ResFields
    <2>7. Alike(k, n) /\ HasFields(n)
      BY <2>3, <2>5, <2>6, NewResponseIsAlike, AlikeOn DEF Alike
    <2>8. HasFields(wrote) /\ Kept(n, wrote) /\ Queued(n, wrote)
      <3>1. n.res = r
        BY <2>3, <2>5 DEF HasFields, Fields
      <3>2. Says(r) <=> Says(k.res)
        BY <2>1 DEF Says
      <3>3. Says(k.res) => Sent(k, k.res.body).length = Sent(k, k.res.body).body
        BY SentIs
      <3> QED
        BY <2>4, <2>7, <3>1, <3>2, <3>3, DoWriteQueues
    <2>9. n = [k EXCEPT !.copy = k.res.body, !.res.body = k.copy]
      BY <2>1, <2>2, <2>3 DEF HasFields, Fields
    <2>10. d = IF k.readAfter
                 THEN [wrote EXCEPT !.readAfter = FALSE, !.deadline = TRUE, !.reading = TRUE]
                 ELSE wrote
      BY <1>1, <2>4, <2>9 DEF DoWriteGeneral
    <2>11. Alike(wrote, [wrote EXCEPT !.readAfter = FALSE, !.deadline = TRUE, !.reading = TRUE])
      BY <2>8 DEF Alike, HasFields, Fields, Kept, Stands
    <2>12. Alike(wrote, wrote)
      BY <2>8 DEF Alike, HasFields, Kept, Stands
    <2>13. Alike(wrote, d)
      BY <2>10, <2>11, <2>12
    <2>14. Kept(n, d) /\ Queued(n, d)
      BY <2>8, <2>13 DEF Alike, Kept, Stands, Queued
    <2> QED
      BY <2>7, <2>14, RepliesOn DEF Replies
  <1>2. CASE ~(k.res.body < Threshold) /\ k.reset = "no"
    <2>1. PICK n : n = [k EXCEPT !.deadline = FALSE]
      OBVIOUS
    <2>2. d = Written(n, k.res.body)
      BY <1>2, <2>1 DEF DoWriteGeneral
    <2>3. Alike(k, n) /\ HasFields(n) /\ n.reset = "no" /\ n.res = k.res
      BY <1>2, <2>1 DEF Alike, HasFields, Fields, Kept, Stands
    <2>4. Kept(n, d) /\ WrittenNow(n, d)
      BY <2>2, <2>3, WrittenReplies
    <2> QED
      BY <2>3, <2>4, RepliesOn DEF Replies
  <1>3. CASE ~(k.res.body < Threshold) /\ k.reset # "no"
    <2>1. d = Failed(k)
      BY <1>3 DEF DoWriteGeneral
    <2> QED
      BY <1>3, <2>1, FailedIsLost DEF Replies
  <1> QED
    BY <1>1, <1>2, <1>3

LEMMA CompleteRequestReplies ==
  ASSUME NEW k, HasFields(k), NEW d, d = CompleteRequest(k)
  PROVE  Replies(k, d)
  <1>1. PICK m : m = PrepareBuffers([k EXCEPT !.needAfter = FALSE])
    OBVIOUS
  <1>2. Alike(k, m) /\ HasFields(m)
    BY <1>1, PreparedIsAlike DEF Alike
  <1>3. CASE ~(m.res.file # 0)
    <2>1. d = DoWriteGeneral(m)
      BY <1>1, <1>3 DEF CompleteRequest
    <2> QED
      BY <1>2, <1>3, <2>1, GeneralReplies, RepliesOn
  <1>4. CASE m.res.file # 0 /\ m.reset = "no"
    <2>1. d = Written(m, m.res.file)
      BY <1>1, <1>4 DEF CompleteRequest, DoWriteStatic
    <2>2. Kept(m, d) /\ WrittenNow(m, d)
      BY <1>2, <1>4, <2>1, WrittenReplies
    <2> QED
      BY <1>2, <2>2, RepliesOn DEF Replies
  <1>5. CASE m.res.file # 0 /\ m.reset # "no"
    <2>1. d = Failed(m)
      BY <1>1, <1>5 DEF CompleteRequest, DoWriteStatic
    <2>2. Replies(m, d)
      BY <1>2, <1>5, <2>1, FailedIsLost DEF Replies
    <2> QED
      BY <1>2, <2>2, RepliesOn
  <1> QED
    BY <1>3, <1>4, <1>5

EndOf(k, d) ==
  /\ Kept(k, d)
  /\ \/ Queued(k, d) /\ d.res.completed
     \/ WrittenNow(k, d) \/ Lost(k, d) \/ (Held(k, d) /\ ~k.onComplete)

\* response::end does nothing to a response that is complete.
LEMMA EndEnds ==
  ASSUME NEW k, HasFields(k), NEW d, d = End(k)
  PROVE  IF k.res.completed THEN d = k ELSE EndOf(k, d)
  <1>1. CASE k.res.completed
    BY <1>1 DEF End
  <1>2. CASE ~k.res.completed
    <2>1. PICK ended : ended = [k.res EXCEPT !.completed = TRUE,
                         !.length = IF k.res.skip_body THEN k.res.body ELSE @,
                         !.body = IF k.res.skip_body THEN 0 ELSE @,
                         !.manual_length_header = @ \/ k.res.skip_body]
      OBVIOUS
    <2>2. PICK e : e = [k EXCEPT !.res = ended]
      OBVIOUS
    <2>3. d = IF k.onComplete THEN CompleteRequest(e) ELSE e
      BY <1>2, <2>1, <2>2 DEF End
    <2>4. ended.completed = TRUE /\ Heir(k.res, ended)
      BY <2>1 DEF HasFields, ResFields, Heir, Says
    <2>5. ResFields \subseteq DOMAIN ended /\ (Told(k.out, k.res) => Told(k.out, ended))
      BY <2>4, HeirTold DEF Heir
    <2>6. HasFields(e) /\ Kept(k, e) /\ Stands(k, e) /\ e.writes = k.writes /\ e.res.completed
      BY <2>2, <2>4, <2>5 DEF HasFields, Fields, Kept, Stands
    <2>7. CASE k.onComplete
      <3>1. Replies(e, d)
        BY <2>3, <2>6, <2>7, CompleteRequestReplies
      <3> QED
        BY <1>2, <2>6, <3>1 DEF Replies, EndOf, Kept, Stands, Queued, WrittenNow, Lost
    <2>8. CASE ~k.onComplete
      BY <1>2, <2>3, <2>6, <2>8 DEF EndOf, Held, Stands
    <2> QED
      BY <2>7, <2>8
  <1> QED
    BY <1>1, <1>2

-----------------------------------------------------------------------------
(* What holds of a connection whenever the parser calls it                 *)

Types(k) ==
  /\ k.rule \in Resource \cup {NoRule}
  /\ k.open \in BOOLEAN /\ k.reading \in BOOLEAN /\ k.deadline \in BOOLEAN
  /\ k.threw \in BOOLEAN /\ k.reset \in {"no", "soon", "yes"}
  /\ k.writes \in Seq(BOOLEAN) /\ (\E S : k.log \in Seq(S)) /\ Told(k.out, k.res)

\* The handler that ran last ran for a request that asks for the connection to be closed.
LastCloses(k) == k.log # <<>> /\ k.log[Len(k.log)].close
OnlyLast(k)   == \A i \in DOMAIN k.log : k.log[i].close => i = Len(k.log)

\* No handler of a route can run any more.
Dead(k) == ~k.open \/ k.reset = "yes"

\* The first answer that is still to be written leaves, and so does every other.
HeadLeaves(k) == k.writes # <<>> /\ Head(k.writes)
AllLeave(k)   == \A i \in DOMAIN k.writes : k.writes[i]

\* Connection::handle goes to the router with this request.
NoDetour(k) ==
  /\ ~(k.req.ver = <<1, 1>> /\ Header(k, "host") = {})
  /\ ~(k.req.ver = <<1, 1>> /\ k.req.upgrade /\ <<"h2c">> \notin Header(k, "upgrade"))

\* The request that closes is being answered: Connection::handle, when it is called
\* again, sends the same response again.
Answering(k) ==
  /\ k.message_complete /\ k.res.completed
  /\ k.close_connection /\ k.req.close_connection /\ NoDetour(k)
  /\ k.reset = "soon" \/ HeadLeaves(k)

Core(k) ==
  /\ HasFields(k) /\ Struct(k) /\ Types(k) /\ OnlyLast(k)
  /\ LastCloses(k) => Dead(k) \/ Answering(k)
  /\ AllLeave(k) \/ ~k.open \/ k.reset # "no"

\* Where the parser stands when a message is complete: what it then reads completes the
\* message again or is an error.
AtTheEnd(k) ==
  \/ k.state = "s_message_done"
  \/ k.state = "s_headers_almost_done" /\ "F_TRAILING" \in k.flags
  \/ /\ k.state = "s_headers_done"
     /\ \/ k.upgrade
        \/ "F_CHUNKED" \notin k.flags /\ ~k.te /\ k.content_length \in {0, UllongMax}

Whole(k)  == k.message_complete => AtTheEnd(k)
Routed(k) == k.state \notin Unrouted => k.rule \in Resource

\* Between two tokens of one read.
Mid(k) ==
  /\ Core(k)
  /\ (k.errno = "OK" => Whole(k) /\ Routed(k))
  /\ (~k.halt => k.errno = "OK" /\ Fits(k))

\* Whatever became of a response, if a response there was.
Settled(k, d) == /\ Kept(k, d)
                 /\ \/ Queued(k, d) \/ WrittenNow(k, d)
                    \/ Stands(k, d) /\ d.writes = k.writes

LEMMA SettledWays ==
  ASSUME NEW k, NEW d
  PROVE  /\ Replies(k, d) => Settled(k, d)
         /\ EndOf(k, d) => Settled(k, d)
         /\ Alike(k, d) => Settled(k, d)
         /\ HasFields(k) /\ d = k => Settled(k, d)
  <1>1. Replies(k, d) => Settled(k, d)
    BY DEF Settled, Replies, Lost
  <1>2. EndOf(k, d) => Settled(k, d)
    BY DEF Settled, EndOf, Lost, Held
  <1>3. Alike(k, d) => Settled(k, d)
    BY DEF Settled, Alike
  <1>4. HasFields(k) /\ d = k => Settled(k, d)
    BY DEF Settled, Kept, Stands, HasFields
  <1> QED
    BY <1>1, <1>2, <1>3, <1>4

LEMMA QueuedWrites ==
  ASSUME NEW k, Types(k), NEW d, Queued(k, d)
  PROVE  /\ d.writes \in Seq(BOOLEAN) /\ d.writes # <<>>
         /\ (AllLeave(k) /\ k.open /\ k.reset = "no" => AllLeave(d) /\ HeadLeaves(d))
         /\ (HeadLeaves(k) => HeadLeaves(d))
  <1>1. PICK w, e, x : w = k.writes /\ e = (k.open /\ k.reset = "no") /\ x = d.writes
    OBVIOUS
  <1>2. w \in Seq(BOOLEAN) /\ e \in BOOLEAN /\ x = Append(w, e)
    BY <1>1 DEF Types, Queued
  <1>3. x \in Seq(BOOLEAN)
    BY <1>2
  <1>4. /\ Len(w) \in Nat /\ DOMAIN w = 1..Len(w)
        /\ Len(x) = Len(w) + 1 /\ DOMAIN x = 1..Len(x)
        /\ x[Len(x)] = e /\ \A i \in 1..Len(w) : x[i] = w[i]
        /\ x # <<>> /\ (w # <<>> => Head(x) = Head(w)) /\ (w = <<>> => Head(x) = e)
    BY <1>2, Appended
  <1>5. ASSUME \A i \in DOMAIN w : w[i], e
        PROVE  (\A i \in DOMAIN x : x[i]) /\ Head(x)
    <2>1. ASSUME NEW i \in DOMAIN x PROVE x[i]
      <3>1. i \in DOMAIN w \/ i = Len(x)
        BY <1>4
      <3>2. i \in DOMAIN w => x[i] = w[i]
        BY <1>4
      <3>3. x[Len(x)]
        BY <1>4, <1>5
      <3> QED
        BY <1>5, <3>1, <3>2, <3>3
    <2>2. Head(x) = x[1] /\ 1 \in DOMAIN x
      BY <1>3, <1>4
    <2> QED
      BY <2>1, <2>2
  <1>6. AllLeave(k) /\ k.open /\ k.reset = "no" => AllLeave(d) /\ HeadLeaves(d)
    BY <1>1, <1>4, <1>5 DEF AllLeave, HeadLeaves
  <1>7. HeadLeaves(k) => HeadLeaves(d)
    BY <1>1, <1>4 DEF HeadLeaves
  <1> QED
    BY <1>1, <1>3, <1>4, <1>6, <1>7

LEMMA SettledKeeps ==
  ASSUME NEW k, Core(k), LastCloses(k) => Dead(k), NEW d, Settled(k, d)
  PROVE  /\ Core(d) /\ (LastCloses(d) => Dead(d))
         /\ (Whole(k) => Whole(d)) /\ (Routed(k) => Routed(d))
         /\ d.state \in {k.state, "s_start_req"}
  <1>1. /\ HasFields(k) /\ Struct(k) /\ Types(k) /\ OnlyLast(k)
        /\ AllLeave(k) \/ ~k.open \/ k.reset # "no"
    BY DEF Core
  <1>2. Kept(k, d)
    BY DEF Settled
  <1>3. d.state \in {k.state, "s_start_req"}
    BY DEF Settled, Queued, WrittenNow, Stands
  <1>4. HasFields(d)
    BY <1>1, <1>2 DEF HasFields, Kept
  <1>5. Struct(d)
    BY <1>1, <1>2, <1>3, StateNames DEF Struct, Kept
  <1>6. d.writes \in Seq(BOOLEAN)
    BY <1>1, QueuedWrites DEF Settled, WrittenNow, Types
  <1>7. d.open \in BOOLEAN
    BY <1>1 DEF Settled, Queued, WrittenNow, Stands, Types
  <1>8. Types(d)
    BY <1>1, <1>2, <1>6, <1>7 DEF Types, Kept
  <1>9. OnlyLast(d) /\ (LastCloses(d) => LastCloses(k))
    BY <1>1, <1>2 DEF OnlyLast, LastCloses, Kept
  <1>10. Dead(k) => Dead(d)
    BY <1>2 DEF Settled, Queued, WrittenNow, Stands, Dead, Kept
  <1>11. AllLeave(d) \/ ~d.open \/ d.reset # "no"
    <2>1. CASE Queued(k, d)
      BY <1>1, <1>2, <2>1, QueuedWrites DEF Queued, Stands, Kept
    <2>2. CASE ~Queued(k, d)
      BY <1>1, <1>2, <2>2 DEF Settled, WrittenNow, Stands, Kept, AllLeave
    <2> QED
      BY <2>1, <2>2
  <1>12. Whole(k) => Whole(d)
    BY <1>2 DEF Settled, Queued, WrittenNow, Stands, Whole, AtTheEnd, Kept
  <1>13. Routed(k) => Routed(d)
    BY <1>2, <1>3 DEF Routed, Kept, Unrouted
  <1>14. LastCloses(d) => Dead(d)
    BY <1>9, <1>10
  <1>15. Core(d)
    BY <1>4, <1>5, <1>8, <1>9, <1>11, <1>14 DEF Core
  <1> QED
    BY <1>3, <1>12, <1>13, <1>14, <1>15

-----------------------------------------------------------------------------
(* Connection::handle                                                      *)

\* The end of a response.
Ended(k, d) == /\ Kept(k, d)
               /\ (Queued(k, d) /\ d.res.completed) \/ WrittenNow(k, d) \/ Lost(k, d)

LEMMA EndedIsSettled ==
  ASSUME NEW k, NEW d, Ended(k, d)
  PROVE  Settled(k, d)
  BY DEF Ended, Settled, Lost

\* The response to the request that closes: it leaves, the connection is closed, or the
\* client has gone.
LEMMA LastAnswer ==
  ASSUME NEW k, HasFields(k), Struct(k), Types(k), OnlyLast(k),
         AllLeave(k) \/ ~k.open \/ k.reset # "no", ~Dead(k),
         k.message_complete, k.close_connection, k.req.close_connection, NoDetour(k),
         NEW d, Ended(k, d)
  PROVE  Core(d)
  <1>1. Kept(k, d)
    BY DEF Ended
  <1>2. d.state \in {k.state, "s_start_req"}
    BY DEF Ended, Queued, WrittenNow, Lost, Stands
  <1>3. HasFields(d) /\ Struct(d)
    BY <1>1, <1>2, StateNames DEF HasFields, Struct, Kept
  <1>4. d.writes \in Seq(BOOLEAN) /\ d.open \in BOOLEAN
    BY QueuedWrites DEF Ended, Queued, WrittenNow, Lost, Stands, Types
  <1>5. Types(d) /\ OnlyLast(d)
    BY <1>1, <1>4 DEF Types, OnlyLast, Kept
  <1>6. k.open /\ k.reset \in {"no", "soon"}
    BY DEF Dead, Types
  <1>7. CASE Queued(k, d) /\ d.res.completed
    <2>1. Stands(k, d)
      BY <1>7 DEF Queued
    <2>2. k.reset = "no" => AllLeave(d) /\ HeadLeaves(d)
      BY <1>6, <1>7, QueuedWrites
    <2>3. NoDetour(d)
      BY <2>1 DEF NoDetour, Stands, Header
    <2>4. Answering(d) /\ (AllLeave(d) \/ d.reset # "no")
      BY <1>1, <1>6, <1>7, <2>1, <2>2, <2>3 DEF Answering, Kept, Stands
    <2> QED
      BY <1>3, <1>5, <2>4 DEF Core
  <1>8. CASE WrittenNow(k, d)
    <2>1. ~d.open
      BY <1>8 DEF WrittenNow
    <2> QED
      BY <1>3, <1>5, <2>1 DEF Core, Dead
  <1>9. CASE Lost(k, d)
    <2>1. Stands(k, d)
      BY <1>9 DEF Lost
    <2>2. NoDetour(d)
      BY <2>1 DEF NoDetour, Stands, Header
    <2>3. Answering(d) /\ d.reset # "no"
      BY <1>1, <1>6, <1>9, <2>1, <2>2 DEF Answering, Kept, Stands, Lost
    <2> QED
      BY <1>3, <1>5, <2>3 DEF Core
  <1> QED
    BY <1>7, <1>8, <1>9 DEF Ended

LEMMA EndedEnds ==
  ASSUME NEW k, AtTheEnd(k), NEW d, Ended(k, d)
  PROVE  Whole(d) /\ (Routed(k) => Routed(d)) /\ d.state \in {k.state, "s_start_req"}
  BY DEF Ended, Queued, WrittenNow, Lost, Stands, Whole, AtTheEnd, Kept, Routed, Unrouted

\* A handler of a route runs: the log has one entry more, unless the rule is a redirection.
Ran(k, m) ==
  /\ \/ m = k
     \/ \E l, e : /\ e.close = k.close_connection /\ l = Append(k.log, e)
                 /\ m = [k EXCEPT !.log = l]

LEMMA RunRuleRuns ==
  ASSUME NEW k, HasFields(k), k.rule \in Resource, ~k.res.completed, k.onComplete,
         NEW d, d = RunRule(k)
  PROVE  \E m, n : Ran(k, m) /\ HasFields(m) /\ Alike(m, n) /\ Ended(n, d)
  <1>1. PICK ran : ran = [k EXCEPT !.log = Append(@, [asks |-> <<k.req.method, k.req.url, k.req.body>>,
                                          close |-> k.close_connection])]
    OBVIOUS
  <1>2. k.rule.kind \in {"page", "file", "missing", "throws", "slash"}
    BY DEF Resource
  <1>3. Ran(k, ran) /\ Ran(k, k)
    <2>1. PICK e : e = [asks |-> <<k.req.method, k.req.url, k.req.body>>, close |-> k.close_connection]
      OBVIOUS
    <2>2. PICK l : l = Append(k.log, e)
      OBVIOUS
    <2>3. e.close = k.close_connection
      BY <2>1
    <2>4. ran = [k EXCEPT !.log = l]
      BY <1>1, <2>1, <2>2
    <2> QED
      BY <2>2, <2>3, <2>4 DEF Ran
  <1>4. HasFields(ran) /\ ~ran.res.completed /\ ran.onComplete /\ ran.res = k.res
    BY <1>1 DEF HasFields, Fields
  <1>5. ASSUME NEW m, Ran(k, m), HasFields(m), ~m.res.completed, m.onComplete,
               NEW r, Heir(m.res, r), ~r.completed, d = End([m EXCEPT !.res = r])
        PROVE  \E a, n : Ran(k, a) /\ HasFields(a) /\ Alike(a, n) /\ Ended(n, d)
    <2>1. PICK n : n = [m EXCEPT !.res = r]
      OBVIOUS
    <2>2. Alike(m, n) /\ HasFields(n)
      BY <1>5, <2>1, NewResponseIsAlike DEF Alike
    <2>3. n.res = r /\ n.onComplete
      BY <1>5, <2>1 DEF HasFields, Fields
    <2>4. d = End(n)
      BY <1>5, <2>1
    <2>5. EndOf(n, d)
      BY <1>5, <2>2, <2>3, <2>4, EndEnds
    <2>6. Ended(n, d)
      BY <2>3, <2>5 DEF EndOf, Ended
    <2> QED
      BY <1>5, <2>2, <2>6
  <1>6. CASE k.rule.kind = "page"
    <2>1. d = End([ran EXCEPT !.res.body = @ + k.rule.size])
      BY <1>1, <1>6 DEF RunRule
    <2>2. PICK r : r = [ran.res EXCEPT !.body = @ + k.rule.size]
      OBVIOUS
    <2>3. Heir(ran.res, r) /\ ~r.completed
      BY <1>4, <2>2, SameHeir DEF HasFields, ResFields
    <2>4. d = End([ran EXCEPT !.res = r])
      BY <2>1, <2>2
    <2> QED
      BY <1>3, <1>4, <1>5, <2>3, <2>4
  <1>7. CASE k.rule.kind = "file"
    <2>1. PICK n : n = [ran EXCEPT !.res.file = k.rule.size, !.res.length = k.rule.size]
      OBVIOUS
    <2>2. d = End(n)
      BY <1>1, <1>7, <2>1 DEF RunRule
    <2>3. PICK z : z = [[ran.res EXCEPT !.file = k.rule.size] EXCEPT !.length = k.rule.size]
      OBVIOUS
    <2>4. n = [ran EXCEPT !.res = z]
      BY <1>4, <2>1, <2>3 DEF HasFields, Fields
    <2>5. k.rule.size \in Nat /\ k.rule.size # 0
      BY <1>7 DEF Resource
    <2>6. Heir(ran.res, z) /\ ~z.completed
      BY <1>4, <2>3, <2>5 DEF HasFields, ResFields, Heir, Says
    <2>7. d = End([ran EXCEPT !.res = z])
      BY <2>2, <2>4
    <2> QED
      BY <1>3, <1>4, <1>5, <2>6, <2>7
  <1>8. CASE k.rule.kind = "missing"
    <2>1. d = End([ran EXCEPT !.res.code = 404])
      BY <1>1, <1>8 DEF RunRule
    <2>2. PICK r : r = [ran.res EXCEPT !.code = 404]
      OBVIOUS
    <2>3. Heir(ran.res, r) /\ ~r.completed
      BY <1>4, <2>2, SameHeir DEF HasFields, ResFields
    <2>4. d = End([ran EXCEPT !.res = r])
      BY <2>1, <2>2
    <2> QED
      BY <1>3, <1>4, <1>5, <2>3, <2>4
  <1>9. CASE k.rule.kind = "throws"
    <2>1. d = End([ran EXCEPT !.res = Assign(@, 500)])
      BY <1>1, <1>9 DEF RunRule
    <2>2. PICK r : r = Assign(ran.res, 500)
      OBVIOUS
    <2>3. Heir(ran.res, r) /\ ~r.completed
      BY <1>4, <2>2, AssignIs DEF HasFields
    <2>4. d = End([ran EXCEPT !.res = r])
      BY <2>1, <2>2
    <2> QED
      BY <1>3, <1>4, <1>5, <2>3, <2>4
  <1>10. CASE k.rule.kind = "slash"
    <2>1. d = End([k EXCEPT !.res = Assign(@, 301)])
      BY <1>10 DEF RunRule
    <2>2. PICK r : r = Assign(k.res, 301)
      OBVIOUS
    <2>3. Heir(k.res, r) /\ ~r.completed
      BY <2>2, AssignIs DEF HasFields
    <2>4. d = End([k EXCEPT !.res = r])
      BY <2>1, <2>2
    <2> QED
      BY <1>3, <1>5, <2>3, <2>4
  <1> QED
    BY <1>2, <1>6, <1>7, <1>8, <1>9, <1>10

\* What is left to show of a connection that k0 has become.
Good(k0, d) == /\ Core(d) /\ Whole(d) /\ Routed(d)
               /\ d.errno = k0.errno /\ d.mark = k0.mark /\ d.halt \in {TRUE, k0.halt}
               /\ d.state \in {k0.state, "s_start_req"}

LEMMA GoodOn ==
  ASSUME NEW k0, NEW m, Good(k0, m), LastCloses(m) => Dead(m), NEW d, Settled(m, d)
  PROVE  Good(k0, d) /\ (LastCloses(d) => Dead(d))
  <1>1. Core(m) /\ Whole(m) /\ Routed(m)
    BY DEF Good
  <1>2. /\ Core(d) /\ (LastCloses(d) => Dead(d)) /\ Whole(d) /\ Routed(d)
        /\ d.state \in {m.state, "s_start_req"}
    BY <1>1, SettledKeeps
  <1> QED
    BY <1>2 DEF Good, Settled, Kept

\* A handler has run and answered.
LEMMA RunKeeps ==
  ASSUME NEW k, Core(k), ~LastCloses(k), ~Dead(k), k.message_complete, AtTheEnd(k),
         k.rule \in Resource, k.close_connection = k.req.close_connection, NoDetour(k),
         NEW m, Ran(k, m), HasFields(m), NEW n, Alike(m, n), NEW d, Ended(n, d)
  PROVE  Good(k, d)
  <1>0. HasFields(k) /\ Struct(k) /\ Types(k) /\ OnlyLast(k) /\ (AllLeave(k) \/ ~k.open \/ k.reset # "no")
    BY DEF Core
  <1>1. PICK l : /\ (m = k /\ l = k.log) \/ m = [k EXCEPT !.log = l]
                 /\ \/ l = k.log
                    \/ \E e : e.close = k.close_connection /\ l = Append(k.log, e)
    BY DEF Ran
  <1>2. /\ (\E R : l \in Seq(R))
        /\ \A i \in DOMAIN l : l[i].close => i = Len(l) /\ k.close_connection
    <2>1. PICK S : k.log \in Seq(S)
      BY <1>0 DEF Types
    <2>2. Len(k.log) \in Nat /\ DOMAIN k.log = 1..Len(k.log) /\ (k.log # <<>> <=> Len(k.log) > 0)
      BY <2>1
    <2>3. ASSUME NEW i \in DOMAIN k.log PROVE ~k.log[i].close
      BY <1>0, <2>2, <2>3 DEF OnlyLast, LastCloses
    <2>4. CASE l = k.log
      BY <2>1, <2>3, <2>4
    <2>5. CASE l # k.log
      <3>1. PICK e : e.close = k.close_connection /\ l = Append(k.log, e)
        BY <1>1, <2>5
      <3>2. /\ (\E R : l \in Seq(R)) /\ Len(l) = Len(k.log) + 1 /\ DOMAIN l = 1..Len(l)
            /\ l[Len(l)] = e /\ \A i \in 1..Len(k.log) : l[i] = k.log[i]
        <4>1. PICK s : s = k.log
          OBVIOUS
        <4>2. s \in Seq(S) /\ l = Append(s, e)
          BY <2>1, <3>1, <4>1
        <4>3. /\ (\E R : l \in Seq(R)) /\ Len(l) = Len(s) + 1 /\ DOMAIN l = 1..Len(l)
              /\ l[Len(l)] = e /\ \A i \in 1..Len(s) : l[i] = s[i]
          BY <4>2, Appended
        <4> QED
          BY <4>1, <4>3
      <3>3. ASSUME NEW i \in DOMAIN l, l[i].close PROVE i = Len(l) /\ k.close_connection
        <4>1. CASE i \in 1..Len(k.log)
          BY <2>2, <2>3, <3>2, <3>3, <4>1
        <4>2. CASE i \notin 1..Len(k.log)
          <5>1. i = Len(l)
            BY <2>2, <3>2, <4>2
          <5> QED
            BY <3>1, <3>2, <3>3, <5>1
        <4> QED
          BY <4>1, <4>2
      <3> QED
        BY <3>2, <3>3
    <2> QED
      BY <2>4, <2>5
  <1>3. /\ m.log = l /\ DOMAIN m = DOMAIN k
        /\ m.state = k.state /\ m.header_state = k.header_state /\ m.errno = k.errno
        /\ m.content_length = k.content_length /\ m.flags = k.flags /\ m.te = k.te
        /\ m.upgrade = k.upgrade /\ m.mark = k.mark /\ m.halt = k.halt
        /\ m.message_complete = k.message_complete /\ m.req = k.req /\ m.rule = k.rule
        /\ m.close_connection = k.close_connection /\ m.open = k.open /\ m.reading = k.reading
        /\ m.writes = k.writes /\ m.deadline = k.deadline /\ m.threw = k.threw /\ m.reset = k.reset
        /\ m.out = k.out /\ m.res = k.res
    BY <1>0, <1>1 DEF HasFields, Fields
  <1>4. Struct(m) /\ AtTheEnd(m) /\ Routed(m)
    BY <1>0, <1>3 DEF Struct, AtTheEnd, Routed
  <1>5. Types(m) /\ OnlyLast(m)
    BY <1>0, <1>2, <1>3 DEF Types, OnlyLast
  <1>6. (AllLeave(m) \/ ~m.open \/ m.reset # "no") /\ ~Dead(m)
    BY <1>0, <1>3 DEF AllLeave, Dead
  <1>7. NoDetour(m)
    BY <1>3 DEF NoDetour, Header
  <1>8. Kept(m, n) /\ Stands(m, n) /\ n.writes = m.writes /\ HasFields(n)
    BY DEF Alike
  <1>9. Struct(n) /\ AtTheEnd(n) /\ Routed(n) /\ OnlyLast(n)
    BY <1>4, <1>5, <1>8 DEF Struct, AtTheEnd, Routed, OnlyLast, Kept, Stands
  <1>10. Types(n)
    BY <1>5, <1>8 DEF Types, Kept, Stands
  <1>11. (AllLeave(n) \/ ~n.open \/ n.reset # "no") /\ ~Dead(n)
    BY <1>6, <1>8 DEF AllLeave, Dead, Kept, Stands
  <1>12. NoDetour(n) /\ n.message_complete
    BY <1>3, <1>7, <1>8 DEF NoDetour, Header, Stands
  <1>13. Whole(d) /\ Routed(d) /\ d.state \in {n.state, "s_start_req"}
    BY <1>9, EndedEnds
  <1>14. Core(d)
    <2>1. CASE k.close_connection
      <3>1. n.close_connection /\ n.req.close_connection
        BY <1>3, <1>8, <2>1 DEF Kept, Stands
      <3> QED
        BY <1>8, <1>9, <1>10, <1>11, <1>12, <3>1, LastAnswer
    <2>2. CASE ~k.close_connection
      <3>1. ~LastCloses(n)
        <4>1. n.log = l
          BY <1>3, <1>8 DEF Kept
        <4>2. PICK R : l \in Seq(R)
          BY <1>2
        <4>3. l # <<>> => Len(l) \in DOMAIN l
          BY <4>2
        <4> QED
          BY <1>2, <2>2, <4>1, <4>3 DEF LastCloses
      <3>2. Core(n)
        BY <1>8, <1>9, <1>10, <1>11, <3>1 DEF Core
      <3> QED
        BY <3>1, <3>2, EndedIsSettled, SettledKeeps
    <2> QED
      BY <2>1, <2>2
  <1>15. d.errno = n.errno /\ d.mark = n.mark /\ d.halt = n.halt
    BY DEF Ended, Kept
  <1> QED
    BY <1>3, <1>8, <1>13, <1>14, <1>15 DEF Good, Kept, Stands

LEMMA AlikeKeeps ==
  ASSUME NEW k0, NEW m, Good(k0, m), NEW d, Alike(m, d)
  PROVE  Good(k0, d)
  <1>1. Core(m) /\ Whole(m) /\ Routed(m) /\ Kept(m, d) /\ Stands(m, d) /\ HasFields(d)
    BY DEF Good, Alike
  <1>2. Whole(d) /\ Routed(d) /\ Struct(d) /\ Types(d) /\ OnlyLast(d) /\ (LastCloses(d) <=> LastCloses(m))
    BY <1>1 DEF Whole, AtTheEnd, Routed, Struct, Types, OnlyLast, LastCloses, Core, Kept, Stands, Alike
  <1>3. AllLeave(d) \/ ~d.open \/ d.reset # "no"
    BY <1>1 DEF Core, AllLeave, Kept, Stands, Alike
  <1>4. (Dead(m) => Dead(d)) /\ (Answering(m) => Answering(d))
    BY <1>1 DEF Dead, Answering, NoDetour, Header, HeadLeaves, Kept, Stands, Alike
  <1>5. Core(d)
    BY <1>1, <1>2, <1>3, <1>4 DEF Core
  <1> QED
    BY <1>1, <1>2, <1>5 DEF Good, Kept, Stands

LEMMA HandleKeeps ==
  ASSUME NEW k0, Core(k0), k0.message_complete, AtTheEnd(k0), k0.rule \in Resource,
         NEW d, d = Handle(k0)
  PROVE  Good(k0, d)
  <1>0. HasFields(k0) /\ Types(k0) /\ Struct(k0)
    BY DEF Core
  <1>1. PICK k : k = [k0 EXCEPT !.deadline = FALSE, !.add_keep_alive = k0.req.keep_alive,
                                !.close_connection = k0.req.close_connection]
    OBVIOUS
  <1>2. /\ HasFields(k) /\ k.close_connection = k0.req.close_connection /\ k.deadline = FALSE
        /\ k.state = k0.state /\ k.header_state = k0.header_state /\ k.errno = k0.errno
        /\ k.content_length = k0.content_length /\ k.flags = k0.flags /\ k.te = k0.te
        /\ k.upgrade = k0.upgrade /\ k.mark = k0.mark /\ k.halt = k0.halt
        /\ k.message_complete = k0.message_complete /\ k.req = k0.req /\ k.res = k0.res
        /\ k.rule = k0.rule /\ k.open = k0.open /\ k.reading = k0.reading /\ k.writes = k0.writes
        /\ k.threw = k0.threw /\ k.reset = k0.reset /\ k.log = k0.log /\ k.out = k0.out
        /\ k.onComplete = k0.onComplete
    BY <1>0, <1>1 DEF HasFields, Fields
  <1>3. AtTheEnd(k) /\ k.rule \in Resource /\ Whole(k) /\ Routed(k)
    BY <1>2 DEF AtTheEnd, Whole, Routed
  <1>4. Struct(k) /\ Types(k)
    BY <1>0, <1>2 DEF Struct, Types
  <1>5. /\ OnlyLast(k) /\ (AllLeave(k) \/ ~k.open \/ k.reset # "no")
        /\ (LastCloses(k) <=> LastCloses(k0)) /\ (Dead(k) <=> Dead(k0))
        /\ (NoDetour(k) <=> NoDetour(k0)) /\ (HeadLeaves(k) <=> HeadLeaves(k0))
    BY <1>2 DEF OnlyLast, AllLeave, LastCloses, Dead, NoDetour, Header, HeadLeaves, Core
  <1>6. LastCloses(k) => Dead(k) \/ Answering(k)
    BY <1>2, <1>5 DEF Core, Answering
  <1>7. Core(k)
    BY <1>2, <1>4, <1>5, <1>6 DEF Core
  <1>8. Good(k0, k)
    BY <1>2, <1>3, <1>7 DEF Good
  <1>9. CASE ~k0.open \/ k0.reset = "yes"
    <2>1. d = [k0 EXCEPT !.deadline = FALSE, !.threw = TRUE, !.halt = TRUE]
      BY <1>9 DEF Handle
    <2>2. /\ HasFields(d) /\ d.close_connection = k0.close_connection /\ d.deadline = FALSE
          /\ d.state = k0.state /\ d.header_state = k0.header_state /\ d.errno = k0.errno
          /\ d.content_length = k0.content_length /\ d.flags = k0.flags /\ d.te = k0.te
          /\ d.upgrade = k0.upgrade /\ d.mark = k0.mark /\ d.halt = TRUE
          /\ d.message_complete = k0.message_complete
          /\ d.rule = k0.rule /\ d.open = k0.open /\ d.reading = k0.reading /\ d.writes = k0.writes
          /\ d.threw = TRUE /\ d.reset = k0.reset /\ d.log = k0.log /\ d.out = k0.out
          /\ d.res = k0.res
      BY <1>0, <2>1 DEF HasFields, Fields
    <2>3. Whole(d) /\ Routed(d)
      BY <2>2 DEF AtTheEnd, Whole, Routed
    <2>4. Struct(d) /\ Types(d)
      BY <1>0, <2>2 DEF Struct, Types
    <2>5. /\ OnlyLast(d) /\ (AllLeave(d) \/ ~d.open \/ d.reset # "no") /\ Dead(d)
      BY <1>9, <2>2 DEF OnlyLast, AllLeave, Dead, Core
    <2>6. Core(d)
      BY <2>2, <2>4, <2>5 DEF Core
    <2> QED
      BY <2>2, <2>3, <2>6 DEF Good
  <1>10. ASSUME k0.open, k0.reset # "yes"
         PROVE  ~Dead(k) /\ (LastCloses(k) => Answering(k))
    BY <1>5, <1>6, <1>10 DEF Dead
  <1>11. CASE /\ k0.open /\ k0.reset # "yes"
              /\ k.req.ver = <<1, 1>> /\ Header(k, "host") = {}
    <2>1. PICK m : m = [k EXCEPT !.needAfter = FALSE, !.res = Assign(@, 400)]
      OBVIOUS
    <2>2. d = CompleteRequest(m)
      BY <1>1, <1>11, <2>1 DEF Handle
    <2>3. ~LastCloses(k)
      BY <1>10, <1>11 DEF Answering, NoDetour
    <2>0. PICK r : r = Assign(k.res, 400)
      OBVIOUS
    <2>4. Heir(k.res, r) /\ m = [[k EXCEPT !.needAfter = FALSE] EXCEPT !.res = r]
      BY <1>2, <2>0, <2>1, AssignIs DEF HasFields, Fields
    <2>8. ResFields \subseteq DOMAIN r /\ (Told(k.out, k.res) => Told(k.out, r))
      BY <2>4, HeirTold DEF Heir
    <2>5. HasFields(m) /\ Kept(k, m) /\ Stands(k, m) /\ m.writes = k.writes
      BY <1>2, <2>4, <2>8 DEF HasFields, Fields, Kept, Stands
    <2>6. Good(k0, m) /\ (LastCloses(m) => Dead(m))
      BY <1>8, <2>3, <2>5, GoodOn DEF Settled
    <2>7. Settled(m, d)
      BY <2>2, <2>5, CompleteRequestReplies, SettledWays
    <2> QED
      BY <2>6, <2>7, GoodOn
  <1>12. CASE /\ k0.open /\ k0.reset # "yes" /\ ~(k.req.ver = <<1, 1>> /\ Header(k, "host") = {})
              /\ k.req.ver = <<1, 1>> /\ k.req.upgrade /\ <<"h2c">> \notin Header(k, "upgrade")
    <2>1. PICK m : m = [k EXCEPT !.close_connection = TRUE]
      OBVIOUS
    <2>2. d = HandleUpgrade(m)
      BY <1>1, <1>12, <2>1 DEF Handle
    <2>3. ~LastCloses(k)
      BY <1>10, <1>12 DEF Answering, NoDetour
    <2>4. /\ HasFields(m) /\ m.deadline = k.deadline
        /\ m.state = k.state /\ m.header_state = k.header_state /\ m.errno = k.errno
        /\ m.content_length = k.content_length /\ m.flags = k.flags /\ m.te = k.te
        /\ m.upgrade = k.upgrade /\ m.mark = k.mark /\ m.halt = k.halt
        /\ m.message_complete = k.message_complete /\ m.res = k.res
        /\ m.rule = k.rule /\ m.open = k.open /\ m.reading = k.reading /\ m.writes = k.writes
        /\ m.threw = k.threw /\ m.reset = k.reset /\ m.log = k.log /\ m.out = k.out
      BY <1>2, <2>1 DEF HasFields, Fields
    <2>5. Struct(m) /\ Types(m) /\ Whole(m) /\ Routed(m)
      BY <1>3, <1>4, <2>4 DEF Struct, Types, Whole, AtTheEnd, Routed
    <2>6. ~LastCloses(m) /\ OnlyLast(m) /\ (AllLeave(m) \/ ~m.open \/ m.reset # "no")
      BY <1>5, <2>3, <2>4 DEF OnlyLast, AllLeave, LastCloses
    <2>7. Good(k0, m)
      BY <1>2, <2>4, <2>5, <2>6 DEF Good, Core
    <2>8. PICK n : n = [m EXCEPT !.res = Assign(@, 404)]
      OBVIOUS
    <2>9. PICK r : /\ r = Assign(m.res, 404) /\ ~r.completed /\ ResFields \subseteq DOMAIN r
                   /\ Told(m.out, m.res) => Told(m.out, r)
      BY <2>4, AssignIs, HeirTold DEF HasFields, Heir
    <2>10. HasFields(n) /\ Kept(m, n) /\ Stands(m, n) /\ n.writes = m.writes /\ ~n.res.completed
      BY <2>4, <2>8, <2>9 DEF HasFields, Fields, Kept, Stands
    <2>11. d = End(n)
      BY <2>2, <2>8 DEF HandleUpgrade
    <2>12. Settled(n, d)
      BY <2>10, <2>11, EndEnds, SettledWays
    <2>13. Good(k0, n) /\ (LastCloses(n) => Dead(n))
      BY <2>6, <2>7, <2>10, GoodOn DEF Settled
    <2> QED
      BY <2>12, <2>13, GoodOn
  <1>13. CASE /\ k0.open /\ k0.reset # "yes" /\ ~(k.req.ver = <<1, 1>> /\ Header(k, "host") = {})
              /\ ~(k.req.ver = <<1, 1>> /\ k.req.upgrade /\ <<"h2c">> \notin Header(k, "upgrade"))
              /\ k.res.completed
    <2>1. PICK m : m = [k EXCEPT !.onComplete = FALSE, !.needAfter = FALSE]
      OBVIOUS
    <2>2. d = CompleteRequest(m)
      BY <1>1, <1>13, <2>1 DEF Handle
    <2>3. Alike(k, m) /\ HasFields(m)
      BY <1>2, <2>1 DEF Alike, HasFields, Fields, Kept, Stands
    <2>4. Replies(k, d)
      BY <2>2, <2>3, CompleteRequestReplies, RepliesOn
    <2>5. CASE LastCloses(k)
      <3>1. Answering(k) /\ ~Dead(k)
        BY <1>10, <1>13, <2>5
      <3>2. Ended(k, d)
        BY <1>13, <2>4 DEF Replies, Ended, Queued
      <3>3. Core(d)
        BY <1>2, <1>4, <1>5, <3>1, <3>2, LastAnswer DEF Answering
      <3>4. Whole(d) /\ Routed(d) /\ d.state \in {k.state, "s_start_req"}
        BY <1>3, <3>2, EndedEnds
      <3> QED
        BY <1>2, <3>2, <3>3, <3>4 DEF Good, Ended, Kept
    <2>6. CASE ~LastCloses(k)
      BY <1>8, <2>4, <2>6, GoodOn, SettledWays
    <2> QED
      BY <2>5, <2>6
  <1>14. CASE /\ k0.open /\ k0.reset # "yes" /\ ~(k.req.ver = <<1, 1>> /\ Header(k, "host") = {})
              /\ ~(k.req.ver = <<1, 1>> /\ k.req.upgrade /\ <<"h2c">> \notin Header(k, "upgrade"))
              /\ ~k.res.completed
    <2>1. PICK m : m = [k EXCEPT !.onComplete = TRUE, !.needAfter = TRUE]
      OBVIOUS
    <2>2. PICK run : run = RunRule(m)
      OBVIOUS
    <2>3. d = [run EXCEPT !.res.keepAlive = @ \/ run.add_keep_alive]
      BY <1>1, <1>14, <2>1, <2>2 DEF Handle
    <2>4. Alike(k, m) /\ HasFields(m) /\ m.onComplete /\ m.res = k.res
      BY <1>2, <2>1 DEF Alike, HasFields, Fields, Kept, Stands
    <2>5. ~LastCloses(k) /\ ~Dead(k) /\ NoDetour(k)
      BY <1>10, <1>14 DEF Answering, NoDetour
    <2>6. Good(k0, m) /\ (LastCloses(m) <=> LastCloses(k))
      BY <1>8, <2>4, <2>5, GoodOn, SettledWays DEF LastCloses, Alike, Kept
    <2>7. /\ Core(m) /\ ~LastCloses(m) /\ ~Dead(m) /\ m.message_complete /\ AtTheEnd(m)
          /\ m.rule \in Resource /\ m.close_connection = m.req.close_connection /\ NoDetour(m)
      BY <1>2, <1>3, <2>4, <2>5, <2>6 DEF Good, Dead, AtTheEnd, NoDetour, Header, Alike, Kept, Stands
    <2>8. PICK a, n : Ran(m, a) /\ HasFields(a) /\ Alike(a, n) /\ Ended(n, run)
      BY <1>14, <2>2, <2>4, <2>7, RunRuleRuns
    <2>9. Good(m, run)
      BY <2>7, <2>8, RunKeeps
    <2>10. HasFields(run)
      BY <2>9 DEF Good, Core
    <2>11. PICK v : v = (run.res.keepAlive \/ run.add_keep_alive)
      OBVIOUS
    <2>12. PICK r : r = [run.res EXCEPT !.keepAlive = v]
      OBVIOUS
    <2>13. Heir(run.res, r) /\ (r.completed <=> run.res.completed)
      BY <2>10, <2>12, SameHeir DEF HasFields, ResFields
    <2>14. d = [run EXCEPT !.res = r]
      BY <2>3, <2>11, <2>12
    <2>15. Alike(run, d)
      BY <2>10, <2>13, <2>14, NewResponseIsAlike
    <2>16. Good(m, d)
      BY <2>9, <2>15, AlikeKeeps
    <2> QED
      BY <1>2, <2>4, <2>16 DEF Good, Alike, Kept, Stands
  <1> QED
    BY <1>9, <1>11, <1>12, <1>13, <1>14

-----------------------------------------------------------------------------
(* The callbacks                                                           *)

\* A change of fields that no property is about.
Same(k, d) ==
  /\ HasFields(d) /\ d.halt \in BOOLEAN
  /\ d.state = k.state /\ d.header_state = k.header_state /\ d.content_length = k.content_length
  /\ d.flags = k.flags /\ d.te = k.te /\ d.upgrade = k.upgrade
  /\ d.message_complete = k.message_complete /\ d.req = k.req /\ d.res = k.res
  /\ d.rule = k.rule /\ d.close_connection = k.close_connection /\ d.open = k.open
  /\ d.writes = k.writes /\ d.reset = k.reset /\ d.log = k.log /\ d.out = k.out
  /\ d.reading \in BOOLEAN /\ d.deadline \in BOOLEAN /\ d.threw \in BOOLEAN

LEMMA SameKeeps ==
  ASSUME NEW k, Core(k), NEW d, Same(k, d)
  PROVE  /\ Core(d) /\ (Whole(k) => Whole(d)) /\ (Routed(k) => Routed(d))
         /\ (AtTheEnd(k) => AtTheEnd(d)) /\ (LastCloses(d) => LastCloses(k)) /\ (Dead(k) => Dead(d))
  <1>1. /\ HasFields(k) /\ Struct(k) /\ Types(k) /\ OnlyLast(k)
        /\ LastCloses(k) => Dead(k) \/ Answering(k)
        /\ AllLeave(k) \/ ~k.open \/ k.reset # "no"
    BY DEF Core
  <1>2. Struct(d) /\ Types(d)
    BY <1>1 DEF Same, Struct, Types
  <1>3. /\ OnlyLast(d) /\ (LastCloses(d) => LastCloses(k)) /\ (Dead(k) => Dead(d))
        /\ AllLeave(d) \/ ~d.open \/ d.reset # "no"
    BY <1>1 DEF Same, OnlyLast, LastCloses, Dead, AllLeave
  <1>4. Answering(k) => Answering(d)
    BY DEF Same, Answering, NoDetour, Header, HeadLeaves
  <1>5. Core(d)
    BY <1>1, <1>2, <1>3, <1>4 DEF Core, Same
  <1>6. (Whole(k) => Whole(d)) /\ (Routed(k) => Routed(d)) /\ (AtTheEnd(k) => AtTheEnd(d))
    BY DEF Same, Whole, Routed, AtTheEnd
  <1> QED
    BY <1>3, <1>5, <1>6

LEMMA ErrorKeeps ==
  ASSUME NEW k, Core(k), NEW e, e # "OK", NEW d, d = Error(k, e)
  PROVE  Mid(d)
  <1>1. Same(k, d) /\ d.errno # "OK" /\ d.halt = TRUE
    BY DEF Core, Types, Same, Error, HasFields, Fields
  <1> QED
    BY <1>1, SameKeeps DEF Mid

\* What the parser does without calling the connection.
LEMMA QuietKeeps ==
  ASSUME NEW k, Core(k), ~k.message_complete, NEW d, Quiet(k, d), Struct(d)
  PROVE  Core(d) /\ ~d.message_complete
  <1>1. Core(k) /\ (LastCloses(k) => Dead(k))
    BY DEF Core, Answering
  <1>2. HasFields(d) /\ Types(d)
    BY <1>1 DEF Core, Quiet, HasFields, Types
  <1>3. /\ OnlyLast(d) /\ (LastCloses(d) => LastCloses(k)) /\ (Dead(k) => Dead(d))
        /\ AllLeave(d) \/ ~d.open \/ d.reset # "no"
    BY <1>1 DEF Core, Quiet, OnlyLast, LastCloses, Dead, AllLeave
  <1>4. Core(d)
    BY <1>1, <1>2, <1>3 DEF Core
  <1> QED
    BY <1>4 DEF Quiet

LEMMA MovesKeeps ==
  ASSUME NEW k, Mid(k), ~k.halt, ~k.message_complete, NEW d, Moves(k, d)
  PROVE  Mid(d) /\ ~d.message_complete
  <1>1. Core(k) /\ Routed(k)
    BY DEF Mid
  <1>2. Core(d) /\ ~d.message_complete
    BY <1>1, QuietKeeps DEF Moves
  <1>3. d.errno = "OK" => Whole(d) /\ Routed(d)
    BY <1>1, <1>2 DEF Moves, Quiet, Whole, Routed
  <1> QED
    BY <1>2, <1>3 DEF Mid, Moves

LEMMA MidIsReady ==
  ASSUME NEW k, Mid(k), ~k.halt
  PROVE  Ready(k)
  BY DEF Mid, Core, Ready

LEMMA CompleteKeeps ==
  ASSUME NEW k, Core(k), AtTheEnd(k), k.errno = "OK", k.rule \in Resource,
         k.mark = NoMark, NEW d, d = Parser!OnMessageComplete(k)
  PROVE  Mid(d) /\ d.errno = "OK"
  <1>1. PICK m : m = [k EXCEPT !.message_complete = TRUE]
    OBVIOUS
  <1>2. PICK a : a = Handle(m)
    OBVIOUS
  <1>3. d = Parser!HaltOnError(a)
    BY <1>1, <1>2 DEF Parser!OnMessageComplete
  <1>4. /\ HasFields(m) /\ m.message_complete
        /\ m.state = k.state /\ m.header_state = k.header_state /\ m.content_length = k.content_length
        /\ m.flags = k.flags /\ m.te = k.te /\ m.upgrade = k.upgrade /\ m.errno = k.errno
        /\ m.req = k.req /\ m.res = k.res /\ m.mark = k.mark /\ m.halt = k.halt
        /\ m.rule = k.rule /\ m.close_connection = k.close_connection /\ m.open = k.open
        /\ m.writes = k.writes /\ m.reset = k.reset /\ m.log = k.log /\ m.out = k.out
        /\ m.reading = k.reading /\ m.deadline = k.deadline /\ m.threw = k.threw
    BY <1>1 DEF Core, HasFields, Fields
  <1>5. Struct(m) /\ Types(m) /\ AtTheEnd(m)
    BY <1>4 DEF Core, Struct, Types, AtTheEnd
  <1>6. /\ OnlyLast(m) /\ (LastCloses(m) => LastCloses(k)) /\ (Dead(k) => Dead(m))
        /\ AllLeave(m) \/ ~m.open \/ m.reset # "no"
    BY <1>4 DEF Core, OnlyLast, LastCloses, Dead, AllLeave
  <1>7. Answering(k) => Answering(m)
    BY <1>4 DEF Answering, NoDetour, Header, HeadLeaves
  <1>8. Core(m)
    BY <1>4, <1>5, <1>6, <1>7 DEF Core
  <1>9. Good(m, a)
    BY <1>2, <1>4, <1>5, <1>8, HandleKeeps
  <1>10. /\ Core(a) /\ Whole(a) /\ Routed(a) /\ a.errno = "OK" /\ a.mark = NoMark
         /\ a.state \in {k.state, "s_start_req"} /\ a.halt \in BOOLEAN
    BY <1>4, <1>5, <1>9 DEF Good, Struct
  <1>11. Same(a, d) /\ d.errno = "OK" /\ d.mark = NoMark
    BY <1>3, <1>10 DEF Core, Types, Same, Parser!HaltOnError, HasFields, Fields
  <1>12. NoMark \in Marked(d.state)
    BY <1>10, <1>11 DEF Same, Marked, AtTheEnd, UrlStates
  <1> QED
    BY <1>10, <1>11, <1>12, SameKeeps DEF Mid, Fits

\* The connection while a URL is being routed.
Routing(k, d) ==
  /\ Core(d) /\ ~d.message_complete
  /\ d.halt = k.halt /\ d.mark = k.mark /\ d.state \in {k.state, "s_start_req"}

LEMMA RoutingOn ==
  ASSUME NEW k, NEW m, Routing(k, m), NEW d, Settled(m, d)
  PROVE  Routing(k, d) /\ d.errno = m.errno /\ d.rule = m.rule
  <1>1. Core(m) /\ (LastCloses(m) => Dead(m))
    BY DEF Routing, Core, Answering
  <1>2. Core(d) /\ d.state \in {m.state, "s_start_req"}
    BY <1>1, SettledKeeps
  <1>3. ~d.message_complete
    BY DEF Routing, Settled, Queued, WrittenNow, Stands
  <1> QED
    BY <1>2, <1>3 DEF Routing, Settled, Kept

LEMMA RuleRouting ==
  ASSUME NEW k, Core(k), ~k.message_complete, NEW r \in Resource \cup {NoRule},
         NEW d, d = [k EXCEPT !.rule = r]
  PROVE  Routing(k, d) /\ d.errno = k.errno /\ d.rule = r /\ d.res = k.res
  <1>1. HasFields(k) /\ Types(k) /\ Struct(k) /\ OnlyLast(k) /\ (LastCloses(k) => Dead(k))
    BY DEF Core, Answering
  <1>2. /\ HasFields(d) /\ d.halt = k.halt /\ d.mark = k.mark /\ d.errno = k.errno
        /\ d.state = k.state /\ d.header_state = k.header_state /\ d.content_length = k.content_length
        /\ d.flags = k.flags /\ d.message_complete = k.message_complete /\ d.res = k.res
        /\ d.rule = r /\ d.open = k.open
        /\ d.writes = k.writes /\ d.reset = k.reset /\ d.log = k.log /\ d.out = k.out
        /\ d.reading = k.reading /\ d.deadline = k.deadline /\ d.threw = k.threw
    BY <1>1 DEF HasFields, Fields
  <1>3. Struct(d) /\ Types(d)
    BY <1>1, <1>2 DEF Struct, Types
  <1>4. /\ OnlyLast(d) /\ (LastCloses(d) => Dead(d))
        /\ AllLeave(d) \/ ~d.open \/ d.reset # "no"
    BY <1>1, <1>2 DEF Core, OnlyLast, LastCloses, Dead, AllLeave
  <1> QED
    BY <1>2, <1>3, <1>4 DEF Core, Routing

\* The router's answer to a URL that no rule is found for.
LEMMA RefusalRouting ==
  ASSUME NEW k, Core(k), ~k.message_complete,
         NEW r, Heir(k.res, r),
         NEW d, d = End([k EXCEPT !.rule = NoRule, !.res = r])
  PROVE  Routing(k, d) /\ d.errno = k.errno /\ d.rule = NoRule
  <1>1. PICK a : a = [k EXCEPT !.rule = NoRule]
    OBVIOUS
  <1>2. PICK n : n = [a EXCEPT !.res = r]
    OBVIOUS
  <1>3. Routing(k, a) /\ a.errno = k.errno /\ a.rule = NoRule /\ a.res = k.res
    BY <1>1, RuleRouting
  <1>4. HasFields(a) /\ ResFields \subseteq DOMAIN r /\ (Told(a.out, a.res) => Told(a.out, r))
    BY <1>3, HeirTold DEF Routing, Core, Heir
  <1>5. HasFields(n) /\ Kept(a, n) /\ Stands(a, n) /\ n.writes = a.writes
    BY <1>2, <1>4 DEF HasFields, Fields, Kept, Stands
  <1>6. Routing(k, n) /\ n.errno = k.errno /\ n.rule = NoRule
    BY <1>3, <1>5, RoutingOn DEF Settled
  <1>7. d = End(n)
    BY <1>1, <1>2
  <1>8. Settled(n, d)
    BY <1>5, <1>7, EndEnds, SettledWays
  <1> QED
    BY <1>6, <1>8, RoutingOn

LEMMA HandleInitialRouting ==
  ASSUME NEW k, Core(k), ~k.message_complete, NEW d, d = HandleInitial(k)
  PROVE  Routing(k, d) /\ d.errno = k.errno /\ d.rule \in Resource \cup {NoRule}
  <1>0. HasFields(k)
    BY DEF Core
  <1>1. ASSUME NEW m, NEW url, Has(m, url)
        PROVE  Site[<<m, url>>] \in Resource
    BY <1>1, SiteAssumption DEF Has
  <1>2. ASSUME NEW code, d = Answer(k, code)
        PROVE  Routing(k, d) /\ d.errno = k.errno /\ d.rule = NoRule
    <2>1. PICK r : r = Assign(k.res, code)
      OBVIOUS
    <2>2. Heir(k.res, r)
      BY <1>0, <2>1, AssignIs DEF HasFields
    <2>3. d = End([k EXCEPT !.rule = NoRule, !.res = r])
      BY <1>0, <1>2, <2>1 DEF Answer, HasFields, Fields
    <2> QED
      BY <2>2, <2>3, RefusalRouting
  <1>3. CASE k.req.method = "HEAD" /\ Has("GET", k.req.url)
    <2>1. PICK x : x = Site[<<"GET", k.req.url>>]
      OBVIOUS
    <2>2. d = [k EXCEPT !.res.skip_body = TRUE, !.rule = x]
      BY <1>3, <2>1 DEF HandleInitial
    <2>3. PICK r : r = [k.res EXCEPT !.skip_body = TRUE]
      OBVIOUS
    <2>4. PICK a : a = [k EXCEPT !.res = r]
      OBVIOUS
    <2>5. Heir(k.res, r) /\ (r.completed <=> k.res.completed)
      BY <1>0, <2>3 DEF HasFields, ResFields, Heir
    <2>6. Alike(k, a)
      BY <1>0, <2>4, <2>5, NewResponseIsAlike
    <2>7. Routing(k, k)
      BY <1>0 DEF Routing
    <2>8. Routing(k, a) /\ a.errno = k.errno
      BY <2>6, <2>7, RoutingOn, SettledWays
    <2>9. d = [a EXCEPT !.rule = x] /\ x \in Resource
      BY <1>1, <1>3, <2>1, <2>2, <2>3, <2>4
    <2>10. Routing(a, d) /\ d.errno = a.errno /\ d.rule = x
      BY <2>8, <2>9, RuleRouting DEF Routing
    <2> QED
      BY <2>8, <2>9, <2>10 DEF Routing
  <1>4. CASE k.req.method = "HEAD" /\ ~Has("GET", k.req.url)
    <2>1. d = Answer(k, 404)
      BY <1>4 DEF HandleInitial
    <2> QED
      BY <1>2, <2>1
  <1>5. CASE k.req.method = "OPTIONS"
    <2>1. d = Answer(k, IF Known(k.req.url) THEN 204 ELSE 404)
      BY <1>5 DEF HandleInitial
    <2> QED
      BY <1>2, <2>1
  <1>6. CASE k.req.method \notin {"HEAD", "OPTIONS"} /\ Has(k.req.method, k.req.url)
    <2>1. PICK x : x = Site[<<k.req.method, k.req.url>>]
      OBVIOUS
    <2>2. d = [k EXCEPT !.rule = x] /\ x \in Resource
      BY <1>1, <1>6, <2>1 DEF HandleInitial
    <2> QED
      BY <2>2, RuleRouting
  <1>7. CASE k.req.method \notin {"HEAD", "OPTIONS"} /\ ~Has(k.req.method, k.req.url)
    <2>1. PICK code : code = IF Known(k.req.url) THEN 405 ELSE 404
      OBVIOUS
    <2>2. d = End([k EXCEPT !.rule = NoRule, !.res.code = code])
      BY <1>7, <2>1 DEF HandleInitial
    <2>3. PICK r : r = [k.res EXCEPT !.code = code]
      OBVIOUS
    <2>4. Heir(k.res, r)
      BY <1>0, <2>3, SameHeir DEF HasFields, ResFields
    <2>5. d = End([k EXCEPT !.rule = NoRule, !.res = r])
      BY <1>0, <2>2, <2>3 DEF HasFields, Fields
    <2>6. Routing(k, d) /\ d.errno = k.errno /\ d.rule = NoRule
      BY <2>4, <2>5, RefusalRouting
    <2> QED
      BY <2>6
  <1> QED
    BY <1>3, <1>4, <1>5, <1>6, <1>7

\* A URL that is routed has a rule, or the parser stops: an answer is under way.
LEMMA HandleUrlRouting ==
  ASSUME NEW k, Core(k), ~k.message_complete, k.errno = "OK",
         k.state \notin {"s_dead", "s_start_req"}, NEW d, d = HandleUrl(k)
  PROVE  /\ Routing(k, d)
         /\ d.errno = "OK" => d.rule \in Resource \/ d.state = "s_start_req"
  <1>1. PICK routed : routed = HandleInitial(k)
    OBVIOUS
  <1>2. Routing(k, routed) /\ routed.errno = "OK" /\ routed.rule \in Resource \cup {NoRule}
    BY <1>1, HandleInitialRouting
  <1>3. CASE routed.rule # NoRule
    <2>1. d = routed
      BY <1>1, <1>3 DEF HandleUrl
    <2> QED
      BY <1>2, <1>3, <2>1
  <1>4. CASE routed.rule = NoRule
    <2>1. PICK e : e = Done(routed)
      OBVIOUS
    <2>2. d = CompleteRequest(e)
      BY <1>1, <1>4, <2>1 DEF HandleUrl
    <2>3. CASE routed.state \in {"s_dead", "s_start_req"}
      <3>1. e = routed /\ routed.state = "s_start_req"
        BY <1>2, <2>1, <2>3 DEF Done, Routing
      <3>2. HasFields(routed)
        BY <1>2 DEF Routing, Core
      <3>3. Settled(routed, d)
        BY <2>2, <3>1, <3>2, CompleteRequestReplies, SettledWays
      <3>4. Routing(k, d) /\ d.state \in {routed.state, "s_start_req"}
        BY <1>2, <3>3, RoutingOn DEF Settled, Queued, WrittenNow, Stands
      <3> QED
        BY <3>1, <3>4
    <2>4. CASE routed.state \notin {"s_dead", "s_start_req"}
      <3>1. e = [routed EXCEPT !.errno = "INVALID_EOF_STATE"]
        BY <1>2, <2>1, <2>4 DEF Done, Routing
      <3>2. Same(routed, e) /\ e.errno # "OK" /\ e.halt = routed.halt /\ e.mark = routed.mark
        BY <1>2, <3>1 DEF Routing, Core, Struct, Types, Same, HasFields, Fields
      <3>3. Routing(k, e)
        BY <1>2, <3>2, SameKeeps DEF Routing, Same
      <3>4. Settled(e, d)
        BY <2>2, <3>2, CompleteRequestReplies, SettledWays DEF Same
      <3> QED
        BY <3>2, <3>3, <3>4, RoutingOn
    <2> QED
      BY <2>3, <2>4
  <1> QED
    BY <1>3, <1>4

\* A URL, or the part of it that the read brought, is routed.
LEMMA UrlDelivered ==
  ASSUME NEW k, Core(k), ~k.message_complete, k.errno = "OK", ~k.halt, k.mark = "url",
         k.state \notin {"s_dead", "s_start_req"}, NEW d, d = Parser!Deliver(k)
  PROVE  /\ Core(d) /\ ~d.message_complete /\ (d.errno = "OK" => Routed(d))
         /\ (~d.halt => d.errno = "OK") /\ d.mark = NoMark
         /\ d.state \in {k.state, "s_start_req"}
  <1>0. HasFields(k) /\ Struct(k)
    BY DEF Core
  <1>1. PICK raw, url : Parser!OnUrl(k) = HandleUrl([k EXCEPT !.req.raw_url = raw, !.req.url = url])
    BY DEF Parser!OnUrl
  <1>2. PICK m : m = [k EXCEPT !.req.raw_url = raw, !.req.url = url]
    OBVIOUS
  <1>3. PICK called : called = HandleUrl(m)
    OBVIOUS
  <1>4. d = Parser!HaltOnError([called EXCEPT !.mark = NoMark, !.piece = <<>>])
    BY <1>1, <1>2, <1>3, SameNames DEF Parser!Deliver, NoMark
  <1>5. /\ Quiet(k, m) /\ Struct(m) /\ m.errno = k.errno /\ m.halt = k.halt /\ m.state = k.state
    <2>1. PICK q : q = [k.req EXCEPT !.raw_url = raw]
      OBVIOUS
    <2>2. PICK a : a = [k EXCEPT !.req = q]
      OBVIOUS
    <2>3. PICK r : r = [q EXCEPT !.url = url]
      OBVIOUS
    <2>4. ReqFields \subseteq DOMAIN q /\ ReqFields \subseteq DOMAIN r
      BY <1>0, <2>1, <2>3 DEF HasFields
    <2>5. /\ Quiet(k, a) /\ Struct(a) /\ a.errno = k.errno /\ a.halt = k.halt /\ a.state = k.state
          /\ HasFields(a) /\ a.req = q
      BY <1>0, <2>2, <2>4 DEF Quiet, Struct, HasFields, Fields
    <2>6. m = [a EXCEPT !.req = [a.req EXCEPT !.url = url]]
      BY <1>2, <2>1, <2>2
    <2>7. m = [a EXCEPT !.req = r]
      BY <2>3, <2>5, <2>6
    <2>8. /\ Quiet(a, m) /\ Struct(m) /\ m.errno = a.errno /\ m.halt = a.halt /\ m.state = a.state
      BY <2>4, <2>5, <2>7 DEF Quiet, Struct, HasFields, Fields
    <2> QED
      BY <2>5, <2>8 DEF Quiet
  <1>6. Core(m) /\ ~m.message_complete
    BY <1>5, QuietKeeps
  <1>7. /\ Routing(m, called)
        /\ called.errno = "OK" => called.rule \in Resource \/ called.state = "s_start_req"
    BY <1>3, <1>5, <1>6, HandleUrlRouting
  <1>8. Core(called) /\ ~called.message_complete /\ called.halt = FALSE
        /\ called.state \in {k.state, "s_start_req"}
    BY <1>0, <1>5, <1>7 DEF Routing, Struct
  <1>9. /\ Same(called, d) /\ d.errno = called.errno /\ d.halt = (called.errno # "OK")
        /\ d.mark = NoMark
    BY <1>4, <1>8 DEF Core, Types, Same, Parser!HaltOnError, HasFields, Fields
  <1>10. Core(d)
    BY <1>8, <1>9, SameKeeps
  <1>11. called.errno = "OK" => Routed(d)
    BY <1>7, <1>9 DEF Same, Routed, Unrouted
  <1> QED
    BY <1>8, <1>9, <1>10, <1>11 DEF Same

LEMMA UrlKeeps ==
  ASSUME NEW k, Mid(k), ~k.halt, NEW t, k.state \in UrlStates, NEW d, d = Parser!Url(k, t)
  PROVE  Mid(d)
  <1>1. /\ Core(k) /\ Ready(k) /\ k.errno = "OK" /\ HasFields(k) /\ Struct(k)
    BY MidIsReady DEF Mid, Core
  <1>2. ~k.message_complete /\ k.mark = "url"
    BY DEF Mid, Whole, AtTheEnd, Fits, Marked, UrlStates
  <1>3. ASSUME NEW m, Quiet(k, m), Struct(m), m.errno = "OK", ~m.halt, m.mark = "url",
               m.state \notin {"s_dead", "s_start_req"}, NoMark \in Marked(m.state),
               NEW a, a = Parser!Deliver(m)
        PROVE  Mid(a)
    <2>1. Core(m) /\ ~m.message_complete
      BY <1>1, <1>2, <1>3, QuietKeeps
    <2>2. /\ Core(a) /\ ~a.message_complete /\ (a.errno = "OK" => Routed(a))
          /\ (~a.halt => a.errno = "OK") /\ a.mark = NoMark
          /\ a.state \in {m.state, "s_start_req"}
      BY <1>3, <2>1, UrlDelivered
    <2>3. NoMark \in Marked(a.state)
      BY <1>3, <2>2 DEF Marked, UrlStates
    <2> QED
      BY <2>2, <2>3 DEF Mid, Fits, Whole
  <1>4. CASE t \notin {Sp, Cr, Lf}
    <2>1. d = Parser!UrlChar(k, t)
      BY <1>4, SameNames DEF Parser!Url
    <2>2. Moves(k, d)
      BY <1>1, <1>2, <2>1, UrlCharMoves DEF Ready
    <2> QED
      BY <1>2, <2>2, MovesKeeps
  <1>5. ASSUME NEW s, s \in {"s_req_http_start", "s_req_line_almost_done", "s_header_field_start"},
               NEW v, NEW m, m = [k EXCEPT !.state = s] \/ m = [k EXCEPT !.ver = v, !.state = s]
        PROVE  Mid(Parser!Deliver(m))
    <2>1. s \in States /\ NoMark \in Marked(s)
      BY <1>5, StateNames DEF Marked, UrlStates
    <2>2. /\ Quiet(k, m) /\ Struct(m) /\ m.errno = "OK" /\ m.halt = k.halt /\ m.mark = "url"
          /\ m.state = s
      BY <1>1, <1>2, <1>5, <2>1 DEF Quiet, Struct, HasFields, Fields
    <2> QED
      BY <1>3, <1>5, <2>1, <2>2
  <1>6. CASE t \in {Sp, Cr, Lf} /\ k.state \in {"s_req_schema", "s_req_schema_slash",
                  "s_req_schema_slash_slash", "s_req_server_start"}
    <2>1. d = Error(k, "INVALID_URL")
      BY <1>6, SameNames DEF Parser!Url
    <2> QED
      BY <1>1, <2>1, ErrorKeeps
  <1>7. CASE t = Sp /\ k.state \notin {"s_req_schema", "s_req_schema_slash",
                  "s_req_schema_slash_slash", "s_req_server_start"}
    <2>1. d = Parser!Deliver([k EXCEPT !.state = "s_req_http_start"])
      BY <1>7, SameNames DEF Parser!Url, Parser!Goto
    <2> QED
      BY <1>5, <2>1
  <1>8. CASE t \in {Cr, Lf} /\ k.method # "GET" /\ k.state \notin {"s_req_schema",
                  "s_req_schema_slash", "s_req_schema_slash_slash", "s_req_server_start"}
    <2>0. t # Sp
      BY <1>8 DEF Sp, Cr, Lf
    <2>1. PICK m : m = Parser!Goto(k, "s_dead")
      OBVIOUS
    <2>2. d = Error(m, "INVALID_VERSION")
      BY <1>8, <2>0, <2>1, SameNames DEF Parser!Url
    <2>3. Quiet(k, m) /\ Struct(m)
      BY <1>1, <2>1, StateNames DEF Parser!Goto, Quiet, Struct, HasFields, Fields
    <2> QED
      BY <1>1, <1>2, <2>2, <2>3, QuietKeeps, ErrorKeeps
  <1>9. CASE t \in {Cr, Lf} /\ k.method = "GET" /\ k.state \notin {"s_req_schema",
                  "s_req_schema_slash", "s_req_schema_slash_slash", "s_req_server_start"}
    <2>0. t # Sp
      BY <1>9 DEF Sp, Cr, Lf
    <2>1. PICK s : s = IF t = Cr THEN "s_req_line_almost_done" ELSE "s_header_field_start"
      OBVIOUS
    <2>2. PICK m : m = [k EXCEPT !.ver = <<0, 9>>, !.state = s]
      OBVIOUS
    <2>3. d = Parser!Deliver(m)
      BY <1>9, <2>0, <2>1, <2>2, SameNames DEF Parser!Url
    <2>4. s \in {"s_req_line_almost_done", "s_header_field_start"}
      BY <2>1
    <2> QED
      BY <1>5, <2>2, <2>3, <2>4
  <1> QED
    BY <1>4, <1>6, <1>7, <1>8, <1>9

-----------------------------------------------------------------------------
(* The end of the head, and of the message                                 *)

LEMMA HeadersDoneKeeps ==
  ASSUME NEW k, Mid(k), ~k.halt, k.state = "s_headers_done", NEW t,
         NEW d, d = Parser!HeadersDone(k, t)
  PROVE  Mid(d)
  <1>0. Core(k) /\ k.errno = "OK" /\ HasFields(k) /\ Struct(k) /\ Types(k)
    BY DEF Mid, Core
  <1>1. PICK m : m = [k EXCEPT !.nread = 0]
    OBVIOUS
  <1>2. /\ Same(k, m) /\ m.errno = "OK" /\ m.halt = k.halt /\ m.mark = k.mark
        /\ Moves(k, m)
    BY <1>0, <1>1 DEF Same, Moves, Quiet, HasFields, Fields, Struct, Types, Mid, Fits
  <1>3. /\ Core(m) /\ Whole(m) /\ m.rule \in Resource /\ m.mark = NoMark /\ Mid(m)
        /\ m.state = "s_headers_done" /\ m.flags = k.flags
    BY <1>0, <1>2, SameKeeps DEF Mid, Fits, Marked, UrlStates, Routed, Unrouted, Same
  <1>4. CASE t # Lf
    <2>1. d = Error(k, "STRICT")
      BY <1>4, SameNames DEF Parser!HeadersDone
    <2> QED
      BY <1>0, <2>1, ErrorKeeps
  <1>5. CASE t = Lf /\ m.upgrade
    <2>1. PICK a : a = Parser!OnMessageComplete(m)
      OBVIOUS
    <2>2. d = [a EXCEPT !.halt = TRUE]
      BY <1>1, <1>5, <2>1, SameNames DEF Parser!HeadersDone
    <2>3. Mid(a) /\ a.errno = "OK"
      BY <1>2, <1>3, <1>5, <2>1, CompleteKeeps DEF AtTheEnd
    <2>4. Same(a, d) /\ d.halt = TRUE
      BY <2>2, <2>3 DEF Mid, Core, Types, Same, HasFields, Fields
    <2>5. d.errno = "OK"
      BY <2>2, <2>3 DEF Mid, Core, HasFields, Fields
    <2> QED
      BY <2>3, <2>4, <2>5, SameKeeps DEF Mid
  <1>6. ASSUME t = Lf, ~m.upgrade, "F_CHUNKED" \in m.flags \/ m.te \/ m.content_length \notin {0, UllongMax}
        PROVE  ~m.message_complete
    BY <1>3, <1>6 DEF Whole, AtTheEnd
  <1>7. ASSUME NEW s, s \in {"s_chunk_size_start", "s_body_identity"}, ~m.message_complete,
               s = "s_body_identity" => m.content_length # 0
        PROVE  Mid(Parser!Goto(m, s))
    <2>1. Ready(m) /\ m.state \notin Unrouted
      BY <1>2, <1>3, MidIsReady DEF Same, Unrouted, UrlStates, Mid
    <2>2. s \in States /\ NoMark \in Marked(s)
      BY <1>7, StateNames DEF Marked, UrlStates
    <2>3. s \in {"s_body_identity", "s_chunk_data"} => m.content_length > 0
      BY <1>7, <2>1, ParserAssumption DEF Ready, Struct
    <2>4. Moves(m, Parser!Goto(m, s))
      BY <1>3, <2>1, <2>2, <2>3, GotoMoves
    <2> QED
      BY <1>2, <1>3, <1>7, <2>1, <2>4, MovesKeeps DEF Ready
  <1>8. CASE t = Lf /\ ~m.upgrade /\ "F_CHUNKED" \in m.flags
    <2>1. d = Parser!Goto(m, "s_chunk_size_start")
      BY <1>1, <1>8, SameNames DEF Parser!HeadersDone
    <2> QED
      BY <1>6, <1>7, <1>8, <2>1
  <1>9. CASE t = Lf /\ ~m.upgrade /\ "F_CHUNKED" \notin m.flags /\ m.te
    <2>1. d = Error(m, "INVALID_TRANSFER_ENCODING")
      BY <1>1, <1>9, SameNames DEF Parser!HeadersDone
    <2> QED
      BY <1>3, <2>1, ErrorKeeps
  <1>10. CASE /\ t = Lf /\ ~m.upgrade /\ "F_CHUNKED" \notin m.flags /\ ~m.te
              /\ m.content_length \in {0, UllongMax}
    <2>1. d = Parser!OnMessageComplete(m)
      BY <1>1, <1>10, SameNames DEF Parser!HeadersDone
    <2> QED
      BY <1>2, <1>3, <1>10, <2>1, CompleteKeeps DEF AtTheEnd
  <1>11. CASE /\ t = Lf /\ ~m.upgrade /\ "F_CHUNKED" \notin m.flags /\ ~m.te
              /\ m.content_length \notin {0, UllongMax}
    <2>1. d = Parser!Goto(m, "s_body_identity")
      BY <1>1, <1>11, SameNames DEF Parser!HeadersDone
    <2> QED
      BY <1>6, <1>7, <1>11, <2>1
  <1> QED
    BY <1>4, <1>5, <1>8, <1>9, <1>10, <1>11

\* Only the request and the header that was read are changed.
RequestOnly(k, d) ==
  /\ HasFields(d) /\ Quiet(k, d) /\ d.halt = k.halt /\ d.errno = k.errno /\ d.mark = k.mark
  /\ d.state = k.state /\ d.flags = k.flags /\ d.header_state = k.header_state
  /\ d.content_length = k.content_length

\* The head is complete: the request's parameters are set, and a client that expects it
\* is told to continue.
LEMMA HeadersCompleteKeeps ==
  ASSUME NEW k, Core(k), ~k.message_complete, k.errno = "OK", ~k.halt, k.mark = NoMark,
         k.state = "s_headers_done", k.rule \in Resource,
         NEW d, d = Parser!HaltOnError(Parser!OnHeadersComplete(k))
  PROVE  Mid(d) /\ d.state = "s_headers_done" /\ ~d.halt
  <1>0. HasFields(k) /\ Struct(k)
    BY DEF Core
  <1>1. PICK a : a = IF k.header_field # <<>> THEN Parser!Emplace(k) ELSE k
    OBVIOUS
  <1>2. PICK b : b = Parser!ConnectionParameters(a)
    OBVIOUS
  <1>3. PICK h : h = HandleHeader(b)
    OBVIOUS
  <1>4. d = Parser!HaltOnError(h)
    BY <1>1, <1>2, <1>3 DEF Parser!OnHeadersComplete
  <1>5. RequestOnly(k, a)
    BY <1>0, <1>1 DEF Parser!Emplace, RequestOnly, Quiet, HasFields, Fields, ReqFields
  <1>6. RequestOnly(a, b)
    <2>1. PICK v, p, q, u : b = [a EXCEPT !.req.ver = v, !.req.keep_alive = p,
                                          !.req.close_connection = q, !.req.upgrade = u]
      BY <1>2 DEF Parser!ConnectionParameters
    <2>2. ASSUME NEW e, RequestOnly(a, e), NEW f, NEW g, NEW r, r = [e.req EXCEPT ![f] = g],
                 NEW n, n = [e EXCEPT !.req = r]
          PROVE  RequestOnly(a, n)
      <3>1. ReqFields \subseteq DOMAIN r
        BY <2>2 DEF RequestOnly, HasFields
      <3> QED
        BY <2>2, <3>1 DEF RequestOnly, HasFields, Fields, Quiet
    <2>3. PICK r1, e1 : r1 = [a.req EXCEPT !["ver"] = v] /\ e1 = [a EXCEPT !.req = r1]
      OBVIOUS
    <2>4. PICK r2, e2 : r2 = [e1.req EXCEPT !["keep_alive"] = p] /\ e2 = [e1 EXCEPT !.req = r2]
      OBVIOUS
    <2>5. PICK r3, e3 : r3 = [e2.req EXCEPT !["close_connection"] = q] /\ e3 = [e2 EXCEPT !.req = r3]
      OBVIOUS
    <2>6. PICK r4, e4 : r4 = [e3.req EXCEPT !["upgrade"] = u] /\ e4 = [e3 EXCEPT !.req = r4]
      OBVIOUS
    <2>7. e1.req = r1 /\ e2.req = r2 /\ e3.req = r3
      BY <1>5, <2>3, <2>4, <2>5 DEF RequestOnly, HasFields, Fields
    <2>8. b = e4
      BY <2>1, <2>3, <2>4, <2>5, <2>6, <2>7
    <2>9. RequestOnly(a, a)
      BY <1>5 DEF RequestOnly, Quiet, HasFields
    <2>10. RequestOnly(a, e1)
      BY <2>2, <2>3, <2>9
    <2>11. RequestOnly(a, e2)
      BY <2>2, <2>4, <2>10
    <2>12. RequestOnly(a, e3)
      BY <2>2, <2>5, <2>11
    <2>13. RequestOnly(a, e4)
      BY <2>2, <2>6, <2>12
    <2> QED
      BY <2>8, <2>13
  <1>7. /\ Quiet(k, b) /\ b.halt = k.halt /\ b.errno = "OK" /\ b.mark = NoMark
        /\ b.state = "s_headers_done" /\ Struct(b)
    BY <1>0, <1>5, <1>6 DEF RequestOnly, Quiet, Struct
  <1>8. Core(b) /\ ~b.message_complete /\ (LastCloses(b) => Dead(b)) /\ b.rule \in Resource
    BY <1>7, QuietKeeps DEF Core, Answering, Quiet
  <1>9. Settled(b, h) /\ Stands(b, h)
    <2>1. PICK w, m : /\ w = [b EXCEPT !.continue_requested = TRUE]
                      /\ m = [method |-> b.req.method, code |-> 100, body |-> 0, length |-> 0,
                              keepAlive |-> FALSE]
      OBVIOUS
    <2>4. (h = DoWrite(w, m) \/ h = b) /\ m.length = m.body
      BY <1>3, <2>1 DEF HandleHeader
    <2>2. CASE h = b
      BY <1>8, <2>2, SettledWays DEF Core, Stands
    <2>3. CASE h = DoWrite(w, m)
      <3>1. Alike(b, w)
        BY <1>8, <2>1 DEF Core, Types, Alike, Kept, Stands, HasFields, Fields
      <3>2. Replies(w, h) /\ Stands(w, h)
        BY <2>3, <2>4, <3>1, DoWriteQueues DEF Alike, Replies, Queued
      <3> QED
        BY <3>1, <3>2, RepliesOn, SettledWays DEF Alike, Stands
    <2> QED
      BY <2>2, <2>3, <2>4
  <1>10. /\ Core(h) /\ h.rule \in Resource /\ h.errno = "OK" /\ h.mark = NoMark
         /\ h.state = "s_headers_done" /\ ~h.message_complete /\ h.halt = k.halt
    <2>1. Core(h)
      BY <1>7, <1>8, <1>9, SettledKeeps
    <2> QED
      BY <1>7, <1>8, <1>9, <2>1 DEF Settled, Kept, Stands
  <1>11. Same(h, d) /\ d.errno = "OK" /\ d.mark = NoMark /\ d.halt = k.halt
    BY <1>4, <1>10, <1>0 DEF Core, Types, Struct, Same, Parser!HaltOnError, HasFields, Fields
  <1>12. Core(d) /\ Routed(d)
    BY <1>10, <1>11, SameKeeps DEF Routed
  <1> QED
    BY <1>10, <1>11, <1>12 DEF Mid, Same, Whole, Fits, Marked, UrlStates

LEMMA HeadersAlmostDoneKeeps ==
  ASSUME NEW k, Mid(k), ~k.halt, k.state = "s_headers_almost_done", NEW t,
         NEW d, d = Parser!HeadersAlmostDone(k, t)
  PROVE  Mid(d)
  <1>1. /\ Core(k) /\ k.errno = "OK" /\ HasFields(k) /\ Struct(k) /\ k.mark = NoMark
        /\ k.rule \in Resource
    BY DEF Mid, Core, Fits, Marked, UrlStates, Routed, Unrouted
  <1>2. CASE t # Lf
    <2>1. d = Error(k, "STRICT")
      BY <1>2, SameNames DEF Parser!HeadersAlmostDone
    <2> QED
      BY <1>1, <2>1, ErrorKeeps
  <1>3. CASE t = Lf /\ "F_TRAILING" \in k.flags
    <2>1. d = Parser!OnMessageComplete(k)
      BY <1>3, SameNames DEF Parser!HeadersAlmostDone
    <2> QED
      BY <1>1, <1>3, <2>1, CompleteKeeps DEF AtTheEnd
  <1>4. CASE t = Lf /\ "F_TRAILING" \notin k.flags /\ k.te /\ "F_CONTENTLENGTH" \in k.flags
    <2>1. d = Error(k, "UNEXPECTED_CONTENT_LENGTH")
      BY <1>4, SameNames DEF Parser!HeadersAlmostDone
    <2> QED
      BY <1>1, <2>1, ErrorKeeps
  <1>5. CASE /\ t = Lf /\ "F_TRAILING" \notin k.flags
             /\ ~(k.te /\ "F_CONTENTLENGTH" \in k.flags)
    <2>1. PICK m : m = [k EXCEPT !.state = "s_headers_done",
                                 !.upgrade = "F_UPGRADE" \in k.flags \/ k.method = "CONNECT"]
      OBVIOUS
    <2>2. PICK a : a = Parser!HaltOnError(Parser!OnHeadersComplete(m))
      OBVIOUS
    <2>3. d = IF a.halt THEN a ELSE Parser!HeadersDone(a, t)
      BY <1>5, <2>1, <2>2, SameNames DEF Parser!HeadersAlmostDone
    <2>4. ~k.message_complete
      BY <1>1, <1>5 DEF Mid, Whole, AtTheEnd
    <2>5. /\ Quiet(k, m) /\ Struct(m) /\ m.state = "s_headers_done" /\ m.errno = "OK"
          /\ m.halt = k.halt /\ m.mark = NoMark
      BY <1>1, <2>1, StateNames DEF Quiet, Struct, HasFields, Fields
    <2>6. Core(m) /\ ~m.message_complete /\ m.rule \in Resource
      BY <1>1, <2>4, <2>5, QuietKeeps DEF Quiet
    <2>7. Mid(a) /\ a.state = "s_headers_done" /\ ~a.halt
      BY <2>2, <2>5, <2>6, HeadersCompleteKeeps
    <2>8. d = Parser!HeadersDone(a, t)
      BY <2>3, <2>7
    <2> QED
      BY <2>7, <2>8, HeadersDoneKeeps
  <1> QED
    BY <1>2, <1>3, <1>4, <1>5

-----------------------------------------------------------------------------
(* The headers                                                             *)

LEMMA HeaderFieldStartKeeps ==
  ASSUME NEW k, Mid(k), ~k.halt, k.state = "s_header_field_start", NEW t,
         NEW d, d = Parser!HeaderFieldStart(k, t)
  PROVE  Mid(d)
  <1>1. Core(k) /\ Ready(k) /\ HasFields(k) /\ ~k.message_complete
    BY MidIsReady DEF Mid, Core, Whole, AtTheEnd
  <1>2. PICK m : m = Parser!Goto(k, "s_headers_almost_done")
    OBVIOUS
  <1>3. Mid(m) /\ ~m.halt /\ m.state = "s_headers_almost_done"
    <2>1. k.state \notin Unrouted /\ NoMark \in Marked("s_headers_almost_done") /\ k.mark = NoMark
      BY <1>1 DEF Unrouted, UrlStates, Marked, Ready, Fits
    <2>2. Moves(k, m)
      BY <1>1, <1>2, <2>1, StateNames, GotoMoves
    <2>3. m.state = "s_headers_almost_done" /\ m.halt = k.halt
      BY <1>1, <1>2 DEF Parser!Goto, HasFields, Fields
    <2> QED
      BY <1>1, <2>2, <2>3, MovesKeeps
  <1>4. CASE t = Cr
    <2>1. d = m
      BY <1>2, <1>4, SameNames DEF Parser!HeaderFieldStart
    <2> QED
      BY <1>3, <2>1
  <1>5. CASE t = Lf
    <2>1. d = Parser!HeadersAlmostDone(m, t)
      BY <1>2, <1>5, SameNames DEF Parser!HeaderFieldStart, Cr, Lf
    <2> QED
      BY <1>3, <2>1, HeadersAlmostDoneKeeps
  <1>6. CASE t \notin {Cr, Lf} /\ ~IsToken(t)
    <2>1. d = Error(k, "INVALID_HEADER_TOKEN")
      BY <1>6, SameNames DEF Parser!HeaderFieldStart
    <2> QED
      BY <1>1, <2>1, ErrorKeeps
  <1>7. CASE t \notin {Cr, Lf} /\ IsToken(t)
    <2>1. Moves(k, d)
      BY <1>1, <1>7, NameStartMoves
    <2> QED
      BY <1>1, <2>1, MovesKeeps
  <1> QED
    BY <1>4, <1>5, <1>6, <1>7

\* The line after a header.
LEMMA HeaderValueLwsKeeps ==
  ASSUME NEW k, Mid(k), ~k.halt, k.state = "s_header_value_lws", NEW t,
         NEW d, d = Parser!HeaderValueLws(k, t)
  PROVE  Mid(d)
  <1>1. Core(k) /\ Ready(k) /\ HasFields(k) /\ Struct(k) /\ ~k.message_complete /\ k.mark = NoMark
    BY MidIsReady DEF Mid, Core, Whole, AtTheEnd, Ready, Fits, Marked, UrlStates
  <1>2. CASE t \in White
    <2>1. Moves(k, d)
      BY <1>1, <1>2, FoldedMoves
    <2> QED
      BY <1>1, <2>1, MovesKeeps
  <1>3. CASE t \notin White
    <2>1. PICK flag : flag = CASE k.header_state = "h_connection_keep_alive" -> {"F_CONNECTION_KEEP_ALIVE"}
                               [] k.header_state = "h_connection_close"      -> {"F_CONNECTION_CLOSE"}
                               [] k.header_state = "h_transfer_encoding_chunked" -> {"F_CHUNKED"}
                               [] OTHER -> {}
      OBVIOUS
    <2>2. flag \subseteq Flags
      BY <2>1 DEF Flags
    <2>3. PICK m : m = [k EXCEPT !.flags = @ \cup flag, !.state = "s_header_field_start"]
      OBVIOUS
    <2>4. d = Parser!HeaderFieldStart(m, t)
      BY <1>3, <2>1, <2>3, SameNames DEF Parser!HeaderValueLws
    <2>5. Moves(k, m) /\ m.halt = k.halt /\ m.state = "s_header_field_start"
      BY <1>1, <2>2, <2>3, StateNames
      DEF Moves, Quiet, Ready, Struct, Fits, HasFields, Fields, Marked, UrlStates, Unrouted
    <2>6. Mid(m)
      BY <1>1, <2>5, MovesKeeps
    <2> QED
      BY <2>4, <2>5, <2>6, HeaderFieldStartKeeps
  <1> QED
    BY <1>2, <1>3

LEMMA DiscardWhiteKeeps ==
  ASSUME NEW k, Mid(k), ~k.halt, NEW t,
         k.state \in {"s_header_value_discard_ws", "s_header_value_discard_ws_almost_done",
                      "s_header_value_discard_lws"},
         NEW d, d = Parser!DiscardWhite(k, t)
  PROVE  Mid(d)
  <1>1. Core(k) /\ Ready(k) /\ HasFields(k) /\ Struct(k) /\ ~k.message_complete /\ k.mark = NoMark
    BY MidIsReady DEF Mid, Core, Whole, AtTheEnd, Ready, Fits, Marked, UrlStates
  <1>2. CASE k.state # "s_header_value_discard_lws" \/ t \in White
    <2>1. Moves(k, d)
      BY <1>1, <1>2, DiscardWhiteMoves
    <2> QED
      BY <1>1, <2>1, MovesKeeps
  <1>3. CASE k.state = "s_header_value_discard_lws" /\ t \notin White
    <2>1. PICK m : m = [k EXCEPT !.mark = "header_value", !.piece = <<>>,
                                 !.state = "s_header_field_start"]
      OBVIOUS
    <2>2. PICK a : a = Parser!Deliver(m)
      OBVIOUS
    <2>3. d = Parser!HeaderFieldStart(a, t)
      BY <1>3, <2>1, <2>2, SameNames DEF Parser!DiscardWhite
    <2>4. /\ Quiet(k, m) /\ HasFields(m) /\ Struct(m) /\ ~m.halt /\ m.errno = "OK"
          /\ m.mark = "header_value" /\ m.state = "s_header_field_start"
      BY <1>1, <2>1, StateNames DEF Quiet, Ready, Struct, HasFields, Fields
    <2>5. NoMark \in Marked(m.state) /\ k.state \notin Unrouted
      BY <1>3, <2>4 DEF Marked, UrlStates, Unrouted
    <2>6. /\ Moves(m, a) /\ a.errno = "OK" /\ ~a.halt /\ a.mark = NoMark
          /\ a.state = "s_header_field_start"
      BY <2>2, <2>4, <2>5, DeliverMoves
    <2>7. Moves(k, a)
      BY <2>4, <2>5, <2>6 DEF Moves, Quiet
    <2>8. Mid(a)
      BY <1>1, <2>7, MovesKeeps
    <2> QED
      BY <2>3, <2>6, <2>8, HeaderFieldStartKeeps
  <1> QED
    BY <1>2, <1>3

-----------------------------------------------------------------------------
(* One token, and one buffer                                               *)

LEMMA BodyIdentityKeeps ==
  ASSUME NEW k, Mid(k), ~k.halt, k.state = "s_body_identity", NEW t,
         NEW d, d = Parser!BodyIdentity(k, t)
  PROVE  Mid(d)
  <1>1. /\ Core(k) /\ Ready(k) /\ HasFields(k) /\ Struct(k) /\ ~k.message_complete
        /\ k.mark \in {NoMark, "body"} /\ k.rule \in Resource /\ k.errno = "OK"
        /\ k.content_length \in 1..UllongMax /\ k.state \notin Unrouted
    BY MidIsReady, ParserAssumption
    DEF Mid, Core, Whole, AtTheEnd, Ready, Fits, Marked, UrlStates, Routed, Unrouted, Struct
  <1>2. PICK marked : marked = Parser!Mark(k, "body", t)
    OBVIOUS
  <1>3. PICK more : more = [marked EXCEPT !.content_length = @ - 1]
    OBVIOUS
  <1>4. PICK done : done = Parser!Goto(more, "s_message_done")
    OBVIOUS
  <1>5. PICK last : last = Parser!Deliver(done)
    OBVIOUS
  <1>6. d = IF more.content_length > 0 THEN more
            ELSE IF last.halt THEN last ELSE Parser!OnMessageComplete(last)
    BY <1>2, <1>3, <1>4, <1>5 DEF Parser!BodyIdentity, Parser!MessageDone
  <1>7. /\ Quiet(k, marked) /\ Struct(marked) /\ marked.state = k.state /\ marked.mark = "body"
        /\ marked.halt = k.halt /\ marked.errno = "OK" /\ HasFields(marked)
        /\ marked.content_length = k.content_length
    BY <1>1, <1>2 DEF Parser!Mark, Quiet, Struct, HasFields, Fields
  <1>8. /\ Quiet(k, more) /\ more.state = k.state /\ more.mark = "body"
        /\ more.halt = k.halt /\ more.errno = "OK" /\ HasFields(more)
        /\ more.content_length = k.content_length - 1
        /\ more.flags = k.flags /\ more.header_state = k.header_state
    BY <1>1, <1>2, <1>3, <1>7 DEF Parser!Mark, Quiet, HasFields, Fields
  <1>9. k.content_length - 1 \in 0..UllongMax
    BY <1>1, ParserAssumption
  <1>10. CASE more.content_length > 0
    <2>1. Struct(more)
      BY <1>1, <1>8, <1>9, <1>10 DEF Struct
    <2>2. Moves(k, more)
      BY <1>1, <1>8, <2>1 DEF Moves, Fits, Marked, UrlStates
    <2> QED
      BY <1>1, <1>6, <1>10, <2>2, MovesKeeps
  <1>11. CASE ~(more.content_length > 0)
    <2>1. /\ Quiet(k, done) /\ HasFields(done) /\ Struct(done) /\ done.state = "s_message_done"
          /\ done.mark = "body" /\ ~done.halt /\ done.errno = "OK"
      BY <1>1, <1>4, <1>8, <1>9, StateNames DEF Parser!Goto, Quiet, Struct, HasFields, Fields
    <2>2. NoMark \in Marked(done.state)
      BY <2>1 DEF Marked, UrlStates
    <2>3. /\ Moves(done, last) /\ last.errno = "OK" /\ ~last.halt /\ last.mark = NoMark
          /\ last.state = "s_message_done"
      BY <1>5, <2>1, <2>2, DeliverMoves
    <2>4. Quiet(k, last) /\ Struct(last)
      BY <2>1, <2>3 DEF Moves, Quiet
    <2>5. Core(last) /\ last.rule \in Resource
      BY <1>1, <2>4, QuietKeeps DEF Quiet
    <2>6. d = Parser!OnMessageComplete(last)
      BY <1>6, <1>11, <2>3
    <2> QED
      BY <2>3, <2>5, <2>6, CompleteKeeps DEF AtTheEnd
  <1> QED
    BY <1>10, <1>11

LEMMA MessageDoneKeeps ==
  ASSUME NEW k, Mid(k), ~k.halt, k.state = "s_message_done", NEW d, d = Parser!MessageDone(k)
  PROVE  Mid(d)
  <1>1. /\ Core(k) /\ k.errno = "OK" /\ k.mark = NoMark /\ k.rule \in Resource /\ AtTheEnd(k)
    BY DEF Mid, Fits, Marked, UrlStates, Routed, Unrouted, AtTheEnd
  <1> QED
    BY <1>1, CompleteKeeps DEF Parser!MessageDone

LEMMA ByteKeeps ==
  ASSUME NEW k, Mid(k), ~k.halt, NEW t, NEW d, d = Parser!Byte(k, t)
  PROVE  Mid(d)
  <1>1. Core(k) /\ Ready(k) /\ k.state \in States
    BY MidIsReady DEF Mid, Core, Struct
  <1>2. k.state \notin {"s_message_done", "s_headers_almost_done", "s_headers_done"}
          => ~k.message_complete
    BY DEF Mid, Core, Whole, AtTheEnd, Ready
  <1>3. CASE k.state = "s_dead"
    <2>1. d = k \/ d = Error(k, "CLOSED_CONNECTION")
      BY <1>3, SameNames DEF Parser!Byte, UrlStates
    <2>2. Moves(k, k) /\ Moves(k, Error(k, "CLOSED_CONNECTION"))
      BY <1>1, Stays, Fails
    <2>3. Moves(k, d)
      BY <2>1, <2>2
    <2> QED
      BY <1>2, <1>3, <2>3, MovesKeeps
  <1>4. CASE k.state = "s_start_req"
    <2>1. d = Parser!StartReq(k, t)
      BY <1>4, SameNames DEF Parser!Byte, UrlStates
    <2>2. Moves(k, d)
      BY <1>1, <1>4, <2>1, StartReqMoves
    <2> QED
      BY <1>2, <1>4, <2>2, MovesKeeps
  <1>5. CASE k.state = "s_req_method"
    <2>1. d = Parser!ReqMethod(k, t)
      BY <1>5, SameNames DEF Parser!Byte, UrlStates
    <2>2. Moves(k, d)
      BY <1>1, <1>5, <2>1, ReqMethodMoves
    <2> QED
      BY <1>2, <1>5, <2>2, MovesKeeps
  <1>6. CASE k.state = "s_req_spaces_before_url"
    <2>1. d = Parser!SpacesBeforeUrl(k, t)
      BY <1>6, SameNames DEF Parser!Byte, UrlStates
    <2>2. Moves(k, d)
      BY <1>1, <1>6, <2>1, SpacesBeforeUrlMoves
    <2> QED
      BY <1>2, <1>6, <2>2, MovesKeeps
  <1>7. CASE k.state \in {"s_req_http_start", "s_req_http_HTTP", "s_req_http_major",
                         "s_req_http_dot", "s_req_http_minor", "s_req_http_end"}
    <2>1. d = Parser!Version(k, t)
      BY <1>7, SameNames DEF Parser!Byte, UrlStates
    <2>2. Moves(k, d)
      BY <1>1, <1>7, <2>1, VersionMoves
    <2> QED
      BY <1>2, <1>7, <2>2, MovesKeeps
  <1>8. CASE k.state = "s_req_line_almost_done"
    <2>1. d = Parser!ReqLineAlmostDone(k, t)
      BY <1>8, SameNames DEF Parser!Byte, UrlStates
    <2>2. Moves(k, d)
      BY <1>1, <1>8, <2>1, ReqLineAlmostDoneMoves
    <2> QED
      BY <1>2, <1>8, <2>2, MovesKeeps
  <1>9. CASE k.state = "s_header_field"
    <2>1. d = Parser!HeaderField(k, t)
      BY <1>9, SameNames DEF Parser!Byte, UrlStates
    <2>2. Moves(k, d)
      BY <1>1, <1>9, <2>1, HeaderFieldMoves
    <2> QED
      BY <1>2, <1>9, <2>2, MovesKeeps
  <1>10. CASE k.state = "s_header_value"
    <2>1. d = Parser!HeaderValue(k, t)
      BY <1>10, SameNames DEF Parser!Byte, UrlStates
    <2>2. Moves(k, d)
      BY <1>1, <1>10, <2>1, HeaderValueMoves
    <2> QED
      BY <1>2, <1>10, <2>2, MovesKeeps
  <1>11. CASE k.state = "s_header_almost_done"
    <2>1. d = Parser!HeaderAlmostDone(k, t)
      BY <1>11, SameNames DEF Parser!Byte, UrlStates
    <2>2. Moves(k, d)
      BY <1>1, <1>11, <2>1, HeaderAlmostDoneMoves
    <2> QED
      BY <1>2, <1>11, <2>2, MovesKeeps
  <1>12. CASE k.state \in ChunkStates
    <2>1. d = Parser!Chunk(k, t)
      BY <1>12, SameNames DEF Parser!Byte, UrlStates, ChunkStates, ChunkHeads
    <2>2. Moves(k, d)
      BY <1>1, <1>12, <2>1, ChunkMoves
    <2> QED
      BY <1>2, <1>12, <2>2, MovesKeeps DEF ChunkStates, ChunkHeads
  <1>13. CASE k.state \in UrlStates
    <2>1. d = Parser!Url(k, t)
      BY <1>13, SameNames DEF Parser!Byte, UrlStates
    <2> QED
      BY <1>13, <2>1, UrlKeeps
  <1>14. CASE k.state = "s_header_field_start"
    <2>1. d = Parser!HeaderFieldStart(k, t)
      BY <1>14, SameNames DEF Parser!Byte, UrlStates
    <2> QED
      BY <1>14, <2>1, HeaderFieldStartKeeps
  <1>15. CASE k.state \in {"s_header_value_discard_ws", "s_header_value_discard_ws_almost_done",
                         "s_header_value_discard_lws"}
    <2>1. d = Parser!DiscardWhite(k, t)
      BY <1>15, SameNames DEF Parser!Byte, UrlStates
    <2> QED
      BY <1>15, <2>1, DiscardWhiteKeeps
  <1>16. CASE k.state = "s_header_value_lws"
    <2>1. d = Parser!HeaderValueLws(k, t)
      BY <1>16, SameNames DEF Parser!Byte, UrlStates
    <2> QED
      BY <1>16, <2>1, HeaderValueLwsKeeps
  <1>17. CASE k.state = "s_headers_almost_done"
    <2>1. d = Parser!HeadersAlmostDone(k, t)
      BY <1>17, SameNames DEF Parser!Byte, UrlStates
    <2> QED
      BY <1>17, <2>1, HeadersAlmostDoneKeeps
  <1>18. CASE k.state = "s_headers_done"
    <2>1. d = Parser!HeadersDone(k, t)
      BY <1>18, SameNames DEF Parser!Byte, UrlStates
    <2> QED
      BY <1>18, <2>1, HeadersDoneKeeps
  <1>19. CASE k.state = "s_body_identity"
    <2>1. d = Parser!BodyIdentity(k, t)
      BY <1>19, SameNames DEF Parser!Byte, UrlStates
    <2> QED
      BY <1>19, <2>1, BodyIdentityKeeps
  <1>20. CASE k.state = "s_message_done"
    <2>1. d = Parser!MessageDone(k)
      BY <1>20, SameNames DEF Parser!Byte, UrlStates
    <2> QED
      BY <1>20, <2>1, MessageDoneKeeps
  <1> QED
    BY <1>1, <1>3, <1>4, <1>5, <1>6, <1>7, <1>8, <1>9, <1>10, <1>11, <1>12, <1>13, <1>14, <1>15, <1>16,
       <1>17, <1>18, <1>19, <1>20 DEF States, HeadStates, BodyStates, ChunkStates, ChunkHeads

\* A token is counted, and read unless execute has returned.
LEMMA CountKeeps ==
  ASSUME NEW k, Mid(k), NEW t, NEW d, d = Parser!Count(k, t)
  PROVE  Mid(d)
  <1>1. Core(k) /\ HasFields(k) /\ Struct(k) /\ Types(k)
    BY DEF Mid, Core
  <1>2. ASSUME NEW x, NEW m, m = [k EXCEPT !.unread = x] \/ m = [k EXCEPT !.nread = x] \/ m = k
        PROVE  Mid(m) /\ m.halt = k.halt
    <2>1. Same(k, m) /\ m.halt = k.halt /\ m.errno = k.errno /\ m.mark = k.mark
      BY <1>1, <1>2 DEF Same, HasFields, Fields, Struct, Types
    <2>2. m.state = k.state
      BY <2>1 DEF Same
    <2> QED
      BY <1>1, <2>1, <2>2, SameKeeps DEF Mid, Fits
  <1>3. CASE k.halt
    <2>1. d = [k EXCEPT !.unread = TRUE]
      BY <1>3 DEF Parser!Count
    <2> QED
      BY <1>2, <2>1
  <1>4. CASE ~k.halt
    <2>1. PICK m : m = IF k.state \in HeadStates THEN [k EXCEPT !.nread = @ + 1] ELSE k
      OBVIOUS
    <2>2. d = Error(m, "HEADER_OVERFLOW") \/ d = Parser!Byte(m, t)
      BY <1>4, <2>1, SameNames DEF Parser!Count
    <2>3. Mid(m) /\ ~m.halt
      BY <1>2, <1>4, <2>1
    <2> QED
      BY <2>2, <2>3, ByteKeeps, ErrorKeeps DEF Mid
  <1> QED
    BY <1>3, <1>4

\* A set of numbers that is not empty has a least one.
LEMMA Least ==
  ASSUME NEW T, T \subseteq Nat, T # {}
  PROVE  \E x \in T : \A y \in T : x <= y
  <1> DEFINE R == OpToRel(<, Nat)
  <1>1. PICK x \in T : \A y \in T : ~ (<<y, x>> \in R)
    BY NatLessThanWellFounded, WFMin
  <1>2. \A y, z \in Nat : y < z => <<y, z>> \in R
    BY DEF OpToRel
  <1> HIDE DEF R
  <1>3. ASSUME NEW y \in T PROVE x <= y
    <2>1. x \in Nat /\ y \in Nat
      BY <1>1
    <2>2. ~ (y < x)
      BY <1>1, <1>2, <2>1
    <2> QED
      BY <2>1, <2>2
  <1> QED
    BY <1>1, <1>3

\* g is the function that Execute folds the first n tokens of a buffer with.
Folds(k, data, n, g) ==
  g = [i \in 0..n |-> IF i = 0 THEN Parser!Resume(k) ELSE Parser!Count(g[i - 1], data[i])]

LEMMA FoldExists ==
  ASSUME NEW k, NEW data, NEW n \in Nat
  PROVE  \E g : Folds(k, data, n, g)
  <1> DEFINE None == {m \in Nat : ~ \E g : Folds(k, data, m, g)}
  <1>1. SUFFICES ASSUME None # {} PROVE FALSE
    OBVIOUS
  <1>2. PICK m \in None : \A x \in None : m <= x
    <2>1. None \subseteq Nat
      OBVIOUS
    <2> HIDE DEF None
    <2> QED
      BY <1>1, <2>1, Least
  <1>3. m # 0
    <2>1. PICK g : g = [i \in 0..0 |-> Parser!Resume(k)]
      OBVIOUS
    <2>2. Folds(k, data, 0, g)
      BY <2>1 DEF Folds
    <2> QED
      BY <1>2, <2>2
  <1>4. m \in Nat /\ m - 1 \in Nat /\ m - 1 \notin None
    BY <1>2, <1>3
  <1>5. PICK g : Folds(k, data, m - 1, g)
    BY <1>4
  <1>6. PICK h : h = [i \in 0..m |-> IF i = m THEN Parser!Count(g[m - 1], data[m]) ELSE g[i]]
    OBVIOUS
  <1>7. Folds(k, data, m, h)
    <2>1. ASSUME NEW i \in 0..m
          PROVE  h[i] = IF i = 0 THEN Parser!Resume(k) ELSE Parser!Count(h[i - 1], data[i])
      <3>1. CASE i = 0
        BY <1>3, <1>4, <1>5, <1>6, <3>1 DEF Folds
      <3>2. CASE i \in 1..(m - 1)
        <4>1. /\ h[i] = g[i] /\ h[i - 1] = g[i - 1] /\ g[i] = Parser!Count(g[i - 1], data[i])
          BY <1>4, <1>5, <1>6, <3>2 DEF Folds
        <4> QED
          BY <3>2, <4>1
      <3>3. CASE i = m
        BY <1>3, <1>4, <1>6, <3>3
      <3> QED
        BY <1>4, <3>1, <3>2, <3>3
    <2> QED
      BY <1>6, <2>1 DEF Folds
  <1> QED
    BY <1>2, <1>4, <1>7

LEMMA ExecuteFolds ==
  ASSUME NEW k, NEW data, Len(data) \in Nat, NEW g, g = Parser!AfterEach(k, data)
  PROVE  Folds(k, data, Len(data), g)
  <1>1. \E f : f = [i \in 0..Len(data) |-> IF i = 0 THEN Parser!Resume(k)
                                           ELSE Parser!Count(f[i - 1], data[i])]
    <2>1. PICK f : Folds(k, data, Len(data), f)
      BY FoldExists
    <2> QED
      BY <2>1 DEF Folds
  <1>2. g = CHOOSE f : f = [i \in 0..Len(data) |-> IF i = 0 THEN Parser!Resume(k)
                                                  ELSE Parser!Count(f[i - 1], data[i])]
    BY Zenon DEF Parser!AfterEach
  <1> QED
    BY <1>1, <1>2 DEF Folds

\* A connection between two handlers, but for what its last answer needs.
Rest(k) ==
  /\ HasFields(k) /\ Struct(k) /\ Types(k) /\ OnlyLast(k)
  /\ ~k.halt /\ k.mark = NoMark
  /\ k.errno = "OK" => Whole(k) /\ Routed(k)
  /\ AllLeave(k) \/ ~k.open \/ k.reset # "no"

\* The answer to the request that closes is on its way: the parser takes nothing more,
\* and the end of the write closes the connection.
Leaving(k) == k.message_complete /\ k.close_connection /\ HeadLeaves(k)

\* The same while the client's reset has not been noticed.
Parting(k) == k.message_complete /\ k.close_connection /\ (k.reset = "soon" \/ HeadLeaves(k))

LEMMA ResumeKeeps ==
  ASSUME NEW k, Rest(k), k.errno = "OK", LastCloses(k) => Dead(k), NEW d, d = Parser!Resume(k)
  PROVE  Mid(d) /\ ~d.halt
  <1>1. /\ HasFields(k) /\ Struct(k) /\ Types(k) /\ Core(k) /\ Whole(k) /\ Routed(k)
    BY DEF Rest, Core
  <1>2. PICK m : /\ m = CASE k.state = "s_header_field" -> "header_field"
                          [] k.state = "s_header_value" -> "header_value"
                          [] k.state \in UrlStates      -> "url"
                          [] OTHER                      -> NoMark
                 /\ d = [k EXCEPT !.mark = m, !.piece = <<>>, !.urlStart = FALSE, !.halt = FALSE,
                                  !.unread = FALSE]
    BY SameNames DEF Parser!Resume
  <1>3. m \in Marked(k.state)
    BY <1>2 DEF Marked, UrlStates
  <1>4. /\ Same(k, d) /\ d.halt = FALSE /\ d.errno = "OK" /\ d.mark = m /\ d.state = k.state
    BY <1>1, <1>2 DEF Same, HasFields, Fields, Types
  <1> QED
    BY <1>1, <1>3, <1>4, SameKeeps DEF Mid, Fits

LEMMA EachTokenKeeps ==
  ASSUME NEW k, Mid(Parser!Resume(k)), NEW data, NEW n \in Nat, NEW g, Folds(k, data, n, g)
  PROVE  Mid(g[n])
  <1> DEFINE Bad == {i \in 0..n : ~Mid(g[i])}
  <1>1. SUFFICES ASSUME Bad # {} PROVE FALSE
    OBVIOUS
  <1>2. PICK i \in Bad : \A j \in Bad : i <= j
    <2>1. Bad \subseteq Nat
      OBVIOUS
    <2> HIDE DEF Bad
    <2> QED
      BY <1>1, <2>1, Least
  <1>3. i \in 0..n /\ ~Mid(g[i])
    BY <1>2
  <1>4. CASE i = 0
    <2>1. g[i] = Parser!Resume(k)
      BY <1>3, <1>4 DEF Folds
    <2> QED
      BY <1>3, <2>1
  <1>5. CASE i # 0
    <2>1. i - 1 \in 0..n /\ i - 1 \notin Bad
      <3> HIDE DEF Bad
      <3> QED
        BY <1>2, <1>3, <1>5
    <2>2. Mid(g[i - 1])
      BY <2>1
    <2>3. g[i] = Parser!Count(g[i - 1], data[i])
      BY <1>3, <1>5 DEF Folds
    <2> QED
      BY <1>3, <2>2, <2>3, CountKeeps
  <1> QED
    BY <1>4, <1>5

\* The piece that a buffer ends in is delivered.
LEMMA LastPieceKeeps ==
  ASSUME NEW k, Mid(k), ~k.halt, NEW d, d = Parser!Deliver(k)
  PROVE  Core(d) /\ (d.errno = "OK" => Whole(d) /\ Routed(d))
  <1>1. Core(k) /\ HasFields(k) /\ Struct(k) /\ k.errno = "OK" /\ Whole(k) /\ Routed(k) /\ Fits(k)
    BY DEF Mid, Core
  <1>2. CASE k.mark = NoMark
    <2>1. d = k
      BY <1>2, SameNames DEF Parser!Deliver
    <2> QED
      BY <1>1, <2>1
  <1>3. ASSUME k.mark # NoMark
        PROVE  ~k.message_complete
    BY <1>1, <1>3 DEF Whole, AtTheEnd, Fits, Marked, UrlStates
  <1>4. CASE k.mark = "url"
    <2>1. k.mark # NoMark /\ k.state \notin {"s_dead", "s_start_req"}
      BY <1>1, <1>4 DEF NoMark, Fits, Marked, UrlStates
    <2>2. Core(d) /\ ~d.message_complete /\ (d.errno = "OK" => Routed(d))
      BY <1>1, <1>3, <1>4, <2>1, UrlDelivered
    <2> QED
      BY <2>2 DEF Whole
  <1>5. CASE k.mark \notin {NoMark, "url"}
    <2>1. k.mark \in {NoMark, "header_field", "header_value", "body"}
      BY <1>1, <1>5 DEF Fits, Marked, UrlStates
    <2>2. Quiet(k, d) /\ Struct(d) /\ d.state = k.state
      BY <1>1, <2>1, DeliverQuiets
    <2>3. Core(d) /\ ~d.message_complete
      BY <1>1, <1>3, <1>5, <2>2, QuietKeeps
    <2> QED
      BY <1>1, <2>2, <2>3 DEF Whole, Routed, Quiet
  <1> QED
    BY <1>2, <1>4, <1>5

LEMMA ExecuteKeeps ==
  ASSUME NEW k, Rest(k), k.errno = "OK", LastCloses(k) => Dead(k), NEW data, Len(data) \in Nat,
         NEW d, d = Parser!Execute(k, data)
  PROVE  Rest(d) /\ (LastCloses(d) => Dead(d) \/ Parting(d))
  <1>1. PICK g : g = Parser!AfterEach(k, data)
    OBVIOUS
  <1>2. PICK read : read = g[Len(data)]
    OBVIOUS
  <1>3. PICK rest : rest = IF read.halt THEN read ELSE Parser!Deliver(read)
    OBVIOUS
  <1>4. d = [rest EXCEPT !.mark = NoMark, !.piece = <<>>, !.urlStart = FALSE, !.halt = FALSE]
    BY <1>1, <1>2, <1>3, SameNames DEF Parser!Execute
  <1>5. Mid(read)
    BY <1>1, <1>2, ResumeKeeps, ExecuteFolds, EachTokenKeeps
  <1>6. Core(rest) /\ (rest.errno = "OK" => Whole(rest) /\ Routed(rest))
    <2>1. CASE read.halt
      BY <1>3, <1>5, <2>1 DEF Mid
    <2>2. CASE ~read.halt
      BY <1>3, <1>5, <2>2, LastPieceKeeps
    <2> QED
      BY <2>1, <2>2
  <1>7. Same(rest, d) /\ d.errno = rest.errno /\ ~d.halt /\ d.mark = NoMark
    BY <1>4, <1>6 DEF Core, Types, Same, HasFields, Fields
  <1>8. Core(d) /\ (d.errno = "OK" => Whole(d) /\ Routed(d))
    BY <1>6, <1>7, SameKeeps
  <1> QED
    BY <1>7, <1>8 DEF Rest, Core, Answering, Parting

LEMMA FeedKeeps ==
  ASSUME NEW k, Rest(k), LastCloses(k) => Dead(k) \/ Leaving(k), NEW data, Len(data) \in Nat,
         NEW d, d = Parser!Feed(k, data)
  PROVE  Rest(d) /\ (LastCloses(d) => Dead(d) \/ Parting(d))
  <1>1. CASE k.message_complete \/ k.errno # "OK"
    <2>1. d = k
      BY <1>1 DEF Parser!Feed
    <2> QED
      BY <2>1 DEF Leaving, Parting
  <1>2. CASE ~k.message_complete /\ k.errno = "OK"
    <2>1. d = Parser!Execute(k, data)
      BY <1>2 DEF Parser!Feed
    <2>2. LastCloses(k) => Dead(k)
      BY <1>2 DEF Leaving
    <2> QED
      BY <1>2, <2>1, <2>2, ExecuteKeeps
  <1> QED
    BY <1>1, <1>2

-----------------------------------------------------------------------------
(* The handlers                                                            *)

\* What a handler does to the connection besides parsing and answering: timers, the
\* pending read, an end of the stream, a close, a reset.
Aside(k, d) ==
  /\ HasFields(d)
  /\ d.state = k.state /\ d.header_state = k.header_state /\ d.content_length = k.content_length
  /\ d.flags = k.flags /\ d.te = k.te /\ d.upgrade = k.upgrade /\ d.mark = k.mark
  /\ d.halt = k.halt /\ d.message_complete = k.message_complete
  /\ d.errno = "OK" => k.errno = "OK"
  /\ d.rule = k.rule /\ d.close_connection = k.close_connection
  /\ d.writes = k.writes /\ d.log = k.log /\ d.out = k.out /\ d.res = k.res
  /\ d.open \in BOOLEAN /\ (d.open => k.open)
  /\ d.reading \in BOOLEAN /\ d.deadline \in BOOLEAN /\ d.threw \in BOOLEAN
  /\ d.reset \in {"no", "soon", "yes"}
  /\ (k.reset # "no" => d.reset # "no") /\ (k.reset = "yes" => d.reset = "yes")

LEMMA AsideOn ==
  ASSUME NEW k, NEW m, Aside(k, m), NEW d, Aside(m, d)
  PROVE  Aside(k, d)
  BY DEF Aside

LEMMA AsideKeeps ==
  ASSUME NEW k, Rest(k), NEW d, Aside(k, d)
  PROVE  /\ Rest(d)
         /\ (LastCloses(d) => LastCloses(k)) /\ (Dead(k) => Dead(d)) /\ (Leaving(k) => Leaving(d))
  <1>1. Struct(d) /\ Types(d)
    BY DEF Rest, Aside, Struct, Types
  <1>2. OnlyLast(d) /\ (AllLeave(d) \/ ~d.open \/ d.reset # "no")
    BY DEF Rest, Aside, OnlyLast, AllLeave, Types
  <1>3. d.errno = "OK" => Whole(d) /\ Routed(d)
    BY DEF Rest, Aside, Whole, Routed, AtTheEnd
  <1>4. (LastCloses(d) => LastCloses(k)) /\ (Dead(k) => Dead(d)) /\ (Leaving(k) => Leaving(d))
    BY DEF Aside, LastCloses, Dead, Leaving, HeadLeaves
  <1> QED
    BY <1>1, <1>2, <1>3, <1>4 DEF Rest, Aside

LEMMA QuietIsAside ==
  ASSUME NEW k, Rest(k)
  PROVE  /\ Aside(k, k)
         /\ Aside(k, Close(k)) /\ Close(k).open = FALSE
         /\ Aside(k, Done(k))
         /\ Aside(k, Release(k)) /\ Release(k).reset = k.reset
         /\ \A b \in BOOLEAN : Aside(k, [k EXCEPT !.deadline = b])
         /\ \A b \in BOOLEAN : Aside(k, [k EXCEPT !.reading = b])
         /\ Aside(k, [k EXCEPT !.readAfter = TRUE])
  <1>1. HasFields(k) /\ Types(k)
    BY DEF Rest
  <1>2. Aside(k, k)
    BY <1>1 DEF Aside, Types
  <1>3. Aside(k, Close(k)) /\ Close(k).open = FALSE /\ Close(k).reset = k.reset
    BY <1>1 DEF Aside, Types, Close, HasFields, Fields
  <1>4. Aside(k, [k EXCEPT !.errno = "INVALID_EOF_STATE"])
    BY <1>1 DEF Aside, Types, HasFields, Fields
  <1>5. Aside(k, Done(k))
    BY <1>2, <1>4 DEF Done
  <1>6. Aside(k, Release(k)) /\ Release(k).reset = k.reset
    BY <1>2, <1>3 DEF Release
  <1>7. ASSUME NEW b \in BOOLEAN
        PROVE  Aside(k, [k EXCEPT !.deadline = b]) /\ Aside(k, [k EXCEPT !.reading = b])
    BY <1>1 DEF Aside, Types, HasFields, Fields
  <1>8. Aside(k, [k EXCEPT !.readAfter = TRUE])
    BY <1>1 DEF Aside, Types, HasFields, Fields
  <1> QED
    BY <1>2, <1>3, <1>5, <1>6, <1>7, <1>8

LEMMA AfterReadIsAside ==
  ASSUME NEW k, NEW f, Rest(f), NEW d, d = AfterRead(k, f)
  PROVE  Aside(f, d)
  <1>1. PICK q : q = [[f EXCEPT !.deadline = FALSE] EXCEPT !.reading = FALSE]
    OBVIOUS
  <1>2. PICK n : n = [f EXCEPT !.deadline = FALSE]
    OBVIOUS
  <1>3. Aside(f, n) /\ Rest(n)
    BY <1>2, QuietIsAside, AsideKeeps
  <1>4. Aside(n, q) /\ Rest(q)
    BY <1>1, <1>2, <1>3, QuietIsAside, AsideKeeps
  <1>5. Aside(f, q)
    BY <1>3, <1>4, AsideOn
  <1>6. Aside(q, Done(q)) /\ Rest(Done(q))
    BY <1>4, QuietIsAside, AsideKeeps
  <1>7. Aside(Done(q), Close(Done(q)))
    BY <1>6, QuietIsAside
  <1>8. Aside(f, Done(q)) /\ Aside(f, Close(Done(q)))
    BY <1>5, <1>6, <1>7, AsideOn
  <1>9. Aside(f, [f EXCEPT !.reading = FALSE]) /\ Aside(f, [f EXCEPT !.deadline = TRUE])
    BY QuietIsAside
  <1>10. Aside(f, [f EXCEPT !.reading = FALSE, !.readAfter = TRUE])
    <2>1. PICK m : m = [f EXCEPT !.reading = FALSE]
      OBVIOUS
    <2>2. Aside(f, m) /\ Rest(m)
      BY <1>9, <2>1, AsideKeeps
    <2>3. Aside(m, [m EXCEPT !.readAfter = TRUE])
      BY <2>2, QuietIsAside
    <2> QED
      BY <2>1, <2>2, <2>3, AsideOn
  <1>11. \/ d = [f EXCEPT !.reading = FALSE] \/ d = Close(Done(q)) \/ d = Done(q)
         \/ d = [f EXCEPT !.deadline = TRUE] \/ d = [f EXCEPT !.reading = FALSE, !.readAfter = TRUE]
    BY <1>1 DEF AfterRead
  <1> QED
    BY <1>8, <1>9, <1>10, <1>11

LEMMA TailIs ==
  ASSUME NEW S, NEW x \in Seq(S), x # <<>>, NEW w, w = Tail(x)
  PROVE  w \in Seq(S) /\ \A i \in DOMAIN w : i + 1 \in DOMAIN x /\ w[i] = x[i + 1]
  <1>1. w \in Seq(S) /\ Len(w) = Len(x) - 1 /\ \A i \in 1..Len(w) : w[i] = x[i + 1]
    BY HeadTailProperties
  <1>2. Len(x) \in Nat /\ DOMAIN x = 1..Len(x) /\ DOMAIN w = 1..Len(w)
    BY <1>1
  <1> QED
    BY <1>1, <1>2

\* The end of a write: the connection closes if it was the answer to the request that
\* asked for that.
LEMMA WriteDoneKeeps ==
  ASSUME NEW k, Rest(k), LastCloses(k) => Dead(k) \/ Leaving(k), k.writes # <<>>,
         NEW n, n = [k EXCEPT !.writes = Tail(@), !.res = ClearResponse(@), !.copy = 0,
                              !.continue_requested = FALSE],
         NEW m, m = n \/ m = Clear(n),
         NEW d, d = IF Head(k.writes) /\ k.close_connection THEN Close(m) ELSE m
  PROVE  /\ Rest(d) /\ (LastCloses(d) => Dead(d))
         /\ d.reset = k.reset
  <1>1. /\ HasFields(k) /\ Struct(k) /\ Types(k) /\ OnlyLast(k) /\ ~k.halt /\ k.mark = NoMark
        /\ k.errno = "OK" => Whole(k) /\ Routed(k)
        /\ AllLeave(k) \/ ~k.open \/ k.reset # "no"
    BY DEF Rest
  <1>2. PICK w, r : w = Tail(k.writes) /\ r = ClearResponse(k.res)
    OBVIOUS
  <1>3. PICK x : x = k.writes
    OBVIOUS
  <1>4. /\ w \in Seq(BOOLEAN)
        /\ \A i \in DOMAIN w : i + 1 \in DOMAIN k.writes /\ w[i] = k.writes[i + 1]
    <2>1. PICK B : B = BOOLEAN
      OBVIOUS
    <2>2. x \in Seq(B) /\ x # <<>> /\ w = Tail(x)
      BY <1>1, <1>2, <1>3, <2>1 DEF Types
    <2>3. w \in Seq(B) /\ \A i \in DOMAIN w : i + 1 \in DOMAIN x /\ w[i] = x[i + 1]
      BY <2>2, TailIs
    <2> QED
      BY <1>3, <2>1, <2>3
  <1>5. ResFields \subseteq DOMAIN r /\ Told(k.out, r)
    <2>1. Heir(k.res, r) /\ Told(k.out, k.res)
      BY <1>1, <1>2, AssignIs DEF ClearResponse, HasFields, Types
    <2> QED
      BY <2>1, HeirTold DEF Heir
  <1>6. n = [k EXCEPT !.writes = w, !.res = r, !.copy = 0, !.continue_requested = FALSE]
    BY <1>1, <1>2 DEF HasFields, Fields
  <1>7. /\ HasFields(n) /\ Struct(n) /\ Types(n) /\ OnlyLast(n) /\ ~n.halt /\ n.mark = NoMark
        /\ n.errno = k.errno /\ n.state = k.state /\ n.message_complete = k.message_complete
        /\ n.flags = k.flags /\ n.upgrade = k.upgrade /\ n.te = k.te
        /\ n.content_length = k.content_length /\ n.rule = k.rule
        /\ n.res = r /\ n.writes = w /\ n.log = k.log /\ n.out = k.out /\ n.open = k.open /\ n.reset = k.reset
    <2>1. /\ HasFields(n) /\ ~n.halt /\ n.mark = NoMark /\ n.header_state = k.header_state
          /\ n.errno = k.errno /\ n.state = k.state /\ n.message_complete = k.message_complete
          /\ n.flags = k.flags /\ n.upgrade = k.upgrade /\ n.te = k.te
          /\ n.content_length = k.content_length /\ n.rule = k.rule /\ n.halt = k.halt
          /\ n.res = r /\ n.writes = w /\ n.log = k.log /\ n.out = k.out /\ n.open = k.open /\ n.reset = k.reset
          /\ n.reading = k.reading /\ n.deadline = k.deadline /\ n.threw = k.threw
      BY <1>1, <1>5, <1>6 DEF HasFields, Fields
    <2> QED
      BY <1>1, <1>4, <1>5, <2>1 DEF Struct, Types, OnlyLast
  <1>8. /\ Rest(n) /\ (LastCloses(n) => LastCloses(k))
    <2>1. AllLeave(k) => AllLeave(n)
      BY <1>4, <1>7 DEF AllLeave
    <2>2. n.errno = "OK" => Whole(n) /\ Routed(n)
      BY <1>1, <1>7 DEF Whole, Routed, AtTheEnd
    <2> QED
      BY <1>1, <1>7, <2>1, <2>2 DEF Rest, LastCloses
  <1>9. /\ Rest(m) /\ (LastCloses(m) => LastCloses(n)) /\ m.open = n.open /\ m.reset = n.reset
    <2>1. CASE m = n
      BY <1>8, <2>1
    <2>2. CASE m = Clear(n)
      <3>1. Cleared(n, m)
        BY <1>7, <2>2, ClearIs
      <3>2. HasFields(m) /\ Struct(m) /\ Types(m)
        BY <1>7, <3>1, StateNames DEF Cleared, HasFields, Struct, Types
      <3>3. /\ OnlyLast(m) /\ (LastCloses(m) => LastCloses(n))
            /\ AllLeave(m) \/ ~m.open \/ m.reset # "no"
        BY <1>8, <3>1 DEF Cleared, OnlyLast, LastCloses, AllLeave, Rest
      <3>4. Whole(m) /\ Routed(m)
        BY <3>1 DEF Cleared, Whole, Routed, Unrouted
      <3> QED
        BY <1>8, <3>1, <3>2, <3>3, <3>4 DEF Rest, Cleared
    <2> QED
      BY <2>1, <2>2
  <1>10. CASE Head(k.writes) /\ k.close_connection
    <2>1. d = Close(m)
      BY <1>10
    <2>2. Aside(m, d) /\ d.open = FALSE
      <3>1. Rest(m)
        BY <1>9
      <3>2. Aside(m, Close(m)) /\ Close(m).open = FALSE
        BY <3>1, QuietIsAside
      <3> QED
        BY <2>1, <3>2
    <2>3. d.reset = m.reset
      BY <1>9, <2>1 DEF Close, Rest, HasFields, Fields
    <2> QED
      BY <1>7, <1>9, <2>2, <2>3, AsideKeeps DEF Dead
  <1>11. CASE ~(Head(k.writes) /\ k.close_connection)
    <2>1. d = m
      BY <1>11
    <2>2. LastCloses(k) => Dead(k)
      BY <1>11 DEF Leaving, HeadLeaves
    <2> QED
      BY <1>7, <1>8, <1>9, <2>1, <2>2 DEF Dead
  <1> QED
    BY <1>10, <1>11

-----------------------------------------------------------------------------
(* The specification                                                       *)

HttpInvariant ==
  /\ Rest(c) /\ (LastCloses(c) => Dead(c) \/ Leaving(c))
  /\ peer \in {"open", "shut", "reset"} /\ cuts \in 0..MaxCuts /\ wire \in Seq(STRING)

LEMMA HttpInit == Init => HttpInvariant
  <1> SUFFICES ASSUME Init PROVE HttpInvariant
    OBVIOUS
  <1>1. PICK p, n : p = NewParser /\ n = NewConnection
    OBVIOUS
  <1>2. c = [f \in DOMAIN p \cup DOMAIN n |-> IF f \in DOMAIN p THEN p[f] ELSE n[f]]
    BY <1>1 DEF Init
  <1>3. /\ DOMAIN p = {"state", "header_state", "errno", "nread", "method", "content_length", "flags",
                       "te", "ver", "upgrade", "qs_point", "mark", "piece", "urlStart", "halt",
                       "unread", "message_complete", "building", "header_field", "header_value",
                       "req"}
        /\ p.state = "s_start_req" /\ p.header_state = "h_general" /\ p.errno = "OK"
        /\ p.content_length = 0 /\ p.flags = {} /\ p.te = FALSE /\ p.upgrade = FALSE
        /\ p.mark = NoMark /\ p.halt = FALSE /\ p.message_complete = FALSE /\ p.req = NoRequest
    BY <1>1 DEF NewParser
  <1>4. /\ DOMAIN n = {"rule", "res", "copy", "onComplete", "needAfter", "readAfter",
                       "add_keep_alive", "close_connection", "continue_requested", "open",
                       "reading", "writes", "deadline", "threw", "reset", "out", "log"}
        /\ n.rule = NoRule /\ n.res = NewResponse /\ n.open = TRUE /\ n.reading = TRUE
        /\ n.writes = <<>> /\ n.deadline = TRUE /\ n.threw = FALSE /\ n.reset = "no" /\ n.log = <<>>
        /\ n.out = <<>>
    BY <1>1 DEF NewConnection
  <1>5. /\ DOMAIN c = DOMAIN p \cup DOMAIN n
        /\ \A f \in DOMAIN p : c[f] = p[f]
        /\ \A f \in DOMAIN n : f \notin DOMAIN p => c[f] = n[f]
    BY <1>2
  <1>6. /\ c.state = "s_start_req" /\ c.header_state = "h_general" /\ c.errno = "OK"
        /\ c.content_length = 0 /\ c.flags = {} /\ c.te = FALSE /\ c.upgrade = FALSE
        /\ c.mark = NoMark /\ c.halt = FALSE /\ c.message_complete = FALSE /\ c.req = NoRequest
    BY <1>3, <1>5
  <1>7. /\ c.rule = NoRule /\ c.res = NewResponse /\ c.open = TRUE /\ c.reading = TRUE
        /\ c.writes = <<>> /\ c.deadline = TRUE /\ c.threw = FALSE /\ c.reset = "no" /\ c.log = <<>>
        /\ c.out = <<>>
    BY <1>3, <1>4, <1>5
  <1>8. HasFields(c)
    <2>1. Fields \subseteq DOMAIN c
      BY <1>3, <1>4, <1>5 DEF Fields
    <2>2. ReqFields \subseteq DOMAIN c.req /\ ResFields \subseteq DOMAIN c.res
      BY <1>6, <1>7 DEF ReqFields, ResFields, NoRequest, NewResponse
    <2> QED
      BY <2>1, <2>2 DEF HasFields
  <1>9. Struct(c)
    <2>1. 0 \in 0..UllongMax
      BY ParserAssumption
    <2>2. "s_start_req" \in States /\ "h_general" \in HeaderStates /\ {} \subseteq Flags
      BY StateNames DEF HeaderStates
    <2> QED
      BY <1>6, <2>1, <2>2 DEF Struct
  <1>10. Types(c) /\ OnlyLast(c) /\ AllLeave(c) /\ ~LastCloses(c)
    <2>1. <<>> \in Seq(BOOLEAN) /\ DOMAIN <<>> = {}
      OBVIOUS
    <2>2. Types(c)
      <3>1. Told(c.out, c.res)
        BY <1>7, <2>1 DEF Told, Says, NewResponse
      <3> QED
        BY <1>7, <2>1, <3>1 DEF Types
    <2>3. OnlyLast(c) /\ AllLeave(c) /\ ~LastCloses(c)
      BY <1>7, <2>1 DEF OnlyLast, AllLeave, LastCloses
    <2> QED
      BY <2>2, <2>3
  <1>11. Whole(c) /\ Routed(c)
    BY <1>6 DEF Whole, Routed, Unrouted
  <1>12. Rest(c)
    BY <1>6, <1>8, <1>9, <1>10, <1>11 DEF Rest
  <1> QED
    BY <1>7, <1>10, <1>12, SiteAssumption DEF Init, HttpInvariant

LEMMA ReadSomeKeeps ==
  ASSUME HttpInvariant, NEW n \in 1..Len(wire), ReadSome(n)
  PROVE  HttpInvariant'
  <1>1. PICK fed : fed = Parser!Feed(c, SubSeq(wire, 1, n))
    OBVIOUS
  <1>2. PICK after : after = AfterRead(c, fed)
    OBVIOUS
  <1>3. PICK noted : noted = [after EXCEPT !.reset = IF @ = "no" THEN "no" ELSE "yes"]
    OBVIOUS
  <1>4. c' = Release(noted)
    BY <1>1, <1>2, <1>3 DEF ReadSome
  <1>5. Len(wire) \in Nat /\ wire \in Seq(STRING)
    BY DEF HttpInvariant
  <1>6. Len(SubSeq(wire, 1, n)) \in Nat /\ SubSeq(wire, n + 1, Len(wire)) \in Seq(STRING)
    BY <1>5
  <1>7. Rest(c) /\ (LastCloses(c) => Dead(c) \/ Leaving(c))
    BY DEF HttpInvariant
  <1>8. Rest(fed) /\ (LastCloses(fed) => Dead(fed) \/ Parting(fed))
    BY <1>1, <1>6, <1>7, FeedKeeps
  <1>9. Aside(fed, after) /\ Rest(after)
    BY <1>2, <1>8, AfterReadIsAside, AsideKeeps
  <1>10. /\ Aside(after, noted) /\ noted.reset \in {"no", "yes"}
         /\ noted.reset = "no" => after.reset = "no"
    BY <1>3, <1>9 DEF Rest, Aside, Types, HasFields, Fields
  <1>11. Aside(fed, noted) /\ Rest(noted)
    BY <1>9, <1>10, AsideOn, AsideKeeps
  <1>12. LastCloses(noted) => Dead(noted) \/ Leaving(noted)
    BY <1>8, <1>10, <1>11, AsideKeeps DEF Parting, Leaving, HeadLeaves, Aside, Dead
  <1>13. Aside(noted, c') /\ c'.reset = noted.reset
    BY <1>4, <1>11, QuietIsAside
  <1>14. Rest(c') /\ (LastCloses(c') => Dead(c') \/ Leaving(c'))
    BY <1>11, <1>12, <1>13, AsideKeeps
  <1>15. cuts' \in 0..MaxCuts
    BY SiteAssumption DEF HttpInvariant, ReadSome
  <1>16. wire' \in Seq(STRING) /\ peer' \in {"open", "shut", "reset"}
    BY <1>6 DEF HttpInvariant, ReadSome
  <1> QED
    BY <1>14, <1>15, <1>16 DEF HttpInvariant

LEMMA SendKeeps ==
  ASSUME HttpInvariant, NEW m \in Messages, Send(m)
  PROVE  HttpInvariant'
  <1>1. m.bytes \in Seq(STRING) /\ wire \in Seq(STRING)
    BY SiteAssumption DEF HttpInvariant
  <1>2. wire \o m.bytes \in Seq(STRING)
    BY <1>1
  <1> QED
    BY <1>2 DEF HttpInvariant, Send

LEMMA ReadFailsKeeps ==
  ASSUME HttpInvariant, ReadFails
  PROVE  HttpInvariant'
  <1>1. PICK a : a = [c EXCEPT !.deadline = FALSE]
    OBVIOUS
  <1>2. PICK b : b = [a EXCEPT !.reading = FALSE]
    OBVIOUS
  <1>3. c' = Release(Close(Done(b)))
    BY <1>1, <1>2 DEF ReadFails
  <1>4. Rest(c)
    BY DEF HttpInvariant
  <1>5. Aside(c, a) /\ Rest(a)
    BY <1>1, <1>4, QuietIsAside, AsideKeeps
  <1>6. Aside(a, b) /\ Rest(b)
    BY <1>2, <1>5, QuietIsAside, AsideKeeps
  <1>7. Rest(Done(b))
    BY <1>6, QuietIsAside, AsideKeeps
  <1>8. Rest(Close(Done(b))) /\ Close(Done(b)).open = FALSE
    BY <1>7, QuietIsAside, AsideKeeps
  <1>9. Aside(Close(Done(b)), c')
    BY <1>3, <1>8, QuietIsAside
  <1>10. Rest(c') /\ Dead(c')
    BY <1>8, <1>9, AsideKeeps DEF Dead
  <1> QED
    BY <1>10 DEF HttpInvariant, ReadFails

LEMMA WriteDoneStepKeeps ==
  ASSUME HttpInvariant, WriteDone
  PROVE  HttpInvariant'
  <1>1. PICK n : n = [c EXCEPT !.writes = Tail(@), !.res = ClearResponse(@), !.copy = 0,
                               !.continue_requested = FALSE]
    OBVIOUS
  <1>2. PICK m : m = IF c.continue_requested THEN n ELSE Clear(n)
    OBVIOUS
  <1>3. PICK d : d = IF Head(c.writes) /\ c.close_connection THEN Close(m) ELSE m
    OBVIOUS
  <1>4. c' = Release(d)
    BY <1>1, <1>2, <1>3 DEF WriteDone
  <1>5. m = n \/ m = Clear(n)
    BY <1>2
  <1>6. Rest(c) /\ (LastCloses(c) => Dead(c) \/ Leaving(c)) /\ c.writes # <<>>
    BY DEF HttpInvariant, WriteDone
  <1>7. Rest(d) /\ (LastCloses(d) => Dead(d))
    BY <1>1, <1>3, <1>5, <1>6, WriteDoneKeeps
  <1>8. Aside(d, c')
    BY <1>4, <1>7, QuietIsAside
  <1>9. Rest(c') /\ (LastCloses(c') => Dead(c'))
    BY <1>7, <1>8, AsideKeeps
  <1> QED
    BY <1>9 DEF HttpInvariant, WriteDone

LEMMA ExpireKeeps ==
  ASSUME HttpInvariant, Expire
  PROVE  HttpInvariant'
  <1>1. PICK a : a = [c EXCEPT !.deadline = FALSE]
    OBVIOUS
  <1>2. c' = Release(Close(a))
    BY <1>1 DEF Expire
  <1>3. Rest(c)
    BY DEF HttpInvariant
  <1>4. Rest(a)
    BY <1>1, <1>3, QuietIsAside, AsideKeeps
  <1>5. Rest(Close(a)) /\ Close(a).open = FALSE
    BY <1>4, QuietIsAside, AsideKeeps
  <1>6. Aside(Close(a), c')
    BY <1>2, <1>5, QuietIsAside
  <1>7. Rest(c') /\ Dead(c')
    BY <1>5, <1>6, AsideKeeps DEF Dead
  <1> QED
    BY <1>7 DEF HttpInvariant, Expire

LEMMA PeerResetKeeps ==
  ASSUME HttpInvariant, PeerReset
  PROVE  HttpInvariant'
  <1>1. PICK when \in {"yes", "soon"} : c' = [c EXCEPT !.reset = when]
    BY DEF PeerReset
  <1>2. Rest(c) /\ (LastCloses(c) => Dead(c) \/ Leaving(c)) /\ c.reset = "no"
    BY DEF HttpInvariant, PeerReset
  <1>3. Aside(c, c')
    BY <1>1, <1>2 DEF Rest, Aside, Types, HasFields, Fields
  <1>4. Rest(c') /\ (LastCloses(c') => Dead(c') \/ Leaving(c'))
    BY <1>2, <1>3, AsideKeeps
  <1> QED
    BY <1>4 DEF HttpInvariant, PeerReset

\* The inductive invariant is kept by every step.
LEMMA HttpStep == HttpInvariant /\ [Next]_vars => HttpInvariant'
  <1> SUFFICES ASSUME HttpInvariant, [Next]_vars PROVE HttpInvariant'
    OBVIOUS
  <1>1. ASSUME NEW m \in Messages, Send(m) PROVE HttpInvariant'
    BY <1>1, SendKeeps
  <1>2. ASSUME NEW n \in 1..Len(wire), ReadSome(n) PROVE HttpInvariant'
    BY <1>2, ReadSomeKeeps
  <1>3. CASE ReadFails
    BY <1>3, ReadFailsKeeps
  <1>4. CASE WriteDone
    BY <1>4, WriteDoneStepKeeps
  <1>5. CASE Expire
    BY <1>5, ExpireKeeps
  <1>6. CASE PeerShut
    BY <1>6 DEF HttpInvariant, PeerShut
  <1>7. CASE PeerReset
    BY <1>7, PeerResetKeeps
  <1>8. CASE UNCHANGED vars
    BY <1>8 DEF HttpInvariant, vars
  <1> QED
    BY <1>1, <1>2, <1>3, <1>4, <1>5, <1>6, <1>7, <1>8 DEF Next

\* Whatever is sent and however it is cut into reads, the parser's state, the header's
\* state, the flags, the rule and the flags of Connection stay within their types, and the
\* body length that is left within unsigned long long, crow_all.h:1810-1816: it neither
\* overflows while digits are read nor falls below zero while a body is.
THEOREM HttpTypeCorrect == Spec => []TypeOK
  <1>1. HttpInvariant => TypeOK
    BY DEF HttpInvariant, Rest, Struct, States, Types, TypeOK
  <1>2. Init => HttpInvariant
    BY HttpInit
  <1>3. HttpInvariant /\ [Next]_vars => HttpInvariant'
    BY HttpStep
  <1> QED
    BY <1>1, <1>2, <1>3, PTL DEF Spec

\* After a request that asks for the connection to be closed no handler of a route runs
\* any more, for every site, every stream of tokens and every way to cut it into reads:
\* Connection::handle and complete_request, crow_all.h:9145.
THEOREM ClosesAreHonoured == Spec => []CloseHonoured
  <1>1. HttpInvariant => CloseHonoured
    BY DEF HttpInvariant, Rest, OnlyLast, CloseHonoured
  <1>2. Init => HttpInvariant
    BY HttpInit
  <1>3. HttpInvariant /\ [Next]_vars => HttpInvariant'
    BY HttpStep
  <1> QED
    BY <1>1, <1>2, <1>3, PTL DEF Spec

\* Until a HEAD request is routed the length in every head is that of the body that
\* follows it, for every site, every stream of tokens, every order of the ends of reads
\* and writes and every reset: what do_write_general and do_write_static declare and
\* send, the response being cleared or assigned in between, crow_all.h:7390.
THEOREM LengthsAreTold == Spec => []Framed
  <1>1. HttpInvariant => Framed
    BY DEF HttpInvariant, Rest, Types, Told, Framed
  <1>2. Init => HttpInvariant
    BY HttpInit
  <1>3. HttpInvariant /\ [Next]_vars => HttpInvariant'
    BY HttpStep
  <1> QED
    BY <1>1, <1>2, <1>3, PTL DEF Spec
===============================================================================
