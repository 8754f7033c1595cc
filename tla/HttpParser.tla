----------------------------- MODULE HttpParser -----------------------------
(***************************************************************************)
(* http_parser_execute and its wrapper HTTPParser<Handler>: one operator   *)
(* per state of the parser, which takes the connection c and the next      *)
(* token t.  The connection is a record; these operators touch the         *)
(* parser's fields of it (HttpTokens) and hand it to the three callbacks   *)
(* of the handler, which the connection supplies.                          *)
(***************************************************************************)
EXTENDS HttpTokens, SequencesExt

CONSTANTS HandleUrl(_), HandleHeader(_), Handle(_)

Goto(c, s) == [c EXCEPT !.state = s]

\* A callback may set errno; execute then returns.
HaltOnError(c) == [c EXCEPT !.halt = @ \/ c.errno # "OK"]

\* CROW_STRICT_CHECK
Strict(c, ok, next) == IF ok THEN Goto(c, next) ELSE Error(c, "STRICT")

\* CROW_MARK: the piece of data m begins with the token t, unless one has begun.
Mark(c, m, t) == IF c.mark = m THEN [c EXCEPT !.piece = Append(@, t)]
                               ELSE [c EXCEPT !.mark = m, !.piece = <<t>>]
Extend(c, t) == [c EXCEPT !.piece = Append(@, t)]

-----------------------------------------------------------------------------
(* The callbacks of HTTPParser.                                            *)

\* MUTANT: the query string stays in the URL.
Mut_OnUrl(c) ==
  LET raw == c.req.raw_url \o c.piece
  IN  HandleUrl([c EXCEPT !.req.raw_url = raw, !.req.url = raw])

\* The URL is routed on every call, although it may only be a part of it.
OnUrl(c) ==
  LET raw == c.req.raw_url \o c.piece
      url == IF c.qs_point # 0 /\ c.qs_point < Len(raw) THEN SubSeq(raw, 1, c.qs_point)
                                                        ELSE raw
  IN  HandleUrl([c EXCEPT !.req.raw_url = raw, !.req.url = url])

Emplace(c) == [c EXCEPT !.req.headers = @ \cup {<<c.header_field, c.header_value>>},
                        !.header_field = <<>>, !.header_value = <<>>]

OnHeaderField(c) ==
  IF c.building = 1 THEN [c EXCEPT !.header_field = @ \o c.piece]
  ELSE LET before == IF c.header_value # <<>> THEN Emplace(c) ELSE c
       IN  [before EXCEPT !.header_field = c.piece, !.building = 1]

OnHeaderValue(c) ==
  [c EXCEPT !.header_value = IF c.building = 1 THEN c.piece ELSE @ \o c.piece,
            !.building = 0]

\* set_connection_parameters
ConnectionParameters(c) ==
  LET keep == "F_CONNECTION_KEEP_ALIVE" \in c.flags
  IN  [c EXCEPT !.req.ver = c.ver,
                !.req.keep_alive = c.ver = <<1, 1>> \/ (c.ver = <<1, 0>> /\ keep),
                !.req.close_connection = \/ c.ver = <<1, 0>> /\ ~keep
                                         \/ c.ver = <<1, 1>> /\ "F_CONNECTION_CLOSE" \in c.flags,
                !.req.upgrade = c.upgrade]

OnHeadersComplete(c) ==
  HandleHeader(ConnectionParameters(IF c.header_field # <<>> THEN Emplace(c) ELSE c))

OnBody(c) == [c EXCEPT !.req.body = @ \o c.piece]

OnMessageComplete(c) == HaltOnError(Handle([c EXCEPT !.message_complete = TRUE]))

\* CROW_CALLBACK_DATA_ for the piece that is marked, if one is.
Deliver(c) ==
  IF c.mark = NoMark THEN c
  ELSE LET called == CASE c.mark = "url"          -> OnUrl(c)
                       [] c.mark = "header_field" -> OnHeaderField(c)
                       [] c.mark = "header_value" -> OnHeaderValue(c)
                       [] c.mark = "body"         -> OnBody(c)
       IN  HaltOnError([called EXCEPT !.mark = NoMark, !.piece = <<>>])

-----------------------------------------------------------------------------
(* The request line.                                                       *)

StartReq(c, t) ==
  IF t \in {Cr, Lf} THEN c
  ELSE LET new == [c EXCEPT !.flags = {}, !.te = FALSE, !.content_length = UllongMax]
       IN  IF t \notin Methods THEN Error(new, "INVALID_METHOD")
           ELSE [new EXCEPT !.method = t, !.state = "s_req_method", !.req.method = t]

ReqMethod(c, t) == IF t = Sp THEN Goto(c, "s_req_spaces_before_url")
                             ELSE Error(c, "INVALID_METHOD")

\* parse_url_char: the state after t in state s, s_dead for an error.
ParseUrlChar(s, t) ==
  CASE t \in White \cup {Cr, Lf}                     -> "s_dead"
    [] s = "s_req_spaces_before_url" /\ t \in {"/", "*"} -> "s_req_path"
    [] s \in {"s_req_spaces_before_url", "s_req_schema"} /\ IsAlpha(t) -> "s_req_schema"
    [] s = "s_req_schema" /\ t = ":"                 -> "s_req_schema_slash"
    [] s = "s_req_schema_slash" /\ t = "/"           -> "s_req_schema_slash_slash"
    [] s = "s_req_schema_slash_slash" /\ t = "/"     -> "s_req_server_start"
    [] s \in {"s_req_server_start", "s_req_server", "s_req_server_with_at"} ->
         (CASE t = "/"            -> "s_req_path"
            [] t = "?"            -> "s_req_query_string_start"
            [] t = "@" /\ s # "s_req_server_with_at" -> "s_req_server_with_at"
            [] IsUserInfoChar(t)  -> "s_req_server"
            [] OTHER              -> "s_dead")
    [] s = "s_req_path" /\ t = "?"                   -> "s_req_query_string_start"
    [] s = "s_req_path" /\ IsUrlChar(t)              -> "s_req_path"
    [] s \in {"s_req_query_string_start", "s_req_query_string"} /\ (IsUrlChar(t) \/ t = "?")
                                                     -> "s_req_query_string"
    [] OTHER                                         -> "s_dead"

\* The first '?' is at p - url_start_mark: the mark is null when the URL began in an
\* earlier buffer, and the difference then lies beyond the end of every URL.
UrlChar(c, t) ==
  LET s == ParseUrlChar(c.state, t)
      first == t = "?" /\ s = "s_req_query_string_start"
      qs == IF ~first THEN c.qs_point ELSE IF c.urlStart THEN Len(c.piece) ELSE UllongMax
  IN  IF s = "s_dead" THEN Error(c, "INVALID_URL")
      ELSE Extend([c EXCEPT !.state = s, !.qs_point = qs], t)

SpacesBeforeUrl(c, t) ==
  IF t = Sp THEN c
  ELSE UrlChar([c EXCEPT !.mark = "url", !.piece = <<>>, !.urlStart = TRUE,
                         !.state = IF c.method = "CONNECT" THEN "s_req_server_start" ELSE @], t)

\* No space may come before the path has begun; a URL that a line end ends is HTTP/0.9.
Url(c, t) ==
  IF t \notin {Sp, Cr, Lf} THEN UrlChar(c, t)
  ELSE IF c.state \in {"s_req_schema", "s_req_schema_slash", "s_req_schema_slash_slash",
                       "s_req_server_start"} THEN Error(c, "INVALID_URL")
  ELSE IF t = Sp THEN Deliver(Goto(c, "s_req_http_start"))
  ELSE IF c.method # "GET" THEN Error(Goto(c, "s_dead"), "INVALID_VERSION")
  ELSE Deliver([c EXCEPT !.ver = <<0, 9>>,
         !.state = IF t = Cr THEN "s_req_line_almost_done" ELSE "s_header_field_start"])

Version(c, t) ==
  CASE c.state = "s_req_http_start" ->
         (CASE t = Sp -> c
            [] t = "HTTP" \/ (t = "ICE" /\ c.method = "SOURCE") -> Goto(c, "s_req_http_HTTP")
            [] OTHER -> Error(c, "INVALID_CONSTANT"))
    [] c.state = "s_req_http_HTTP" -> Strict(c, t = "/", "s_req_http_major")
    [] c.state = "s_req_http_major" /\ t \in Digits ->
         [c EXCEPT !.ver = <<DigitValue[t], @[2]>>, !.state = "s_req_http_dot"]
    [] c.state = "s_req_http_dot" /\ t = "." -> Goto(c, "s_req_http_minor")
    [] c.state = "s_req_http_minor" /\ t \in Digits ->
         [c EXCEPT !.ver = <<@[1], DigitValue[t]>>, !.state = "s_req_http_end"]
    [] c.state = "s_req_http_end" /\ t = Cr -> Goto(c, "s_req_line_almost_done")
    [] c.state = "s_req_http_end" /\ t = Lf -> Goto(c, "s_header_field_start")
    [] OTHER -> Error(c, "INVALID_VERSION")

ReqLineAlmostDone(c, t) ==
  IF t = Lf THEN Goto(c, "s_header_field_start") ELSE Error(c, "LF_EXPECTED")

-----------------------------------------------------------------------------
(* The body.                                                               *)

MessageDone(c) == OnMessageComplete(c)

\* The last byte of a body of known length completes the message at once.
BodyIdentity(c, t) ==
  LET more == [Mark(c, "body", t) EXCEPT !.content_length = @ - 1]
      last == Deliver(Goto(more, "s_message_done"))
  IN  IF more.content_length > 0 THEN more
      ELSE IF last.halt THEN last ELSE MessageDone(last)

ChunkSizeStart(c, t) ==
  IF t \in Digits THEN [c EXCEPT !.content_length = DigitValue[t], !.state = "s_chunk_size"]
                  ELSE Error(c, "INVALID_CHUNK_SIZE")

ChunkSize(c, t) ==
  IF t = Cr THEN Goto(c, "s_chunk_size_almost_done")
  ELSE IF t \in {";", Sp} THEN Goto(c, "s_chunk_parameters")
  ELSE IF t \notin Digits THEN Error(c, "INVALID_CHUNK_SIZE")
  ELSE IF (UllongMax - 16) \div 16 < c.content_length THEN Error(c, "INVALID_CONTENT_LENGTH")
  ELSE [c EXCEPT !.content_length = @ * 16 + DigitValue[t]]

ChunkSizeAlmostDone(c, t) ==
  IF t # Lf THEN Error(c, "STRICT")
  ELSE IF c.content_length = 0
    THEN [c EXCEPT !.nread = 0, !.flags = @ \cup {"F_TRAILING"}, !.state = "s_header_field_start"]
    ELSE [c EXCEPT !.nread = 0, !.state = "s_chunk_data"]

ChunkData(c, t) ==
  LET more == [Mark(c, "body", t) EXCEPT !.content_length = @ - 1]
  IN  IF more.content_length = 0 THEN Goto(more, "s_chunk_data_almost_done") ELSE more

Chunk(c, t) ==
  CASE c.state = "s_chunk_size_start"       -> ChunkSizeStart(c, t)
    [] c.state = "s_chunk_size"             -> ChunkSize(c, t)
    [] c.state = "s_chunk_parameters"       -> IF t = Cr THEN Goto(c, "s_chunk_size_almost_done")
                                                         ELSE c
    [] c.state = "s_chunk_size_almost_done" -> ChunkSizeAlmostDone(c, t)
    [] c.state = "s_chunk_data"             -> ChunkData(c, t)
    [] c.state = "s_chunk_data_almost_done" ->
         IF t = Cr THEN Deliver(Goto(c, "s_chunk_data_done")) ELSE Error(c, "STRICT")
    [] c.state = "s_chunk_data_done"        ->
         Strict([c EXCEPT !.nread = IF t = Lf THEN 0 ELSE @], t = Lf, "s_chunk_size_start")

-----------------------------------------------------------------------------
(* The end of the head.                                                    *)

\* MUTANT: a body of length 0 is waited for.
Mut_HeadersDone(c0, t) ==
  LET c == [c0 EXCEPT !.nread = 0]
  IN  IF t # Lf THEN Error(c0, "STRICT")
      ELSE IF c.upgrade THEN [OnMessageComplete(c) EXCEPT !.halt = TRUE]
      ELSE IF "F_CHUNKED" \in c.flags THEN Goto(c, "s_chunk_size_start")
      ELSE IF c.te THEN Error(c, "INVALID_TRANSFER_ENCODING")
      ELSE IF c.content_length = UllongMax THEN OnMessageComplete(c)
      ELSE Goto(c, "s_body_identity")

\* Nothing leaves s_headers_done when the message has no body.
HeadersDone(c0, t) ==
  LET c == [c0 EXCEPT !.nread = 0]
  IN  IF t # Lf THEN Error(c0, "STRICT")
      ELSE IF c.upgrade THEN [OnMessageComplete(c) EXCEPT !.halt = TRUE]
      ELSE IF "F_CHUNKED" \in c.flags THEN Goto(c, "s_chunk_size_start")
      ELSE IF c.te THEN Error(c, "INVALID_TRANSFER_ENCODING")
      ELSE IF c.content_length \in {0, UllongMax} THEN OnMessageComplete(c)
      ELSE Goto(c, "s_body_identity")

HeadersAlmostDone(c, t) ==
  IF t # Lf THEN Error(c, "STRICT")
  ELSE IF "F_TRAILING" \in c.flags THEN OnMessageComplete(c)
  ELSE IF c.te /\ "F_CONTENTLENGTH" \in c.flags THEN Error(c, "UNEXPECTED_CONTENT_LENGTH")
  ELSE LET done == HaltOnError(OnHeadersComplete(
             [c EXCEPT !.state = "s_headers_done",
                       !.upgrade = "F_UPGRADE" \in c.flags \/ c.method = "CONNECT"]))
       IN  IF done.halt THEN done ELSE HeadersDone(done, t)

-----------------------------------------------------------------------------
(* The headers.                                                            *)

HeaderFieldStart(c, t) ==
  IF t = Cr THEN Goto(c, "s_headers_almost_done")
  ELSE IF t = Lf THEN HeadersAlmostDone(Goto(c, "s_headers_almost_done"), t)
  ELSE IF ~IsToken(t) THEN Error(c, "INVALID_HEADER_TOKEN")
  ELSE LET known == t \in DOMAIN HeaderState
       IN  [Mark(c, "header_field", t) EXCEPT
              !.state = "s_header_field",
              !.header_state = IF known THEN HeaderState[t] ELSE "h_general",
              !.te = @ \/ t = "transfer-encoding"]

\* A name that goes on after a word the parser knows is a name like any other,
\* but uses_transfer_encoding stays.
HeaderField(c, t) ==
  CASE IsToken(t) -> [Extend(c, t) EXCEPT !.header_state = "h_general"]
    [] t = ":"    -> Deliver(Goto(c, "s_header_value_discard_ws"))
    [] OTHER      -> Error(c, "INVALID_HEADER_TOKEN")

\* MUTANT: the next digit is checked against the length before it only.
Mut_MoreLength(c, t) ==
  IF UllongMax < c.content_length THEN Error(c, "INVALID_CONTENT_LENGTH")
  ELSE [c EXCEPT !.content_length = @ * 10 + DigitValue[t]]

\* Appends a digit to the Content-Length.
MoreLength(c, t) ==
  IF (UllongMax - 10) \div 10 < c.content_length THEN Error(c, "INVALID_CONTENT_LENGTH")
  ELSE [c EXCEPT !.content_length = @ * 10 + DigitValue[t]]

HeaderValueStart(c0, t) ==
  LET c == [Mark(c0, "header_value", t) EXCEPT !.state = "s_header_value"]
      h == c.header_state
      In(s) == [c EXCEPT !.header_state = s]
  IN  CASE h = "h_upgrade" -> [In("h_general") EXCEPT !.flags = @ \cup {"F_UPGRADE"}]
        [] h = "h_transfer_encoding" -> In(IF t = "chunked" THEN "h_transfer_encoding_chunked"
                                           ELSE "h_matching_transfer_encoding_token")
        [] h \in {"h_matching_transfer_encoding_token_start", "h_content_length_ws"} -> c
        [] h = "h_content_length" ->
             IF t \notin Digits THEN Error(c, "INVALID_CONTENT_LENGTH")
             ELSE IF "F_CONTENTLENGTH" \in c.flags THEN Error(c, "UNEXPECTED_CONTENT_LENGTH")
             ELSE [In("h_content_length_num") EXCEPT !.flags = @ \cup {"F_CONTENTLENGTH"},
                                                     !.content_length = DigitValue[t]]
        [] h = "h_connection" /\ t = "keep-alive" -> In("h_connection_keep_alive")
        [] h = "h_connection" /\ t = "close"      -> In("h_connection_close")
        [] OTHER -> In("h_general")

HeaderAlmostDone(c, t) ==
  IF t = Lf THEN Goto(c, "s_header_value_lws") ELSE Error(c, "LF_EXPECTED")

\* The state of the header after one more token of its value.
ValueState(h, t) ==
  CASE h \in {"h_general", "h_content_length_ws"} -> h
    [] h = "h_content_length_num" -> IF t = Sp THEN "h_content_length_ws" ELSE h
    [] h = "h_matching_transfer_encoding_token_start" ->
         IF t = "chunked" THEN "h_transfer_encoding_chunked"
         ELSE IF IsToken(t) THEN "h_matching_transfer_encoding_token"
         ELSE IF t \in White THEN h ELSE "h_general"
    [] h = "h_matching_transfer_encoding_token" ->
         IF t = "," THEN "h_matching_transfer_encoding_token_start" ELSE h
    [] h = "h_transfer_encoding_chunked" ->
         IF t = Sp THEN h ELSE "h_matching_transfer_encoding_token"
    [] h \in {"h_connection_keep_alive", "h_connection_close"} -> IF t = Sp THEN h ELSE "h_general"
    [] OTHER -> "h_general"

HeaderValue(c, t) ==
  LET h == c.header_state
      more == [Extend(c, t) EXCEPT !.header_state = ValueState(h, t)]
  IN  IF t = Cr THEN Deliver(Goto(c, "s_header_almost_done"))
      ELSE IF t = Lf THEN HeaderAlmostDone(Deliver(Goto(c, "s_header_almost_done")), t)
      ELSE IF t = Ctl THEN Error(c, "INVALID_HEADER_TOKEN")
      ELSE IF h = "h_content_length_num" /\ t \in Digits THEN MoreLength(more, t)
      ELSE IF h \in {"h_content_length_num", "h_content_length_ws"} /\ t # Sp
        THEN Error(c, "INVALID_CONTENT_LENGTH")
      ELSE more

\* The line after a header: a continuation of its value, or the next header.
HeaderValueLws(c, t) ==
  IF t \in White
    THEN HeaderValueStart([c EXCEPT !.header_state =
           IF @ = "h_content_length_num" THEN "h_content_length_ws" ELSE @], t)
    ELSE LET flag == CASE c.header_state = "h_connection_keep_alive" -> {"F_CONNECTION_KEEP_ALIVE"}
                       [] c.header_state = "h_connection_close"      -> {"F_CONNECTION_CLOSE"}
                       [] c.header_state = "h_transfer_encoding_chunked" -> {"F_CHUNKED"}
                       [] OTHER -> {}
         IN  HeaderFieldStart([c EXCEPT !.flags = @ \cup flag, !.state = "s_header_field_start"], t)

\* Before the first byte of a value, and a value that is empty.
DiscardWhite(c, t) ==
  CASE c.state = "s_header_value_discard_ws" ->
         (CASE t \in White -> c
            [] t = Cr      -> Goto(c, "s_header_value_discard_ws_almost_done")
            [] t = Lf      -> Goto(c, "s_header_value_discard_lws")
            [] OTHER       -> HeaderValueStart(c, t))
    [] c.state = "s_header_value_discard_ws_almost_done" ->
         Strict(c, t = Lf, "s_header_value_discard_lws")
    [] c.state = "s_header_value_discard_lws" ->
         IF t \in White THEN Goto(c, "s_header_value_discard_ws")
         ELSE HeaderFieldStart(Deliver([c EXCEPT !.mark = "header_value", !.piece = <<>>,
                                                 !.state = "s_header_field_start"]), t)

-----------------------------------------------------------------------------
(* One token, and one buffer.                                              *)

Byte(c, t) ==
  CASE c.state = "s_dead" -> IF t \in {Cr, Lf} THEN c ELSE Error(c, "CLOSED_CONNECTION")
    [] c.state = "s_start_req"             -> StartReq(c, t)
    [] c.state = "s_req_method"            -> ReqMethod(c, t)
    [] c.state = "s_req_spaces_before_url" -> SpacesBeforeUrl(c, t)
    [] c.state \in UrlStates               -> Url(c, t)
    [] c.state \in {"s_req_http_start", "s_req_http_HTTP", "s_req_http_major",
                    "s_req_http_dot", "s_req_http_minor", "s_req_http_end"} -> Version(c, t)
    [] c.state = "s_req_line_almost_done"  -> ReqLineAlmostDone(c, t)
    [] c.state = "s_header_field_start"    -> HeaderFieldStart(c, t)
    [] c.state = "s_header_field"          -> HeaderField(c, t)
    [] c.state \in {"s_header_value_discard_ws", "s_header_value_discard_ws_almost_done",
                    "s_header_value_discard_lws"} -> DiscardWhite(c, t)
    [] c.state = "s_header_value"          -> HeaderValue(c, t)
    [] c.state = "s_header_almost_done"    -> HeaderAlmostDone(c, t)
    [] c.state = "s_header_value_lws"      -> HeaderValueLws(c, t)
    [] c.state = "s_headers_almost_done"   -> HeadersAlmostDone(c, t)
    [] c.state = "s_headers_done"          -> HeadersDone(c, t)
    [] c.state = "s_body_identity"         -> BodyIdentity(c, t)
    [] c.state = "s_message_done"          -> MessageDone(c)
    [] OTHER                               -> Chunk(c, t)

\* CROW_COUNT_HEADER_SIZE, then the state's case; nothing after a return.
Count(c, t) ==
  IF c.halt THEN [c EXCEPT !.unread = TRUE]
  ELSE LET counted == IF c.state \in HeadStates THEN [c EXCEPT !.nread = @ + 1] ELSE c
       IN  IF c.state \in HeadStates /\ counted.nread > MaxHeaderSize
             THEN Error(counted, "HEADER_OVERFLOW")
             ELSE Byte(counted, t)

\* A piece that the last buffer left unfinished goes on with this one.
Resume(c) ==
  LET mark == CASE c.state = "s_header_field" -> "header_field"
                [] c.state = "s_header_value" -> "header_value"
                [] c.state \in UrlStates      -> "url"
                [] OTHER                      -> NoMark
  IN  [c EXCEPT !.mark = mark, !.piece = <<>>, !.urlStart = FALSE, !.halt = FALSE,
                !.unread = FALSE]

\* The connection after each token of a buffer.
AfterEach(c, data) ==
  LET after[i \in 0..Len(data)] == IF i = 0 THEN Resume(c) ELSE Count(after[i - 1], data[i])
  IN  after

Execute(c, data) ==
  LET read == AfterEach(c, data)[Len(data)]
      rest == IF read.halt THEN read ELSE Deliver(read)
  IN  [rest EXCEPT !.mark = NoMark, !.piece = <<>>, !.urlStart = FALSE, !.halt = FALSE]

\* HTTPParser::feed: what is read after a message is complete is dropped.
Feed(c, data) == IF c.message_complete \/ c.errno # "OK" THEN c ELSE Execute(c, data)

\* Whether feed returned true: no error, and every byte was taken.
Fed(c, after) == c.message_complete \/ (after.errno = "OK" /\ ~after.unread)
=============================================================================
