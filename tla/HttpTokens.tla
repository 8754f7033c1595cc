----------------------------- MODULE HttpTokens -----------------------------
(***************************************************************************)
(* What the HTTP parser reads and what it remembers.  The bytes of a       *)
(* connection are tokens: one punctuation or control byte, one digit, or a *)
(* whole word that the parser compares letter by letter (a method, the     *)
(* name of a header it knows, "HTTP") or takes as it is.  A read may end   *)
(* between any two tokens.                                                 *)
(***************************************************************************)
EXTENDS Integers, Sequences, FiniteSets

CONSTANTS
  UllongMax,     \* CROW_ULLONG_MAX, scaled down
  MaxHeaderSize  \* max_header_size, in tokens

ASSUME ParserAssumption == UllongMax \in Nat /\ UllongMax >= 9 /\ MaxHeaderSize \in Nat

Sp  == "sp"
Tab == "tab"
Cr  == "cr"
Lf  == "lf"
Ctl == "ctl"  \* a control byte that no header may hold

Methods == {"GET", "POST", "HEAD", "OPTIONS", "CONNECT", "SOURCE"}
DigitValue == [d \in {"0", "1", "2", "3", "9"} |->
                 CASE d = "0" -> 0 [] d = "1" -> 1 [] d = "2" -> 2
                   [] d = "3" -> 3 [] d = "9" -> 9]
Digits == DOMAIN DigitValue
Marks == {"/", "*", ":", "?", "@", ",", ".", ";", "#"}
White == {Sp, Tab}
NotWords == White \cup {Cr, Lf, Ctl} \cup Marks \cup Digits

\* parse_url_char's table of characters; '?' and '#' are not in it.
IsUrlChar(t)      == t \notin White \cup {Cr, Lf, Ctl, "?", "#"}
IsAlpha(t)        == t \notin NotWords
IsUserInfoChar(t) == IsAlpha(t) \/ t \in Digits \cup {".", "*", ";", ":", ","}
\* The table of the characters that a header's name may have.
IsToken(t)        == IsAlpha(t) \/ t \in Digits \cup {"*", "."}

\* The headers whose name the parser matches, and the state it then is in.
HeaderState == [n \in {"connection", "proxy-connection", "content-length",
                       "transfer-encoding", "upgrade"} |->
                  CASE n \in {"connection", "proxy-connection"} -> "h_connection"
                    [] n = "content-length"    -> "h_content_length"
                    [] n = "transfer-encoding" -> "h_transfer_encoding"
                    [] n = "upgrade"           -> "h_upgrade"]

HeaderStates == {"h_general", "h_connection", "h_content_length", "h_content_length_num",
  "h_content_length_ws", "h_transfer_encoding", "h_upgrade",
  "h_matching_transfer_encoding_token_start", "h_matching_transfer_encoding_token",
  "h_transfer_encoding_chunked", "h_connection_keep_alive", "h_connection_close"}

UrlStates == {"s_req_schema", "s_req_schema_slash", "s_req_schema_slash_slash",
  "s_req_server_start", "s_req_server", "s_req_server_with_at", "s_req_path",
  "s_req_query_string_start", "s_req_query_string"}

\* The states before and of s_headers_done: those whose bytes are counted.
HeadStates == UrlStates \cup {"s_dead", "s_start_req", "s_req_method",
  "s_req_spaces_before_url", "s_req_http_start", "s_req_http_HTTP", "s_req_http_major",
  "s_req_http_dot", "s_req_http_minor", "s_req_http_end", "s_req_line_almost_done",
  "s_header_field_start", "s_header_field", "s_header_value_discard_ws",
  "s_header_value_discard_ws_almost_done", "s_header_value_discard_lws",
  "s_header_value", "s_header_value_lws",
  "s_header_almost_done", "s_chunk_size_start", "s_chunk_size", "s_chunk_parameters",
  "s_chunk_size_almost_done", "s_headers_almost_done", "s_headers_done"}
BodyStates == {"s_chunk_data", "s_chunk_data_almost_done", "s_chunk_data_done",
  "s_body_identity", "s_message_done"}

Flags == {"F_CHUNKED", "F_CONNECTION_KEEP_ALIVE", "F_CONNECTION_CLOSE", "F_TRAILING",
          "F_UPGRADE", "F_CONTENTLENGTH"}
\* The pointer that remembers where a piece of data began in this buffer.
NoMark == "none"
DataMarks == {NoMark, "url", "header_field", "header_value", "body"}

\* crow::request, as far as the parser fills it.
NoRequest == [method |-> "GET", raw_url |-> <<>>, url |-> <<>>, headers |-> {},
              body |-> <<>>, ver |-> <<0, 0>>, keep_alive |-> FALSE,
              close_connection |-> FALSE, upgrade |-> FALSE]

\* http_parser_init, and the members of HTTPParser.
NewParser ==
  [state |-> "s_start_req", header_state |-> "h_general", errno |-> "OK", nread |-> 0,
   method |-> "DELETE", content_length |-> 0, flags |-> {}, te |-> FALSE, ver |-> <<0, 0>>,
   upgrade |-> FALSE, qs_point |-> 0, mark |-> NoMark, piece |-> <<>>, urlStart |-> FALSE,
   halt |-> FALSE, unread |-> FALSE, message_complete |-> FALSE, building |-> 0,
   header_field |-> <<>>, header_value |-> <<>>, req |-> NoRequest]

\* CROW_SET_ERRNO and "goto error": execute returns.
Error(c, e) == [c EXCEPT !.errno = e, !.halt = TRUE]

\* HTTPParser::clear: errno, nread and the flags stay.
Clear(c) == [c EXCEPT !.req = NoRequest, !.header_field = <<>>, !.header_value = <<>>,
                      !.building = 0, !.qs_point = 0, !.message_complete = FALSE,
                      !.state = "s_start_req"]

\* HTTPParser::done: execute with no bytes, the end of the stream.
Done(c) == IF c.message_complete \/ c.errno # "OK" \/ c.state \in {"s_dead", "s_start_req"}
             THEN c
             ELSE [c EXCEPT !.errno = "INVALID_EOF_STATE"]
=============================================================================
