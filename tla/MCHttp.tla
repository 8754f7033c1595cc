------------------------------- MODULE MCHttp -------------------------------
(* A small site and the messages of its clients, for TLC. *)
EXTENDS HttpConnection, TLC

Root == <<"/">>
Command == <<"/", "telecommand">>

MCSite ==
  (<<"GET", Root>>                  :> [kind |-> "page", size |-> 1]) @@
  (<<"POST", Command>>              :> [kind |-> "page", size |-> 1]) @@
  (<<"GET", <<"/", "Scripts">>>>    :> [kind |-> "page", size |-> 3]) @@
  (<<"GET", <<"/", "static">>>>     :> [kind |-> "file", size |-> 1]) @@
  (<<"GET", <<"/", "telemetry">>>>  :> [kind |-> "throws", size |-> 0]) @@
  (<<"GET", <<"/", "dir">>>>        :> [kind |-> "slash", size |-> 0]) @@
  (<<"GET", <<"/", "none">>>>       :> [kind |-> "missing", size |-> 0])

Field(name, value) == <<name, ":", Sp>> \o value \o <<Cr, Lf>>
Host == Field("host", <<"w">>)
Closing == Field("connection", <<"close">>)
Length(n) == Field("content-length", n)
Chunked == Field("transfer-encoding", <<"chunked">>)
Line(m, url, v) == <<m, Sp>> \o url \o <<Sp, "HTTP", "/", "1", ".", v, Cr, Lf>>
Text(m, url, v, fields, body) == Line(m, url, v) \o fields \o <<Cr, Lf>> \o body

\* A message, and what it asks: the status it deserves (0 for no answer at all), and
\* whether bytes that belong to no request follow it.
Message(bytes, asks, code, extra) ==
  [bytes |-> bytes, asks |-> asks, code |-> code, extra |-> extra]
Get(url, fields, code) ==
  Message(Text("GET", url, "1", fields, <<>>), <<"GET", url, <<>>>>, code, FALSE)
Post(fields, rest, body, code, extra) ==
  Message(Text("POST", Command, "1", Host \o fields, rest), <<"POST", Command, body>>, code, extra)
Other(m, url, code) ==
  Message(Text(m, url, "1", Host, <<>>), <<m, url, <<>>>>, code, FALSE)
\* Bytes that are not a request of the site.
Junk(bytes, code) == Message(bytes, <<"junk", "">>, code, TRUE)

BB == <<"b", "b">>
Page == Get(Root, Host, 200)
Query == Message(Text("GET", Root \o <<"?", "x", "?">>, "1", Host, <<>>),
                 <<"GET", Root, <<>>>>, 200, FALSE)
PlainPost == Post(Length(<<"2">>), BB, BB, 200, FALSE)

Gets == {Page, Query, Other("HEAD", Root, 200), Other("OPTIONS", Root, 204),
  Other("HEAD", Command, 404), Get(<<"/", "Scripts">>, Host, 200),
  Get(<<"/", "static">>, Host \o Closing, 200), Get(<<"/", "telemetry">>, Host, 500),
  Get(<<"/", "dir">>, Host, 301), Get(<<"/", "none">>, Host, 404), Get(Command, Host, 405),
  Get(<<"/", "x">>, Host, 404), Get(Root, Closing \o Host, 200), Get(Root, <<>>, 400),
  Get(Root, Host \o Field("connection", <<"keep-alive">>), 200),
  Get(Root, Host \o Field("upgrade", <<"websocket">>), 0),
  Get(Root, Host \o Field("upgrade", <<"h2c">>), 200),
  Message(Text("GET", Root, "0", Field("connection", <<"keep-alive", Sp>>), <<>>),
          <<"GET", Root, <<>>>>, 200, FALSE),
  Message(<<Cr, Lf>> \o Text("GET", Root, "0", <<>>, <<>>), <<"GET", Root, <<>>>>, 200, FALSE),
  Message(<<"GET", Sp>> \o Root \o <<Lf, Lf>>, <<"GET", Root, <<>>>>, 200, FALSE),
  Message(<<"GET", Sp, "http", ":", "/", "/", "w", "@", "w", "/", Sp, "HTTP", "/", "1", ".", "1", Lf>>
          \o Host \o <<Lf>>, <<"GET", Root, <<>>>>, 404, FALSE)}

Posts == {PlainPost, Post(Length(<<"0">>), <<>>, <<>>, 200, FALSE),
  Post(Length(<<"2", Sp>>), BB \o <<Cr, Lf>>, BB, 200, TRUE),
  Post(Length(<<"3">>), BB, BB, 0, TRUE),
  Post(Closing \o Length(<<"2">>), BB, BB, 200, FALSE),
  Post(Field("expect", <<"100-continue">>) \o Length(<<"2">>), BB, BB, 200, FALSE),
  Post(Chunked, <<"2", ";", "x", Cr, Lf, "b", "b", Cr, Lf, "0", Cr, Lf>>
       \o Field("t", <<"x">>) \o <<Cr, Lf>>, BB, 200, FALSE),
  Post(Field("t", <<Cr, Lf, Tab, "x", Cr, Lf, Tab, "x">>) \o <<"e", ":", Cr, Lf>>, <<>>, <<>>, 200, FALSE)}

Junks ==
  {Junk(Text("POST", Command, "1", f[1], f[2]), 0) :
     f \in {<<Length(<<"9", "9">>), <<>>>>, <<Length(<<"2", "b">>), <<>>>>,
            <<Length(<<"2">>) \o Length(<<"2">>), <<>>>>, <<Chunked \o Length(<<"2">>), <<>>>>,
            <<Field("transfer-encoding", <<"x", ",", "chunked", Sp, "x">>), <<>>>>,
            <<Chunked, <<"9", "9", "9">>>>, <<Chunked, <<"b">>>>, <<Chunked, <<"1", Cr, Lf, "b", "b">>>>,
            <<Chunked, <<"1", Cr, Lf, "b", Cr, "b">>>>, <<Chunked, <<"1", Cr, "b">>>>,
            <<Field("x", <<Ctl>>), <<>>>>, <<<<"x", ",">>, <<>>>>, <<<<":">>, <<>>>>,
            <<<<"content-length", "x">> \o Field("y", <<"9", "9">>), <<>>>>}}
  \cup {Junk(Line("GET", Root, "1") \o Field("x", [i \in 1..30 |-> "a"]), 0),
        Junk(<<"x">>, 0), Junk(<<"GET", "x">>, 0), Junk(<<"GET", Sp, "?">>, 0),
        Junk(<<"GET", Sp, "http", Sp>>, 0), Junk(<<"POST", Sp, "/", Cr>>, 0),
        Junk(<<"GET", Sp, "/", Sp, "x">>, 0), Junk(<<"GET", Sp, "/", Sp, "HTTP", "x">>, 0),
        Junk(<<"GET", Sp, "/", Sp, "HTTP", "/", "x">>, 0), Junk(<<"GET", Sp, "/", Cr, "x">>, 0),
        Junk(Line("GET", Root, "1") \o <<"x", ":", "y", Cr, "z">>, 0),
        Junk(Line("GET", Root, "1") \o <<Cr, "z">>, 0), Junk(<<"CONNECT", Sp, "w", ":", "9", "?">>, 0),
        Junk(<<"SOURCE", Sp, "/", Sp, "ICE", "/", "1", ".", "1", "x">>, 0)}

MCMessages == Gets \cup Posts \cup Junks
MCLater == {Page, PlainPost}
=============================================================================
