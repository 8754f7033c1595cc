--------------------------- MODULE HttpConnection ---------------------------
(***************************************************************************)
(* One connection of the HTTP server with its client: crow::Connection,    *)
(* the response object it reuses for every request, and the parser         *)
(* (HttpParser), which calls the connection back while it reads.  All      *)
(* handlers of a connection run on one thread, so each is one action; what *)
(* interleaves is the client, the ends of reads and writes, and the timer. *)
(***************************************************************************)
EXTENDS HttpTokens, SequencesExt

CONSTANTS
  Site,         \* the routes: a function from <<method, URL>> to resources
  Messages,     \* the requests that the client may send first
  Later,        \* bound: those of them that it sends after another
  MaxMessages,  \* bound: how many of them it sends
  MaxCuts,      \* bound: how many reads end before all that was sent is read
  Threshold     \* stream_threshold, in units of body size

\* A resource: how its handler ends, and the size of what it sends; no file is empty,
\* since a response without one has size 0 there.
Resource == [kind : {"page", "file", "missing", "throws", "slash"}, size : Nat]
              \ [kind : {"file"}, size : {0}]

ASSUME SiteAssumption ==
  /\ \A r \in DOMAIN Site : r[1] \in Methods /\ Site[r] \in Resource
  /\ Later \subseteq Messages /\ \A m \in Messages : m.bytes \in Seq(STRING)
  /\ MaxMessages \in Nat /\ MaxCuts \in Nat /\ Threshold \in Nat \ {0}

VARIABLES
  c,      \* the Connection: its parser's fields and its own
  wire,   \* tokens the client sent that have not been read
  sent,   \* the messages the client sent
  patient, \* whether the client waits for an answer before it sends the next
  peer,   \* the client's end: "open", "shut" (it will send no more), "reset"
  cuts,   \* how many reads ended before all that was sent was read
  split   \* whether one of them ended inside a URL

vars == <<c, wire, sent, patient, peer, cuts, split>>

NoRule   == [kind |-> "none", size |-> 0]
NoLength == -1

\* crow::response; a body is its size.
NewResponse == [code |-> 200, body |-> 0, length |-> NoLength, keepAlive |-> FALSE,
                skip_body |-> FALSE, manual_length_header |-> FALSE,
                completed |-> FALSE, file |-> 0]

\* The members of Connection next to the parser's.  out and log are what the
\* client was sent and which handlers ran.
NewConnection ==
  [rule |-> NoRule, res |-> NewResponse, copy |-> 0, onComplete |-> FALSE,
   needAfter |-> FALSE, readAfter |-> FALSE, add_keep_alive |-> FALSE,
   close_connection |-> FALSE, continue_requested |-> FALSE,
   open |-> TRUE, reading |-> TRUE, writes |-> <<>>, deadline |-> TRUE, threw |-> FALSE,
   reset |-> "no", out |-> <<>>, log |-> <<>>]

\* response(code), assigned: skip_body and manual_length_header are not.
Assign(r, code) == [r EXCEPT !.code = code, !.body = 0, !.length = NoLength,
                             !.keepAlive = FALSE, !.completed = FALSE, !.file = 0]
\* response::clear
ClearResponse(r) == Assign(r, 200)

Close(k) == [k EXCEPT !.open = FALSE]

-----------------------------------------------------------------------------
(* Writing.                                                                *)

\* What leaves for the client: the head's promise and the body after it.
Sent(k, size) ==
  [method |-> k.req.method, code |-> k.res.code, body |-> size,
   length |-> IF k.res.length # NoLength THEN k.res.length
              ELSE IF k.res.manual_length_header THEN NoLength ELSE k.res.body,
   keepAlive |-> k.add_keep_alive \/ k.res.keepAlive]

\* async_write: what fits the socket's buffer leaves at once; the completion is queued.
DoWrite(k, message) ==
  LET ok == k.open /\ k.reset = "no"
  IN  [k EXCEPT !.out = IF ok THEN Append(@, message) ELSE @, !.writes = Append(@, ok)]

\* An error answer without a body is given its status line as one.
PrepareBuffers(k) ==
  LET r == k.res
  IN  [k EXCEPT !.onComplete = FALSE,
                !.res.body = IF k.open /\ r.code >= 400 /\ r.body = 0 THEN 1 ELSE @]

\* MUTANT: the connection stays open after a response that was written synchronously.
Mut_Written(k, size) ==
  Clear([k EXCEPT !.out = Append(@, Sent(k, size)), !.res = ClearResponse(@)])

\* The end of a response that was written synchronously.
Written(k, size) ==
  LET done == [k EXCEPT !.out = Append(@, Sent(k, size)), !.res = ClearResponse(@),
                        !.open = @ /\ ~k.close_connection]
  IN  Clear(done)

\* A write that fails throws into Router::handle, which ends a response that nobody sends.
Failed(k) == [k EXCEPT !.res = [Assign(@, 500) EXCEPT !.completed = TRUE]]

DoWriteStatic(k) == IF k.reset = "no" THEN Written(k, k.res.file) ELSE Failed(k)

\* MUTANT: the body that is sent is the one copied for the answer before.
Mut_DoWriteGeneral(k) ==
  LET wrote == DoWrite([k EXCEPT !.copy = k.res.body], Sent(k, k.copy))
  IN  IF k.readAfter
        THEN [wrote EXCEPT !.readAfter = FALSE, !.deadline = TRUE, !.reading = TRUE]
        ELSE wrote

DoWriteGeneral(k) ==
  IF k.res.body < Threshold
    THEN LET wrote == DoWrite([k EXCEPT !.copy = k.res.body, !.res.body = k.copy],
                              Sent(k, k.res.body))
         IN  IF k.readAfter
               THEN [wrote EXCEPT !.readAfter = FALSE, !.deadline = TRUE, !.reading = TRUE]
               ELSE wrote
    ELSE IF k.reset = "no" THEN Written([k EXCEPT !.deadline = FALSE], k.res.body)
                           ELSE Failed(k)

CompleteRequest(k) ==
  LET ready == PrepareBuffers([k EXCEPT !.needAfter = FALSE])
  IN  IF ready.res.file # 0 THEN DoWriteStatic(ready) ELSE DoWriteGeneral(ready)

\* response::end
End(k) ==
  LET r == k.res
      ended == [r EXCEPT !.completed = TRUE,
                         !.length = IF r.skip_body THEN r.body ELSE @,
                         !.body = IF r.skip_body THEN 0 ELSE @,
                         !.manual_length_header = @ \/ r.skip_body]
  IN  IF r.completed THEN k
      ELSE IF k.onComplete THEN CompleteRequest([k EXCEPT !.res = ended])
      ELSE [k EXCEPT !.res = ended]

-----------------------------------------------------------------------------
(* The router, as the connection uses it (Routing has its own module).     *)

Has(m, url) == <<m, url>> \in DOMAIN Site
Known(url)  == \E m \in Methods : Has(m, url)

Answer(k, code) == End([k EXCEPT !.rule = NoRule, !.res = Assign(@, code)])

\* Router::handle_initial
HandleInitial(k) ==
  LET m == k.req.method
      url == k.req.url
  IN  CASE m = "HEAD" ->
             IF Has("GET", url)
               THEN [k EXCEPT !.res.skip_body = TRUE, !.rule = Site[<<"GET", url>>]]
               ELSE Answer(k, 404)
        [] m = "OPTIONS" -> Answer(k, IF Known(url) THEN 204 ELSE 404)
        [] OTHER ->
             IF Has(m, url)
               THEN [k EXCEPT !.rule = Site[<<m, url>>]]
               ELSE End([k EXCEPT !.rule = NoRule,
                                  !.res.code = IF Known(url) THEN 405 ELSE 404])

\* Router::handle: the rule's handler writes a body, or throws, which becomes a 500.
RunRule(k) ==
  LET r == k.rule
      ran == [k EXCEPT !.log = Append(@, [asks |-> <<k.req.method, k.req.url, k.req.body>>,
                                          close |-> k.close_connection])]
  IN  CASE r.kind = "page"    -> End([ran EXCEPT !.res.body = @ + r.size])
        [] r.kind = "file"    -> End([ran EXCEPT !.res.file = r.size, !.res.length = r.size])
        [] r.kind = "missing" -> End([ran EXCEPT !.res.code = 404])
        [] r.kind = "throws"  -> End([ran EXCEPT !.res = Assign(@, 500)])
        [] r.kind = "slash"   -> End([k EXCEPT !.res = Assign(@, 301)])

\* Router::handle_upgrade: no rule of the program accepts an upgrade.
HandleUpgrade(k) == End([k EXCEPT !.res = Assign(@, 404)])

-----------------------------------------------------------------------------
(* The callbacks of the parser.                                            *)

HandleUrl(k) ==
  LET routed == HandleInitial(k)
  IN  IF routed.rule = NoRule THEN CompleteRequest(Done(routed)) ELSE routed

Header(k, name) == {h[2] : h \in {g \in k.req.headers : g[1] = <<name>>}}

HandleHeader(k) ==
  IF k.req.ver = <<1, 1>> /\ <<"100-continue">> \in Header(k, "expect")
    THEN DoWrite([k EXCEPT !.continue_requested = TRUE],
                 [method |-> k.req.method, code |-> 100, body |-> 0, length |-> 0,
                  keepAlive |-> FALSE])
    ELSE k

\* MUTANT: a response that is complete is taken for a new one.
Mut_Handle(k0) ==
  LET k == [k0 EXCEPT !.deadline = FALSE, !.add_keep_alive = k0.req.keep_alive,
                      !.close_connection = k0.req.close_connection]
      one == k.req.ver = <<1, 1>>
      run == RunRule([k EXCEPT !.res.completed = FALSE, !.onComplete = TRUE, !.needAfter = TRUE])
  IN  IF ~k0.open \/ k0.reset = "yes"
        THEN [k0 EXCEPT !.deadline = FALSE, !.threw = TRUE, !.halt = TRUE]
      ELSE IF one /\ Header(k, "host") = {}
        THEN CompleteRequest([k EXCEPT !.needAfter = FALSE, !.res = Assign(@, 400)])
      ELSE IF one /\ k.req.upgrade /\ <<"h2c">> \notin Header(k, "upgrade")
        THEN HandleUpgrade([k EXCEPT !.close_connection = TRUE])
      ELSE [run EXCEPT !.res.keepAlive = @ \/ run.add_keep_alive]

\* One request is complete.  remote_endpoint throws when there is no peer any more; a
\* response that is already complete is sent as it is.
Handle(k0) ==
  LET k == [k0 EXCEPT !.deadline = FALSE, !.add_keep_alive = k0.req.keep_alive,
                      !.close_connection = k0.req.close_connection]
      one == k.req.ver = <<1, 1>>
      run == RunRule([k EXCEPT !.onComplete = TRUE, !.needAfter = TRUE])
  IN  IF ~k0.open \/ k0.reset = "yes"
        THEN [k0 EXCEPT !.deadline = FALSE, !.threw = TRUE, !.halt = TRUE]
      ELSE IF one /\ Header(k, "host") = {}
        THEN CompleteRequest([k EXCEPT !.needAfter = FALSE, !.res = Assign(@, 400)])
      ELSE IF one /\ k.req.upgrade /\ <<"h2c">> \notin Header(k, "upgrade")
        THEN HandleUpgrade([k EXCEPT !.close_connection = TRUE])
      ELSE IF k.res.completed
        THEN CompleteRequest([k EXCEPT !.onComplete = FALSE, !.needAfter = FALSE])
      ELSE [run EXCEPT !.res.keepAlive = @ \/ run.add_keep_alive]

Parser == INSTANCE HttpParser WITH HandleUrl <- HandleUrl, HandleHeader <- HandleHeader,
                                   Handle <- Handle

-----------------------------------------------------------------------------
(* The handlers.                                                           *)

\* Nothing refers to a Connection any more: its destructor closes the socket.
Release(k) ==
  IF ~k.reading /\ k.writes = <<>> /\ ~k.deadline THEN Close(k) ELSE k

\* The handler of do_read, after the bytes have been fed to the parser.
AfterRead(before, fed) ==
  LET quiet == [fed EXCEPT !.deadline = FALSE, !.reading = FALSE]
  IN  IF fed.threw THEN [fed EXCEPT !.reading = FALSE]
      ELSE IF ~Parser!Fed(before, fed) \/ ~fed.open THEN Close(Done(quiet))
      ELSE IF fed.close_connection THEN Done(quiet)
      ELSE IF ~fed.needAfter THEN [fed EXCEPT !.deadline = TRUE]
      ELSE [fed EXCEPT !.reading = FALSE, !.readAfter = TRUE]

Init ==
  /\ c = [f \in DOMAIN NewParser \cup DOMAIN NewConnection |->
            IF f \in DOMAIN NewParser THEN NewParser[f] ELSE NewConnection[f]]
  /\ wire = <<>> /\ sent = <<>>
  /\ patient \in BOOLEAN
  /\ peer = "open" /\ cuts = 0 /\ split = FALSE

Final(out) == SelectSeq(out, LAMBDA r : r.code # 100)

Send(m) ==
  /\ peer = "open" /\ c.open
  /\ Len(sent) < MaxMessages
  /\ sent # <<>> => m \in Later
  /\ patient => Len(Final(c.out)) >= Len(sent)
  /\ sent' = Append(sent, [asks |-> m.asks, code |-> m.code, extra |-> m.extra])
  /\ wire' = wire \o m.bytes
  /\ UNCHANGED <<c, patient, peer, cuts, split>>

\* A read ends with the next n tokens.  The completion of a write that left at once is
\* ahead of it in the queue; it is not when the client of a long answer is slow to take it.
ReadSome(n) ==
  /\ c.reading /\ c.open
  /\ c.writes = <<>> \/ ~patient
  /\ n \in 1..Len(wire)
  /\ n < Len(wire) => cuts < MaxCuts
  /\ cuts' = IF n < Len(wire) THEN cuts + 1 ELSE cuts
  /\ LET fed == Parser!Feed(c, SubSeq(wire, 1, n))
         after == AfterRead(c, fed)
     IN  /\ c' = Release([after EXCEPT !.reset = IF @ = "no" THEN "no" ELSE "yes"])
         /\ split' = (split \/ fed.state \in UrlStates)
  /\ wire' = SubSeq(wire, n + 1, Len(wire))
  /\ UNCHANGED <<sent, patient, peer>>

\* A read ends with an error: the client's end is closed, or ours was.
ReadFails ==
  /\ c.reading
  /\ ~c.open \/ (wire = <<>> /\ peer # "open")
  /\ c' = Release(Close(Done([c EXCEPT !.deadline = FALSE, !.reading = FALSE])))
  /\ UNCHANGED <<wire, sent, patient, peer, cuts, split>>

\* The handler of do_write.
WriteDone ==
  /\ c.writes # <<>>
  /\ LET k == [c EXCEPT !.writes = Tail(@), !.res = ClearResponse(@), !.copy = 0,
                        !.continue_requested = FALSE]
         cleared == IF c.continue_requested THEN k ELSE Clear(k)
     IN  c' = Release(IF Head(c.writes) /\ c.close_connection THEN Close(cleared) ELSE cleared)
  /\ UNCHANGED <<wire, sent, patient, peer, cuts, split>>

\* MUTANT: the deadline only shuts down what the client sends.
Mut_Expire ==
  /\ c.deadline
  /\ c' = Release([c EXCEPT !.deadline = FALSE])
  /\ UNCHANGED <<wire, sent, patient, peer, cuts, split>>

\* The task of start_deadline.
Expire ==
  /\ c.deadline
  /\ c' = Release(Close([c EXCEPT !.deadline = FALSE]))
  /\ UNCHANGED <<wire, sent, patient, peer, cuts, split>>

PeerShut ==
  /\ peer = "open"
  /\ peer' = "shut"
  /\ UNCHANGED <<c, wire, sent, patient, cuts, split>>

\* The client resets the connection: before the next handler, or while it runs, after
\* the handler has asked for the client's address.
PeerReset ==
  /\ c.reset = "no" /\ c.open
  /\ peer' = "reset"
  /\ \E when \in {"yes", "soon"} : c' = [c EXCEPT !.reset = when]
  /\ UNCHANGED <<wire, sent, patient, cuts, split>>

Next ==
  \/ \E m \in Messages : Send(m)
  \/ \E n \in 1..Len(wire) : ReadSome(n)
  \/ ReadFails \/ WriteDone \/ Expire
  \/ PeerShut \/ PeerReset

\* What ReadSome does to the wire: fairness is stated of this much of the step, which is
\* enabled exactly when a read can end.
Taken ==
  /\ c.reading /\ c.open
  /\ c.writes = <<>> \/ ~patient
  /\ \E n \in 1..Len(wire) : wire' = SubSeq(wire, n + 1, Len(wire))

\* The reactor delivers what has ended and the timer ticks.  The client need do nothing.
Fairness == /\ WF_wire(Taken)
            /\ WF_vars(ReadFails) /\ WF_vars(WriteDone) /\ WF_vars(Expire)

Spec == Init /\ [][Next]_vars /\ Fairness

-----------------------------------------------------------------------------
(* Properties.                                                             *)

TypeOK ==
  /\ c.content_length \in 0..UllongMax
  /\ c.state \in HeadStates \cup BodyStates /\ c.header_state \in HeaderStates
  /\ c.flags \subseteq Flags /\ c.mark = NoMark
  /\ c.rule \in Resource \cup {NoRule} /\ c.reset \in {"no", "soon", "yes"}
  /\ \A k \in {"open", "reading", "deadline", "threw"} : c[k] \in BOOLEAN
  /\ peer \in {"open", "shut", "reset"} /\ cuts \in 0..MaxCuts

\* However the requests are cut into reads, and whatever stands between them, each
\* handler of a route runs at most once for a request that was sent, with its method,
\* URL and (if it declares its length right) its body, in the order of sending.
\* Connection::handle runs again on every byte after a body, but not the route's handler,
\* crow_all.h:9145.
ExecutedInOrder ==
  \E of \in [DOMAIN c.log -> DOMAIN sent] :
    /\ \A i, j \in DOMAIN c.log : i < j => of[i] < of[j]
    /\ \A i \in DOMAIN c.log :
         LET ran == c.log[i].asks
             asked == sent[of[i]]
         IN  IF asked.extra THEN SubSeq(ran, 1, 2) = SubSeq(asked.asks, 1, 2)
                            ELSE ran = asked.asks

Answers == Final(c.out)
Answered(ok) ==
  (patient /\ ok /\ \A i \in DOMAIN sent : ~sent[i].extra) =>
    /\ Len(Answers) <= Len(sent)
    /\ \A i \in DOMAIN Answers : Answers[i].code = sent[i].code

\* A client that waits for each answer is told what the request it sent deserves:
\* Router::handle_initial decided on this request's URL and method, and nothing of an
\* earlier request is left in the parser or the response.
AnsweredAsAsked == Answered(~split)

\* The same wherever the reads end: the URL is one URL although on_url is called with
\* parts of it, crow_all.h:2916-2918.
AnsweredHoweverRead == Answered(TRUE)

\* Nobody waits for the other: when a connection that a patient client holds open has
\* read and written everything, every request that deserves an answer has had one.
NothingForgotten ==
  (/\ patient /\ ~split /\ peer = "open" /\ c.open
   /\ wire = <<>> /\ c.writes = <<>>
   /\ \A i \in DOMAIN sent : sent[i].code # 0)
    => Len(Answers) >= Len(sent)

\* The body that follows a head has the length that the head declares, until a HEAD
\* request is routed: response::clear leaves skip_body set, and every later answer then
\* declares a body that is not sent (crow_all.h:7390).
Framed == ~c.res.skip_body => \A i \in DOMAIN c.out : c.out[i].length = c.out[i].body

\* After a request that asks for the connection to be closed no other one runs, not
\* even one that the same read brought.
CloseHonoured == \A i \in DOMAIN c.log : c.log[i].close => i = Len(c.log)

\* Every connection is closed in the end, however it was used and whatever it was sent.
ClosedInTheEnd == <>(~c.open)
=============================================================================
