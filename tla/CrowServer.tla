----------------------------- MODULE CrowServer -----------------------------
(***************************************************************************)
(* crow::Server: the main thread that starts the workers, accepts          *)
(* connections and hands each to one worker; the workers, each with an     *)
(* io_service (a queue of handlers that are ready), a task_timer and the   *)
(* deadlines of its connections; and stop().  A handler that is run by one *)
(* worker is one action, except the command handlers of main.cpp, which    *)
(* block their worker in recvfrom.  What a connection does with the bytes  *)
(* it reads is the matter of HttpConnection.                               *)
(***************************************************************************)
EXTENDS Integers, SequencesExt

CONSTANTS
  MaxConns,     \* bound: how many connections clients open
  Concurrency,  \* concurrency_: the threads, the acceptor's among them
  Timeout,      \* default_timeout_, in ticks of the timer
  Asks,         \* bound: how many requests the clients send on their connections
  MaxOpen       \* how many connections the process has descriptors for

ASSUME CrowAssumption ==
  /\ Concurrency \in Nat /\ Concurrency >= 2  \* Crow::concurrency
  /\ MaxConns \in Nat /\ Timeout \in Nat /\ Asks \in Nat /\ MaxOpen \in Nat

Workers == 1..(Concurrency - 1)
Conns   == 1..MaxConns  \* in the order in which their clients connect

VARIABLES
  main,       \* the main thread: "starting", "accepting", "joining", "exited"
  accepting,  \* the worker that the pending async_accept has picked, 0 for none
  stopping,   \* shutting_down_, and every io_service is stopped
  run,        \* of each worker: "new", "running", "blocked", "done"
  serving,    \* the connection for which a worker is blocked
  ran,        \* whether this call of io_service::run has run a handler
  length,     \* task_queue_length_pool_
  queue,      \* the handlers that are ready
  armed,      \* whether the task_timer's own timer is waiting
  tasks,      \* task_timer::tasks_: id, connection and age in ticks of each
  highest,    \* highest_id_
  conn,       \* each connection: life, worker, task_id_, whether a read is pending
  asks,       \* how many requests the clients have sent
  robbed      \* history: <<loser, robber>> when a cancel erased another's deadline

threads == <<main, accepting, stopping, run, serving, ran, length>>
io      == <<queue, armed, tasks, highest>>
vars    == <<threads, io, conn, asks, robbed>>

Blocked(w) == run[w] = "blocked"
Lives == {"none", "backlog", "posted", "open", "closed", "gone"}
Unborn == [life |-> "none", w |-> 0, id |-> 0, reading |-> FALSE, expired |-> FALSE]

-----------------------------------------------------------------------------
(* task_timer, and the deadline of a connection.                           *)

\* The tasks after cancel(task_id_) by connection c, whoever's task it is by now.
Cancelled(c) == {t \in tasks[conn[c].w] : t.id # conn[c].id}
Robs(c) == {<<t.of, c>> : t \in {s \in tasks[conn[c].w] : s.id = conn[c].id /\ s.of # c}}

CancelDeadline(c) ==
  /\ tasks' = [tasks EXCEPT ![conn[c].w] = Cancelled(c)]
  /\ robbed' = robbed \cup Robs(c)
  /\ UNCHANGED highest

\* MUTANT: the new deadline gets the id of the last one.
Mut_StartDeadlineSameId(c, life) ==
  LET w == conn[c].w
  IN  /\ tasks' = [tasks EXCEPT ![w] = Cancelled(c)
                     \cup {[id |-> highest[w], of |-> c, age |-> 0]}]
      /\ robbed' = robbed \cup Robs(c)
      /\ conn' = [conn EXCEPT ![c].life = life, ![c].id = highest[w], ![c].reading = TRUE]
      /\ UNCHANGED highest

\* MUTANT: the old deadline is not cancelled.
Mut_StartDeadlineAgain(c, life) ==
  LET w == conn[c].w
      id == highest[w] + 1
  IN  /\ tasks' = [tasks EXCEPT ![w] = @ \cup {[id |-> id, of |-> c, age |-> 0]}]
      /\ highest' = [highest EXCEPT ![w] = id]
      /\ conn' = [conn EXCEPT ![c].life = life, ![c].id = id, ![c].reading = TRUE]
      /\ UNCHANGED robbed

\* start_deadline, then do_read.
StartDeadline(c, life) ==
  LET w == conn[c].w
      id == highest[w] + 1
  IN  /\ tasks' = [tasks EXCEPT ![w] = Cancelled(c) \cup {[id |-> id, of |-> c, age |-> 0]}]
      /\ highest' = [highest EXCEPT ![w] = id]
      /\ robbed' = robbed \cup Robs(c)
      /\ conn' = [conn EXCEPT ![c].life = life, ![c].id = id, ![c].reading = TRUE]

\* The destructor of a Connection that no handler refers to any more.
Gone(c) == conn' = [conn EXCEPT ![c].life = "gone", ![c].reading = FALSE, ![c].id = 0]

-----------------------------------------------------------------------------
(* The workers.                                                            *)

\* The body of the thread, up to its loop.
StartWorker(w) ==
  /\ run[w] = "new"
  /\ run' = [run EXCEPT ![w] = "running"]
  /\ armed' = [armed EXCEPT ![w] = TRUE]
  /\ length' = [length EXCEPT ![w] = 0]
  /\ UNCHANGED <<main, accepting, stopping, serving, ran, queue, tasks, highest, conn, asks, robbed>>

\* io_service::run takes the next handler.
Takes(w, kind) ==
  /\ run[w] = "running" /\ ~stopping
  /\ queue[w] # <<>> /\ Head(queue[w]).kind = kind
  /\ ran' = [ran EXCEPT ![w] = TRUE]

Dequeue(w) == queue' = [queue EXCEPT ![w] = Tail(@)]

\* Connection::start
RunStart(w) ==
  /\ Takes(w, "start")
  /\ Dequeue(w)
  /\ StartDeadline(Head(queue[w]).of, "open")
  /\ UNCHANGED <<main, accepting, stopping, run, serving, length, armed, asks>>

\* The handler of do_read with a request that is answered at once.  If the deadline has
\* closed the socket, remote_endpoint throws and the worker catches it.
RunRequest(w) ==
  /\ Takes(w, "request")
  /\ Dequeue(w)
  /\ LET c == Head(queue[w]).of
     IN  IF conn[c].life = "open" THEN StartDeadline(c, "open")
                                  ELSE Gone(c) /\ CancelDeadline(c)
  /\ UNCHANGED <<main, accepting, stopping, run, serving, length, armed, asks>>

\* A command: its handler waits for the robot's datagram, and the worker with it.
RunCommand(w) ==
  /\ Takes(w, "command")
  /\ Dequeue(w)
  /\ LET c == Head(queue[w]).of
     IN  /\ CancelDeadline(c)
         /\ IF conn[c].life = "open"
              THEN /\ run' = [run EXCEPT ![w] = "blocked"]
                   /\ serving' = [serving EXCEPT ![w] = c]
                   /\ UNCHANGED conn
              ELSE UNCHANGED <<run, serving>> /\ Gone(c)
  /\ UNCHANGED <<main, accepting, stopping, length, armed, asks>>

\* MUTANT: the next read starts without a deadline.
Mut_Unblock(w) ==
  /\ Blocked(w)
  /\ run' = [run EXCEPT ![w] = "running"]
  /\ serving' = [serving EXCEPT ![w] = 0]
  /\ conn' = [conn EXCEPT ![serving[w]].reading = TRUE]
  /\ UNCHANGED <<main, accepting, stopping, ran, length, io, asks, robbed>>

\* The datagram arrives: the answer is written, the next read starts.
Unblock(w) ==
  /\ Blocked(w)
  /\ run' = [run EXCEPT ![w] = "running"]
  /\ serving' = [serving EXCEPT ![w] = 0]
  /\ StartDeadline(serving[w], "open")
  /\ UNCHANGED <<main, accepting, stopping, ran, length, queue, armed, asks>>

\* The handler of do_read with an error or the last request: the deadline is cancelled
\* by its id, and the connection is destroyed.
RunEnd(w) ==
  /\ Takes(w, "end")
  /\ Dequeue(w)
  /\ LET c == Head(queue[w]).of IN CancelDeadline(c) /\ Gone(c)
  /\ UNCHANGED <<main, accepting, stopping, run, serving, length, armed, asks>>

\* MUTANT: the timer is not armed again.
Mut_TickOnce(w) ==
  /\ Takes(w, "tick")
  /\ LET older   == {[t EXCEPT !.age = @ + 1] : t \in tasks[w]}
         over    == {t \in older : t.age > Timeout}
         closing == {t.of : t \in over}
         aborted == {c \in closing : conn[c].life = "open" /\ conn[c].reading}
     IN  /\ tasks' = [tasks EXCEPT ![w] = older \ over]
         /\ highest' = [highest EXCEPT ![w] = IF older = over THEN 0 ELSE @]
         /\ queue' = [queue EXCEPT ![w] =
              Tail(@) \o SetToSeq({[kind |-> "end", of |-> c] : c \in aborted})]
         /\ conn' = [c \in Conns |->
              IF c \in closing /\ conn[c].life = "open"
                THEN [conn[c] EXCEPT !.life = "closed", !.reading = FALSE, !.expired = TRUE]
                ELSE conn[c]]
  /\ UNCHANGED <<main, accepting, stopping, run, serving, length, armed, asks, robbed>>

\* process_tasks: the tasks whose time is over close their sockets, which ends the
\* pending reads; the ids start again from 0 when no task is left.
Tick(w) ==
  /\ Takes(w, "tick")
  /\ LET older   == {[t EXCEPT !.age = @ + 1] : t \in tasks[w]}
         over    == {t \in older : t.age > Timeout}
         closing == {t.of : t \in over}
         aborted == {c \in closing : conn[c].life = "open" /\ conn[c].reading}
     IN  /\ tasks' = [tasks EXCEPT ![w] = older \ over]
         /\ highest' = [highest EXCEPT ![w] = IF older = over THEN 0 ELSE @]
         /\ queue' = [queue EXCEPT ![w] =
              Tail(@) \o SetToSeq({[kind |-> "end", of |-> c] : c \in aborted})]
         /\ conn' = [c \in Conns |->
              IF c \in closing /\ conn[c].life = "open"
                THEN [conn[c] EXCEPT !.life = "closed", !.reading = FALSE, !.expired = TRUE]
                ELSE conn[c]]
  /\ armed' = [armed EXCEPT ![w] = TRUE]
  /\ UNCHANGED <<main, accepting, stopping, run, serving, length, asks, robbed>>

\* A second has passed since the last tick.
TimerFires(w) ==
  /\ armed[w] /\ ~stopping
  /\ armed' = [armed EXCEPT ![w] = FALSE]
  /\ queue' = [queue EXCEPT ![w] = Append(@, [kind |-> "tick"])]
  /\ UNCHANGED <<threads, tasks, highest, conn, asks, robbed>>

\* A deadline is a point in time, not a count of ticks: seconds go by while the worker is
\* blocked and the one tick that is due waits, and the tasks are as much older when it runs.
SecondPasses(w) ==
  /\ Blocked(w) /\ ~armed[w] /\ ~stopping
  /\ \E t \in tasks[w] : t.age < Timeout
  /\ tasks' = [tasks EXCEPT ![w] =
       {[t EXCEPT !.age = IF @ < Timeout THEN @ + 1 ELSE @] : t \in tasks[w]}]
  /\ UNCHANGED <<threads, queue, armed, highest, conn, asks, robbed>>

\* MUTANT: a call of run() that has run nothing is repeated for ever.
Mut_RunReturns(w) ==
  /\ run[w] = "running" /\ stopping
  /\ ran[w]
  /\ ran' = [ran EXCEPT ![w] = FALSE]
  /\ UNCHANGED <<main, accepting, stopping, run, serving, length, io, conn, asks, robbed>>

\* run() returns once the io_service is stopped; the loop ends when it has run nothing.
RunReturns(w) ==
  /\ run[w] = "running" /\ stopping
  /\ IF ran[w] THEN ran' = [ran EXCEPT ![w] = FALSE] /\ UNCHANGED run
               ELSE run' = [run EXCEPT ![w] = "done"] /\ UNCHANGED ran
  /\ UNCHANGED <<main, accepting, stopping, serving, length, io, conn, asks, robbed>>

-----------------------------------------------------------------------------
(* The main thread.                                                        *)

\* pick_io_service_idx: the first of the shortest queues.
Pick(len) == CHOOSE w \in Workers :
  /\ \A v \in Workers : len[w] <= len[v]
  /\ \A v \in 1..(w - 1) : len[w] < len[v]

\* do_accept, when len are the lengths of the queues.
DoAccept(len) ==
  /\ accepting' = Pick(len)
  /\ length' = [len EXCEPT ![Pick(len)] = @ + 1]

\* Every worker has counted itself in init_count.
StartAccepting ==
  /\ main = "starting"
  /\ \A w \in Workers : run[w] # "new"
  /\ main' = "accepting"
  /\ DoAccept(length)
  /\ UNCHANGED <<stopping, run, serving, ran, io, conn, asks, robbed>>

Waiting == {c \in Conns : conn[c].life = "backlog"}
Open == {c \in Conns : conn[c].life \in {"posted", "open"}}

\* The handler of async_accept: the connection is posted to the worker that was picked.
Accept(c) ==
  /\ main = "accepting" /\ ~stopping
  /\ c \in Waiting
  /\ Cardinality(Open) < MaxOpen
  /\ queue' = [queue EXCEPT ![accepting] = Append(@, [kind |-> "start", of |-> c])]
  /\ conn' = [conn EXCEPT ![c].life = "posted", ![c].w = accepting]
  /\ DoAccept(length)
  /\ UNCHANGED <<main, stopping, run, serving, ran, armed, tasks, highest, asks, robbed>>

\* MUTANT: a failed accept leaves the queue's length as it is.
Mut_AcceptFails ==
  /\ main = "accepting" /\ ~stopping
  /\ Waiting # {} /\ Cardinality(Open) >= MaxOpen
  /\ length[accepting] <= MaxConns
  /\ DoAccept(length)
  /\ UNCHANGED <<main, stopping, run, serving, ran, io, conn, asks, robbed>>

\* The same with an error: no descriptor is left.
AcceptFails ==
  /\ main = "accepting" /\ ~stopping
  /\ Waiting # {} /\ Cardinality(Open) >= MaxOpen
  /\ DoAccept([length EXCEPT ![accepting] = @ - 1])
  /\ UNCHANGED <<main, stopping, run, serving, ran, io, conn, asks, robbed>>

\* A signal, or Crow::stop: every io_service is stopped, what is ready in it never runs
\* and what it waits for never ends.
Stop ==
  /\ main = "accepting"
  /\ main' = "joining"
  /\ stopping' = TRUE
  /\ accepting' = 0
  /\ queue' = [w \in Workers |-> <<>>]
  /\ UNCHANGED <<run, serving, ran, length, armed, tasks, highest, conn, asks, robbed>>

\* run() ends by waiting for the future of every worker.
Exit ==
  /\ main = "joining"
  /\ \A w \in Workers : run[w] = "done"
  /\ main' = "exited"
  /\ conn' = [c \in Conns |-> IF conn[c].life = "none" THEN conn[c]
                              ELSE [conn[c] EXCEPT !.life = "gone", !.reading = FALSE]]
  /\ UNCHANGED <<accepting, stopping, run, serving, ran, length, io, asks, robbed>>

-----------------------------------------------------------------------------
(* The clients.                                                            *)

Connect(c) ==
  /\ main = "accepting" /\ conn[c].life = "none"
  /\ \A d \in 1..(c - 1) : conn[d].life # "none"
  /\ conn' = [conn EXCEPT ![c].life = "backlog"]
  /\ UNCHANGED <<threads, io, asks, robbed>>

\* The pending read ends: with a request, or with the end of the stream.
ReadEnds(c, kind) ==
  /\ ~stopping
  /\ conn[c].life = "open" /\ conn[c].reading
  /\ conn' = [conn EXCEPT ![c].reading = FALSE]
  /\ queue' = [queue EXCEPT ![conn[c].w] = Append(@, [kind |-> kind, of |-> c])]
  /\ UNCHANGED <<threads, armed, tasks, highest, robbed>>

Ask(c, kind) ==
  /\ asks < Asks
  /\ asks' = asks + 1
  /\ ReadEnds(c, kind)

Leave(c) == ReadEnds(c, "end") /\ UNCHANGED asks

-----------------------------------------------------------------------------

Init ==
  /\ main = "starting" /\ accepting = 0 /\ stopping = FALSE
  /\ run = [w \in Workers |-> "new"] /\ ran = [w \in Workers |-> FALSE]
  /\ serving = [w \in Workers |-> 0]
  /\ length = [w \in Workers |-> 0] /\ queue = [w \in Workers |-> <<>>]
  /\ armed = [w \in Workers |-> FALSE] /\ tasks = [w \in Workers |-> {}]
  /\ highest = [w \in Workers |-> 0]
  /\ conn = [c \in Conns |-> Unborn] /\ asks = 0
  /\ robbed = {}

Handler(w) ==
  RunStart(w) \/ RunRequest(w) \/ RunCommand(w) \/ RunEnd(w) \/ Tick(w)
Worker(w) == StartWorker(w) \/ Handler(w) \/ RunReturns(w)
Acceptor == StartAccepting \/ (\E c \in Conns : Accept(c)) \/ Exit

Next ==
  \/ \E w \in Workers : Worker(w) \/ Unblock(w) \/ TimerFires(w) \/ SecondPasses(w)
  \/ Acceptor \/ AcceptFails \/ Stop
  \/ \E c \in Conns : Connect(c) \/ Leave(c) \/ Ask(c, "request") \/ Ask(c, "command")

\* The operating system runs every thread that is not blocked, and seconds pass.  The
\* robot need not answer, clients need do nothing, and nobody has to stop the server.
Fairness ==
  /\ \A w \in Workers : WF_vars(Worker(w)) /\ WF_vars(TimerFires(w))
  /\ WF_vars(Acceptor)

Spec == Init /\ [][Next]_vars /\ Fairness

-----------------------------------------------------------------------------
(* Properties.                                                             *)

TypeOK ==
  /\ main \in {"starting", "accepting", "joining", "exited"}
  /\ accepting \in Workers \cup {0} /\ stopping \in BOOLEAN
  /\ \A w \in Workers :
       /\ run[w] \in {"new", "running", "blocked", "done"}
       /\ serving[w] \in IF Blocked(w) THEN Conns ELSE {0}
       /\ length[w] \in 0..(MaxConns + 1) /\ highest[w] \in Nat
       /\ tasks[w] \subseteq [id : 1..highest[w], of : Conns, age : 0..Timeout]
  /\ \A c \in Conns : conn[c].life \in Lives /\ conn[c].w \in Workers \cup {0}
  /\ robbed \subseteq Conns \X Conns

\* Two tasks of a timer never have one id, although ids start again from 0, and a
\* connection never has two tasks: tasks_ is a map, and insert would drop the second.
OneTaskEach ==
  \A w \in Workers : \A s, t \in tasks[w] : s # t => s.id # t.id /\ s.of # t.of

\* A connection that waits for its client has its deadline, or has lost it to the cancel
\* of a connection that had the same id before (schedule's comment, crow_all.h:8893-8898,
\* warns of ids used after their task has run).
IdleHasDeadline ==
  \A c \in Conns :
    (conn[c].life = "open" /\ conn[c].reading)
      => \/ \E t \in tasks[conn[c].w] : t.of = c /\ t.id = conn[c].id
         \/ \E d \in Conns : <<c, d>> \in robbed

\* What robs a connection is one that its own deadline had closed, or one that was
\* robbed itself: the stale id goes from connection to connection.
RobberKnown ==
  \A p \in robbed : conn[p[2]].expired \/ \E q \in robbed : q[1] = p[2]

\* The queue lengths count the connections given to each worker since the start, and
\* failed accepts leave no trace; so no worker ever gets two connections more than
\* another, blocked or not.
LengthsCountConnections ==
  /\ main = "accepting" =>
       \A w \in Workers :
         length[w] = Cardinality({c \in Conns : conn[c].w = w}) + (IF accepting = w THEN 1 ELSE 0)
  /\ \A v, w \in Workers : length[v] <= length[w] + 1

\* A connection that is handed to a worker ends, unless the worker is blocked for ever
\* by a command, or the deadline was robbed.
Ends ==
  \A c \in Conns :
    conn[c].life = "posted" ~>
      \/ conn[c].life = "gone"
      \/ stopping
      \/ conn[c].w \in Workers /\ Blocked(conn[c].w)
      \/ \E d \in Conns : <<c, d>> \in robbed

\* stop() ends the process, unless a worker is in recvfrom, which nothing interrupts.
StopEnds == stopping ~> (main = "exited" \/ \E w \in Workers : Blocked(w))
=============================================================================
