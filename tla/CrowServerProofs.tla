--------------------------- MODULE CrowServerProofs ---------------------------
(***************************************************************************)
(* The properties of CrowServer for any number of connections and workers. *)
(***************************************************************************)
EXTENDS CrowServer, FiniteSetTheorems, SequenceTheorems, WellFoundedInduction, TLAPS

Item == [kind : {"tick"}]
          \cup [kind : {"start", "request", "command", "end"}, of : Conns]
Connection == [life : Lives, w : Workers \cup {0}, id : Nat, reading : BOOLEAN,
               expired : BOOLEAN]
Task == [id : Nat, of : Conns, age : Nat]

Typed ==
  /\ main \in {"starting", "accepting", "joining", "exited"}
  /\ accepting \in Workers \cup {0}
  /\ stopping \in BOOLEAN
  /\ run \in [Workers -> {"new", "running", "blocked", "done"}]
  /\ serving \in [Workers -> Conns \cup {0}]
  /\ ran \in [Workers -> BOOLEAN]
  /\ length \in [Workers -> Int]
  /\ queue \in [Workers -> Seq(Item)]
  /\ armed \in [Workers -> BOOLEAN]
  /\ tasks \in [Workers -> SUBSET Task]
  /\ highest \in [Workers -> Nat]
  /\ conn \in [Conns -> Connection]
  /\ asks \in Nat
  /\ robbed \subseteq Conns \X Conns

\* What the main thread has done so far, and whom each worker serves.
Phases ==
  /\ stopping <=> main \in {"joining", "exited"}
  /\ main = "starting" => \A c \in Conns : conn[c].w = 0
  /\ main = "starting" => \A w \in Workers : length[w] = 0
  /\ main # "starting" => \A w \in Workers : run[w] # "new"
  /\ main = "accepting" => accepting \in Workers
  /\ \A w \in Workers : Blocked(w) <=> serving[w] # 0

\* What the life of a connection tells of its other fields.
LifeTells ==
  \A c \in Conns :
    /\ conn[c].reading => conn[c].life = "open"
    /\ conn[c].life \in {"none", "backlog"} => conn[c].w = 0
    /\ conn[c].life = "open" => conn[c].w \in Workers
    /\ conn[c].life = "closed" => conn[c].expired
    /\ conn[c].life \notin {"open", "closed"} /\ main # "exited" => conn[c].id = 0

\* The handlers in a queue belong to connections of its worker that do not read,
\* at most one to each; and the one a worker serves has none.
Ready(w) == {k \in 1..Len(queue[w]) : queue[w][k].kind # "tick"}

Queued ==
  \A w \in Workers :
    /\ \A k \in Ready(w) : conn[queue[w][k].of].w = w /\ ~conn[queue[w][k].of].reading
    /\ \A j, k \in Ready(w) : queue[w][j].of = queue[w][k].of => j = k
    /\ Blocked(w) =>
         /\ conn[serving[w]].w = w /\ ~conn[serving[w]].reading
         /\ \A k \in Ready(w) : queue[w][k].of # serving[w]

\* A task belongs to a connection of its worker, which knows it by its id.
TasksOwned ==
  \A w \in Workers : \A t \in tasks[w] :
    /\ conn[t.of].w = w /\ conn[t.of].id = t.id
    /\ t.id \in 1..highest[w] /\ t.age \in 0..Timeout

IdsUnique == \A w \in Workers : \A s, t \in tasks[w] : s.id = t.id => s = t

HasTask(c) == \E w \in Workers : \E t \in tasks[w] : t.of = c
WasRobbed(c) == \E d \in Conns : <<c, d>> \in robbed
Served(c) == \E w \in Workers :
  /\ Blocked(w) /\ serving[w] = c
  /\ \A t \in tasks[w] : t.id # conn[c].id

\* A connection knows the id of a task only if the task is its own, or the connection
\* has expired or lost its task to another.
IdsAccounted ==
  \A c \in Conns :
    conn[c].id = 0 \/ HasTask(c) \/ conn[c].expired \/ WasRobbed(c) \/ Served(c)

Idle == \A c \in Conns : conn[c].reading => HasTask(c) \/ WasRobbed(c)

\* The lengths without the connection that is about to be accepted.
Base == IF accepting = 0 THEN length ELSE [length EXCEPT ![accepting] = @ - 1]
Balanced(len) == \A v, w \in Workers : len[v] <= len[w] + 1

Counted ==
  /\ main = "accepting" =>
       /\ \A w \in Workers : Base[w] = Cardinality({c \in Conns : conn[c].w = w})
       /\ Balanced(Base)
       /\ \A v \in Workers : Base[accepting] <= Base[v]
  /\ \A w \in Workers : length[w] \in 0..(MaxConns + 1)
  /\ Balanced(length)

-----------------------------------------------------------------------------
(* The operators.                                                          *)

\* A set of numbers that is not empty has a least one.
LEMMA Least ==
  ASSUME NEW T, T \subseteq Nat, T # {}
  PROVE  \E x \in T : \A y \in T : x <= y
<1> DEFINE R == OpToRel(<, Nat)
<1>1. PICK x \in T : \A y \in T : ~ (<<y, x>> \in R)
  BY NatLessThanWellFounded, WFMin
<1>2. \A y, z \in Nat : y < z => <<y, z>> \in R
  BY DEF OpToRel
<1> HIDE DEF R
<1>3. ASSUME NEW y \in T PROVE x <= y
  <2>1. x \in Nat /\ y \in Nat
    BY <1>1
  <2>2. ~ (y < x)
    BY <1>1, <1>2, <2>1
  <2> QED BY <2>1, <2>2
<1> QED BY <1>1, <1>3

\* Of finitely many lengths one is the least.
LEMMA LeastValue ==
  ASSUME NEW N \in Nat, N >= 1, NEW f, \A v \in 1..N : f[v] \in Int
  PROVE  \E w \in 1..N : \A v \in 1..N : f[w] <= f[v]
<1> DEFINE HasLeast(n) == \E w \in 1..n : \A v \in 1..n : f[w] <= f[v]
           Bad == {n \in 1..N : ~HasLeast(n)}
<1>1. Bad = {}
  <2> SUFFICES ASSUME Bad # {} PROVE FALSE
    OBVIOUS
  <2>1. PICK n \in Bad : \A m \in Bad : n <= m
    <3>1. Bad \subseteq Nat
      OBVIOUS
    <3> HIDE DEF Bad
    <3> QED BY <3>1, Least
  <2>2. n \in 1..N
    BY <2>1
  <2>3. ~HasLeast(n)
    BY <2>1
  <2>4. n # 1
    <3>1. HasLeast(1)
      OBVIOUS
    <3> QED BY <3>1, <2>3
  <2>5. n - 1 \in 1..N /\ n - 1 \notin Bad
    <3> HIDE DEF Bad
    <3> QED BY <2>1, <2>2, <2>4
  <2>6. PICK w \in 1..(n - 1) : \A v \in 1..(n - 1) : f[w] <= f[v]
    BY <2>5
  <2>7. \A v \in 1..n : v = n \/ v \in 1..(n - 1)
    BY <2>2
  <2>8. CASE f[w] <= f[n]
    <3>1. w \in 1..n
      BY <2>2, <2>6
    <3>2. ASSUME NEW v \in 1..n PROVE f[w] <= f[v]
      <4>1. CASE v = n
        BY <2>8, <4>1
      <4>2. CASE v \in 1..(n - 1)
        BY <2>6, <4>2
      <4> QED BY <2>7, <4>1, <4>2
    <3> QED BY <3>1, <3>2, <2>3
  <2>9. CASE ~(f[w] <= f[n])
    <3>1. f[n] \in Int /\ f[w] \in Int
      BY <2>2, <2>6
    <3>2. ASSUME NEW v \in 1..n PROVE f[n] <= f[v]
      <4>1. f[v] \in Int
        BY <2>2
      <4>2. CASE v = n
        BY <4>1, <4>2
      <4>3. CASE v \in 1..(n - 1)
        <5>1. f[w] <= f[v]
          BY <2>6, <4>3
        <5> QED BY <5>1, <4>1, <3>1, <2>9
      <4> QED BY <2>7, <4>2, <4>3
    <3> QED BY <3>2, <2>2, <2>3
  <2> QED BY <2>8, <2>9
<1>2. N \in 1..N
  OBVIOUS
<1> QED BY <1>1, <1>2

\* pick_io_service_idx returns a worker with the shortest queue.
LEMMA PickShortest ==
  ASSUME NEW len, \A v \in Workers : len[v] \in Int
  PROVE  /\ Pick(len) \in Workers
         /\ \A v \in Workers : len[Pick(len)] <= len[v]
<1> DEFINE Shortest == {w \in Workers : \A v \in Workers : len[w] <= len[v]}
<1>1. PICK w \in Workers : \A v \in Workers : len[w] <= len[v]
  BY LeastValue, CrowAssumption DEF Workers
<1>2. PICK first \in Shortest : \A v \in Shortest : first <= v
  <2>1. Shortest \subseteq Nat
    BY DEF Workers
  <2>2. Shortest # {}
    BY <1>1
  <2> HIDE DEF Shortest
  <2> QED BY <2>1, <2>2, Least
<1>3. \A v \in 1..(first - 1) : len[first] < len[v]
  <2> SUFFICES ASSUME NEW v \in 1..(first - 1) PROVE len[first] < len[v]
    OBVIOUS
  <2>1. v \in Workers /\ v \notin Shortest /\ first \in Workers
    BY <1>2, CrowAssumption DEF Workers
  <2>2. PICK u \in Workers : ~(len[v] <= len[u])
    BY <2>1
  <2>3. len[first] <= len[u]
    BY <1>2, <2>2
  <2> QED BY <2>1, <2>2, <2>3
<1>4. \E v \in Workers :
        /\ \A u \in Workers : len[v] <= len[u]
        /\ \A u \in 1..(v - 1) : len[v] < len[u]
  BY <1>2, <1>3
<1> QED BY <1>4 DEF Pick

\* SetToSeq lists every member of a finite set once.
LEMMA ListsOnce ==
  ASSUME NEW S, IsFiniteSet(S)
  PROVE  /\ SetToSeq(S) \in Seq(S)
         /\ Len(SetToSeq(S)) = Cardinality(S)
         /\ \A j, k \in 1..Len(SetToSeq(S)) : SetToSeq(S)[j] = SetToSeq(S)[k] => j = k
<1>1. Cardinality(S) \in Nat /\ ExistsBijection(1..Cardinality(S), S)
  BY FS_CardinalityType
<1>2. \E f \in [1..Cardinality(S) -> S] : IsInjective(f)
  BY <1>1 DEF ExistsBijection, Bijection, Injection, IsInjective
<1>3. SetToSeq(S) \in [1..Cardinality(S) -> S] /\ IsInjective(SetToSeq(S))
  BY <1>2 DEF SetToSeq
<1> DEFINE q == SetToSeq(S)
<1> HIDE DEF q
<1>4. q \in Seq(S) /\ Len(q) = Cardinality(S)
  BY <1>1, <1>3 DEF q
<1>5. \A j, k \in 1..Len(q) : q[j] = q[k] => j = k
  BY <1>1, <1>3, <1>4 DEF q, IsInjective
<1> QED BY <1>4, <1>5 DEF q

-----------------------------------------------------------------------------
(* Connections and their handlers.                                         *)

\* A step changes nothing of the connections but these fields of c.
Becomes(c, life, w, id, reading) ==
  /\ conn' \in [Conns -> Connection]
  /\ \A d \in Conns : d # c => conn'[d] = conn[d]
  /\ conn'[c].life = life /\ conn'[c].w = w /\ conn'[c].id = id
  /\ conn'[c].reading = reading /\ conn'[c].expired = conn[c].expired

\* The handlers that are ready after a step are of connections other than c, and in
\* order as Queued says.
Left(c) ==
  /\ queue' \in [Workers -> Seq(Item)]
  /\ \A v \in Workers : \A k \in Ready(v)' :
       /\ queue'[v][k].of \in Conns \ {c}
       /\ conn[queue'[v][k].of].w = v /\ ~conn[queue'[v][k].of].reading
       /\ Blocked(v) => serving[v] # queue'[v][k].of
  /\ \A v \in Workers : \A j, k \in Ready(v)' : queue'[v][j].of = queue'[v][k].of => j = k

LEMMA StartDeadlineBecomes ==
  ASSUME Typed, NEW c \in Conns, conn[c].w \in Workers, NEW life \in Lives,
         StartDeadline(c, life)
  PROVE  Becomes(c, life, conn[c].w, highest[conn[c].w] + 1, TRUE)
<1> DEFINE id == highest[conn[c].w] + 1
<1>1. id \in Nat /\ conn \in [Conns -> Connection]
  BY DEF Typed
<1>2. conn' = [conn EXCEPT ![c].life = life, ![c].id = id, ![c].reading = TRUE]
  BY DEF StartDeadline
<1> HIDE DEF id
<1>3. conn'[c] = [conn[c] EXCEPT !.life = life, !.id = id, !.reading = TRUE]
  BY <1>1, <1>2
<1>4. conn[c] \in Connection
  BY <1>1
<1>5. /\ conn'[c] \in Connection
      /\ conn'[c].life = life /\ conn'[c].w = conn[c].w /\ conn'[c].id = id
      /\ conn'[c].reading = TRUE /\ conn'[c].expired = conn[c].expired
  BY <1>1, <1>3, <1>4 DEF Connection
<1>6. \A d \in Conns : d # c => conn'[d] = conn[d]
  BY <1>1, <1>2
<1>7. conn' \in [Conns -> Connection]
  BY <1>1, <1>2, <1>5, <1>6
<1> QED BY <1>5, <1>6, <1>7 DEF Becomes, id

LEMMA GoneBecomes ==
  ASSUME Typed, NEW c \in Conns, Gone(c)
  PROVE  Becomes(c, "gone", conn[c].w, 0, FALSE)
<1>1. conn \in [Conns -> Connection] /\ conn[c] \in Connection
  BY DEF Typed
<1>2. conn' = [conn EXCEPT ![c].life = "gone", ![c].reading = FALSE, ![c].id = 0]
  BY DEF Gone
<1>3. conn'[c] = [conn[c] EXCEPT !.life = "gone", !.reading = FALSE, !.id = 0]
  BY <1>1, <1>2
<1>4. "gone" \in Lives /\ 0 \in Nat
  BY DEF Lives
<1>5. /\ conn'[c] \in Connection
      /\ conn'[c].life = "gone" /\ conn'[c].w = conn[c].w /\ conn'[c].id = 0
      /\ conn'[c].reading = FALSE /\ conn'[c].expired = conn[c].expired
  BY <1>1, <1>3, <1>4 DEF Connection
<1>6. \A d \in Conns : d # c => conn'[d] = conn[d]
  BY <1>1, <1>2
<1>7. conn' \in [Conns -> Connection]
  BY <1>1, <1>2, <1>5, <1>6
<1> QED BY <1>5, <1>6, <1>7 DEF Becomes

LEMMA AcceptBecomes ==
  ASSUME Typed, Phases, NEW c \in Conns, Accept(c)
  PROVE  Becomes(c, "posted", accepting, conn[c].id, conn[c].reading)
<1>1. conn \in [Conns -> Connection] /\ conn[c] \in Connection /\ accepting \in Workers
  BY DEF Typed, Phases, Accept
<1>2. conn' = [conn EXCEPT ![c].life = "posted", ![c].w = accepting]
  BY DEF Accept
<1>3. conn'[c] = [conn[c] EXCEPT !.life = "posted", !.w = accepting]
  BY <1>1, <1>2
<1>4. /\ conn'[c] \in Connection
      /\ conn'[c].life = "posted" /\ conn'[c].w = accepting /\ conn'[c].id = conn[c].id
      /\ conn'[c].reading = conn[c].reading /\ conn'[c].expired = conn[c].expired
  BY <1>1, <1>3 DEF Connection, Lives
<1>5. \A d \in Conns : d # c => conn'[d] = conn[d]
  BY <1>1, <1>2
<1>6. conn' \in [Conns -> Connection]
  BY <1>1, <1>2, <1>4, <1>5
<1> QED BY <1>4, <1>5, <1>6 DEF Becomes

LEMMA ConnectBecomes ==
  ASSUME Typed, NEW c \in Conns, Connect(c)
  PROVE  Becomes(c, "backlog", conn[c].w, conn[c].id, conn[c].reading)
<1>1. conn \in [Conns -> Connection] /\ conn[c] \in Connection
  BY DEF Typed
<1>2. conn' = [conn EXCEPT ![c].life = "backlog"]
  BY DEF Connect
<1>3. conn'[c] = [conn[c] EXCEPT !.life = "backlog"]
  BY <1>1, <1>2
<1>4. /\ conn'[c] \in Connection
      /\ conn'[c].life = "backlog" /\ conn'[c].w = conn[c].w /\ conn'[c].id = conn[c].id
      /\ conn'[c].reading = conn[c].reading /\ conn'[c].expired = conn[c].expired
  BY <1>1, <1>3 DEF Connection, Lives
<1>5. \A d \in Conns : d # c => conn'[d] = conn[d]
  BY <1>1, <1>2
<1>6. conn' \in [Conns -> Connection]
  BY <1>1, <1>2, <1>4, <1>5
<1> QED BY <1>4, <1>5, <1>6 DEF Becomes

LEMMA ReadEndsBecomes ==
  ASSUME Typed, NEW c \in Conns, NEW kind, ReadEnds(c, kind)
  PROVE  Becomes(c, conn[c].life, conn[c].w, conn[c].id, FALSE)
<1>1. conn \in [Conns -> Connection] /\ conn[c] \in Connection
  BY DEF Typed
<1>2. conn' = [conn EXCEPT ![c].reading = FALSE]
  BY DEF ReadEnds
<1>3. conn'[c] = [conn[c] EXCEPT !.reading = FALSE]
  BY <1>1, <1>2
<1>4. /\ conn'[c] \in Connection
      /\ conn'[c].life = conn[c].life /\ conn'[c].w = conn[c].w /\ conn'[c].id = conn[c].id
      /\ conn'[c].reading = FALSE /\ conn'[c].expired = conn[c].expired
  BY <1>1, <1>3 DEF Connection
<1>5. \A d \in Conns : d # c => conn'[d] = conn[d]
  BY <1>1, <1>2
<1>6. conn' \in [Conns -> Connection]
  BY <1>1, <1>2, <1>4, <1>5
<1> QED BY <1>4, <1>5, <1>6 DEF Becomes

\* The handlers of a queue that are not the timer's are of connections.
LEMMA ReadyOfConns ==
  ASSUME Typed
  PROVE  \A v \in Workers : \A k \in Ready(v) : queue[v][k].of \in Conns
<1> TAKE v \in Workers
<1> TAKE k \in Ready(v)
<1>1. queue[v] \in Seq(Item) /\ k \in 1..Len(queue[v]) /\ queue[v][k].kind # "tick"
  BY DEF Ready, Typed
<1>2. queue[v][k] \in Item
  BY <1>1
<1> QED BY <1>1, <1>2 DEF Item

\* A handler that a worker takes: its connection is the worker's own, and does not read.
LEMMA TakesOwn ==
  ASSUME Typed, Queued, NEW w \in Workers,
         NEW kind \in {"start", "request", "command", "end"}, Takes(w, kind)
  PROVE  /\ Head(queue[w]).of \in Conns
         /\ conn[Head(queue[w]).of].w = w /\ ~conn[Head(queue[w]).of].reading
         /\ 1 \in Ready(w) /\ Head(queue[w]) = queue[w][1]
<1>1. queue[w] \in Seq(Item) /\ queue[w] # <<>> /\ Head(queue[w]).kind = kind
  BY DEF Typed, Takes
<1>2. Head(queue[w]) = queue[w][1] /\ 1 \in 1..Len(queue[w]) /\ Head(queue[w]) \in Item
  BY <1>1
<1>3. 1 \in Ready(w)
  BY <1>1, <1>2 DEF Ready
<1>4. Head(queue[w]).of \in Conns
  BY <1>1, <1>2 DEF Item
<1> QED BY <1>2, <1>3, <1>4 DEF Queued

LEMMA DequeueLeaves ==
  ASSUME Typed, Queued, NEW w \in Workers,
         NEW kind \in {"start", "request", "command", "end"}, Takes(w, kind), Dequeue(w)
  PROVE  Left(Head(queue[w]).of)
<1> DEFINE c == Head(queue[w]).of
<1>1. /\ conn[c].w = w /\ 1 \in Ready(w) /\ queue[w][1].of = c
  BY TakesOwn
<1>2. queue[w] \in Seq(Item) /\ queue[w] # <<>> /\ ~Blocked(w)
  BY DEF Typed, Takes, Blocked
<1>3. queue'[w] = Tail(queue[w]) /\ \A v \in Workers : v # w => queue'[v] = queue[v]
  BY DEF Dequeue, Typed
<1>4. queue' \in [Workers -> Seq(Item)]
  BY <1>2 DEF Dequeue, Typed
<1>5. /\ Len(queue'[w]) = Len(queue[w]) - 1
      /\ \A k \in 1..Len(queue'[w]) : queue'[w][k] = queue[w][k + 1]
  BY <1>2, <1>3
<1>6. \A k \in Ready(w)' :
        k \in Nat /\ k + 1 \in Ready(w) /\ k + 1 # 1 /\ queue'[w][k] = queue[w][k + 1]
  BY <1>2, <1>5 DEF Ready
<1>7. \A v \in Workers : v # w => Ready(v)' = Ready(v)
  BY <1>3 DEF Ready
<1> HIDE DEF c
<1>8. \A v \in Workers : \A k \in Ready(v) : queue[v][k].of \in Conns
  BY ReadyOfConns
<1>9. ASSUME NEW v \in Workers, NEW k \in Ready(v)'
      PROVE  /\ queue'[v][k].of \in Conns \ {c}
             /\ conn[queue'[v][k].of].w = v /\ ~conn[queue'[v][k].of].reading
             /\ Blocked(v) => serving[v] # queue'[v][k].of
  <2>1. CASE v = w
    BY <1>1, <1>2, <1>6, <1>8, <2>1 DEF Queued
  <2>2. CASE v # w
    BY <1>1, <1>3, <1>7, <1>8, <2>2 DEF Queued
  <2> QED BY <2>1, <2>2
<1>10. ASSUME NEW v \in Workers, NEW j \in Ready(v)', NEW k \in Ready(v)',
              queue'[v][j].of = queue'[v][k].of
       PROVE  j = k
  <2>1. CASE v = w
    <3>1. j + 1 = k + 1
      BY <1>6, <1>10, <2>1 DEF Queued
    <3> QED BY <3>1, <1>6, <2>1
  <2>2. CASE v # w
    BY <1>3, <1>7, <1>10, <2>2 DEF Queued
  <2> QED BY <2>1, <2>2
<1> QED BY <1>4, <1>9, <1>10 DEF Left, c

LEMMA CancelTyped ==
  ASSUME Typed, NEW c \in Conns, conn[c].w \in Workers
  PROVE  Cancelled(c) \subseteq tasks[conn[c].w] /\ Robs(c) \subseteq Conns \X Conns
<1>1. tasks[conn[c].w] \subseteq Task
  BY DEF Typed
<1> QED BY <1>1 DEF Cancelled, Robs, Task

LEMMA CancelDeadlineTyped ==
  ASSUME Typed, NEW c \in Conns, conn[c].w \in Workers, CancelDeadline(c)
  PROVE  /\ tasks' \in [Workers -> SUBSET Task] /\ highest' \in [Workers -> Nat]
         /\ robbed' \subseteq Conns \X Conns
BY CancelTyped DEF CancelDeadline, Typed

LEMMA StartDeadlineTyped ==
  ASSUME Typed, NEW c \in Conns, conn[c].w \in Workers, NEW life, StartDeadline(c, life)
  PROVE  /\ tasks' \in [Workers -> SUBSET Task] /\ highest' \in [Workers -> Nat]
         /\ robbed' \subseteq Conns \X Conns
<1> DEFINE id == highest[conn[c].w] + 1
<1>1. id \in Nat /\ highest' \in [Workers -> Nat]
  BY DEF Typed, StartDeadline
<1>2. robbed' \subseteq Conns \X Conns
  BY CancelTyped DEF StartDeadline, Typed
<1>3. tasks' = [tasks EXCEPT ![conn[c].w] = Cancelled(c) \cup {[id |-> id, of |-> c, age |-> 0]}]
  BY DEF StartDeadline
<1> HIDE DEF id
<1>4. [id |-> id, of |-> c, age |-> 0] \in Task
  BY <1>1 DEF Task
<1>5. Cancelled(c) \cup {[id |-> id, of |-> c, age |-> 0]} \subseteq Task
  BY <1>4, CancelTyped DEF Typed
<1>6. tasks' \in [Workers -> SUBSET Task]
  BY <1>3, <1>5 DEF Typed
<1> QED BY <1>1, <1>2, <1>6

\* What a step has to say of c for LifeTells to remain true.
LEMMA BecomesTells ==
  ASSUME LifeTells, main' = main, NEW c \in Conns, NEW life, NEW w, NEW id, NEW reading,
         Becomes(c, life, w, id, reading),
         reading => life = "open",
         life \in {"none", "backlog"} => w = 0,
         life = "open" => w \in Workers,
         life = "closed" => conn[c].expired,
         life \notin {"open", "closed"} /\ main # "exited" => id = 0
  PROVE  LifeTells'
<1> SUFFICES ASSUME NEW d \in Conns
             PROVE  /\ conn'[d].reading => conn'[d].life = "open"
                    /\ conn'[d].life \in {"none", "backlog"} => conn'[d].w = 0
                    /\ conn'[d].life = "open" => conn'[d].w \in Workers
                    /\ conn'[d].life = "closed" => conn'[d].expired
                    /\ conn'[d].life \notin {"open", "closed"} /\ main' # "exited"
                         => conn'[d].id = 0
  BY DEF LifeTells
<1>1. CASE d = c
  BY <1>1 DEF Becomes
<1>2. CASE d # c
  BY <1>2 DEF Becomes, LifeTells
<1> QED BY <1>1, <1>2

\* What a handler of c has to leave for Queued to remain true.
LEMMA LeftKeepsQueued ==
  ASSUME Typed, Queued, NEW c \in Conns, Left(c), NEW life, NEW id, NEW reading,
         Becomes(c, life, conn[c].w, id, reading),
         \A v \in Workers : Blocked(v)' =>
           \/ Blocked(v) /\ serving'[v] = serving[v] /\ serving[v] \in Conns \ {c}
           \/ serving'[v] = c /\ conn[c].w = v /\ reading = FALSE
  PROVE  Queued'
<1> SUFFICES ASSUME NEW v \in Workers
             PROVE  /\ \A k \in Ready(v)' : /\ conn'[queue'[v][k].of].w = v
                                            /\ ~conn'[queue'[v][k].of].reading
                    /\ \A j, k \in Ready(v)' : queue'[v][j].of = queue'[v][k].of => j = k
                    /\ Blocked(v)' =>
                         /\ conn'[serving'[v]].w = v /\ ~conn'[serving'[v]].reading
                         /\ \A k \in Ready(v)' : queue'[v][k].of # serving'[v]
  BY DEF Queued
<1>1. \A k \in Ready(v)' : queue'[v][k].of \in Conns \ {c}
  BY DEF Left
<1>2. \A k \in Ready(v)' : conn'[queue'[v][k].of] = conn[queue'[v][k].of]
  BY <1>1 DEF Becomes
<1>3. \A k \in Ready(v)' : conn'[queue'[v][k].of].w = v /\ ~conn'[queue'[v][k].of].reading
  BY <1>2 DEF Left
<1>4. \A j, k \in Ready(v)' : queue'[v][j].of = queue'[v][k].of => j = k
  BY DEF Left
<1>5. CASE Blocked(v) /\ serving'[v] = serving[v] /\ serving[v] \in Conns \ {c}
  <2>1. conn'[serving'[v]] = conn[serving[v]]
    BY <1>5 DEF Becomes
  <2>2. conn[serving[v]].w = v /\ ~conn[serving[v]].reading
    BY <1>5 DEF Queued
  <2>3. \A k \in Ready(v)' : queue'[v][k].of # serving'[v]
    BY <1>5 DEF Left
  <2> QED BY <1>3, <1>4, <2>1, <2>2, <2>3
<1>6. CASE serving'[v] = c /\ conn[c].w = v /\ reading = FALSE
  BY <1>1, <1>3, <1>4, <1>6 DEF Becomes
<1> QED BY <1>3, <1>4, <1>5, <1>6

Core == Typed /\ Phases /\ LifeTells /\ Queued

\* A step that leaves the connections and what is ready alone.
LEMMA CoreSame ==
  ASSUME Core, UNCHANGED <<serving, conn>>, Typed', Phases', main' # "exited" => main # "exited",
         \A v \in Workers : Ready(v)' = Ready(v) /\ (Blocked(v)' <=> Blocked(v)),
         \A v \in Workers : \A k \in Ready(v) : queue'[v][k] = queue[v][k]
  PROVE  Core'
<1>1. Typed /\ Phases /\ LifeTells /\ Queued
  BY DEF Core
<1>2. LifeTells'
  BY <1>1 DEF LifeTells, Phases
<1>3. Queued'
  BY <1>1 DEF Queued
<1> QED BY <1>2, <1>3 DEF Core

\* A worker that is not blocked serves nobody, and the others serve their own.
LEMMA OthersServe ==
  ASSUME Typed, Phases, Queued, NEW w \in Workers, NEW c \in Conns, conn[c].w = w, ~Blocked(w)
  PROVE  \A v \in Workers : Blocked(v) => serving[v] \in Conns \ {c}
<1> SUFFICES ASSUME NEW v \in Workers, Blocked(v) PROVE serving[v] \in Conns \ {c}
  OBVIOUS
<1>1. serving[v] \in Conns
  BY DEF Typed, Phases
<1>2. conn[serving[v]].w = v /\ v # w
  BY DEF Queued
<1> QED BY <1>1, <1>2

\* The fields of Typed that a handler changes, and those it does not.
HandlerTyped ==
  /\ tasks' \in [Workers -> SUBSET Task] /\ highest' \in [Workers -> Nat]
  /\ robbed' \subseteq Conns \X Conns
  /\ ran' \in [Workers -> BOOLEAN]
  /\ run' \in [Workers -> {"new", "running", "blocked", "done"}]
  /\ serving' \in [Workers -> Conns \cup {0}]
  /\ UNCHANGED <<main, accepting, stopping, length, armed, asks>>

\* Whom the workers serve after worker w has run a handler of c.
HandlerServes(w, c, reading) ==
  \A v \in Workers :
    /\ Blocked(v)' => \/ Blocked(v) /\ serving'[v] = serving[v] /\ serving[v] \in Conns \ {c}
                      \/ serving'[v] = c /\ v = w /\ reading = FALSE
    /\ Blocked(v)' <=> serving'[v] # 0
    /\ run[v] # "new" => run'[v] # "new"

\* What a handler of c leaves of the connection.
Sound(c, life, id, reading) ==
  /\ reading => life = "open"
  /\ life \notin {"none", "backlog"}
  /\ life = "closed" => conn[c].expired
  /\ life \notin {"open", "closed"} /\ main # "exited" => id = 0

LEMMA HandlerKeepsCore ==
  ASSUME Core, NEW w \in Workers, NEW c \in Conns, conn[c].w = w,
         Left(c), HandlerTyped, NEW life, NEW id, NEW reading,
         Becomes(c, life, w, id, reading), HandlerServes(w, c, reading),
         Sound(c, life, id, reading)
  PROVE  Core'
<1>1. Typed /\ Phases /\ LifeTells /\ Queued
  BY DEF Core
<1>2. Typed'
  BY <1>1 DEF Typed, Left, Becomes, HandlerTyped
<1>3. Phases'
  <2>1. main # "starting"
    BY <1>1, CrowAssumption DEF Phases, Workers
  <2> QED BY <1>1, <2>1 DEF Phases, HandlerTyped, HandlerServes
<1>4. LifeTells'
  <2>1. main' = main
    BY DEF HandlerTyped
  <2> QED BY <1>1, <2>1, BecomesTells DEF Sound
<1>5. Queued'
  <2>1. \A v \in Workers : Blocked(v)' =>
           \/ Blocked(v) /\ serving'[v] = serving[v] /\ serving[v] \in Conns \ {c}
           \/ serving'[v] = c /\ conn[c].w = v /\ reading = FALSE
    BY DEF HandlerServes
  <2> QED BY <1>1, <2>1, LeftKeepsQueued
<1> QED BY <1>2, <1>3, <1>4, <1>5 DEF Core

\* A handler that ends without blocking its worker.
LEMMA ServesSame ==
  ASSUME Core, NEW w \in Workers, NEW c \in Conns, conn[c].w = w, ~Blocked(w),
         UNCHANGED <<run, serving>>, NEW reading
  PROVE  HandlerServes(w, c, reading)
<1>1. \A v \in Workers : Blocked(v) => serving[v] \in Conns \ {c}
  BY OthersServe DEF Core
<1> QED BY <1>1 DEF HandlerServes, Blocked, Core, Phases

LEMMA CoreRunStart ==
  ASSUME Core, NEW w \in Workers, RunStart(w)
  PROVE  Core'
<1> DEFINE c == Head(queue[w]).of
<1>1. Typed /\ Queued
  BY DEF Core
<1>2. Takes(w, "start") /\ Dequeue(w) /\ StartDeadline(c, "open")
  BY DEF RunStart
<1>3. c \in Conns /\ conn[c].w = w /\ Left(c)
  BY <1>1, <1>2, TakesOwn, DequeueLeaves
<1> HIDE DEF c
<1>4. ~Blocked(w) /\ ran' \in [Workers -> BOOLEAN]
  BY <1>1, <1>2 DEF Takes, Blocked, Typed
<1>5. UNCHANGED <<main, accepting, stopping, run, serving, length, armed, asks>>
  BY DEF RunStart
<1>6. "open" \in Lives
  BY DEF Lives
<1>7. Becomes(c, "open", w, highest[w] + 1, TRUE)
  BY <1>1, <1>2, <1>3, <1>6, StartDeadlineBecomes
<1>8. HandlerTyped
  BY <1>1, <1>2, <1>3, <1>4, <1>5, StartDeadlineTyped DEF HandlerTyped, Typed
<1>9. HandlerServes(w, c, TRUE)
  BY <1>3, <1>4, <1>5, ServesSame
<1>10. Sound(c, "open", highest[w] + 1, TRUE)
  BY DEF Sound
<1> QED BY <1>3, <1>7, <1>8, <1>9, <1>10, HandlerKeepsCore

LEMMA CoreRunRequest ==
  ASSUME Core, NEW w \in Workers, RunRequest(w)
  PROVE  Core'
<1> DEFINE c == Head(queue[w]).of
<1>1. Typed /\ Queued
  BY DEF Core
<1>2. Takes(w, "request") /\ Dequeue(w)
  BY DEF RunRequest
<1>3. c \in Conns /\ conn[c].w = w /\ Left(c)
  BY <1>1, <1>2, TakesOwn, DequeueLeaves
<1>4. \/ StartDeadline(c, "open")
      \/ Gone(c) /\ CancelDeadline(c)
  BY DEF RunRequest
<1> HIDE DEF c
<1>5. ~Blocked(w) /\ ran' \in [Workers -> BOOLEAN]
  BY <1>1, <1>2 DEF Takes, Blocked, Typed
<1>6. UNCHANGED <<main, accepting, stopping, run, serving, length, armed, asks>>
  BY DEF RunRequest
<1>7. HandlerTyped
  BY <1>1, <1>3, <1>4, <1>5, <1>6, StartDeadlineTyped, CancelDeadlineTyped DEF HandlerTyped, Typed
<1>8. HandlerServes(w, c, TRUE) /\ HandlerServes(w, c, FALSE)
  BY <1>3, <1>5, <1>6, ServesSame
<1>9. CASE StartDeadline(c, "open")
  <2>1. "open" \in Lives
    BY DEF Lives
  <2>2. Becomes(c, "open", w, highest[w] + 1, TRUE)
    BY <1>1, <1>3, <1>9, <2>1, StartDeadlineBecomes
  <2>3. Sound(c, "open", highest[w] + 1, TRUE)
    BY DEF Sound
  <2> QED BY <1>3, <1>7, <1>8, <2>2, <2>3, HandlerKeepsCore
<1>10. CASE Gone(c) /\ CancelDeadline(c)
  <2>1. Becomes(c, "gone", w, 0, FALSE)
    BY <1>1, <1>3, <1>10, GoneBecomes
  <2>2. Sound(c, "gone", 0, FALSE)
    BY DEF Sound
  <2> QED BY <1>3, <1>7, <1>8, <2>1, <2>2, HandlerKeepsCore
<1> QED BY <1>4, <1>9, <1>10

LEMMA CoreRunEnd ==
  ASSUME Core, NEW w \in Workers, RunEnd(w)
  PROVE  Core'
<1> DEFINE c == Head(queue[w]).of
<1>1. Typed /\ Queued
  BY DEF Core
<1>2. Takes(w, "end") /\ Dequeue(w) /\ Gone(c) /\ CancelDeadline(c)
  BY DEF RunEnd
<1>3. c \in Conns /\ conn[c].w = w /\ Left(c)
  BY <1>1, <1>2, TakesOwn, DequeueLeaves
<1> HIDE DEF c
<1>4. ~Blocked(w) /\ ran' \in [Workers -> BOOLEAN]
  BY <1>1, <1>2 DEF Takes, Blocked, Typed
<1>5. UNCHANGED <<main, accepting, stopping, run, serving, length, armed, asks>>
  BY DEF RunEnd
<1>6. HandlerTyped
  BY <1>1, <1>2, <1>3, <1>4, <1>5, CancelDeadlineTyped DEF HandlerTyped, Typed
<1>7. HandlerServes(w, c, FALSE)
  BY <1>3, <1>4, <1>5, ServesSame
<1>8. Becomes(c, "gone", w, 0, FALSE)
  BY <1>1, <1>2, <1>3, GoneBecomes
<1>9. Sound(c, "gone", 0, FALSE)
  BY DEF Sound
<1> QED BY <1>3, <1>6, <1>7, <1>8, <1>9, HandlerKeepsCore

LEMMA CoreRunCommand ==
  ASSUME Core, NEW w \in Workers, RunCommand(w)
  PROVE  Core'
<1> DEFINE c == Head(queue[w]).of
<1>1. Typed /\ Phases /\ LifeTells /\ Queued
  BY DEF Core
<1>2. Takes(w, "command") /\ Dequeue(w) /\ CancelDeadline(c)
  BY DEF RunCommand
<1>3. c \in Conns /\ conn[c].w = w /\ ~conn[c].reading /\ Left(c)
  BY <1>1, <1>2, TakesOwn, DequeueLeaves
<1>4. \/ /\ conn[c].life = "open" /\ run' = [run EXCEPT ![w] = "blocked"]
         /\ serving' = [serving EXCEPT ![w] = c] /\ UNCHANGED conn
      \/ UNCHANGED <<run, serving>> /\ Gone(c)
  BY DEF RunCommand
<1> HIDE DEF c
<1>5. ~Blocked(w) /\ ran' \in [Workers -> BOOLEAN]
  BY <1>1, <1>2 DEF Takes, Blocked, Typed
<1>6. UNCHANGED <<main, accepting, stopping, length, armed, asks>>
  BY DEF RunCommand
<1>7. HandlerTyped
  <2>1. run' \in [Workers -> {"new", "running", "blocked", "done"}]
    BY <1>1, <1>4 DEF Typed
  <2>2. serving' \in [Workers -> Conns \cup {0}]
    <3>1. serving' = serving \/ serving' = [serving EXCEPT ![w] = c]
      BY <1>4
    <3>2. serving \in [Workers -> Conns \cup {0}] /\ c \in Conns \cup {0}
      BY <1>1, <1>3 DEF Typed
    <3> QED BY <3>1, <3>2
  <2> QED BY <1>1, <1>2, <1>3, <1>5, <1>6, <2>1, <2>2, CancelDeadlineTyped DEF HandlerTyped
<1>8. CASE /\ conn[c].life = "open" /\ run' = [run EXCEPT ![w] = "blocked"]
           /\ serving' = [serving EXCEPT ![w] = c] /\ UNCHANGED conn
  <2>1. Becomes(c, "open", w, conn[c].id, FALSE)
    BY <1>1, <1>3, <1>8 DEF Becomes, Typed, Connection
  <2>2. ASSUME NEW v \in Workers
        PROVE  /\ Blocked(v)' =>
                    \/ Blocked(v) /\ serving'[v] = serving[v] /\ serving[v] \in Conns \ {c}
                    \/ serving'[v] = c /\ v = w
               /\ Blocked(v)' <=> serving'[v] # 0
               /\ run[v] # "new" => run'[v] # "new"
    <3>1. CASE v = w
      <4>1. serving'[w] = c /\ run'[w] = "blocked" /\ c # 0
        BY <1>1, <1>3, <1>8 DEF Typed, Conns
      <4> QED BY <3>1, <4>1 DEF Blocked
    <3>2. CASE v # w
      <4>1. serving'[v] = serving[v] /\ run'[v] = run[v]
        BY <1>1, <1>8, <3>2 DEF Typed
      <4>2. Blocked(v) => serving[v] \in Conns \ {c}
        BY <1>1, <1>3, <1>5, OthersServe
      <4> QED BY <1>1, <4>1, <4>2 DEF Blocked, Phases
    <3> QED BY <3>1, <3>2
  <2>3. HandlerServes(w, c, FALSE)
    BY <2>2 DEF HandlerServes
  <2>4. Sound(c, "open", conn[c].id, FALSE)
    BY DEF Sound
  <2> QED BY <1>3, <1>7, <2>1, <2>3, <2>4, HandlerKeepsCore
<1>9. CASE UNCHANGED <<run, serving>> /\ Gone(c)
  <2>1. Becomes(c, "gone", w, 0, FALSE)
    BY <1>1, <1>3, <1>9, GoneBecomes
  <2>2. HandlerServes(w, c, FALSE)
    BY <1>3, <1>5, <1>9, ServesSame
  <2>3. Sound(c, "gone", 0, FALSE)
    BY DEF Sound
  <2> QED BY <1>3, <1>7, <2>1, <2>2, <2>3, HandlerKeepsCore
<1> QED BY <1>4, <1>8, <1>9

LEMMA CoreUnblock ==
  ASSUME Core, NEW w \in Workers, Unblock(w)
  PROVE  Core'
<1> DEFINE c == serving[w]
<1>1. Typed /\ Phases /\ LifeTells /\ Queued
  BY DEF Core
<1>2. /\ Blocked(w) /\ run' = [run EXCEPT ![w] = "running"]
      /\ serving' = [serving EXCEPT ![w] = 0] /\ StartDeadline(c, "open")
      /\ UNCHANGED <<main, accepting, stopping, ran, length, queue, armed, asks>>
  BY DEF Unblock
<1>3. c \in Conns /\ conn[c].w = w /\ ~conn[c].reading
  BY <1>1, <1>2 DEF Typed, Phases, Queued
<1>4. Left(c)
  <2>1. ASSUME NEW v \in Workers, NEW k \in Ready(v)
        PROVE  /\ queue[v][k].of \in Conns \ {c}
               /\ conn[queue[v][k].of].w = v /\ ~conn[queue[v][k].of].reading
               /\ Blocked(v) => serving[v] # queue[v][k].of
    <3>1. queue[v][k].of \in Conns
      BY <1>1, <2>1, ReadyOfConns
    <3>2. queue[v][k].of # c
      BY <1>1, <1>2, <1>3, <2>1 DEF Queued
    <3> QED BY <1>1, <2>1, <3>1, <3>2 DEF Queued
  <2>2. \A v \in Workers : Ready(v)' = Ready(v)
    BY <1>2 DEF Ready
  <2> QED BY <1>1, <1>2, <2>1, <2>2 DEF Left, Queued, Typed
<1>5. HandlerTyped
  <2>1. run' \in [Workers -> {"new", "running", "blocked", "done"}]
    BY <1>1, <1>2 DEF Typed
  <2>2. serving' \in [Workers -> Conns \cup {0}]
    BY <1>1, <1>2 DEF Typed
  <2> QED BY <1>1, <1>2, <1>3, <2>1, <2>2, StartDeadlineTyped DEF HandlerTyped, Typed
<1>6. HandlerServes(w, c, TRUE)
  <2>1. ASSUME NEW v \in Workers
        PROVE  /\ Blocked(v)' =>
                    Blocked(v) /\ serving'[v] = serving[v] /\ serving[v] \in Conns \ {c}
               /\ Blocked(v)' <=> serving'[v] # 0
               /\ run[v] # "new" => run'[v] # "new"
    <3>1. CASE v = w
      <4>1. serving'[w] = 0 /\ run'[w] = "running"
        BY <1>1, <1>2 DEF Typed
      <4> QED BY <3>1, <4>1 DEF Blocked
    <3>2. CASE v # w
      <4>1. serving'[v] = serving[v] /\ run'[v] = run[v]
        BY <1>1, <1>2, <3>2 DEF Typed
      <4>2. Blocked(v) => serving[v] \in Conns \ {c}
        BY <1>1, <1>3, <3>2 DEF Queued, Typed, Phases
      <4> QED BY <1>1, <4>1, <4>2 DEF Blocked, Phases
    <3> QED BY <3>1, <3>2
  <2> QED BY <2>1 DEF HandlerServes
<1>7. "open" \in Lives
  BY DEF Lives
<1>8. Becomes(c, "open", w, highest[w] + 1, TRUE)
  BY <1>1, <1>2, <1>3, <1>7, StartDeadlineBecomes
<1> HIDE DEF c
<1>9. Sound(c, "open", highest[w] + 1, TRUE)
  BY DEF Sound
<1> QED BY <1>3, <1>4, <1>5, <1>6, <1>8, <1>9, HandlerKeepsCore

\* The handlers that are ready after one of c has been appended to the queue of w.
Joined(c, w) ==
  /\ queue' \in [Workers -> Seq(Item)]
  /\ \A v \in Workers : \A k \in Ready(v)' :
       \/ v = w /\ k = Len(queue[w]) + 1 /\ queue'[v][k].of = c
       \/ k \in Ready(v) /\ queue'[v][k] = queue[v][k]

LEMMA AppendJoins ==
  ASSUME Typed, NEW c \in Conns, NEW w \in Workers,
         NEW kind \in {"start", "request", "command", "end"},
         queue' = [queue EXCEPT ![w] = Append(@, [kind |-> kind, of |-> c])]
  PROVE  Joined(c, w)
<1> DEFINE e == [kind |-> kind, of |-> c]
<1>1. e \in Item /\ e.kind # "tick" /\ e.of = c
  BY DEF Item
<1> HIDE DEF e
<1>2. queue' = [queue EXCEPT ![w] = Append(@, e)] /\ queue \in [Workers -> Seq(Item)]
  BY DEF e, Typed
<1>3. queue' \in [Workers -> Seq(Item)]
  BY <1>1, <1>2
<1>4. /\ Len(queue'[w]) = Len(queue[w]) + 1 /\ Len(queue[w]) \in Nat
      /\ queue'[w][Len(queue[w]) + 1] = e
      /\ \A k \in 1..Len(queue[w]) : queue'[w][k] = queue[w][k]
  BY <1>1, <1>2
<1>5. \A v \in Workers : v # w => queue'[v] = queue[v]
  BY <1>2
<1>6. \A v \in Workers : \A k \in Ready(v)' :
        \/ v = w /\ k = Len(queue[w]) + 1 /\ queue'[v][k].of = c
        \/ k \in Ready(v) /\ queue'[v][k] = queue[v][k]
  <2> SUFFICES ASSUME NEW v \in Workers, NEW k \in Ready(v)'
               PROVE  \/ v = w /\ k = Len(queue[w]) + 1 /\ queue'[v][k].of = c
                      \/ k \in Ready(v) /\ queue'[v][k] = queue[v][k]
    OBVIOUS
  <2>1. k \in 1..Len(queue'[v]) /\ queue'[v][k].kind # "tick"
    BY DEF Ready
  <2>2. CASE v # w
    BY <1>5, <2>1, <2>2 DEF Ready
  <2>3. CASE v = w /\ k = Len(queue[w]) + 1
    BY <1>1, <1>4, <2>3
  <2>4. CASE v = w /\ k # Len(queue[w]) + 1
    <3>1. k \in 1..Len(queue[w])
      BY <1>4, <2>1, <2>4
    <3> QED BY <1>4, <2>1, <2>4, <3>1 DEF Ready
  <2> QED BY <2>2, <2>3, <2>4
<1> QED BY <1>3, <1>6 DEF Joined

\* A connection of which no handler is ready or at work.
Quiet(c) ==
  \A v \in Workers : /\ \A k \in Ready(v) : queue[v][k].of # c
                     /\ Blocked(v) => serving[v] # c

LEMMA JoinedKeepsQueued ==
  ASSUME Typed, Phases, Queued, NEW c \in Conns, NEW w \in Workers, Joined(c, w), Quiet(c),
         NEW life, NEW id, Becomes(c, life, w, id, FALSE), UNCHANGED <<run, serving>>
  PROVE  Queued'
<1>1. \A v \in Workers : \A k \in Ready(v)' :
        \/ v = w /\ k = Len(queue[w]) + 1 /\ queue'[v][k].of = c
        \/ k \in Ready(v) /\ queue'[v][k] = queue[v][k]
  BY DEF Joined
<1>2. \A v \in Workers : \A k \in Ready(v) : queue[v][k].of \in Conns
  BY ReadyOfConns
<1>3. \A v \in Workers : Blocked(v)' <=> Blocked(v)
  BY DEF Blocked
<1>4. ASSUME NEW v \in Workers
      PROVE  /\ \A k \in Ready(v)' : conn'[queue'[v][k].of].w = v /\ ~conn'[queue'[v][k].of].reading
             /\ \A j, k \in Ready(v)' : queue'[v][j].of = queue'[v][k].of => j = k
             /\ Blocked(v)' =>
                  /\ conn'[serving'[v]].w = v /\ ~conn'[serving'[v]].reading
                  /\ \A k \in Ready(v)' : queue'[v][k].of # serving'[v]
  <2>1. ASSUME NEW k \in Ready(v)'
        PROVE  conn'[queue'[v][k].of].w = v /\ ~conn'[queue'[v][k].of].reading
    <3>1. CASE v = w /\ queue'[v][k].of = c
      BY <3>1 DEF Becomes
    <3>2. CASE k \in Ready(v) /\ queue'[v][k] = queue[v][k]
      <4>1. queue[v][k].of \in Conns /\ queue[v][k].of # c
        BY <1>2, <3>2 DEF Quiet
      <4>2. conn'[queue[v][k].of] = conn[queue[v][k].of]
        BY <4>1 DEF Becomes
      <4> QED BY <3>2, <4>2 DEF Queued
    <3> QED BY <1>1, <2>1, <3>1, <3>2
  <2>2. ASSUME NEW j \in Ready(v)', NEW k \in Ready(v)', queue'[v][j].of = queue'[v][k].of
        PROVE  j = k
    <3>1. CASE j \in Ready(v) /\ queue'[v][j] = queue[v][j]
      <4>1. k \in Ready(v) /\ queue'[v][k] = queue[v][k]
        BY <1>1, <2>2, <3>1 DEF Quiet
      <4> QED BY <2>2, <3>1, <4>1 DEF Queued
    <3>2. CASE v = w /\ j = Len(queue[w]) + 1 /\ queue'[v][j].of = c
      <4>1. v = w /\ k = Len(queue[w]) + 1
        BY <1>1, <2>2, <3>2 DEF Quiet
      <4> QED BY <3>2, <4>1
    <3> QED BY <1>1, <2>2, <3>1, <3>2
  <2>3. ASSUME Blocked(v)
        PROVE  /\ conn'[serving'[v]].w = v /\ ~conn'[serving'[v]].reading
               /\ \A k \in Ready(v)' : queue'[v][k].of # serving'[v]
    <3>1. serving'[v] = serving[v] /\ serving[v] \in Conns /\ serving[v] # c
      BY <2>3 DEF Phases, Typed, Quiet
    <3>2. conn'[serving[v]] = conn[serving[v]]
      BY <3>1 DEF Becomes
    <3>3. conn'[serving'[v]].w = v /\ ~conn'[serving'[v]].reading
      BY <2>3, <3>1, <3>2 DEF Queued
    <3>4. \A k \in Ready(v) : queue[v][k].of # serving[v]
      BY <2>3 DEF Queued
    <3>5. \A k \in Ready(v)' : queue'[v][k].of # serving'[v]
      BY <1>1, <3>1, <3>4
    <3> QED BY <3>3, <3>5
  <2> QED BY <1>3, <2>1, <2>2, <2>3
<1> QED BY <1>4 DEF Queued

LEMMA CoreAccept ==
  ASSUME Core, NEW c \in Conns, Accept(c)
  PROVE  Core'
<1>1. Typed /\ Phases /\ LifeTells /\ Queued
  BY DEF Core
<1>2. /\ main = "accepting" /\ conn[c].life = "backlog" /\ accepting \in Workers
      /\ queue' = [queue EXCEPT ![accepting] = Append(@, [kind |-> "start", of |-> c])]
      /\ UNCHANGED <<main, stopping, run, serving, ran, armed, tasks, highest, asks, robbed>>
  BY <1>1 DEF Accept, Waiting, Phases
<1>3. conn[c].w = 0 /\ ~conn[c].reading /\ conn[c].id = 0
  BY <1>1, <1>2 DEF LifeTells
<1>4. conn[c].reading = FALSE
  BY <1>1, <1>3 DEF Typed, Connection
<1>5. Becomes(c, "posted", accepting, 0, FALSE)
  BY <1>1, <1>3, <1>4, AcceptBecomes
<1>6. Quiet(c)
  BY <1>1, <1>3 DEF Queued, Workers, Quiet
<1>7. Joined(c, accepting)
  BY <1>1, <1>2, AppendJoins
<1>8. queue' \in [Workers -> Seq(Item)] /\ Queued'
  BY <1>1, <1>2, <1>5, <1>6, <1>7, JoinedKeepsQueued DEF Joined
<1>9. accepting' \in Workers /\ length' \in [Workers -> Int]
  <2>1. Pick(length) \in Workers
    BY <1>1, PickShortest DEF Typed
  <2> QED BY <1>1, <2>1 DEF Accept, DoAccept, Typed
<1>10. Typed'
  BY <1>1, <1>2, <1>5, <1>8, <1>9 DEF Typed, Becomes
<1>11. Phases'
  BY <1>1, <1>2, <1>9 DEF Phases, Blocked
<1>12. LifeTells'
  BY <1>1, <1>2, <1>5, BecomesTells
<1> QED BY <1>8, <1>10, <1>11, <1>12 DEF Core

LEMMA CoreReadEnds ==
  ASSUME Core, NEW c \in Conns, NEW kind \in {"request", "command", "end"}, ReadEnds(c, kind),
         asks' \in Nat
  PROVE  Core'
<1>1. Typed /\ Phases /\ LifeTells /\ Queued
  BY DEF Core
<1>2. /\ conn[c].life = "open" /\ conn[c].reading
      /\ queue' = [queue EXCEPT ![conn[c].w] = Append(@, [kind |-> kind, of |-> c])]
      /\ UNCHANGED <<main, accepting, stopping, run, serving, ran, length, armed, tasks, highest,
                     robbed>>
  BY DEF ReadEnds, threads
<1>3. conn[c].w \in Workers
  BY <1>1, <1>2 DEF LifeTells
<1>4. Becomes(c, "open", conn[c].w, conn[c].id, FALSE)
  BY <1>1, <1>2, ReadEndsBecomes
<1>5. Quiet(c)
  BY <1>1, <1>2 DEF Queued, Quiet
<1>6. Joined(c, conn[c].w)
  BY <1>1, <1>2, <1>3, AppendJoins
<1>7. queue' \in [Workers -> Seq(Item)] /\ Queued'
  BY <1>1, <1>2, <1>3, <1>4, <1>5, <1>6, JoinedKeepsQueued DEF Joined
<1>8. Typed'
  BY <1>1, <1>2, <1>4, <1>7 DEF Typed, Becomes
<1>9. Phases'
  <2>1. main # "starting"
    BY <1>1, <1>3, CrowAssumption DEF Phases, Workers
  <2> QED BY <1>1, <1>2, <2>1 DEF Phases, Blocked
<1>10. LifeTells'
  BY <1>1, <1>2, <1>3, <1>4, BecomesTells
<1> QED BY <1>7, <1>8, <1>9, <1>10 DEF Core

LEMMA CoreConnect ==
  ASSUME Core, NEW c \in Conns, Connect(c)
  PROVE  Core'
<1>1. Typed /\ Phases /\ LifeTells /\ Queued
  BY DEF Core
<1>2. /\ main = "accepting" /\ conn[c].life = "none"
      /\ UNCHANGED <<main, accepting, stopping, run, serving, ran, length, queue, armed, tasks,
                     highest, asks, robbed>>
  BY DEF Connect, threads, io
<1>3. conn[c].w = 0 /\ ~conn[c].reading /\ conn[c].id = 0
  BY <1>1, <1>2 DEF LifeTells
<1>4. conn[c].reading = FALSE
  BY <1>1, <1>3 DEF Typed, Connection
<1>5. Becomes(c, "backlog", 0, 0, FALSE)
  BY <1>1, <1>3, <1>4, ConnectBecomes
<1>6. Queued'
  <2>1. \A d \in Conns : conn'[d].w = conn[d].w /\ (conn'[d].reading => conn[d].reading)
    BY <1>3, <1>5 DEF Becomes
  <2>2. \A v \in Workers : \A k \in Ready(v) : queue[v][k].of \in Conns
    BY <1>1, ReadyOfConns
  <2>3. \A v \in Workers : Blocked(v) => serving[v] \in Conns
    BY <1>1 DEF Phases, Typed
  <2> QED BY <1>1, <1>2, <2>1, <2>2, <2>3 DEF Queued, Ready, Blocked
<1>7. Typed'
  BY <1>1, <1>2, <1>5 DEF Typed, Becomes
<1>8. Phases'
  BY <1>1, <1>2 DEF Phases, Blocked
<1>9. LifeTells'
  BY <1>1, <1>2, <1>5, BecomesTells
<1> QED BY <1>6, <1>7, <1>8, <1>9 DEF Core

LEMMA CoreStartWorker ==
  ASSUME Core, NEW w \in Workers, StartWorker(w)
  PROVE  Core'
<1>1. Typed /\ Phases
  BY DEF Core
<1>2. /\ run[w] = "new" /\ run' = [run EXCEPT ![w] = "running"]
      /\ armed' = [armed EXCEPT ![w] = TRUE] /\ length' = [length EXCEPT ![w] = 0]
      /\ UNCHANGED <<main, accepting, stopping, serving, ran, queue, tasks, highest, conn, asks,
                     robbed>>
  BY DEF StartWorker
<1>3. run' \in [Workers -> {"new", "running", "blocked", "done"}]
  BY <1>1, <1>2 DEF Typed
<1>4. Typed'
  BY <1>1, <1>2, <1>3 DEF Typed
<1>5. \A v \in Workers : Blocked(v)' <=> Blocked(v)
  BY <1>1, <1>2 DEF Blocked, Typed
<1>6. main = "starting"
  BY <1>1, <1>2 DEF Phases
<1>7. Phases'
  <2>1. \A v \in Workers : length'[v] = 0
    BY <1>1, <1>2, <1>6 DEF Phases, Typed
  <2> QED BY <1>1, <1>2, <1>5, <1>6, <2>1 DEF Phases
<1>8. \A v \in Workers : Ready(v)' = Ready(v)
  BY <1>2 DEF Ready
<1> QED BY <1>2, <1>4, <1>5, <1>7, <1>8, CoreSame

LEMMA CoreRunReturns ==
  ASSUME Core, NEW w \in Workers, RunReturns(w)
  PROVE  Core'
<1>1. Typed /\ Phases
  BY DEF Core
<1>2. /\ run[w] = "running"
      /\ ran' = [ran EXCEPT ![w] = FALSE] \/ ran' = ran
      /\ run' = [run EXCEPT ![w] = "done"] \/ run' = run
      /\ UNCHANGED <<main, accepting, stopping, serving, length, queue, armed, tasks, highest,
                     conn, asks, robbed>>
  BY DEF RunReturns, io
<1>3. run' \in [Workers -> {"new", "running", "blocked", "done"}] /\ ran' \in [Workers -> BOOLEAN]
  BY <1>1, <1>2 DEF Typed
<1>4. Typed'
  BY <1>1, <1>2, <1>3 DEF Typed
<1>5. \A v \in Workers : /\ Blocked(v)' <=> Blocked(v)
                         /\ run[v] # "new" => run'[v] # "new"
  BY <1>1, <1>2 DEF Blocked, Typed
<1>6. Phases'
  BY <1>1, <1>2, <1>5 DEF Phases
<1>7. \A v \in Workers : Ready(v)' = Ready(v)
  BY <1>2 DEF Ready
<1> QED BY <1>2, <1>4, <1>5, <1>6, <1>7, CoreSame

LEMMA CoreTimerFires ==
  ASSUME Core, NEW w \in Workers, TimerFires(w)
  PROVE  Core'
<1> DEFINE e == [kind |-> "tick"]
<1>1. Typed /\ Phases
  BY DEF Core
<1>2. /\ armed' = [armed EXCEPT ![w] = FALSE]
      /\ queue' = [queue EXCEPT ![w] = Append(@, e)]
      /\ UNCHANGED <<main, accepting, stopping, run, serving, ran, length, tasks, highest, conn,
                     asks, robbed>>
  BY DEF TimerFires, threads
<1>3. e \in Item /\ e.kind = "tick"
  BY DEF Item
<1> HIDE DEF e
<1>4. queue \in [Workers -> Seq(Item)] /\ queue' \in [Workers -> Seq(Item)]
  BY <1>1, <1>2, <1>3 DEF Typed
<1>5. Typed'
  BY <1>1, <1>2, <1>4 DEF Typed
<1>6. Phases'
  BY <1>1, <1>2 DEF Phases, Blocked
<1>7. ASSUME NEW v \in Workers
      PROVE  Ready(v)' = Ready(v) /\ \A k \in Ready(v) : queue'[v][k] = queue[v][k]
  <2>1. CASE v # w
    BY <1>2, <1>4, <2>1 DEF Ready
  <2>2. CASE v = w
    <3>1. /\ Len(queue'[w]) = Len(queue[w]) + 1 /\ Len(queue[w]) \in Nat
          /\ queue'[w][Len(queue[w]) + 1] = e
          /\ \A k \in 1..Len(queue[w]) : queue'[w][k] = queue[w][k]
      BY <1>2, <1>3, <1>4
    <3>2. \A k \in 1..Len(queue'[w]) : k = Len(queue[w]) + 1 \/ k \in 1..Len(queue[w])
      BY <3>1
    <3>3. 1..Len(queue[w]) \subseteq 1..Len(queue'[w])
      BY <3>1
    <3> QED BY <1>3, <2>2, <3>1, <3>2, <3>3 DEF Ready
  <2> QED BY <2>1, <2>2
<1>8. \A v \in Workers : Blocked(v)' <=> Blocked(v)
  BY <1>2 DEF Blocked
<1> QED BY <1>2, <1>5, <1>6, <1>7, <1>8, CoreSame

LEMMA CoreStartAccepting ==
  ASSUME Core, StartAccepting
  PROVE  Core'
<1>1. Typed /\ Phases
  BY DEF Core
<1>2. /\ main = "starting" /\ main' = "accepting" /\ \A w \in Workers : run[w] # "new"
      /\ accepting' = Pick(length) /\ length' = [length EXCEPT ![Pick(length)] = @ + 1]
      /\ UNCHANGED <<stopping, run, serving, ran, queue, armed, tasks, highest, conn, asks, robbed>>
  BY DEF StartAccepting, DoAccept, io
<1>3. Pick(length) \in Workers
  BY <1>1, PickShortest DEF Typed
<1>4. Typed'
  <2>1. length' \in [Workers -> Int]
    BY <1>1, <1>2, <1>3 DEF Typed
  <2> QED BY <1>1, <1>2, <1>3, <2>1 DEF Typed
<1>5. Phases'
  BY <1>1, <1>2, <1>3 DEF Phases, Blocked
<1>6. \A v \in Workers : Ready(v)' = Ready(v) /\ (Blocked(v)' <=> Blocked(v))
  BY <1>2 DEF Ready, Blocked
<1> QED BY <1>2, <1>4, <1>5, <1>6, CoreSame

LEMMA CoreAcceptFails ==
  ASSUME Core, AcceptFails
  PROVE  Core'
<1> DEFINE len == [length EXCEPT ![accepting] = @ - 1]
<1>1. Typed /\ Phases
  BY DEF Core
<1>2. /\ main = "accepting" /\ main' = main
      /\ accepting' = Pick(len) /\ length' = [len EXCEPT ![Pick(len)] = @ + 1]
      /\ UNCHANGED <<stopping, run, serving, ran, queue, armed, tasks, highest, conn, asks, robbed>>
  BY DEF AcceptFails, DoAccept, io
<1>3. len \in [Workers -> Int]
  BY <1>1, <1>2 DEF Typed, Phases
<1> HIDE DEF len
<1>4. Pick(len) \in Workers
  BY <1>3, PickShortest
<1>5. Typed'
  <2>1. length' \in [Workers -> Int]
    BY <1>2, <1>3, <1>4
  <2> QED BY <1>1, <1>2, <1>4, <2>1 DEF Typed
<1>6. Phases'
  BY <1>1, <1>2, <1>4 DEF Phases, Blocked
<1>7. \A v \in Workers : Ready(v)' = Ready(v) /\ (Blocked(v)' <=> Blocked(v))
  BY <1>2 DEF Ready, Blocked
<1> QED BY <1>2, <1>5, <1>6, <1>7, CoreSame

LEMMA CoreStop ==
  ASSUME Core, Stop
  PROVE  Core'
<1>1. Typed /\ Phases /\ LifeTells /\ Queued
  BY DEF Core
<1>2. /\ main = "accepting" /\ main' = "joining" /\ stopping' = TRUE /\ accepting' = 0
      /\ queue' = [w \in Workers |-> <<>>]
      /\ UNCHANGED <<run, serving, ran, length, armed, tasks, highest, conn, asks, robbed>>
  BY DEF Stop
<1>3. Typed'
  <2>1. queue' \in [Workers -> Seq(Item)]
    BY <1>2
  <2> QED BY <1>1, <1>2, <2>1 DEF Typed
<1>4. Phases'
  BY <1>1, <1>2 DEF Phases, Blocked
<1>5. LifeTells'
  BY <1>1, <1>2 DEF LifeTells
<1>6. \A v \in Workers : Ready(v)' = {} /\ (Blocked(v)' <=> Blocked(v))
  BY <1>2 DEF Ready, Blocked
<1>7. Queued'
  BY <1>1, <1>2, <1>6 DEF Queued
<1> QED BY <1>3, <1>4, <1>5, <1>7 DEF Core

LEMMA CoreExit ==
  ASSUME Core, Exit
  PROVE  Core'
<1>1. Typed /\ Phases /\ LifeTells /\ Queued
  BY DEF Core
<1>2. /\ main = "joining" /\ main' = "exited" /\ \A w \in Workers : run[w] = "done"
      /\ UNCHANGED <<accepting, stopping, run, serving, ran, length, queue, armed, tasks, highest,
                     asks, robbed>>
  BY DEF Exit, io
<1> DEFINE Ended(c) == [conn[c] EXCEPT !.life = "gone", !.reading = FALSE]
<1>3. conn' = [c \in Conns |-> IF conn[c].life = "none" THEN conn[c] ELSE Ended(c)]
  BY DEF Exit
<1>4. ASSUME NEW c \in Conns
      PROVE  /\ conn'[c] \in Connection /\ conn'[c].w = conn[c].w
             /\ \/ conn'[c] = conn[c]
                \/ conn'[c].life = "gone" /\ ~conn'[c].reading
  <2>1. conn[c] \in Connection /\ "gone" \in Lives
    BY <1>1 DEF Typed, Lives
  <2>2. conn'[c] = conn[c] \/ conn'[c] = Ended(c)
    <3> HIDE DEF Ended
    <3> QED BY <1>3
  <2>3. CASE conn'[c] = conn[c]
    BY <2>1, <2>3
  <2>4. CASE conn'[c] = Ended(c)
    BY <2>1, <2>4 DEF Connection
  <2> QED BY <2>2, <2>3, <2>4
<1>5. conn' \in [Conns -> Connection]
  <2> HIDE DEF Ended
  <2> QED BY <1>4, <1>3
<1>6. Typed'
  BY <1>1, <1>2, <1>5 DEF Typed
<1>7. Phases'
  <2>1. \A w \in Workers : ~Blocked(w) /\ ~Blocked(w)' /\ run'[w] # "new"
    BY <1>2 DEF Blocked
  <2> QED BY <1>1, <1>2, <2>1 DEF Phases
<1>8. LifeTells'
  BY <1>1, <1>2, <1>4 DEF LifeTells
<1>9. Queued'
  <2>1. \A v \in Workers : Ready(v)' = Ready(v) /\ ~Blocked(v)'
    BY <1>2 DEF Ready, Blocked
  <2>2. \A v \in Workers : \A k \in Ready(v) : queue[v][k].of \in Conns
    BY <1>1, ReadyOfConns
  <2>3. \A v \in Workers : \A k \in Ready(v) :
          conn'[queue[v][k].of].w = v /\ ~conn'[queue[v][k].of].reading
    BY <1>1, <1>4, <2>2 DEF Queued
  <2> QED BY <1>1, <1>2, <2>1, <2>3 DEF Queued
<1> QED BY <1>6, <1>7, <1>8, <1>9 DEF Core

-----------------------------------------------------------------------------
(* What a tick of the timer of worker w does: the names of Tick.           *)

Older(w)   == {[t EXCEPT !.age = @ + 1] : t \in tasks[w]}
Over(w)    == {t \in Older(w) : t.age > Timeout}
Closing(w) == {t.of : t \in Over(w)}
Aborted(w) == {c \in Closing(w) : conn[c].life = "open" /\ conn[c].reading}
EndsOf(w)  == {[kind |-> "end", of |-> c] : c \in Aborted(w)}
Shut(c)    == [conn[c] EXCEPT !.life = "closed", !.reading = FALSE, !.expired = TRUE]

LEMMA TickIs ==
  ASSUME NEW w \in Workers, Tick(w)
  PROVE  /\ Takes(w, "tick")
         /\ tasks' = [tasks EXCEPT ![w] = Older(w) \ Over(w)]
         /\ highest' = [highest EXCEPT ![w] = IF Older(w) = Over(w) THEN 0 ELSE @]
         /\ queue' = [queue EXCEPT ![w] = Tail(@) \o SetToSeq(EndsOf(w))]
         /\ conn' = [c \in Conns |-> IF c \in Closing(w) /\ conn[c].life = "open"
                                       THEN Shut(c) ELSE conn[c]]
         /\ armed' = [armed EXCEPT ![w] = TRUE]
         /\ UNCHANGED <<main, accepting, stopping, run, serving, length, asks, robbed>>
BY DEF Tick, Older, Over, Closing, Aborted, EndsOf, Shut

\* A task grows older and keeps its id and its connection.
LEMMA OlderTasks ==
  ASSUME Typed, NEW w \in Workers, NEW t \in Older(w)
  PROVE  /\ t \in Task
         /\ \E s \in tasks[w] : s.id = t.id /\ s.of = t.of /\ t.age = s.age + 1 /\ s \in Task
<1>1. tasks[w] \subseteq Task
  BY DEF Typed
<1>2. PICK s \in tasks[w] : t = [s EXCEPT !.age = @ + 1]
  BY DEF Older
<1>3. s \in Task
  BY <1>1
<1>4. t.id = s.id /\ t.of = s.of /\ t.age = s.age + 1 /\ t \in Task
  BY <1>2, <1>3 DEF Task
<1> QED BY <1>3, <1>4

\* What becomes of the connections.
LEMMA TickConn ==
  ASSUME Typed, NEW w \in Workers, Tick(w)
  PROVE  /\ conn' \in [Conns -> Connection]
         /\ \A c \in Conns :
              \/ /\ conn'[c] = conn[c]
                 /\ c \notin Closing(w) \/ conn[c].life # "open"
              \/ /\ c \in Closing(w) /\ conn[c].life = "open"
                 /\ conn'[c].life = "closed" /\ ~conn'[c].reading /\ conn'[c].expired
                 /\ conn'[c].w = conn[c].w /\ conn'[c].id = conn[c].id
<1>1. conn \in [Conns -> Connection]
  BY DEF Typed
<1>2. conn' = [c \in Conns |-> IF c \in Closing(w) /\ conn[c].life = "open"
                                 THEN Shut(c) ELSE conn[c]]
  BY TickIs
<1>3. \A c \in Conns : /\ Shut(c) \in Connection
                       /\ Shut(c).life = "closed" /\ ~Shut(c).reading /\ Shut(c).expired
                       /\ Shut(c).w = conn[c].w /\ Shut(c).id = conn[c].id
  <2> TAKE c \in Conns
  <2>1. conn[c] \in Connection /\ "closed" \in Lives
    BY <1>1 DEF Lives
  <2> QED BY <2>1 DEF Shut, Connection
<1>4. conn' \in [Conns -> Connection]
  BY <1>1, <1>2, <1>3
<1>5. ASSUME NEW c \in Conns
      PROVE  \/ /\ conn'[c] = conn[c]
                /\ c \notin Closing(w) \/ conn[c].life # "open"
             \/ /\ c \in Closing(w) /\ conn[c].life = "open"
                /\ conn'[c].life = "closed" /\ ~conn'[c].reading /\ conn'[c].expired
                /\ conn'[c].w = conn[c].w /\ conn'[c].id = conn[c].id
  <2>1. CASE c \in Closing(w) /\ conn[c].life = "open"
    <3>1. conn'[c] = Shut(c)
      BY <1>2, <2>1
    <3> QED BY <1>3, <2>1, <3>1
  <2>2. CASE ~(c \in Closing(w) /\ conn[c].life = "open")
    <3>1. conn'[c] = conn[c]
      BY <1>2, <2>2
    <3> QED BY <2>2, <3>1
  <2> QED BY <2>1, <2>2
<1> QED BY <1>4, <1>5

\* The ends of the reads that the tick has aborted, each once.
LEMMA EndsOnce ==
  ASSUME Typed, NEW w \in Workers
  PROVE  LET q == SetToSeq(EndsOf(w))
         IN  /\ q \in Seq(Item) /\ Len(q) \in Nat
             /\ \A k \in 1..Len(q) :
                  q[k].of \in Conns /\ conn[q[k].of].reading /\ q[k].of \in Aborted(w)
             /\ \A j, k \in 1..Len(q) : q[j].of = q[k].of => j = k
<1> DEFINE q == SetToSeq(EndsOf(w))
<1>1. Aborted(w) \subseteq Conns
  <2>1. \A t \in Older(w) : t.of \in Conns
    BY OlderTasks DEF Task
  <2> QED BY <2>1 DEF Aborted, Closing, Over
<1>2. IsFiniteSet(Aborted(w))
  <2>1. IsFiniteSet(Conns)
    BY FS_Interval, CrowAssumption DEF Conns
  <2> QED BY <1>1, <2>1, FS_Subset
<1>3. IsFiniteSet(EndsOf(w))
  <2> DEFINE f == [c \in Aborted(w) |-> [kind |-> "end", of |-> c]]
  <2>1. f \in [Aborted(w) -> EndsOf(w)]
    BY DEF EndsOf
  <2>2. \A e \in EndsOf(w) : \E c \in Aborted(w) : f[c] = e
    BY DEF EndsOf
  <2> HIDE DEF f
  <2>3. f \in Surjection(Aborted(w), EndsOf(w))
    BY <2>1, <2>2 DEF Surjection
  <2> QED BY <1>2, <2>3, FS_Surjection
<1>4. /\ q \in Seq(EndsOf(w))
      /\ \A j, k \in 1..Len(q) : q[j] = q[k] => j = k
  BY <1>3, ListsOnce
<1> HIDE DEF q
<1>5. \A e \in EndsOf(w) : e \in Item /\ e.of \in Aborted(w) /\ e = [kind |-> "end", of |-> e.of]
  BY <1>1 DEF EndsOf, Item
<1>6. \A k \in 1..Len(q) : q[k] \in EndsOf(w)
  BY <1>4
<1>7. \A k \in 1..Len(q) : q[k].of \in Conns /\ conn[q[k].of].reading /\ q[k].of \in Aborted(w)
  BY <1>1, <1>5, <1>6 DEF Aborted
<1>8. \A j, k \in 1..Len(q) : q[j].of = q[k].of => j = k
  BY <1>4, <1>5, <1>6
<1>9. q \in Seq(Item) /\ Len(q) \in Nat
  BY <1>4, <1>5
<1> QED BY <1>7, <1>8, <1>9 DEF q

\* The handlers that are ready after a tick.
LEMMA TickQueue ==
  ASSUME Typed, NEW w \in Workers, Tick(w)
  PROVE  /\ queue' \in [Workers -> Seq(Item)]
         /\ \A v \in Workers : v # w => queue'[v] = queue[v]
         /\ \A k \in Ready(w)' :
              LET n == Len(queue[w]) - 1
                  q == SetToSeq(EndsOf(w))
              IN  \/ k \in 1..n /\ k + 1 \in Ready(w) /\ queue'[w][k] = queue[w][k + 1]
                  \/ k - n \in 1..Len(q) /\ queue'[w][k] = q[k - n]
<1> DEFINE n == Len(queue[w]) - 1
           q == SetToSeq(EndsOf(w))
<1>1. queue \in [Workers -> Seq(Item)] /\ queue[w] # <<>>
  BY TickIs DEF Typed, Takes
<1>2. q \in Seq(Item) /\ Len(q) \in Nat
  BY EndsOnce
<1>3. queue' = [queue EXCEPT ![w] = Tail(@) \o q]
  BY TickIs
<1> HIDE DEF q
<1>4. queue' \in [Workers -> Seq(Item)] /\ \A v \in Workers : v # w => queue'[v] = queue[v]
  BY <1>1, <1>2, <1>3
<1>5. /\ Tail(queue[w]) \in Seq(Item) /\ Len(Tail(queue[w])) = n /\ n \in Nat
      /\ \A k \in 1..n : Tail(queue[w])[k] = queue[w][k + 1] /\ k + 1 \in 1..Len(queue[w])
  BY <1>1
<1>6. queue'[w] = Tail(queue[w]) \o q
  BY <1>1, <1>3
<1>7. /\ Len(queue'[w]) = n + Len(q)
      /\ \A k \in 1..(n + Len(q)) :
           queue'[w][k] = IF k <= n THEN Tail(queue[w])[k] ELSE q[k - n]
  <2> DEFINE tail == Tail(queue[w])
  <2>1. /\ tail \in Seq(Item) /\ q \in Seq(Item) /\ Len(tail) = n
        /\ queue'[w] = tail \o q /\ n \in Nat /\ Len(q) \in Nat
    BY <1>2, <1>5, <1>6
  <2> HIDE DEF tail, n
  <2>2. Len(tail \o q) = n + Len(q)
    BY <2>1, ConcatProperties
  <2>3. \A k \in 1..(n + Len(q)) : (tail \o q)[k] = IF k <= n THEN tail[k] ELSE q[k - n]
    BY <2>1, ConcatProperties
  <2> QED BY <2>1, <2>2, <2>3 DEF tail
<1>8. ASSUME NEW k \in Ready(w)'
      PROVE  \/ k \in 1..n /\ k + 1 \in Ready(w) /\ queue'[w][k] = queue[w][k + 1]
             \/ k - n \in 1..Len(q) /\ queue'[w][k] = q[k - n]
  <2>1. k \in 1..(n + Len(q)) /\ queue'[w][k].kind # "tick"
    BY <1>7 DEF Ready
  <2> HIDE DEF n
  <2>2. CASE k <= n
    <3>1. k \in 1..n /\ queue'[w][k] = queue[w][k + 1] /\ k + 1 \in 1..Len(queue[w])
      BY <1>5, <1>7, <2>1, <2>2
    <3> QED BY <2>1, <3>1 DEF Ready
  <2>3. CASE ~(k <= n)
    BY <1>2, <1>5, <1>7, <2>1, <2>3
  <2> QED BY <2>2, <2>3
<1> QED BY <1>4, <1>8 DEF q

LEMMA CoreTick ==
  ASSUME Core, TasksOwned, NEW w \in Workers, Tick(w)
  PROVE  Core'
<1> DEFINE n == Len(queue[w]) - 1
           q == SetToSeq(EndsOf(w))
<1>1. Typed /\ Phases /\ LifeTells /\ Queued
  BY DEF Core
<1>2. /\ run[w] = "running" /\ ~stopping /\ ran' = [ran EXCEPT ![w] = TRUE]
      /\ armed' = [armed EXCEPT ![w] = TRUE]
      /\ UNCHANGED <<main, accepting, stopping, run, serving, length, asks, robbed>>
  BY TickIs DEF Takes
<1>3. /\ conn' \in [Conns -> Connection]
      /\ \A c \in Conns :
           \/ /\ conn'[c] = conn[c]
              /\ c \notin Closing(w) \/ conn[c].life # "open"
           \/ /\ c \in Closing(w) /\ conn[c].life = "open"
              /\ conn'[c].life = "closed" /\ ~conn'[c].reading /\ conn'[c].expired
              /\ conn'[c].w = conn[c].w /\ conn'[c].id = conn[c].id
  BY <1>1, TickConn
<1>4. /\ queue' \in [Workers -> Seq(Item)]
      /\ \A v \in Workers : v # w => queue'[v] = queue[v]
      /\ \A k \in Ready(w)' :
           \/ k \in 1..n /\ k + 1 \in Ready(w) /\ queue'[w][k] = queue[w][k + 1]
           \/ k - n \in 1..Len(q) /\ queue'[w][k] = q[k - n]
  BY <1>1, TickQueue
<1>5. /\ \A k \in 1..Len(q) : q[k].of \in Conns /\ conn[q[k].of].reading /\ q[k].of \in Aborted(w)
      /\ \A j, k \in 1..Len(q) : q[j].of = q[k].of => j = k
  BY <1>1, EndsOnce
<1>6. Typed'
  <2>1. tasks' \in [Workers -> SUBSET Task]
    <3>1. Older(w) \subseteq Task
      BY <1>1, OlderTasks
    <3>2. tasks' = [tasks EXCEPT ![w] = Older(w) \ Over(w)]
      BY TickIs
    <3> QED BY <1>1, <3>1, <3>2 DEF Typed
  <2>2. highest' \in [Workers -> Nat]
    <3>1. highest' = [highest EXCEPT ![w] = IF Older(w) = Over(w) THEN 0 ELSE @]
      BY TickIs
    <3> QED BY <1>1, <3>1 DEF Typed
  <2>3. ran' \in [Workers -> BOOLEAN] /\ armed' \in [Workers -> BOOLEAN]
    BY <1>1, <1>2 DEF Typed
  <2> HIDE DEF n, q
  <2> QED BY <1>1, <1>2, <1>3, <1>4, <2>1, <2>2, <2>3 DEF Typed
<1> HIDE DEF n, q
<1>7. \A c \in Conns : conn'[c].w = conn[c].w /\ (~conn[c].reading => ~conn'[c].reading)
  BY <1>3
<1>8. Phases'
  BY <1>1, <1>2, <1>7 DEF Phases, Blocked
<1>9. LifeTells'
  BY <1>1, <1>2, <1>3 DEF LifeTells
<1>10. \A c \in Aborted(w) : conn[c].w = w
  <2> TAKE c \in Aborted(w)
  <2>1. PICK t \in Older(w) : t.of = c
    BY DEF Aborted, Closing, Over
  <2>2. PICK s \in tasks[w] : s.of = c
    BY <1>1, <2>1, OlderTasks
  <2> QED BY <2>2 DEF TasksOwned
<1>11. \A v \in Workers : \A k \in Ready(v) :
         /\ queue[v][k].of \in Conns
         /\ conn[queue[v][k].of].w = v /\ ~conn[queue[v][k].of].reading
  BY <1>1, ReadyOfConns DEF Queued
<1>12. ASSUME NEW v \in Workers, v # w
       PROVE  /\ \A k \in Ready(v)' :
                   conn'[queue'[v][k].of].w = v /\ ~conn'[queue'[v][k].of].reading
              /\ \A j, k \in Ready(v)' : queue'[v][j].of = queue'[v][k].of => j = k
              /\ Blocked(v)' =>
                   /\ conn'[serving'[v]].w = v /\ ~conn'[serving'[v]].reading
                   /\ \A k \in Ready(v)' : queue'[v][k].of # serving'[v]
  <2>1. Ready(v)' = Ready(v) /\ queue'[v] = queue[v]
    BY <1>4, <1>12 DEF Ready
  <2>2. (Blocked(v)' <=> Blocked(v)) /\ serving'[v] = serving[v]
    BY <1>2 DEF Blocked
  <2>3. Blocked(v) => serving[v] \in Conns
    BY <1>1 DEF Phases, Typed
  <2> QED BY <1>1, <1>7, <1>11, <2>1, <2>2, <2>3 DEF Queued
<1>13. /\ \A k \in Ready(w)' : conn'[queue'[w][k].of].w = w /\ ~conn'[queue'[w][k].of].reading
       /\ \A j, k \in Ready(w)' : queue'[w][j].of = queue'[w][k].of => j = k
       /\ ~Blocked(w)'
  <2>1. ASSUME NEW k \in Ready(w)'
        PROVE  conn'[queue'[w][k].of].w = w /\ ~conn'[queue'[w][k].of].reading
    <3>1. CASE k + 1 \in Ready(w) /\ queue'[w][k] = queue[w][k + 1]
      BY <1>7, <1>11, <3>1
    <3>2. CASE k - n \in 1..Len(q) /\ queue'[w][k] = q[k - n]
      <4>1. q[k - n].of \in Conns /\ q[k - n].of \in Aborted(w)
        BY <1>5, <3>2
      <4>2. q[k - n].of \in Closing(w) /\ conn[q[k - n].of].life = "open"
        BY <4>1 DEF Aborted
      <4> QED BY <1>3, <1>7, <1>10, <3>2, <4>1, <4>2
    <3> QED BY <1>4, <2>1, <3>1, <3>2
  <2>2. ASSUME NEW j \in Ready(w)', NEW k \in Ready(w)', queue'[w][j].of = queue'[w][k].of
        PROVE  j = k
    <3>1. j \in Int /\ k \in Int /\ n \in Int
      BY <1>1 DEF Ready, n, Typed
    <3>2. CASE j + 1 \in Ready(w) /\ queue'[w][j] = queue[w][j + 1]
      <4>1. k + 1 \in Ready(w) /\ queue'[w][k] = queue[w][k + 1]
        BY <1>4, <1>5, <1>11, <2>2, <3>2
      <4>2. j + 1 = k + 1
        BY <1>1, <2>2, <3>2, <4>1 DEF Queued
      <4> QED BY <3>1, <4>2
    <3>3. CASE j - n \in 1..Len(q) /\ queue'[w][j] = q[j - n]
      <4>1. k - n \in 1..Len(q) /\ queue'[w][k] = q[k - n]
        BY <1>4, <1>5, <1>11, <2>2, <3>3
      <4>2. j - n = k - n
        BY <1>5, <2>2, <3>3, <4>1
      <4> QED BY <3>1, <4>2
    <3> QED BY <1>4, <2>2, <3>2, <3>3
  <2>3. ~Blocked(w)'
    BY <1>2 DEF Blocked
  <2> QED BY <2>1, <2>2, <2>3
<1>14. Queued'
  <2> SUFFICES ASSUME NEW v \in Workers
               PROVE  /\ \A k \in Ready(v)' : /\ conn'[queue'[v][k].of].w = v
                                              /\ ~conn'[queue'[v][k].of].reading
                      /\ \A j, k \in Ready(v)' : queue'[v][j].of = queue'[v][k].of => j = k
                      /\ Blocked(v)' =>
                           /\ conn'[serving'[v]].w = v /\ ~conn'[serving'[v]].reading
                           /\ \A k \in Ready(v)' : queue'[v][k].of # serving'[v]
    BY DEF Queued
  <2> QED BY <1>12, <1>13
<1> QED BY <1>6, <1>8, <1>9, <1>14 DEF Core

-----------------------------------------------------------------------------
(* Deadlines.                                                              *)

Deadlines == TasksOwned /\ IdsUnique /\ IdsAccounted /\ Idle /\ RobberKnown

\* A step that leaves the tasks alone.
LEMMA DeadlinesSame ==
  ASSUME Deadlines, UNCHANGED <<tasks, highest, robbed>>,
         \A c \in Conns : /\ conn'[c].id = conn[c].id
                          /\ conn[c].expired => conn'[c].expired
                          /\ conn'[c].reading => conn[c].reading
                          /\ HasTask(c) => conn'[c].w = conn[c].w
                          /\ Served(c) => Served(c)',
         Typed
  PROVE  Deadlines'
<1>1. TasksOwned /\ IdsUnique /\ IdsAccounted /\ Idle /\ RobberKnown
  BY DEF Deadlines
<1>2. TasksOwned'
  <2> SUFFICES ASSUME NEW v \in Workers, NEW t \in tasks[v]
               PROVE  /\ conn'[t.of].w = v /\ conn'[t.of].id = t.id
                      /\ t.id \in 1..highest[v] /\ t.age \in 0..Timeout
    BY DEF TasksOwned
  <2>1. t.of \in Conns
    BY DEF Typed, Task
  <2>2. HasTask(t.of)
    BY DEF HasTask
  <2> QED BY <1>1, <2>1, <2>2 DEF TasksOwned
<1>3. IdsUnique'
  BY <1>1 DEF IdsUnique
<1>4. \A c \in Conns : (HasTask(c)' <=> HasTask(c)) /\ (WasRobbed(c)' <=> WasRobbed(c))
  BY DEF HasTask, WasRobbed
<1>5. IdsAccounted'
  BY <1>1, <1>4 DEF IdsAccounted
<1>6. Idle'
  BY <1>1, <1>4 DEF Idle
<1>7. RobberKnown'
  BY <1>1 DEF RobberKnown, Typed
<1> QED BY <1>2, <1>3, <1>5, <1>6, <1>7 DEF Deadlines

\* Who takes another's deadline away has expired or lost its own.
LEMMA RobsKnown ==
  ASSUME Core, Deadlines, NEW c \in Conns, conn[c].w \in Workers, NEW p \in Robs(c)
  PROVE  p[2] = c /\ (conn[c].expired \/ WasRobbed(c))
<1>1. PICK t \in tasks[conn[c].w] : t.id = conn[c].id /\ t.of # c /\ p = <<t.of, c>>
  BY DEF Robs
<1>2. conn[c].id # 0
  BY <1>1 DEF Deadlines, TasksOwned, Core, Typed
<1>3. ~HasTask(c)
  <2> SUFFICES ASSUME NEW v \in Workers, NEW s \in tasks[v], s.of = c PROVE FALSE
    BY DEF HasTask
  <2>1. v = conn[c].w /\ s.id = conn[c].id
    BY DEF Deadlines, TasksOwned
  <2>2. s = t
    BY <1>1, <2>1 DEF Deadlines, IdsUnique
  <2> QED BY <1>1, <2>2
<1>4. ~Served(c)
  <2> SUFFICES ASSUME NEW v \in Workers, Blocked(v), serving[v] = c,
                      \A s \in tasks[v] : s.id # conn[c].id
               PROVE  FALSE
    BY DEF Served
  <2>1. v = conn[c].w
    BY DEF Core, Queued
  <2> QED BY <1>1, <2>1
<1>5. conn[c].expired \/ WasRobbed(c)
  BY <1>2, <1>3, <1>4 DEF Deadlines, IdsAccounted
<1> QED BY <1>1, <1>5

\* The tasks after the deadline of c has been cancelled.
KeptTasks(c) == [tasks EXCEPT ![conn[c].w] = Cancelled(c)]

LEMMA Kept ==
  ASSUME Core, Deadlines, NEW c \in Conns, conn[c].w \in Workers
  PROVE  /\ \A v \in Workers : \A t \in KeptTasks(c)[v] :
              /\ t \in tasks[v] /\ t.of \in Conns \ {c}
              /\ v = conn[c].w => t.id # conn[c].id
         /\ \A v \in Workers : \A t \in tasks[v] :
              t \in KeptTasks(c)[v] \/ t.of = c \/ <<t.of, c>> \in Robs(c)
<1>1. tasks \in [Workers -> SUBSET Task]
  BY DEF Core, Typed
<1>2. /\ KeptTasks(c)[conn[c].w] = Cancelled(c)
      /\ \A v \in Workers : v # conn[c].w => KeptTasks(c)[v] = tasks[v]
  BY <1>1 DEF KeptTasks
<1>3. \A v \in Workers : \A t \in tasks[v] : t.of \in Conns
  BY <1>1 DEF Task
<1>4. ASSUME NEW v \in Workers, NEW t \in KeptTasks(c)[v]
      PROVE  t \in tasks[v] /\ t.of \in Conns \ {c} /\ (v = conn[c].w => t.id # conn[c].id)
  <2>1. t \in tasks[v] /\ (v = conn[c].w => t.id # conn[c].id)
    BY <1>2, <1>4 DEF Cancelled
  <2>2. t.of # c
    BY <2>1 DEF Deadlines, TasksOwned
  <2> QED BY <1>3, <2>1, <2>2
<1>5. ASSUME NEW v \in Workers, NEW t \in tasks[v]
      PROVE  t \in KeptTasks(c)[v] \/ t.of = c \/ <<t.of, c>> \in Robs(c)
  BY <1>2 DEF Cancelled, Robs
<1> QED BY <1>4, <1>5

\* What happens to the other connections when c cancels its deadline, and perhaps
\* starts another.
LEMMA OthersAccounted ==
  ASSUME Core, Deadlines, NEW c \in Conns, NEW w \in Workers, conn[c].w = w,
         \A v \in Workers : KeptTasks(c)[v] \subseteq tasks'[v],
         \A v \in Workers : v # w => tasks'[v] = KeptTasks(c)[v],
         robbed' = robbed \cup Robs(c),
         NEW life, NEW id, NEW reading, Becomes(c, life, w, id, reading),
         \A v \in Workers : v # w => run'[v] = run[v] /\ serving'[v] = serving[v],
         Blocked(w) => serving[w] = c
  PROVE  /\ \A d \in Conns \ {c} :
              /\ conn'[d].id = 0 \/ HasTask(d)' \/ conn'[d].expired \/ WasRobbed(d)' \/ Served(d)'
              /\ conn'[d].reading => HasTask(d)' \/ WasRobbed(d)'
         /\ RobberKnown'
<1>1. \A d \in Conns \ {c} : conn'[d] = conn[d]
  BY DEF Becomes
<1>2. \A d \in Conns : WasRobbed(d) => WasRobbed(d)'
  BY DEF WasRobbed
<1>3. ASSUME NEW d \in Conns \ {c}, HasTask(d)
      PROVE  HasTask(d)' \/ WasRobbed(d)'
  <2>1. PICK v \in Workers : \E t \in tasks[v] : t.of = d
    BY <1>3 DEF HasTask
  <2>2. PICK t \in tasks[v] : t.of = d
    BY <2>1
  <2>3. t \in KeptTasks(c)[v] \/ <<d, c>> \in Robs(c)
    BY <2>2, Kept
  <2> QED BY <2>2, <2>3 DEF HasTask, WasRobbed
<1>4. ASSUME NEW d \in Conns \ {c}, Served(d)
      PROVE  Served(d)'
  <2>1. PICK v \in Workers : Blocked(v) /\ serving[v] = d /\ \A t \in tasks[v] : t.id # conn[d].id
    BY <1>4 DEF Served
  <2>2. v # w
    BY <2>1
  <2>3. Blocked(v)' /\ serving'[v] = d
    BY <2>1, <2>2 DEF Blocked
  <2>4. \A t \in tasks'[v] : t \in tasks[v]
    BY <2>2, Kept
  <2> QED BY <1>1, <2>1, <2>3, <2>4 DEF Served
<1>5. ASSUME NEW d \in Conns \ {c}
      PROVE  /\ conn'[d].id = 0 \/ HasTask(d)' \/ conn'[d].expired \/ WasRobbed(d)' \/ Served(d)'
             /\ conn'[d].reading => HasTask(d)' \/ WasRobbed(d)'
  BY <1>1, <1>2, <1>3, <1>4 DEF Deadlines, IdsAccounted, Idle
<1>6. RobberKnown'
  <2> SUFFICES ASSUME NEW p \in robbed'
               PROVE  conn'[p[2]].expired \/ \E q \in robbed' : q[1] = p[2]
    BY DEF RobberKnown
  <2>1. \A d \in Conns : conn'[d].expired = conn[d].expired
    BY <1>1 DEF Becomes
  <2>2. CASE p \in robbed
    <3>1. p[2] \in Conns
      BY <2>2 DEF Core, Typed
    <3> QED BY <2>1, <2>2, <3>1 DEF Deadlines, RobberKnown
  <2>3. CASE p \in Robs(c)
    <3>1. p[2] = c /\ (conn[c].expired \/ WasRobbed(c))
      BY <2>3, RobsKnown
    <3>2. CASE conn[c].expired
      BY <2>1, <3>1, <3>2
    <3>3. CASE WasRobbed(c)
      <4>1. PICK d \in Conns : <<c, d>> \in robbed
        BY <3>3 DEF WasRobbed
      <4>2. <<c, d>> \in robbed' /\ <<c, d>>[1] = p[2]
        BY <3>1, <4>1
      <4> QED BY <4>2
    <3> QED BY <3>1, <3>2, <3>3
  <2> QED BY <2>2, <2>3
<1> QED BY <1>5, <1>6

\* c cancels its deadline and has no id that it could cancel again, or is served.
LEMMA CancelKeepsDeadlines ==
  ASSUME Core, Deadlines, NEW c \in Conns, NEW w \in Workers, conn[c].w = w, CancelDeadline(c),
         NEW life, NEW id, Becomes(c, life, w, id, FALSE),
         \A v \in Workers : v # w => run'[v] = run[v] /\ serving'[v] = serving[v],
         ~Blocked(w),
         id = 0 \/ (id = conn[c].id /\ Blocked(w)' /\ serving'[w] = c)
  PROVE  Deadlines'
<1>1. tasks' = KeptTasks(c) /\ highest' = highest /\ robbed' = robbed \cup Robs(c)
  BY DEF CancelDeadline, KeptTasks
<1>2. /\ \A d \in Conns \ {c} :
           /\ conn'[d].id = 0 \/ HasTask(d)' \/ conn'[d].expired \/ WasRobbed(d)' \/ Served(d)'
           /\ conn'[d].reading => HasTask(d)' \/ WasRobbed(d)'
      /\ RobberKnown'
  BY <1>1, OthersAccounted
<1>3. \A v \in Workers : \A t \in tasks'[v] :
        /\ t \in tasks[v] /\ t.of \in Conns \ {c}
        /\ v = w => t.id # conn[c].id
  BY <1>1, Kept
<1>4. TasksOwned'
  <2> SUFFICES ASSUME NEW v \in Workers, NEW t \in tasks'[v]
               PROVE  /\ conn'[t.of].w = v /\ conn'[t.of].id = t.id
                      /\ t.id \in 1..highest'[v] /\ t.age \in 0..Timeout
    BY DEF TasksOwned
  <2>1. t \in tasks[v] /\ conn'[t.of] = conn[t.of]
    BY <1>3 DEF Becomes
  <2> QED BY <1>1, <2>1 DEF Deadlines, TasksOwned
<1>5. IdsUnique'
  BY <1>3 DEF Deadlines, IdsUnique
<1>6. IdsAccounted'
  <2>1. conn'[c].id = id
    BY DEF Becomes
  <2>2. id = 0 \/ Served(c)'
    BY <1>3, <2>1 DEF Served
  <2> QED BY <1>2, <2>1, <2>2 DEF IdsAccounted
<1>7. Idle'
  <2>1. ~conn'[c].reading
    BY DEF Becomes
  <2> QED BY <1>2, <2>1 DEF Idle
<1> QED BY <1>2, <1>4, <1>5, <1>6, <1>7 DEF Deadlines

\* c starts a new deadline.
LEMMA StartKeepsDeadlines ==
  ASSUME Core, Deadlines, NEW c \in Conns, NEW w \in Workers, conn[c].w = w,
         StartDeadline(c, "open"),
         \A v \in Workers : v # w => run'[v] = run[v] /\ serving'[v] = serving[v],
         Blocked(w) => serving[w] = c
  PROVE  Deadlines'
<1> DEFINE id == highest[w] + 1
           new == [id |-> id, of |-> c, age |-> 0]
<1>1. highest \in [Workers -> Nat] /\ tasks \in [Workers -> SUBSET Task]
  BY DEF Core, Typed
<1>2. Becomes(c, "open", w, id, TRUE)
  <2>1. "open" \in Lives
    BY DEF Lives
  <2> QED BY <2>1, StartDeadlineBecomes DEF Core
<1>3. /\ tasks' = [tasks EXCEPT ![w] = Cancelled(c) \cup {new}]
      /\ highest' = [highest EXCEPT ![w] = id] /\ robbed' = robbed \cup Robs(c)
  BY DEF StartDeadline
<1>4. new.id = id /\ new.of = c /\ new.age = 0 /\ id \in Nat /\ id > highest[w]
  BY <1>1
<1> HIDE DEF new, id
<1>5. /\ tasks'[w] = KeptTasks(c)[w] \cup {new}
      /\ \A v \in Workers : v # w => tasks'[v] = KeptTasks(c)[v]
  BY <1>1, <1>3 DEF KeptTasks
<1>6. /\ \A d \in Conns \ {c} :
           /\ conn'[d].id = 0 \/ HasTask(d)' \/ conn'[d].expired \/ WasRobbed(d)' \/ Served(d)'
           /\ conn'[d].reading => HasTask(d)' \/ WasRobbed(d)'
      /\ RobberKnown'
  <2>1. \A v \in Workers : KeptTasks(c)[v] \subseteq tasks'[v]
    BY <1>5
  <2>2. robbed' = robbed \cup Robs(c)
    BY <1>3
  <2> QED BY <1>2, <1>5, <2>1, <2>2, OthersAccounted
<1>7. \A v \in Workers : \A t \in tasks'[v] :
        \/ v = w /\ t = new
        \/ t \in tasks[v] /\ t.of \in Conns \ {c}
  BY <1>5, Kept
<1>8. \A t \in tasks[w] : t.id # id
  <2> TAKE t \in tasks[w]
  <2>1. t.id \in 1..highest[w]
    BY DEF Deadlines, TasksOwned
  <2> QED BY <1>1, <1>4, <2>1
<1>9. TasksOwned'
  <2> SUFFICES ASSUME NEW v \in Workers, NEW t \in tasks'[v]
               PROVE  /\ conn'[t.of].w = v /\ conn'[t.of].id = t.id
                      /\ t.id \in 1..highest'[v] /\ t.age \in 0..Timeout
    BY DEF TasksOwned
  <2>1. CASE v = w /\ t = new
    <3>1. conn'[c].w = w /\ conn'[c].id = id /\ highest'[w] = id
      BY <1>1, <1>2, <1>3 DEF Becomes
    <3>2. id \in 1..id /\ 0 \in 0..Timeout
      BY <1>1, <1>4, CrowAssumption
    <3> QED BY <1>4, <2>1, <3>1, <3>2
  <2>2. CASE t \in tasks[v] /\ t.of \in Conns \ {c}
    <3>1. conn'[t.of] = conn[t.of]
      BY <1>2, <2>2 DEF Becomes
    <3>2. /\ conn[t.of].w = v /\ conn[t.of].id = t.id
          /\ t.id \in 1..highest[v] /\ t.age \in 0..Timeout
      BY <2>2 DEF Deadlines, TasksOwned
    <3>3. highest[v] \in Nat /\ highest'[v] \in Nat /\ highest[v] <= highest'[v]
      BY <1>1, <1>3, <1>4
    <3> QED BY <3>1, <3>2, <3>3
  <2> QED BY <1>7, <2>1, <2>2
<1>10. IdsUnique'
  <2> SUFFICES ASSUME NEW v \in Workers, NEW s \in tasks'[v], NEW t \in tasks'[v], s.id = t.id
               PROVE  s = t
    BY DEF IdsUnique
  <2>1. CASE s = new \/ t = new
    BY <1>4, <1>7, <1>8, <2>1
  <2>2. CASE s # new /\ t # new
    BY <1>7, <2>2 DEF Deadlines, IdsUnique
  <2> QED BY <2>1, <2>2
<1>11. HasTask(c)'
  BY <1>4, <1>5 DEF HasTask
<1>12. IdsAccounted' /\ Idle'
  BY <1>6, <1>11 DEF IdsAccounted, Idle
<1> QED BY <1>6, <1>9, <1>10, <1>12 DEF Deadlines

LEMMA DeadlinesTick ==
  ASSUME Core, Deadlines, NEW w \in Workers, Tick(w)
  PROVE  Deadlines'
<1>1. Typed /\ Phases /\ LifeTells /\ Queued
  BY DEF Core
<1>2. /\ run[w] = "running" /\ ~stopping
      /\ UNCHANGED <<main, stopping, run, serving, robbed>>
  BY TickIs DEF Takes
<1>3. /\ tasks' = [tasks EXCEPT ![w] = Older(w) \ Over(w)]
      /\ highest' = [highest EXCEPT ![w] = IF Older(w) = Over(w) THEN 0 ELSE @]
  BY TickIs
<1>4. tasks \in [Workers -> SUBSET Task] /\ highest \in [Workers -> Nat] /\ Timeout \in Nat
  BY <1>1, CrowAssumption DEF Typed
<1>5. \A c \in Conns :
        \/ /\ conn'[c] = conn[c]
           /\ c \notin Closing(w) \/ conn[c].life # "open"
        \/ /\ c \in Closing(w) /\ conn[c].life = "open"
           /\ conn'[c].life = "closed" /\ ~conn'[c].reading /\ conn'[c].expired
           /\ conn'[c].w = conn[c].w /\ conn'[c].id = conn[c].id
  BY <1>1, TickConn
<1>6. \A v \in Workers : \A t \in tasks[v] : t.of \in Conns
  BY <1>4 DEF Task
<1>7. /\ tasks'[w] = Older(w) \ Over(w)
      /\ \A v \in Workers : v # w => tasks'[v] = tasks[v] /\ highest'[v] = highest[v]
  BY <1>3, <1>4
<1>8. \A s \in tasks[w] : \E t \in Older(w) :
        /\ t.of = s.of
        /\ t \in tasks'[w] \/ t \in Over(w)
  <2> TAKE s \in tasks[w]
  <2>1. s \in Task
    BY <1>4
  <2>2. [s EXCEPT !.age = @ + 1] \in Older(w) /\ [s EXCEPT !.age = @ + 1].of = s.of
    BY <2>1 DEF Older, Task
  <2> QED BY <1>7, <2>2
<1>9. TasksOwned'
  <2> SUFFICES ASSUME NEW v \in Workers, NEW t \in tasks'[v]
               PROVE  /\ conn'[t.of].w = v /\ conn'[t.of].id = t.id
                      /\ t.id \in 1..highest'[v] /\ t.age \in 0..Timeout
    BY DEF TasksOwned
  <2>1. CASE v # w
    <3>1. t \in tasks[v] /\ highest'[v] = highest[v] /\ t.of \in Conns
      BY <1>6, <1>7, <2>1
    <3>2. conn'[t.of].w = conn[t.of].w /\ conn'[t.of].id = conn[t.of].id
      BY <1>5, <3>1
    <3> QED BY <3>1, <3>2 DEF Deadlines, TasksOwned
  <2>2. CASE v = w
    <3>1. t \in Older(w) /\ t \notin Over(w)
      BY <1>7, <2>2
    <3>2. PICK s \in tasks[w] : s.id = t.id /\ s.of = t.of /\ t.age = s.age + 1 /\ s \in Task
      BY <1>1, <3>1, OlderTasks
    <3>3. highest'[w] = highest[w]
      BY <1>3, <1>4, <3>1
    <3>4. /\ conn[s.of].w = w /\ conn[s.of].id = s.id
          /\ s.id \in 1..highest[w] /\ s.age \in 0..Timeout
      BY DEF Deadlines, TasksOwned
    <3>5. conn'[s.of].w = conn[s.of].w /\ conn'[s.of].id = conn[s.of].id
      BY <1>5, <1>6
    <3>6. ~(t.age > Timeout)
      BY <3>1 DEF Over
    <3>7. t.age \in 0..Timeout
      BY <1>4, <3>2, <3>4, <3>6
    <3> QED BY <2>2, <3>2, <3>3, <3>4, <3>5, <3>7
  <2> QED BY <2>1, <2>2
<1>10. IdsUnique'
  <2> SUFFICES ASSUME NEW v \in Workers, NEW s \in tasks'[v], NEW t \in tasks'[v], s.id = t.id
               PROVE  s = t
    BY DEF IdsUnique
  <2>1. CASE v # w
    BY <1>7, <2>1 DEF Deadlines, IdsUnique
  <2>2. CASE v = w
    <3>1. PICK x \in tasks[w] : s = [x EXCEPT !.age = @ + 1]
      BY <1>7, <2>2 DEF Older
    <3>2. PICK y \in tasks[w] : t = [y EXCEPT !.age = @ + 1]
      BY <1>7, <2>2 DEF Older
    <3>3. x \in Task /\ y \in Task
      BY <1>4
    <3>4. x.id = s.id /\ y.id = t.id
      BY <3>1, <3>2, <3>3 DEF Task
    <3>5. x = y
      BY <3>4 DEF Deadlines, IdsUnique
    <3> QED BY <3>1, <3>2, <3>5
  <2> QED BY <2>1, <2>2
<1>11. ASSUME NEW c \in Conns, HasTask(c)
       PROVE  HasTask(c)' \/ c \in Closing(w)
  <2>1. PICK v \in Workers : \E s \in tasks[v] : s.of = c
    BY <1>11 DEF HasTask
  <2>2. CASE v # w
    BY <1>7, <2>1, <2>2 DEF HasTask
  <2>3. CASE v = w
    <3>1. PICK s \in tasks[w] : s.of = c
      BY <2>1, <2>3
    <3>2. PICK t \in Older(w) : t.of = c /\ (t \in tasks'[w] \/ t \in Over(w))
      BY <1>8, <3>1
    <3> QED BY <3>2 DEF HasTask, Closing
  <2> QED BY <2>2, <2>3
<1>12. ASSUME NEW c \in Conns, HasTask(c), c \in Closing(w)
       PROVE  conn'[c].expired
  <2>1. conn[c].id # 0
    BY <1>4, <1>12 DEF HasTask, Deadlines, TasksOwned
  <2>2. main # "exited"
    BY <1>1, <1>2 DEF Phases
  <2>3. conn[c].life \in {"open", "closed"}
    BY <1>1, <2>1, <2>2 DEF LifeTells
  <2> QED BY <1>1, <1>5, <1>12, <2>3 DEF LifeTells
<1>13. \A c \in Conns : /\ conn'[c].id = conn[c].id
                        /\ conn[c].expired => conn'[c].expired
                        /\ WasRobbed(c)' <=> WasRobbed(c)
  BY <1>2, <1>5 DEF WasRobbed
<1>14. ASSUME NEW c \in Conns, Served(c)
       PROVE  Served(c)'
  <2>1. PICK v \in Workers : Blocked(v) /\ serving[v] = c /\ \A t \in tasks[v] : t.id # conn[c].id
    BY <1>14 DEF Served
  <2>2. v # w
    BY <1>2, <2>1 DEF Blocked
  <2> QED BY <1>2, <1>7, <1>13, <2>1, <2>2 DEF Served, Blocked
<1>15. IdsAccounted'
  <2> SUFFICES ASSUME NEW c \in Conns
               PROVE  \/ conn'[c].id = 0 \/ HasTask(c)' \/ conn'[c].expired
                      \/ WasRobbed(c)' \/ Served(c)'
    BY DEF IdsAccounted
  <2>1. conn[c].id = 0 \/ HasTask(c) \/ conn[c].expired \/ WasRobbed(c) \/ Served(c)
    BY DEF Deadlines, IdsAccounted
  <2> QED BY <1>11, <1>12, <1>13, <1>14, <2>1
<1>16. Idle'
  <2> SUFFICES ASSUME NEW c \in Conns, conn'[c].reading PROVE HasTask(c)' \/ WasRobbed(c)'
    BY DEF Idle
  <2>1. conn'[c] = conn[c] /\ (c \notin Closing(w) \/ conn[c].life # "open")
    BY <1>5
  <2>2. conn[c].reading /\ c \notin Closing(w)
    BY <1>1, <2>1 DEF LifeTells
  <2> QED BY <1>11, <1>13, <2>2 DEF Deadlines, Idle
<1>17. RobberKnown'
  <2>1. \A p \in robbed : p[2] \in Conns
    BY <1>1 DEF Typed
  <2> QED BY <1>2, <1>13, <2>1 DEF Deadlines, RobberKnown
<1> QED BY <1>9, <1>10, <1>15, <1>16, <1>17 DEF Deadlines

\* While the worker is blocked its tasks grow older, and keep their ids and connections.
Lagging(w) == {[t EXCEPT !.age = IF @ < Timeout THEN @ + 1 ELSE @] : t \in tasks[w]}

LEMMA SecondPassesIs ==
  ASSUME Typed, TasksOwned, NEW w \in Workers, SecondPasses(w)
  PROVE  /\ tasks' = [tasks EXCEPT ![w] = Lagging(w)]
         /\ UNCHANGED <<main, accepting, stopping, run, serving, ran, length, queue, armed,
                        highest, conn, asks, robbed>>
         /\ \A t \in Lagging(w) : /\ t \in Task /\ t.age \in 0..Timeout
                                  /\ \E s \in tasks[w] : s.id = t.id /\ s.of = t.of
         /\ \A s \in tasks[w] : \E t \in Lagging(w) : t.of = s.of
<1>1. /\ tasks' = [tasks EXCEPT ![w] = Lagging(w)]
      /\ UNCHANGED <<main, accepting, stopping, run, serving, ran, length, queue, armed,
                     highest, conn, asks, robbed>>
  BY DEF SecondPasses, threads, Lagging
<1>2. Timeout \in Nat /\ \A s \in tasks[w] : s \in Task /\ s.age \in 0..Timeout
  BY CrowAssumption DEF Typed, TasksOwned
<1>3. ASSUME NEW s \in tasks[w]
      PROVE  LET t == [s EXCEPT !.age = IF @ < Timeout THEN @ + 1 ELSE @]
             IN  t \in Task /\ t.id = s.id /\ t.of = s.of /\ t.age \in 0..Timeout
  <2>1. s \in Task /\ s.age \in 0..Timeout
    BY <1>2
  <2>2. CASE s.age < Timeout
    BY <1>2, <2>1, <2>2 DEF Task
  <2>3. CASE ~(s.age < Timeout)
    BY <1>2, <2>1, <2>3 DEF Task
  <2> QED BY <2>2, <2>3
<1> QED BY <1>1, <1>3 DEF Lagging

LEMMA CoreSecondPasses ==
  ASSUME Core, TasksOwned, NEW w \in Workers, SecondPasses(w)
  PROVE  Core'
<1>1. Typed /\ Phases
  BY DEF Core
<1>2. /\ tasks' = [tasks EXCEPT ![w] = Lagging(w)]
      /\ UNCHANGED <<main, accepting, stopping, run, serving, ran, length, queue, armed,
                     highest, conn, asks, robbed>>
      /\ Lagging(w) \in SUBSET Task
  BY <1>1, SecondPassesIs
<1>3. tasks' \in [Workers -> SUBSET Task]
  BY <1>1, <1>2 DEF Typed
<1>4. Typed' /\ Phases'
  BY <1>1, <1>2, <1>3 DEF Typed, Phases, Blocked
<1>5. \A v \in Workers : Ready(v)' = Ready(v) /\ (Blocked(v)' <=> Blocked(v))
  BY <1>2 DEF Ready, Blocked
<1> QED BY <1>2, <1>4, <1>5, CoreSame

LEMMA DeadlinesSecondPasses ==
  ASSUME Core, Deadlines, NEW w \in Workers, SecondPasses(w)
  PROVE  Deadlines'
<1>1. Typed /\ TasksOwned /\ IdsUnique /\ IdsAccounted /\ Idle /\ RobberKnown
  BY DEF Core, Deadlines
<1>2. /\ tasks' = [tasks EXCEPT ![w] = Lagging(w)]
      /\ UNCHANGED <<run, serving, highest, conn, robbed>>
      /\ \A t \in Lagging(w) : /\ t \in Task /\ t.age \in 0..Timeout
                               /\ \E s \in tasks[w] : s.id = t.id /\ s.of = t.of
      /\ \A s \in tasks[w] : \E t \in Lagging(w) : t.of = s.of
  BY <1>1, SecondPassesIs
<1>3. tasks'[w] = Lagging(w) /\ \A v \in Workers : v # w => tasks'[v] = tasks[v]
  BY <1>1, <1>2 DEF Typed
<1>4. \A v \in Workers : \A t \in tasks'[v] :
        /\ t.age \in 0..Timeout
        /\ \E s \in tasks[v] : s.id = t.id /\ s.of = t.of
  BY <1>1, <1>2, <1>3 DEF TasksOwned
<1>5. TasksOwned'
  <2> SUFFICES ASSUME NEW v \in Workers, NEW t \in tasks'[v]
               PROVE  /\ conn[t.of].w = v /\ conn[t.of].id = t.id
                      /\ t.id \in 1..highest[v] /\ t.age \in 0..Timeout
    BY <1>2 DEF TasksOwned
  <2>1. PICK s \in tasks[v] : s.id = t.id /\ s.of = t.of
    BY <1>4
  <2> QED BY <1>1, <1>4, <2>1 DEF TasksOwned
<1>6. IdsUnique'
  <2> SUFFICES ASSUME NEW v \in Workers, NEW s \in tasks'[v], NEW t \in tasks'[v], s.id = t.id
               PROVE  s = t
    BY DEF IdsUnique
  <2>1. CASE v # w
    BY <1>1, <1>3, <2>1 DEF IdsUnique
  <2>2. CASE v = w
    <3>1. PICK x \in tasks[w] : s = [x EXCEPT !.age = IF @ < Timeout THEN @ + 1 ELSE @]
      BY <1>3, <2>2 DEF Lagging
    <3>2. PICK y \in tasks[w] : t = [y EXCEPT !.age = IF @ < Timeout THEN @ + 1 ELSE @]
      BY <1>3, <2>2 DEF Lagging
    <3>3. x \in Task /\ y \in Task
      BY <1>1 DEF Typed
    <3>4. x.id = s.id /\ y.id = t.id
      BY <3>1, <3>2, <3>3 DEF Task
    <3>5. x = y
      BY <1>1, <3>4 DEF IdsUnique
    <3> QED BY <3>1, <3>2, <3>5
  <2> QED BY <2>1, <2>2
<1>7. \A c \in Conns : HasTask(c) => HasTask(c)'
  BY <1>2, <1>3 DEF HasTask
<1>8. \A c \in Conns : WasRobbed(c)' <=> WasRobbed(c)
  BY <1>2 DEF WasRobbed
<1>9. ASSUME NEW c \in Conns, Served(c)
      PROVE  Served(c)'
  <2>1. PICK v \in Workers : Blocked(v) /\ serving[v] = c /\ \A t \in tasks[v] : t.id # conn[c].id
    BY <1>9 DEF Served
  <2>2. \A t \in tasks'[v] : t.id # conn[c].id
    BY <1>4, <2>1
  <2> QED BY <1>2, <2>1, <2>2 DEF Served, Blocked
<1>10. IdsAccounted'
  <2> SUFFICES ASSUME NEW c \in Conns
               PROVE  \/ conn[c].id = 0 \/ HasTask(c)' \/ conn[c].expired
                      \/ WasRobbed(c)' \/ Served(c)'
    BY <1>2 DEF IdsAccounted
  <2> QED BY <1>1, <1>7, <1>8, <1>9 DEF IdsAccounted
<1>11. Idle' /\ RobberKnown'
  BY <1>1, <1>2, <1>7, <1>8 DEF Idle, RobberKnown
<1> QED BY <1>5, <1>6, <1>10, <1>11 DEF Deadlines

LEMMA DeadlinesRun ==
  ASSUME Core, Deadlines, NEW w \in Workers, RunStart(w) \/ RunRequest(w) \/ RunEnd(w)
  PROVE  Deadlines'
<1> DEFINE c == Head(queue[w]).of
<1>1. Typed /\ Queued
  BY DEF Core
<1>2. PICK kind \in {"start", "request", "command", "end"} : Takes(w, kind)
  BY DEF RunStart, RunRequest, RunEnd
<1>3. c \in Conns /\ conn[c].w = w
  BY <1>1, <1>2, TakesOwn
<1>4. ~Blocked(w) /\ UNCHANGED <<run, serving>>
  BY <1>2 DEF Takes, Blocked, RunStart, RunRequest, RunEnd
<1>5. \/ StartDeadline(c, "open")
      \/ Gone(c) /\ CancelDeadline(c)
  BY DEF RunStart, RunRequest, RunEnd
<1> HIDE DEF c
<1>6. CASE StartDeadline(c, "open")
  BY <1>3, <1>4, <1>6, StartKeepsDeadlines
<1>7. CASE Gone(c) /\ CancelDeadline(c)
  <2>1. Becomes(c, "gone", w, 0, FALSE)
    BY <1>1, <1>3, <1>7, GoneBecomes
  <2> QED BY <1>3, <1>4, <1>7, <2>1, CancelKeepsDeadlines
<1> QED BY <1>5, <1>6, <1>7

LEMMA DeadlinesRunCommand ==
  ASSUME Core, Deadlines, NEW w \in Workers, RunCommand(w)
  PROVE  Deadlines'
<1> DEFINE c == Head(queue[w]).of
<1>1. Typed /\ Queued
  BY DEF Core
<1>2. Takes(w, "command") /\ CancelDeadline(c)
  BY DEF RunCommand
<1>3. c \in Conns /\ conn[c].w = w /\ ~conn[c].reading
  BY <1>1, <1>2, TakesOwn
<1>4. ~Blocked(w)
  BY <1>2 DEF Takes, Blocked
<1>5. \/ /\ conn[c].life = "open" /\ run' = [run EXCEPT ![w] = "blocked"]
         /\ serving' = [serving EXCEPT ![w] = c] /\ UNCHANGED conn
      \/ UNCHANGED <<run, serving>> /\ Gone(c)
  BY DEF RunCommand
<1> HIDE DEF c
<1>6. CASE /\ conn[c].life = "open" /\ run' = [run EXCEPT ![w] = "blocked"]
           /\ serving' = [serving EXCEPT ![w] = c] /\ UNCHANGED conn
  <2>1. Becomes(c, "open", w, conn[c].id, FALSE)
    BY <1>1, <1>3, <1>6 DEF Becomes, Typed, Connection
  <2>2. /\ Blocked(w)' /\ serving'[w] = c
        /\ \A v \in Workers : v # w => run'[v] = run[v] /\ serving'[v] = serving[v]
    BY <1>1, <1>6 DEF Blocked, Typed
  <2> QED BY <1>2, <1>3, <1>4, <2>1, <2>2, CancelKeepsDeadlines
<1>7. CASE UNCHANGED <<run, serving>> /\ Gone(c)
  <2>1. Becomes(c, "gone", w, 0, FALSE)
    BY <1>1, <1>3, <1>7, GoneBecomes
  <2> QED BY <1>2, <1>3, <1>4, <1>7, <2>1, CancelKeepsDeadlines
<1> QED BY <1>5, <1>6, <1>7

LEMMA DeadlinesUnblock ==
  ASSUME Core, Deadlines, NEW w \in Workers, Unblock(w)
  PROVE  Deadlines'
<1> DEFINE c == serving[w]
<1>1. Typed /\ Phases /\ Queued
  BY DEF Core
<1>2. /\ Blocked(w) /\ run' = [run EXCEPT ![w] = "running"]
      /\ serving' = [serving EXCEPT ![w] = 0] /\ StartDeadline(c, "open")
  BY DEF Unblock
<1>3. c \in Conns /\ conn[c].w = w
  BY <1>1, <1>2 DEF Typed, Phases, Queued
<1>4. \A v \in Workers : v # w => run'[v] = run[v] /\ serving'[v] = serving[v]
  BY <1>1, <1>2 DEF Typed
<1> HIDE DEF c
<1> QED BY <1>2, <1>3, <1>4, StartKeepsDeadlines DEF c

\* Whom a worker serves in a step that takes no command.
LEMMA ServedSame ==
  ASSUME UNCHANGED tasks, NEW c \in Conns, conn'[c].id = conn[c].id,
         \A v \in Workers : Blocked(v) => Blocked(v)' /\ serving'[v] = serving[v]
  PROVE  Served(c) => Served(c)'
BY DEF Served

LEMMA DeadlinesStill ==
  ASSUME Core, Deadlines, UNCHANGED <<tasks, highest, robbed, conn>>,
         \A v \in Workers : Blocked(v) => Blocked(v)' /\ serving'[v] = serving[v]
  PROVE  Deadlines'
<1>1. Typed
  BY DEF Core
<1>2. \A c \in Conns : Served(c) => Served(c)'
  BY ServedSame
<1>3. \A c \in Conns : /\ conn'[c].id = conn[c].id
                       /\ conn[c].expired => conn'[c].expired
                       /\ conn'[c].reading => conn[c].reading
                       /\ HasTask(c) => conn'[c].w = conn[c].w
  OBVIOUS
<1> QED BY <1>1, <1>2, <1>3, DeadlinesSame

LEMMA DeadlinesBecomes ==
  ASSUME Core, Deadlines, UNCHANGED <<tasks, highest, robbed, run, serving>>,
         NEW c \in Conns, NEW life, NEW w, Becomes(c, life, w, conn[c].id, FALSE),
         conn[c].w = 0 \/ w = conn[c].w
  PROVE  Deadlines'
<1>1. Typed
  BY DEF Core
<1>2. \A d \in Conns : /\ conn'[d].id = conn[d].id
                       /\ conn[d].expired => conn'[d].expired
                       /\ conn'[d].reading => conn[d].reading
  <2> TAKE d \in Conns
  <2>1. CASE d = c
    BY <2>1 DEF Becomes
  <2>2. CASE d # c
    BY <2>2 DEF Becomes
  <2> QED BY <2>1, <2>2
<1>3. ASSUME NEW d \in Conns, HasTask(d)
      PROVE  conn'[d].w = conn[d].w
  <2>1. conn[d].w # 0
    BY <1>3 DEF HasTask, Deadlines, TasksOwned, Workers
  <2> QED BY <2>1 DEF Becomes
<1>4. \A d \in Conns : Served(d) => Served(d)'
  BY <1>2, ServedSame DEF Blocked
<1> QED BY <1>1, <1>2, <1>3, <1>4, DeadlinesSame

LEMMA DeadlinesExit ==
  ASSUME Core, Deadlines, Exit
  PROVE  Deadlines'
<1>1. Typed
  BY DEF Core
<1>2. /\ \A w \in Workers : run[w] = "done"
      /\ UNCHANGED <<run, serving, tasks, highest, robbed>>
  BY DEF Exit, io
<1>3. conn' = [c \in Conns |-> IF conn[c].life = "none" THEN conn[c]
                               ELSE [conn[c] EXCEPT !.life = "gone", !.reading = FALSE]]
  BY DEF Exit
<1>4. ASSUME NEW c \in Conns
      PROVE  /\ conn'[c].id = conn[c].id /\ conn'[c].w = conn[c].w
             /\ conn[c].expired => conn'[c].expired
             /\ conn'[c].reading => conn[c].reading
  <2>1. conn[c] \in Connection
    BY <1>1 DEF Typed
  <2>2. CASE conn[c].life = "none"
    <3>1. conn'[c] = conn[c]
      BY <1>3, <2>2
    <3> QED BY <3>1
  <2>3. CASE conn[c].life # "none"
    <3>1. conn'[c] = [conn[c] EXCEPT !.life = "gone", !.reading = FALSE]
      BY <1>3, <2>3
    <3> QED BY <2>1, <3>1 DEF Connection
  <2> QED BY <2>2, <2>3
<1>5. \A c \in Conns : Served(c) => Served(c)'
  BY <1>2 DEF Served, Blocked
<1> QED BY <1>1, <1>2, <1>4, <1>5, DeadlinesSame

-----------------------------------------------------------------------------
(* The invariant of the server.                                            *)

LEMMA CrowInit == Init => Core /\ Deadlines
<1> SUFFICES ASSUME Init PROVE Core /\ Deadlines
  OBVIOUS
<1>1. /\ main = "starting" /\ accepting = 0 /\ stopping = FALSE
      /\ run = [w \in Workers |-> "new"] /\ ran = [w \in Workers |-> FALSE]
      /\ serving = [w \in Workers |-> 0]
      /\ length = [w \in Workers |-> 0] /\ queue = [w \in Workers |-> <<>>]
      /\ armed = [w \in Workers |-> FALSE] /\ tasks = [w \in Workers |-> {}]
      /\ highest = [w \in Workers |-> 0] /\ asks = 0 /\ robbed = {}
  BY DEF Init
<1>2. conn = [c \in Conns |-> Unborn]
  BY DEF Init
<1>3. /\ Unborn \in Connection /\ Unborn.life = "none" /\ Unborn.w = 0 /\ Unborn.id = 0
      /\ ~Unborn.reading
  BY DEF Unborn, Connection, Lives
<1>4. \A c \in Conns : conn[c] = Unborn
  BY <1>2
<1>5. Typed
  <2>1. conn \in [Conns -> Connection]
    BY <1>2, <1>3
  <2>2. queue \in [Workers -> Seq(Item)] /\ tasks \in [Workers -> SUBSET Task]
    BY <1>1
  <2>3. run \in [Workers -> {"new", "running", "blocked", "done"}]
    BY <1>1
  <2>4. /\ ran \in [Workers -> BOOLEAN] /\ armed \in [Workers -> BOOLEAN]
        /\ stopping \in BOOLEAN
    BY <1>1
  <2>5. /\ serving \in [Workers -> Conns \cup {0}] /\ length \in [Workers -> Int]
        /\ highest \in [Workers -> Nat]
    BY <1>1
  <2> QED BY <1>1, <2>1, <2>2, <2>3, <2>4, <2>5 DEF Typed
<1>6. Phases
  BY <1>1, <1>3, <1>4 DEF Phases, Blocked
<1>7. LifeTells
  BY <1>3, <1>4 DEF LifeTells
<1>8. \A w \in Workers : Ready(w) = {} /\ ~Blocked(w)
  BY <1>1 DEF Ready, Blocked
<1>9. Queued
  BY <1>8 DEF Queued
<1>10. TasksOwned /\ IdsUnique
  BY <1>1 DEF TasksOwned, IdsUnique
<1>11. IdsAccounted /\ Idle /\ RobberKnown
  BY <1>1, <1>3, <1>4 DEF IdsAccounted, Idle, RobberKnown
<1> QED BY <1>5, <1>6, <1>7, <1>9, <1>10, <1>11 DEF Core, Deadlines

LEMMA CrowStep == Core /\ Deadlines /\ [Next]_vars => (Core /\ Deadlines)'
<1> SUFFICES ASSUME Core, Deadlines, [Next]_vars PROVE (Core /\ Deadlines)'
  OBVIOUS
<1>1. ASSUME NEW w \in Workers, StartWorker(w) PROVE (Core /\ Deadlines)'
  <2>1. \A v \in Workers : Blocked(v) => Blocked(v)' /\ serving'[v] = serving[v]
    BY <1>1 DEF StartWorker, Blocked, Core, Typed
  <2>2. UNCHANGED <<tasks, highest, robbed, conn>>
    BY <1>1 DEF StartWorker
  <2> QED BY <1>1, <2>1, <2>2, CoreStartWorker, DeadlinesStill
<1>2. ASSUME NEW w \in Workers, Handler(w) PROVE (Core /\ Deadlines)'
  <2>1. TasksOwned
    BY DEF Deadlines
  <2> QED BY <1>2, <2>1, CoreRunStart, CoreRunRequest, CoreRunCommand, CoreRunEnd, CoreTick,
          DeadlinesRun, DeadlinesRunCommand, DeadlinesTick DEF Handler
<1>3. ASSUME NEW w \in Workers, RunReturns(w) PROVE (Core /\ Deadlines)'
  <2>1. \A v \in Workers : Blocked(v) => Blocked(v)' /\ serving'[v] = serving[v]
    BY <1>3 DEF RunReturns, Blocked, Core, Typed
  <2>2. UNCHANGED <<tasks, highest, robbed, conn>>
    BY <1>3 DEF RunReturns, io
  <2> QED BY <1>3, <2>1, <2>2, CoreRunReturns, DeadlinesStill
<1>4. ASSUME NEW w \in Workers, Unblock(w) PROVE (Core /\ Deadlines)'
  BY <1>4, CoreUnblock, DeadlinesUnblock
<1>5. ASSUME NEW w \in Workers, TimerFires(w) PROVE (Core /\ Deadlines)'
  <2>1. UNCHANGED <<tasks, highest, robbed, conn, run, serving>>
    BY <1>5 DEF TimerFires, threads
  <2> QED BY <1>5, <2>1, CoreTimerFires, DeadlinesStill DEF Blocked
<1>6. ASSUME StartAccepting \/ AcceptFails \/ Stop PROVE (Core /\ Deadlines)'
  <2>1. UNCHANGED <<tasks, highest, robbed, conn, run, serving>>
    BY <1>6 DEF StartAccepting, AcceptFails, Stop, io
  <2> QED BY <1>6, <2>1, CoreStartAccepting, CoreAcceptFails, CoreStop, DeadlinesStill DEF Blocked
<1>7. ASSUME NEW c \in Conns, Accept(c) PROVE (Core /\ Deadlines)'
  <2>1. UNCHANGED <<tasks, highest, robbed, run, serving>>
    BY <1>7 DEF Accept
  <2>2. conn[c].w = 0 /\ conn[c].reading = FALSE
    BY <1>7 DEF Core, LifeTells, Typed, Connection, Accept, Waiting
  <2>3. Becomes(c, "posted", accepting, conn[c].id, FALSE)
    BY <1>7, <2>2, AcceptBecomes DEF Core
  <2> QED BY <1>7, <2>1, <2>2, <2>3, CoreAccept, DeadlinesBecomes
<1>8. CASE Exit
  BY <1>8, CoreExit, DeadlinesExit
<1>9. ASSUME NEW c \in Conns, Connect(c) PROVE (Core /\ Deadlines)'
  <2>1. UNCHANGED <<tasks, highest, robbed, run, serving>>
    BY <1>9 DEF Connect, threads, io
  <2>2. conn[c].reading = FALSE
    BY <1>9 DEF Core, LifeTells, Typed, Connection, Connect
  <2>3. Becomes(c, "backlog", conn[c].w, conn[c].id, FALSE)
    BY <1>9, <2>2, ConnectBecomes DEF Core
  <2> QED BY <1>9, <2>1, <2>3, CoreConnect, DeadlinesBecomes
<1>10. ASSUME NEW c \in Conns, NEW kind \in {"request", "command", "end"}, ReadEnds(c, kind),
              asks' \in Nat
       PROVE  (Core /\ Deadlines)'
  <2>1. UNCHANGED <<tasks, highest, robbed, run, serving>>
    BY <1>10 DEF ReadEnds, threads
  <2>2. Becomes(c, conn[c].life, conn[c].w, conn[c].id, FALSE)
    BY <1>10, ReadEndsBecomes DEF Core
  <2> QED BY <1>10, <2>1, <2>2, CoreReadEnds, DeadlinesBecomes
<1>11. ASSUME NEW c \in Conns, Leave(c) \/ Ask(c, "request") \/ Ask(c, "command")
       PROVE  (Core /\ Deadlines)'
  <2>1. asks' \in Nat
    BY <1>11 DEF Leave, Ask, Core, Typed
  <2> QED BY <1>10, <1>11, <2>1 DEF Leave, Ask
<1>12. ASSUME NEW w \in Workers, SecondPasses(w) PROVE (Core /\ Deadlines)'
  <2>1. TasksOwned
    BY DEF Deadlines
  <2> QED BY <1>12, <2>1, CoreSecondPasses, DeadlinesSecondPasses
<1>13. CASE UNCHANGED vars
  <2>1. UNCHANGED <<main, accepting, stopping, run, serving, ran, length, queue, armed, tasks,
                    highest, conn, asks, robbed>>
    BY <1>13 DEF vars, threads, io
  <2>2. Typed' /\ Phases'
    BY <2>1 DEF Core, Typed, Phases, Blocked
  <2>3. \A v \in Workers : Ready(v)' = Ready(v) /\ (Blocked(v)' <=> Blocked(v))
    BY <2>1 DEF Ready, Blocked
  <2>4. Core'
    BY <2>1, <2>2, <2>3, CoreSame
  <2> QED BY <2>1, <2>3, <2>4, DeadlinesStill
<1> QED BY <1>1, <1>2, <1>3, <1>4, <1>5, <1>6, <1>7, <1>8, <1>9, <1>11, <1>12, <1>13
        DEF Next, Worker, Acceptor

-----------------------------------------------------------------------------
(* The lengths of the queues.                                              *)

\* The connections that were given to worker w.
Given(w) == {c \in Conns : conn[c].w = w}

LEMMA ConnsCounted ==
  ASSUME NEW S \in SUBSET Conns
  PROVE  IsFiniteSet(S) /\ Cardinality(S) \in 0..MaxConns
<1>1. IsFiniteSet(Conns) /\ Cardinality(Conns) = MaxConns
  BY FS_Interval, CrowAssumption DEF Conns
<1>2. IsFiniteSet(S) /\ Cardinality(S) <= MaxConns
  BY <1>1, FS_Subset
<1> QED BY <1>2, FS_CardinalityType, CrowAssumption

\* Giving one more to the worker that pick_io_service_idx picks keeps the lengths
\* within one of each other.
LEMMA DoAcceptBalances ==
  ASSUME NEW len \in [Workers -> Nat], Balanced(len), DoAccept(len)
  PROVE  /\ accepting' \in Workers /\ length' \in [Workers -> Nat] /\ Balanced(length')
         /\ length' = [len EXCEPT ![accepting'] = @ + 1]
         /\ Base' = len
         /\ \A v \in Workers : len[accepting'] <= len[v]
<1>1. /\ accepting' = Pick(len) /\ length' = [len EXCEPT ![Pick(len)] = @ + 1]
  BY DEF DoAccept
<1>2. /\ accepting' \in Workers /\ \A v \in Workers : len[accepting'] <= len[v]
  BY <1>1, PickShortest
<1>3. length' = [len EXCEPT ![accepting'] = @ + 1] /\ length' \in [Workers -> Nat]
  BY <1>1, <1>2
<1>4. \A v \in Workers : length'[v] = IF v = accepting' THEN len[v] + 1 ELSE len[v]
  BY <1>3
<1>5. Balanced(length')
  BY <1>2, <1>4 DEF Balanced
<1>6. Base' = len
  <2>1. accepting' # 0
    BY <1>2 DEF Workers
  <2>2. Base' = [length' EXCEPT ![accepting'] = @ - 1]
    BY <2>1 DEF Base
  <2> QED BY <1>2, <1>3, <2>2
<1> QED BY <1>2, <1>3, <1>5, <1>6

LEMMA CountedInit == Init => Counted
<1> SUFFICES ASSUME Init PROVE Counted
  OBVIOUS
<1>1. main = "starting" /\ length = [w \in Workers |-> 0]
  BY DEF Init
<1>2. \A w \in Workers : length[w] = 0
  BY <1>1
<1> QED BY <1>1, <1>2, CrowAssumption DEF Counted, Balanced

\* The steps that leave the lengths, and who was given to whom, alone.
LEMMA CountedSame ==
  ASSUME Counted, UNCHANGED <<accepting, length>>, main' = "accepting" => main = "accepting",
         \A c \in Conns : conn'[c].w = conn[c].w
  PROVE  Counted'
<1>1. \A w \in Workers : {c \in Conns : conn'[c].w = w} = {c \in Conns : conn[c].w = w}
  OBVIOUS
<1>2. Base' = Base
  BY DEF Base
<1> QED BY <1>1, <1>2 DEF Counted

LEMMA CountedAccept ==
  ASSUME Core, Counted, NEW c \in Conns, Accept(c)
  PROVE  Counted'
<1>1. Typed /\ Phases /\ LifeTells
  BY DEF Core
<1>2. /\ main = "accepting" /\ main' = "accepting" /\ conn[c].life = "backlog"
      /\ DoAccept(length)
  BY DEF Accept, Waiting
<1>3. accepting \in Workers /\ conn[c].w = 0
  BY <1>1, <1>2 DEF Phases, LifeTells
<1>4. Becomes(c, "posted", accepting, conn[c].id, conn[c].reading)
  BY <1>1, AcceptBecomes
<1>5. length \in [Workers -> Nat] /\ Balanced(length)
  BY <1>1 DEF Typed, Counted
<1>6. /\ accepting' \in Workers /\ Balanced(length') /\ Base' = length
      /\ \A v \in Workers : length[accepting'] <= length[v]
      /\ length' = [length EXCEPT ![accepting'] = @ + 1]
  BY <1>2, <1>5, DoAcceptBalances
<1>7. \A w \in Workers : length[w] = Cardinality(Given(w)')
  <2> TAKE w \in Workers
  <2>1. Base = [length EXCEPT ![accepting] = @ - 1]
    BY <1>3 DEF Base, Workers
  <2>2. Base[w] = Cardinality(Given(w))
    BY <1>2 DEF Counted, Given
  <2>3. CASE w = accepting
    <3>1. Given(w)' = Given(w) \cup {c} /\ c \notin Given(w)
      BY <1>3, <1>4, <2>3 DEF Given, Becomes, Workers
    <3>2. IsFiniteSet(Given(w))
      BY ConnsCounted DEF Given
    <3>3. Cardinality(Given(w)') = Cardinality(Given(w)) + 1
      BY <3>1, <3>2, FS_AddElement
    <3> QED BY <1>3, <1>5, <2>1, <2>2, <2>3, <3>3
  <2>4. CASE w # accepting
    <3>1. Given(w)' = Given(w)
      BY <1>3, <1>4, <2>4 DEF Given, Becomes, Workers
    <3> QED BY <1>5, <2>1, <2>2, <2>4, <3>1
  <2> QED BY <2>3, <2>4
<1>8. \A w \in Workers : length'[w] \in 0..(MaxConns + 1)
  <2> TAKE w \in Workers
  <2>1. Given(w)' \in SUBSET Conns
    BY DEF Given
  <2>2. Cardinality(Given(w)') \in 0..MaxConns
    BY <2>1, ConnsCounted
  <2> QED BY <1>5, <1>6, <1>7, <2>2, CrowAssumption
<1> QED BY <1>5, <1>6, <1>7, <1>8 DEF Counted, Given

LEMMA CountedAcceptFails ==
  ASSUME Core, Counted, AcceptFails
  PROVE  Counted'
<1> DEFINE len == [length EXCEPT ![accepting] = @ - 1]
<1>1. Typed /\ Phases
  BY DEF Core
<1>2. /\ main = "accepting" /\ main' = "accepting" /\ conn' = conn /\ DoAccept(len)
  BY DEF AcceptFails
<1>3. accepting \in Workers /\ Base = len
  BY <1>1, <1>2 DEF Phases, Base, Workers
<1>4. \A w \in Workers : len[w] = Cardinality(Given(w))
  BY <1>2, <1>3 DEF Counted, Given
<1>5. len \in [Workers -> Nat] /\ \A w \in Workers : len[w] <= MaxConns
  <2>1. DOMAIN len = Workers /\ len = [w \in Workers |-> len[w]]
    BY <1>1 DEF Typed
  <2>2. \A w \in Workers : Cardinality(Given(w)) \in 0..MaxConns
    BY ConnsCounted DEF Given
  <2> HIDE DEF len
  <2> QED BY <1>4, <2>1, <2>2, CrowAssumption
<1>6. Balanced(len)
  BY <1>2, <1>3 DEF Counted
<1> HIDE DEF len
<1>7. /\ accepting' \in Workers /\ Balanced(length') /\ Base' = len
      /\ \A v \in Workers : len[accepting'] <= len[v]
      /\ length' = [len EXCEPT ![accepting'] = @ + 1]
  BY <1>2, <1>5, <1>6, DoAcceptBalances
<1>8. \A w \in Workers : length'[w] \in 0..(MaxConns + 1)
  BY <1>5, <1>7, CrowAssumption
<1> QED BY <1>2, <1>4, <1>6, <1>7, <1>8 DEF Counted, Given

LEMMA CountedStartAccepting ==
  ASSUME Core, Counted, StartAccepting
  PROVE  Counted'
<1>1. Typed /\ Phases
  BY DEF Core
<1>2. main = "starting" /\ conn' = conn /\ DoAccept(length)
  BY DEF StartAccepting
<1>3. length \in [Workers -> Nat] /\ Balanced(length)
  BY <1>1 DEF Typed, Counted
<1>4. \A w \in Workers : length[w] = Cardinality(Given(w))
  <2> TAKE w \in Workers
  <2>1. Given(w) = {}
    BY <1>1, <1>2 DEF Phases, Given, Workers
  <2> QED BY <1>1, <1>2, <2>1, FS_EmptySet DEF Phases
<1>5. /\ accepting' \in Workers /\ Balanced(length') /\ Base' = length
      /\ \A v \in Workers : length[accepting'] <= length[v]
      /\ length' = [length EXCEPT ![accepting'] = @ + 1]
  BY <1>2, <1>3, DoAcceptBalances
<1>6. \A w \in Workers : length'[w] \in 0..(MaxConns + 1)
  BY <1>1, <1>2, <1>3, <1>5, CrowAssumption DEF Phases
<1> QED BY <1>2, <1>3, <1>4, <1>5, <1>6 DEF Counted, Given

LEMMA CountedStartWorker ==
  ASSUME Core, Counted, NEW w \in Workers, StartWorker(w)
  PROVE  Counted'
<1>1. Typed /\ Phases
  BY DEF Core
<1>2. main = "starting" /\ main' = "starting" /\ length' = [length EXCEPT ![w] = 0]
  BY <1>1 DEF StartWorker, Phases
<1>3. \A v \in Workers : length'[v] = 0
  BY <1>1, <1>2 DEF Phases, Typed
<1> QED BY <1>2, <1>3, CrowAssumption DEF Counted, Balanced

\* No handler gives its connection to another worker.
LEMMA HandlerKeepsWorkers ==
  ASSUME Core, NEW w \in Workers, Handler(w) \/ Unblock(w)
  PROVE  \A c \in Conns : conn'[c].w = conn[c].w
<1>1. Typed /\ Phases /\ Queued
  BY DEF Core
<1>2. CASE Tick(w)
  BY <1>1, <1>2, TickConn
<1>3. ASSUME RunStart(w) \/ RunRequest(w) \/ RunCommand(w) \/ RunEnd(w)
      PROVE  \A c \in Conns : conn'[c].w = conn[c].w
  <2> DEFINE b == Head(queue[w]).of
  <2>1. PICK kind \in {"start", "request", "command", "end"} : Takes(w, kind)
    BY <1>3 DEF RunStart, RunRequest, RunCommand, RunEnd
  <2>2. b \in Conns /\ conn[b].w \in Workers
    BY <1>1, <2>1, TakesOwn
  <2>3. StartDeadline(b, "open") \/ Gone(b) \/ conn' = conn
    BY <1>3 DEF RunStart, RunRequest, RunCommand, RunEnd
  <2> HIDE DEF b
  <2>4. "open" \in Lives
    BY DEF Lives
  <2> QED BY <1>1, <2>2, <2>3, <2>4, StartDeadlineBecomes, GoneBecomes DEF Becomes
<1>4. CASE Unblock(w)
  <2>1. Blocked(w) /\ StartDeadline(serving[w], "open") /\ "open" \in Lives
    BY <1>4 DEF Unblock, Lives
  <2>2. serving[w] \in Conns /\ conn[serving[w]].w \in Workers
    BY <1>1, <2>1 DEF Typed, Phases, Queued
  <2> QED BY <1>1, <2>1, <2>2, StartDeadlineBecomes DEF Becomes
<1> QED BY <1>2, <1>3, <1>4 DEF Handler

LEMMA CountedStep == Core /\ Core' /\ Counted /\ [Next]_vars => Counted'
<1> SUFFICES ASSUME Core, Core', Counted, [Next]_vars PROVE Counted'
  OBVIOUS
<1>1. ASSUME NEW w \in Workers, StartWorker(w) PROVE Counted'
  BY <1>1, CountedStartWorker
<1>2. ASSUME NEW w \in Workers, Handler(w) \/ Unblock(w) PROVE Counted'
  <2>1. UNCHANGED <<accepting, length, main>>
    BY <1>2 DEF Handler, RunStart, RunRequest, RunCommand, RunEnd, Tick, Unblock
  <2>2. \A c \in Conns : conn'[c].w = conn[c].w
    BY <1>2, HandlerKeepsWorkers
  <2> QED BY <2>1, <2>2, CountedSame
<1>3. ASSUME NEW w \in Workers, RunReturns(w) \/ TimerFires(w) \/ SecondPasses(w) PROVE Counted'
  <2>1. UNCHANGED <<accepting, length, main, conn>>
    BY <1>3 DEF RunReturns, TimerFires, SecondPasses, threads, io
  <2> QED BY <2>1, CountedSame
<1>4. CASE StartAccepting
  BY <1>4, CountedStartAccepting
<1>5. CASE AcceptFails
  BY <1>5, CountedAcceptFails
<1>6. ASSUME NEW c \in Conns, Accept(c) PROVE Counted'
  BY <1>6, CountedAccept
<1>7. CASE Stop
  <2>1. length' = length /\ main' = "joining"
    BY <1>7 DEF Stop
  <2> QED BY <2>1 DEF Counted
<1>8. CASE Exit
  <2>1. length' = length /\ main' = "exited"
    BY <1>8 DEF Exit
  <2> QED BY <2>1 DEF Counted
<1>9. ASSUME NEW c \in Conns, Connect(c) \/ Leave(c) \/ Ask(c, "request") \/ Ask(c, "command")
      PROVE  Counted'
  <2>1. UNCHANGED <<accepting, length, main>>
    BY <1>9 DEF Connect, Leave, Ask, ReadEnds, threads
  <2>2. \A d \in Conns : conn'[d].w = conn[d].w
    <3>1. PICK life, id, reading : Becomes(c, life, conn[c].w, id, reading)
      BY <1>9, ConnectBecomes, ReadEndsBecomes DEF Leave, Ask, Core
    <3> QED BY <3>1 DEF Becomes
  <2> QED BY <2>1, <2>2, CountedSame
<1>10. CASE UNCHANGED vars
  BY <1>10, CountedSame DEF vars, threads
<1> QED BY <1>1, <1>2, <1>3, <1>4, <1>5, <1>6, <1>7, <1>8, <1>9, <1>10
        DEF Next, Worker, Acceptor

-----------------------------------------------------------------------------
(* The theorems.                                                           *)

\* At every step: the state has its types, the handlers that are ready and the tasks of
\* the timers are those of their worker's own connections, and the lengths count them.
LEMMA CrowInvariant == Spec => [](Core /\ Deadlines /\ Counted)
<1>1. Init => Core /\ Deadlines /\ Counted
  BY CrowInit, CountedInit
<1>2. Core /\ Deadlines /\ Counted /\ [Next]_vars => (Core /\ Deadlines /\ Counted)'
  BY CrowStep, CountedStep
<1> QED BY <1>1, <1>2, PTL DEF Spec

\* Type correctness, for any number of workers and connections: a blocked worker serves
\* a connection, no queue length leaves its bound, and the age of a task its timeout.
THEOREM CrowTypeCorrect == Spec => []TypeOK
<1>1. Core /\ Deadlines /\ Counted => TypeOK
  <2> SUFFICES ASSUME Core, Deadlines, Counted PROVE TypeOK
    OBVIOUS
  <2>1. Typed /\ Phases
    BY DEF Core
  <2>2. ASSUME NEW w \in Workers
        PROVE  /\ run[w] \in {"new", "running", "blocked", "done"}
               /\ serving[w] \in IF Blocked(w) THEN Conns ELSE {0}
               /\ length[w] \in 0..(MaxConns + 1) /\ highest[w] \in Nat
    BY <2>1 DEF Typed, Phases, Counted
  <2>3. ASSUME NEW w \in Workers
        PROVE  tasks[w] \subseteq [id : 1..highest[w], of : Conns, age : 0..Timeout]
    <3>1. tasks[w] \subseteq Task
      BY <2>1 DEF Typed
    <3>2. \A t \in tasks[w] : t.id \in 1..highest[w] /\ t.age \in 0..Timeout
      BY DEF Deadlines, TasksOwned
    <3> QED BY <3>1, <3>2 DEF Task
  <2>4. ASSUME NEW c \in Conns
        PROVE  conn[c].life \in Lives /\ conn[c].w \in Workers \cup {0}
    BY <2>1 DEF Typed, Connection
  <2> QED BY <2>1, <2>2, <2>3, <2>4 DEF TypeOK, Typed
<1> QED BY <1>1, CrowInvariant, PTL

\* task_timer::tasks_ is a map although highest_id_ starts again from 0: no two tasks of
\* a timer have one id, and no connection has two tasks.
THEOREM OneTaskForEach == Spec => []OneTaskEach
<1>1. Deadlines => OneTaskEach
  BY DEF Deadlines, TasksOwned, IdsUnique, OneTaskEach
<1> QED BY <1>1, CrowInvariant, PTL

\* A connection that waits for its client has a deadline under the id it knows, or was
\* robbed of it by the cancel of a connection with a stale id.
THEOREM IdleConnectionsHaveDeadlines == Spec => []IdleHasDeadline
<1>1. Core /\ Deadlines => IdleHasDeadline
  <2> SUFFICES ASSUME Core, Deadlines, NEW c \in Conns, conn[c].reading
               PROVE  \/ \E t \in tasks[conn[c].w] : t.of = c /\ t.id = conn[c].id
                      \/ \E d \in Conns : <<c, d>> \in robbed
    BY DEF IdleHasDeadline
  <2>1. CASE HasTask(c)
    BY <2>1 DEF HasTask, Deadlines, TasksOwned
  <2>2. CASE WasRobbed(c)
    BY <2>2 DEF WasRobbed
  <2> QED BY <2>1, <2>2 DEF Deadlines, Idle
<1> QED BY <1>1, CrowInvariant, PTL

\* A cancel that erases another's deadline is always that of a connection whose own
\* deadline has closed it, or of one that was robbed before.
THEOREM RobbersAreKnown == Spec => []RobberKnown
<1>1. Deadlines => RobberKnown
  BY DEF Deadlines
<1> QED BY <1>1, CrowInvariant, PTL

\* pick_io_service_idx and task_queue_length_pool_ share the connections out evenly:
\* the lengths count what each worker was given, and differ by one at most.
THEOREM LengthsAreCounts == Spec => []LengthsCountConnections
<1>1. Core /\ Counted => LengthsCountConnections
  <2> SUFFICES ASSUME Core, Counted PROVE LengthsCountConnections
    OBVIOUS
  <2>1. Typed /\ Phases
    BY DEF Core
  <2>2. ASSUME main = "accepting", NEW w \in Workers
        PROVE  length[w] = Cardinality({c \in Conns : conn[c].w = w})
                             + (IF accepting = w THEN 1 ELSE 0)
    <3>1. Base = [length EXCEPT ![accepting] = @ - 1] /\ accepting \in Workers
      BY <2>1, <2>2 DEF Phases, Base, Workers
    <3>2. Base[w] = Cardinality({c \in Conns : conn[c].w = w})
      BY <2>2 DEF Counted
    <3> QED BY <2>1, <3>1, <3>2 DEF Typed
  <2> QED BY <2>2 DEF LengthsCountConnections, Counted, Balanced
<1> QED BY <1>1, CrowInvariant, PTL
=============================================================================
