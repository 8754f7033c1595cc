----------------------------- MODULE MySocketProofs -----------------------------
(***************************************************************************)
(* The properties of MySocket for any number of objects and descriptors.    *)
(***************************************************************************)
EXTENDS MySocket, TLAPS

\* f is a socket of o, in one of the states U.
Own(o, f, U) == Uses(f, U) /\ table[f].owner = o

\* What the table says about the object that made a socket.
FdOK(f) ==
  LET o == table[f].owner
  IN /\ life[o] # "none"
     /\ (table[f].use = "udp") <=> (connectionType[o] = "UDP")
     /\ table[f].use = "listen" =>
          /\ life[o] = "live" /\ WelcomeSocket[o] = f
          /\ mySocket[o] = "SERVER" /\ connectionType[o] = "TCP"
     /\ table[f].use \in {"stream", "reset"} =>
          \/ life[o] = "live" /\ ConnectionSocket[o] = f /\ bTCPConnection[o]
          \/ o \in again
FdInv == \A f \in Fds : IsOpen(f) => FdOK(f)

\* What an object's members say about its sockets.
ObjectOK(o) ==
  /\ bTCPConnection[o] /\ o \notin again
       => Own(o, ConnectionSocket[o], {"stream", "reset"})
  /\ o \notin spoiled =>
       /\ mySocket[o] = "SERVER" /\ connectionType[o] = "TCP"
            => Own(o, WelcomeSocket[o], {"listen"})
       /\ o \notin stale /\ ConnectionSocket[o] \in Fds
            => Own(o, ConnectionSocket[o], {"udp", "tcp", "stream", "reset"})
       /\ connectionType[o] = "UDP" => ConnectionSocket[o] \in Fds /\ o \notin stale
       /\ o \in stale => ~bTCPConnection[o]
ObjectInv == \A o \in Objects : life[o] = "live" => ObjectOK(o)

StaleMade == \A o \in stale : life[o] # "none"

SocketInv ==
  /\ TypeOK /\ StaleMade /\ StrayOnlySpoiled
  /\ strayed = {} => FdInv /\ ObjectInv /\ DeathExplained

-----------------------------------------------------------------------------
LEMMA InitInv == ASSUME Init PROVE SocketInv
  BY SocketAssumption DEF Init, SocketInv, TypeOK, StaleMade, StrayOnlySpoiled, FdInv,
     ObjectInv, DeathExplained, IsOpen, Roles, Transports

\* A call that does not stray acts on nothing but its object's own sockets.
LEMMA ActsOnOwn ==
  ASSUME TypeOK, NEW o \in Objects, NEW S, Acts(o, S)
  PROVE  /\ strayed' \subseteq Objects /\ strayed \subseteq strayed'
         /\ strayed' = {} => strayed = {} /\ \A f \in S : IsOpen(f) => table[f].owner = o
         /\ strayed' # {} => \/ strayed # {}
                             \/ strayed' = {o} /\ \E f \in S : IsOpen(f) /\ table[f].owner # o
  BY DEF TypeOK, Acts

\* The calls of the constructor, which open sockets only where none was open.
LEMMA LowestFree == ASSUME NEW f, Lowest(f, Free) PROVE f \in Fds /\ ~IsOpen(f)
  BY DEF Lowest, Free, IsOpen
LEMMA LowestOther ==
  ASSUME NEW f, NEW g, Lowest(g, Free \ {f}) PROVE g \in Fds /\ ~IsOpen(g) /\ g # f
  BY DEF Lowest, Free, IsOpen

LEMMA SockIn ==
  ASSUME NEW o \in Objects, NEW u \in {"udp", "tcp", "listen", "stream", "reset"}
  PROVE  /\ Sock(o, u) \in Socket /\ Sock(o, u) # Closed
         /\ Sock(o, u).owner = o /\ Sock(o, u).use = u
  BY SocketAssumption DEF Sock, Socket

\* Whatever the constructor opens, it is the object's own and leaves what was
\* open alone.
MakesOwn(o, r, c, fd, w) ==
  /\ Made(o, r, c, fd, w)
  /\ table' \in [Fds -> Socket \cup {Closed}]
  /\ spoiled \subseteq spoiled' /\ spoiled' \subseteq Objects
  /\ \A f \in Fds : IsOpen(f) => table'[f] = table[f]
  /\ \A f \in Fds : ~IsOpen(f) /\ table'[f] # Closed =>
       /\ table'[f].owner = o
       /\ (table'[f].use = "udp") <=> (c = "UDP")
       /\ table'[f].use \in {"udp", "tcp", "listen"}
       /\ table'[f].use = "listen" => f = w /\ r = "SERVER" /\ c = "TCP"
  /\ o \notin spoiled' =>
       /\ Own(o, fd, {"udp", "tcp"})'
       /\ r = "SERVER" /\ c = "TCP" => Own(o, w, {"listen"})'

LEMMA MadeInv ==
  ASSUME SocketInv, NEW o \in Objects, NEW r \in Roles, NEW c \in Transports,
         NEW fd \in Fds \cup {NoFd}, NEW w \in Fds \cup {NoFd, Garbage},
         MakesOwn(o, r, c, fd, w)
  PROVE  SocketInv'
<1> USE DEF MakesOwn
<1>1. TypeOK'
  BY DEF SocketInv, TypeOK, Made
<1>2. /\ life[o] = "none" /\ life'[o] = "live" /\ mySocket'[o] = r /\ connectionType'[o] = c
      /\ ConnectionSocket'[o] = fd /\ WelcomeSocket'[o] = w /\ bTCPConnection'[o] = FALSE
      /\ dead = Nobody /\ dead' = dead /\ stale' = stale /\ again' = again /\ strayed' = strayed
  BY DEF SocketInv, TypeOK, Made, Running
<1>3. \A p \in Objects \ {o} :
        /\ life'[p] = life[p] /\ mySocket'[p] = mySocket[p]
        /\ connectionType'[p] = connectionType[p] /\ ConnectionSocket'[p] = ConnectionSocket[p]
        /\ WelcomeSocket'[p] = WelcomeSocket[p] /\ bTCPConnection'[p] = bTCPConnection[p]
  BY DEF SocketInv, TypeOK, Made
<1>4. StaleMade' /\ StrayOnlySpoiled'
  BY <1>2, <1>3 DEF SocketInv, TypeOK, StaleMade, StrayOnlySpoiled
<1>5. ASSUME strayed = {} PROVE FdInv' /\ ObjectInv' /\ DeathExplained'
  <2>1. FdInv /\ ObjectInv
    BY <1>5 DEF SocketInv
  <2>2. \A f \in Fds : IsOpen(f) => table[f].owner \in Objects \ {o}
    BY <1>2, <2>1 DEF FdInv, FdOK, SocketInv, TypeOK, Socket, IsOpen
  <2>3. FdInv'
    <3> SUFFICES ASSUME NEW f \in Fds, IsOpen(f)'
                 PROVE  FdOK(f)'
      BY DEF FdInv
    <3>1. CASE IsOpen(f)
      BY <1>2, <1>3, <2>1, <2>2, <3>1 DEF FdInv, FdOK, IsOpen
    <3>2. CASE ~IsOpen(f)
      BY <1>2, <3>2 DEF FdOK, IsOpen
    <3>3. QED
      BY <3>1, <3>2
  <2>4. ObjectInv'
    <3> SUFFICES ASSUME NEW p \in Objects, life'[p] = "live"
                 PROVE  ObjectOK(p)'
      BY DEF ObjectInv
    <3>1. CASE p = o
      BY <1>2, <3>1 DEF ObjectOK, SocketInv, StaleMade, Own, Uses, IsOpen
    <3>2. CASE p # o
      BY <1>2, <1>3, <2>1, <3>2 DEF ObjectInv, ObjectOK, Own, Uses, IsOpen
    <3>3. QED
      BY <3>1, <3>2
  <2>5. QED
    BY <1>2, <2>3, <2>4 DEF DeathExplained
<1>6. QED
  BY <1>1, <1>2, <1>4, <1>5 DEF SocketInv

LEMMA ConstructHolds == ASSUME SocketInv, NEW o \in Objects, Construct(o) PROVE SocketInv'
<1> USE SocketAssumption DEF Roles, Transports
<1>1. TypeOK
  BY DEF SocketInv
<1>2. ASSUME NEW r \in Roles, NEW c \in Transports, ConstructFails(o, r, c)
      PROVE  SocketInv'
  <2>1. /\ Made(o, r, c, NoFd, Garbage) /\ table' = table
        /\ spoiled' = spoiled \cup {o}
    BY <1>2 DEF ConstructFails, Spoils
  <2>2. /\ table' \in [Fds -> Socket \cup {Closed}]
        /\ \A f \in Fds : ~IsOpen(f) => table'[f] = Closed
        /\ spoiled \subseteq spoiled' /\ spoiled' \subseteq Objects
    BY <1>1, <2>1 DEF TypeOK, IsOpen
  <2>3. MakesOwn(o, r, c, NoFd, Garbage)
    BY <2>1, <2>2 DEF MakesOwn
  <2>4. QED
    BY <2>3, MadeInv
<1>3. ASSUME NEW r \in Roles, NEW c \in Transports, ConstructOne(o, r, c)
      PROVE  SocketInv'
  <2>1. PICK f \in Fds :
          /\ Lowest(f, Free) /\ Made(o, r, c, f, Garbage)
          /\ table' = [table EXCEPT ![f] = Sock(o, IF c = "UDP" THEN "udp" ELSE "tcp")]
    BY <1>3 DEF ConstructOne
  <2>2. (r = "CLIENT" \/ c = "UDP") /\ spoiled' = spoiled
    BY <1>3 DEF ConstructOne
  <2>3. f \in Fds /\ ~IsOpen(f)
    BY <2>1, LowestFree
  <2>4. PICK u \in {"udp", "tcp"} :
          (u = "udp" <=> c = "UDP") /\ table' = [table EXCEPT ![f] = Sock(o, u)]
    BY <2>1
  <2>5. /\ Sock(o, u) \in Socket /\ Sock(o, u) # Closed
        /\ Sock(o, u).owner = o /\ Sock(o, u).use = u
    BY SockIn
  <2>6. /\ table' \in [Fds -> Socket \cup {Closed}] /\ table'[f] = Sock(o, u)
        /\ \A g \in Fds \ {f} : table'[g] = table[g]
        /\ spoiled \subseteq spoiled' /\ spoiled' \subseteq Objects
    BY <1>1, <2>2, <2>4, <2>5 DEF TypeOK
  <2>7. Own(o, f, {"udp", "tcp"})'
    BY <2>5, <2>6 DEF Own, Uses, IsOpen
  <2>8. \A g \in Fds : ~IsOpen(g) /\ table'[g] # Closed =>
           /\ table'[g].owner = o
           /\ (table'[g].use = "udp") <=> (c = "UDP")
           /\ table'[g].use \in {"udp", "tcp", "listen"}
           /\ table'[g].use = "listen" => g = Garbage /\ r = "SERVER" /\ c = "TCP"
    BY <2>4, <2>5, <2>6 DEF IsOpen
  <2>9. \A g \in Fds : IsOpen(g) => table'[g] = table[g]
    BY <2>3, <2>6
  <2>10. ~(r = "SERVER" /\ c = "TCP")
    BY <2>2
  <2>11. MakesOwn(o, r, c, f, Garbage)
    BY <2>1, <2>6, <2>7, <2>8, <2>9, <2>10 DEF MakesOwn
  <2>12. QED
    BY <2>11, MadeInv
<1>4. ASSUME ConstructUnbound(o)
      PROVE  SocketInv'
  <2>1. PICK f \in Fds : Made(o, "SERVER", "UDP", f, Garbage)
    BY <1>4 DEF ConstructUnbound
  <2>2. /\ table' \in [Fds -> Socket \cup {Closed}] /\ o \in spoiled'
        /\ \A g \in Fds : table'[g] = table[g]
        /\ \A g \in Fds : ~IsOpen(g) => table'[g] = Closed
        /\ spoiled \subseteq spoiled' /\ spoiled' \subseteq Objects
    BY <1>1, <1>4 DEF TypeOK, IsOpen, ConstructUnbound, Spoils
  <2>3. MakesOwn(o, "SERVER", "UDP", f, Garbage)
    BY <2>1, <2>2 DEF MakesOwn
  <2>4. QED
    BY <2>3, MadeInv
<1>5. ASSUME ConstructServer(o)
      PROVE  SocketInv'
  <2>1. PICK f \in Fds, g \in Fds :
          /\ Lowest(f, Free) /\ Lowest(g, Free \ {f})
          /\ Made(o, "SERVER", "TCP", f, g)
          /\ table' = [table EXCEPT ![f] = Sock(o, "tcp"), ![g] = Sock(o, "listen")]
    BY <1>5 DEF ConstructServer
  <2>2. spoiled' = spoiled
    BY <1>5 DEF ConstructServer
  <2>3. ~IsOpen(f) /\ ~IsOpen(g) /\ g # f
    BY <2>1, LowestFree, LowestOther
  <2>4. /\ Sock(o, "tcp") \in Socket /\ Sock(o, "tcp") # Closed
        /\ Sock(o, "tcp").owner = o /\ Sock(o, "tcp").use = "tcp"
        /\ Sock(o, "listen") \in Socket /\ Sock(o, "listen") # Closed
        /\ Sock(o, "listen").owner = o /\ Sock(o, "listen").use = "listen"
    BY SockIn
  <2>5. /\ table' \in [Fds -> Socket \cup {Closed}]
        /\ table'[f] = Sock(o, "tcp") /\ table'[g] = Sock(o, "listen")
        /\ \A h \in Fds \ {f, g} : table'[h] = table[h]
        /\ spoiled \subseteq spoiled' /\ spoiled' \subseteq Objects
    BY <1>1, <2>1, <2>2, <2>3, <2>4 DEF TypeOK
  <2>6. Own(o, f, {"udp", "tcp"})' /\ Own(o, g, {"listen"})'
    BY <2>4, <2>5 DEF Own, Uses, IsOpen
  <2>7. \A h \in Fds : ~IsOpen(h) /\ table'[h] # Closed =>
           /\ table'[h].owner = o
           /\ (table'[h].use = "udp") <=> ("TCP" = "UDP")
           /\ table'[h].use \in {"udp", "tcp", "listen"}
           /\ table'[h].use = "listen" => h = g /\ "SERVER" = "SERVER" /\ "TCP" = "TCP"
    BY <2>4, <2>5 DEF IsOpen
  <2>8. \A h \in Fds : IsOpen(h) => table'[h] = table[h]
    BY <2>3, <2>5
  <2>9. MakesOwn(o, "SERVER", "TCP", f, g)
    BY <2>1, <2>5, <2>6, <2>7, <2>8 DEF MakesOwn
  <2>10. QED
    BY <2>9, MadeInv
<1>6. ASSUME ConstructDeaf(o)
      PROVE  SocketInv'
  <2>1. PICK f \in Fds :
          /\ Lowest(f, Free)
          /\ table' = [table EXCEPT ![f] = Sock(o, "tcp")]
          /\ \E w \in Fds \cup {NoFd} : Made(o, "SERVER", "TCP", f, w)
    BY <1>6 DEF ConstructDeaf
  <2>2. PICK w \in Fds \cup {NoFd} : Made(o, "SERVER", "TCP", f, w)
    BY <2>1
  <2>3. ~IsOpen(f) /\ spoiled' = spoiled \cup {o}
    BY <1>6, <2>1, LowestFree DEF ConstructDeaf, Spoils
  <2>4. /\ Sock(o, "tcp") \in Socket /\ Sock(o, "tcp") # Closed
        /\ Sock(o, "tcp").owner = o /\ Sock(o, "tcp").use = "tcp"
    BY SockIn
  <2>5. /\ table' \in [Fds -> Socket \cup {Closed}]
        /\ table'[f] = Sock(o, "tcp")
        /\ \A h \in Fds \ {f} : table'[h] = table[h]
        /\ spoiled \subseteq spoiled' /\ spoiled' \subseteq Objects /\ o \in spoiled'
    BY <1>1, <2>1, <2>3, <2>4 DEF TypeOK
  <2>6. \A h \in Fds : ~IsOpen(h) /\ table'[h] # Closed =>
           /\ table'[h].owner = o
           /\ (table'[h].use = "udp") <=> ("TCP" = "UDP")
           /\ table'[h].use \in {"udp", "tcp", "listen"}
           /\ table'[h].use = "listen" => h = w /\ "SERVER" = "SERVER" /\ "TCP" = "TCP"
    BY <2>4, <2>5 DEF IsOpen
  <2>7. \A h \in Fds : IsOpen(h) => table'[h] = table[h]
    BY <2>3, <2>5
  <2>8. MakesOwn(o, "SERVER", "TCP", f, w)
    BY <2>2, <2>5, <2>6, <2>7 DEF MakesOwn
  <2>9. QED
    BY <2>8, MadeInv
<1>7. QED
  BY <1>2, <1>3, <1>4, <1>5, <1>6 DEF Construct

-----------------------------------------------------------------------------
\* The first to stray is spoiled, if an object in order acts on its own sockets.
LEMMA StrayHolds ==
  ASSUME SocketInv, NEW o \in Objects, NEW S, Acts(o, S),
         spoiled \subseteq spoiled',
         strayed = {} /\ o \notin spoiled'
           => \A f \in S : IsOpen(f) => table[f].owner = o
  PROVE  StrayOnlySpoiled'
  BY ActsOnOwn DEF SocketInv, StrayOnlySpoiled

\* The sockets that a living object in order can name are its own.
LEMMA NamesOwn ==
  ASSUME SocketInv, strayed = {}, NEW o \in Objects, life[o] = "live", o \notin spoiled
  PROVE  /\ (bTCPConnection[o] \/ o \notin stale) /\ IsOpen(ConnectionSocket[o]) =>
                /\ table[ConnectionSocket[o]].owner = o
                /\ table[ConnectionSocket[o]].use # "listen"
         /\ mySocket[o] = "SERVER" /\ connectionType[o] = "TCP" =>
              /\ Value(WelcomeSocket[o]) = {WelcomeSocket[o]}
              /\ WelcomeSocket[o] \in Fds
              /\ table[WelcomeSocket[o]].owner = o /\ table[WelcomeSocket[o]].use = "listen"
  BY SocketAssumption DEF SocketInv, ObjectInv, ObjectOK, Own, Uses, IsOpen, Value

\* A listening socket is the WelcomeSocket of a server that lives.
LEMMA ListensFor ==
  ASSUME SocketInv, strayed = {}, NEW f \in Fds, IsOpen(f), table[f].use = "listen"
  PROVE  /\ WelcomeSocket[table[f].owner] = f /\ Value(f) = {f}
         /\ mySocket[table[f].owner] = "SERVER" /\ connectionType[table[f].owner] = "TCP"
  BY SocketAssumption DEF SocketInv, FdInv, FdOK, Value

LEMMA OwnerIn == ASSUME TypeOK, NEW f \in Fds, IsOpen(f)
                 PROVE  table[f] \in Socket /\ table[f].owner \in Objects
  BY DEF TypeOK, IsOpen, Socket

Closes(o, w) ==
  (IF bTCPConnection[o] THEN {ConnectionSocket[o]} ELSE {})
  \cup (IF mySocket[o] = "SERVER" /\ connectionType[o] = "TCP" THEN {w} ELSE {})

LEMMA DestroyHolds == ASSUME SocketInv, NEW o \in Objects, Destroy(o) PROVE SocketInv'
<1>0. PICK w \in Value(WelcomeSocket[o]) :
        table' = Closing(Closes(o, w)) /\ Acts(o, Closes(o, w))
  BY DEF Destroy, Closes
<1>1. PICK S :
        /\ S = (IF bTCPConnection[o] THEN {ConnectionSocket[o]} ELSE {})
               \cup (IF mySocket[o] = "SERVER" /\ connectionType[o] = "TCP" THEN {w} ELSE {})
        /\ table' = Closing(S) /\ Acts(o, S)
  BY <1>0 DEF Closes
<1>2. /\ life[o] = "live" /\ life'[o] = "gone" /\ dead = Nobody /\ dead' = dead
      /\ \A p \in Objects \ {o} : life'[p] = life[p]
      /\ UNCHANGED <<mySocket, connectionType, members, stale, again, spoiled>>
  BY DEF Destroy, Live, Running, SocketInv, TypeOK
<1>3. TypeOK'
  BY <1>1, <1>2, ActsOnOwn DEF SocketInv, TypeOK, Destroy, Closing, members
<1>4. StaleMade'
  BY <1>2 DEF SocketInv, StaleMade, TypeOK
<1>5. ASSUME strayed = {}, o \notin spoiled
      PROVE  \A f \in S : IsOpen(f) => table[f].owner = o
  BY <1>1, <1>2, <1>5, NamesOwn
<1>6. StrayOnlySpoiled'
  BY <1>1, <1>2, <1>5, StrayHolds
<1>7. ASSUME strayed' = {} PROVE FdInv' /\ ObjectInv' /\ DeathExplained'
  <2>1. /\ strayed = {} /\ FdInv /\ ObjectInv
        /\ \A f \in S : IsOpen(f) => table[f].owner = o
    BY <1>1, <1>7, ActsOnOwn DEF SocketInv
  <2>2. \A f \in Fds : table'[f] = IF f \in S THEN Closed ELSE table[f]
    BY <1>1 DEF Closing
  <2>3. FdInv'
    <3> SUFFICES ASSUME NEW f \in Fds, IsOpen(f)'
                 PROVE  FdOK(f)'
      BY DEF FdInv
    <3>1. f \notin S /\ table'[f] = table[f] /\ IsOpen(f)
      BY <2>2 DEF IsOpen
    <3>2. FdOK(f) /\ table[f].owner \in Objects
      BY <2>1, <3>1, OwnerIn DEF FdInv, SocketInv
    <3>3. CASE table[f].owner = o
      <4>1. table[f].use # "listen"
        BY <1>1, <2>1, <3>1, <3>3, ListensFor
      <4>2. table[f].use \in {"stream", "reset"} => o \in again
        BY <1>1, <3>1, <3>2, <3>3 DEF FdOK
      <4>3. QED
        BY <1>2, <3>1, <3>2, <3>3, <4>1, <4>2 DEF FdOK, members
    <3>4. CASE table[f].owner # o
      BY <1>2, <3>1, <3>2, <3>4 DEF FdOK, members
    <3>5. QED
      BY <3>3, <3>4
  <2>4. ObjectInv'
    <3> SUFFICES ASSUME NEW p \in Objects, life'[p] = "live"
                 PROVE  ObjectOK(p)'
      BY DEF ObjectInv
    <3>1. p # o /\ life[p] = "live" /\ ObjectOK(p)
      BY <1>2, <2>1 DEF ObjectInv
    <3>2. ASSUME NEW f, NEW U, Own(p, f, U) PROVE Own(p, f, U)'
      BY <2>1, <2>2, <3>1, <3>2 DEF Own, Uses, IsOpen
    <3>3. QED
      BY <1>2, <3>1, <3>2 DEF ObjectOK, members
  <2>5. QED
    BY <1>2, <2>3, <2>4 DEF DeathExplained
<1>8. QED
  BY <1>3, <1>4, <1>6, <1>7 DEF SocketInv

\* What another object owns is not touched by a call on o that stays at home.
LEMMA OthersKeep ==
  ASSUME TypeOK, NEW o \in Objects, NEW f,
         \A g \in Fds : g # f => table'[g] = table[g],
         IsOpen(f) => table[f].owner = o,
         NEW p \in Objects \ {o}, NEW g, NEW U, Own(p, g, U)
  PROVE  Own(p, g, U)'
  BY DEF Own, Uses, IsOpen

LEMMA ConnectHolds == ASSUME SocketInv, NEW o \in Objects, ConnectClient(o) PROVE SocketInv'
<1> DEFINE f == ConnectionSocket[o]
<1>1. /\ life[o] = "live" /\ connectionType[o] = "TCP" /\ mySocket[o] = "CLIENT"
      /\ dead = Nobody /\ dead' = dead /\ Acts(o, {f})
      /\ UNCHANGED <<object, ConnectionSocket, WelcomeSocket, stale, again>>
      /\ spoiled' = IF o \in stale THEN spoiled \cup {o} ELSE spoiled
  BY DEF ConnectClient, TCP, Live, Running, Spoils
<1>2. \/ /\ Uses(f, {"tcp", "udp"})
         /\ table' = [table EXCEPT ![f].use = IF @ = "tcp" THEN "stream" ELSE @]
         /\ bTCPConnection' = [bTCPConnection EXCEPT ![o] = TRUE]
      \/ UNCHANGED <<table, bTCPConnection>>
  BY DEF ConnectClient
<1>3. TypeOK
  BY DEF SocketInv
<1>4. table' \in [Fds -> Socket \cup {Closed}]
  BY <1>2, <1>3 DEF TypeOK, Uses, IsOpen, Socket
<1>5. TypeOK'
  BY <1>1, <1>2, <1>3, <1>4, ActsOnOwn DEF TypeOK, object
<1>6. StaleMade'
  BY <1>1 DEF SocketInv, StaleMade, object
<1>7. StrayOnlySpoiled'
  BY <1>1, StrayHolds, NamesOwn
<1>8. ASSUME strayed' = {} PROVE FdInv' /\ ObjectInv' /\ DeathExplained'
  <2>1. /\ strayed = {} /\ FdInv /\ ObjectInv
        /\ IsOpen(f) => table[f].owner = o
    BY <1>1, <1>3, <1>8, ActsOnOwn DEF SocketInv
  <2>2. CASE UNCHANGED <<table, bTCPConnection>>
    BY <1>1, <2>1, <2>2 DEF FdInv, FdOK, ObjectInv, ObjectOK, Own, Uses, IsOpen, object,
       DeathExplained
  <2>3. CASE /\ Uses(f, {"tcp", "udp"})
             /\ table' = [table EXCEPT ![f].use = IF @ = "tcp" THEN "stream" ELSE @]
             /\ bTCPConnection' = [bTCPConnection EXCEPT ![o] = TRUE]
    <3>1. f \in Fds /\ IsOpen(f) /\ table[f].owner = o /\ table[f].use = "tcp"
      BY <1>1, <2>1, <2>3 DEF Uses, IsOpen, FdInv, FdOK
    <3>2. /\ table'[f].owner = o /\ table'[f].use = "stream" /\ table'[f] # Closed
          /\ \A g \in Fds : g # f => table'[g] = table[g]
      <4>1. table[f] \in Socket
        BY <1>3, <3>1, OwnerIn
      <4>2. /\ table'[f] = [table[f] EXCEPT !.use = "stream"]
            /\ \A g \in Fds : g # f => table'[g] = table[g]
        BY <1>3, <2>3, <3>1 DEF TypeOK
      <4>3. [table[f] EXCEPT !.use = "stream"] \in Socket
        BY <4>1 DEF Socket
      <4>4. table'[f].use = "stream" /\ table'[f].owner = table[f].owner
        BY <4>1, <4>2 DEF Socket
      <4>5. table'[f] # Closed
        BY SocketAssumption, <4>2, <4>3
      <4>6. QED
        BY <3>1, <4>2, <4>4, <4>5
    <3>3. bTCPConnection'[o] /\ \A p \in Objects \ {o} : bTCPConnection'[p] = bTCPConnection[p]
      BY <1>3, <2>3 DEF TypeOK
    <3>4. FdInv'
      <4> SUFFICES ASSUME NEW g \in Fds, IsOpen(g)'
                   PROVE  FdOK(g)'
        BY DEF FdInv
      <4>1. CASE g = f
        BY <1>1, <3>2, <3>3, <4>1 DEF FdOK, object
      <4>2. CASE g # f
        <5>1. FdOK(g) /\ table'[g] = table[g] /\ table[g].owner \in Objects
          BY <1>3, <2>1, <3>2, <4>2, OwnerIn DEF FdInv, IsOpen
        <5>2. QED
          BY <1>1, <3>3, <5>1 DEF FdOK, object
      <4>3. QED
        BY <4>1, <4>2
    <3>5. Own(o, f, {"stream", "reset"})' /\ Own(o, f, {"udp", "tcp", "stream", "reset"})'
      BY <1>1, <3>1, <3>2 DEF Own, Uses, IsOpen
    <3>6. ObjectInv'
      <4> SUFFICES ASSUME NEW p \in Objects, life'[p] = "live"
                   PROVE  ObjectOK(p)'
        BY DEF ObjectInv
      <4>1. ObjectOK(p)
        BY <1>1, <2>1 DEF ObjectInv, object
      <4>2. CASE p = o
        BY <1>1, <3>3, <3>5, <4>2 DEF ObjectOK, object
      <4>3. CASE p # o
        <5>1. ASSUME NEW g, NEW U, Own(p, g, U) PROVE Own(p, g, U)'
          BY <1>3, <3>1, <3>2, <4>3, <5>1, OthersKeep
        <5>2. QED
          BY <1>1, <3>3, <4>1, <4>3, <5>1 DEF ObjectOK, object
      <4>4. QED
        BY <4>2, <4>3
    <3>7. QED
      BY <1>1, <3>4, <3>6 DEF DeathExplained
  <2>4. QED
    BY <1>2, <2>2, <2>3
<1>9. QED
  BY <1>5, <1>6, <1>7, <1>8 DEF SocketInv

LEMMA AcceptHolds == ASSUME SocketInv, NEW o \in Objects, AcceptServer(o) PROVE SocketInv'
<1>1. /\ life[o] = "live" /\ connectionType[o] = "TCP" /\ mySocket[o] = "SERVER"
      /\ dead = Nobody /\ dead' = dead
      /\ UNCHANGED <<object, WelcomeSocket, spoiled>>
      /\ stale' = stale \ {o}
      /\ again' = IF bTCPConnection[o] THEN again \cup {o} ELSE again
  BY DEF AcceptServer, TCP, Live, Running
<1>2. PICK w \in Value(WelcomeSocket[o]) :
        /\ Acts(o, {w})
        /\ \/ /\ Uses(w, {"listen"})
              /\ \E f \in Fds :
                   /\ Lowest(f, Free)
                   /\ table' = [table EXCEPT ![f] = Sock(o, "stream")]
                   /\ ConnectionSocket' = [ConnectionSocket EXCEPT ![o] = f]
              /\ bTCPConnection' = [bTCPConnection EXCEPT ![o] = TRUE]
           \/ /\ ConnectionSocket' = [ConnectionSocket EXCEPT ![o] = NoFd]
              /\ UNCHANGED <<table, bTCPConnection>>
  BY DEF AcceptServer
<1>3. TypeOK
  BY DEF SocketInv
<1>4. /\ Sock(o, "stream") \in Socket /\ Sock(o, "stream") # Closed
      /\ Sock(o, "stream").owner = o /\ Sock(o, "stream").use = "stream"
  BY SockIn
<1>5. TypeOK'
  <2>1. /\ table' \in [Fds -> Socket \cup {Closed}]
        /\ ConnectionSocket' \in [Objects -> Fds \cup {NoFd}]
        /\ bTCPConnection' \in [Objects -> BOOLEAN]
    <3>1. CASE UNCHANGED <<table, bTCPConnection>>
      BY <1>2, <1>3, <3>1 DEF TypeOK
    <3>2. ASSUME NEW f \in Fds,
                 table' = [table EXCEPT ![f] = Sock(o, "stream")],
                 ConnectionSocket' = [ConnectionSocket EXCEPT ![o] = f],
                 bTCPConnection' = [bTCPConnection EXCEPT ![o] = TRUE]
          PROVE  /\ table' \in [Fds -> Socket \cup {Closed}]
                 /\ ConnectionSocket' \in [Objects -> Fds \cup {NoFd}]
                 /\ bTCPConnection' \in [Objects -> BOOLEAN]
      BY <1>3, <1>4, <3>2 DEF TypeOK
    <3>3. QED
      BY <1>2, <1>3, <3>1, <3>2 DEF TypeOK
  <2>2. QED
    BY <1>1, <1>2, <1>3, <2>1, ActsOnOwn DEF TypeOK, object
<1>6. StaleMade'
  BY <1>1 DEF SocketInv, StaleMade, object
<1>7. StrayOnlySpoiled'
  BY <1>1, <1>2, StrayHolds, NamesOwn
<1>8. ASSUME strayed' = {} PROVE FdInv' /\ ObjectInv' /\ DeathExplained'
  <2>1. strayed = {} /\ FdInv /\ ObjectInv
    BY <1>2, <1>3, <1>8, ActsOnOwn DEF SocketInv
  <2>2. CASE /\ ConnectionSocket' = [ConnectionSocket EXCEPT ![o] = NoFd]
             /\ UNCHANGED <<table, bTCPConnection>>
    <3>1. /\ ConnectionSocket'[o] = NoFd
          /\ \A p \in Objects \ {o} : ConnectionSocket'[p] = ConnectionSocket[p]
      BY <1>3, <2>2 DEF TypeOK
    <3>2. FdInv'
      BY <1>1, <1>3, <2>1, <2>2, <3>1, OwnerIn DEF FdInv, FdOK, IsOpen, object
    <3>3. ObjectInv'
      <4> SUFFICES ASSUME NEW p \in Objects, life'[p] = "live"
                   PROVE  ObjectOK(p)'
        BY DEF ObjectInv
      <4>1. ObjectOK(p)
        BY <1>1, <2>1 DEF ObjectInv, object
      <4>2. ASSUME NEW g, NEW U, Own(p, g, U) PROVE Own(p, g, U)'
        BY <2>2, <4>2 DEF Own, Uses, IsOpen
      <4>3. CASE p = o
        BY SocketAssumption, <1>1, <2>2, <3>1, <4>1, <4>2, <4>3 DEF ObjectOK, object
      <4>4. CASE p # o
        BY <1>1, <2>2, <3>1, <4>1, <4>2, <4>4 DEF ObjectOK, object
      <4>5. QED
        BY <4>3, <4>4
    <3>4. QED
      BY <1>1, <3>2, <3>3 DEF DeathExplained
  <2>3. CASE /\ Uses(w, {"listen"})
             /\ \E f \in Fds :
                  /\ Lowest(f, Free)
                  /\ table' = [table EXCEPT ![f] = Sock(o, "stream")]
                  /\ ConnectionSocket' = [ConnectionSocket EXCEPT ![o] = f]
             /\ bTCPConnection' = [bTCPConnection EXCEPT ![o] = TRUE]
    <3>1. PICK f \in Fds :
            /\ Lowest(f, Free)
            /\ table' = [table EXCEPT ![f] = Sock(o, "stream")]
            /\ ConnectionSocket' = [ConnectionSocket EXCEPT ![o] = f]
      BY <2>3
    <3>2. ~IsOpen(f)
      BY <3>1, LowestFree
    <3>3. /\ ConnectionSocket'[o] = f /\ bTCPConnection'[o]
          /\ \A p \in Objects \ {o} : /\ ConnectionSocket'[p] = ConnectionSocket[p]
                                      /\ bTCPConnection'[p] = bTCPConnection[p]
      BY <1>3, <2>3, <3>1 DEF TypeOK
    <3>4. /\ table'[f] = Sock(o, "stream")
          /\ \A g \in Fds : g # f => table'[g] = table[g]
      BY <1>3, <3>1 DEF TypeOK
    <3>5. ASSUME NEW p, NEW g, NEW U, Own(p, g, U) PROVE Own(p, g, U)'
      BY <3>2, <3>4, <3>5 DEF Own, Uses, IsOpen
    <3>6. FdInv'
      <4> SUFFICES ASSUME NEW g \in Fds, IsOpen(g)'
                   PROVE  FdOK(g)'
        BY DEF FdInv
      <4>1. CASE g = f
        BY <1>1, <1>4, <3>3, <3>4, <4>1 DEF FdOK, object
      <4>2. CASE g # f
        <5>1. FdOK(g) /\ table'[g] = table[g] /\ table[g].owner \in Objects
          BY <1>3, <2>1, <3>4, <4>2, OwnerIn DEF FdInv, IsOpen
        <5>2. QED
          BY <1>1, <3>3, <5>1 DEF FdOK, object
      <4>3. QED
        BY <4>1, <4>2
    <3>7. ObjectInv'
      <4> SUFFICES ASSUME NEW p \in Objects, life'[p] = "live"
                   PROVE  ObjectOK(p)'
        BY DEF ObjectInv
      <4>1. ObjectOK(p)
        BY <1>1, <2>1 DEF ObjectInv, object
      <4>2. CASE p = o
        <5>1. \A U : "stream" \in U => Own(o, f, U)'
          BY <1>4, <3>4 DEF Own, Uses, IsOpen
        <5>2. Own(o, f, {"stream", "reset"})' /\ Own(o, f, {"udp", "tcp", "stream", "reset"})'
          BY <5>1
        <5>3. QED
          BY <1>1, <3>3, <3>5, <4>1, <4>2, <5>2 DEF ObjectOK, object
      <4>3. CASE p # o
        BY <1>1, <3>3, <3>5, <4>1, <4>3 DEF ObjectOK, object
      <4>4. QED
        BY <4>2, <4>3
    <3>8. QED
      BY <1>1, <3>6, <3>7 DEF DeathExplained
  <2>4. QED
    BY <1>2, <2>2, <2>3
<1>9. QED
  BY <1>5, <1>6, <1>7, <1>8 DEF SocketInv

LEMMA DisconnectHolds == ASSUME SocketInv, NEW o \in Objects, DisconnectTCP(o) PROVE SocketInv'
<1> DEFINE f == ConnectionSocket[o]
<1>1. /\ life[o] = "live" /\ connectionType[o] = "TCP" /\ bTCPConnection[o]
      /\ dead = Nobody /\ dead' = dead /\ Acts(o, {f})
      /\ UNCHANGED <<object, ConnectionSocket, WelcomeSocket, again, spoiled>>
      /\ stale' = stale \cup {o} /\ table' = Closing({f})
      /\ bTCPConnection' = [bTCPConnection EXCEPT ![o] = FALSE]
  BY DEF DisconnectTCP, Live, Running
<1>2. TypeOK
  BY DEF SocketInv
<1>3. TypeOK'
  BY <1>1, <1>2, ActsOnOwn DEF TypeOK, object, Closing
<1>4. StaleMade'
  BY <1>1 DEF SocketInv, StaleMade, object
<1>5. StrayOnlySpoiled'
  BY <1>1, StrayHolds, NamesOwn
<1>6. ASSUME strayed' = {} PROVE FdInv' /\ ObjectInv' /\ DeathExplained'
  <2>1. /\ strayed = {} /\ FdInv /\ ObjectInv
        /\ IsOpen(f) => table[f].owner = o
    BY <1>1, <1>2, <1>6, ActsOnOwn DEF SocketInv
  <2>2. \A g \in Fds : table'[g] = IF g = f THEN Closed ELSE table[g]
    BY <1>1 DEF Closing
  <2>3. ~bTCPConnection'[o] /\ \A p \in Objects \ {o} : bTCPConnection'[p] = bTCPConnection[p]
    BY <1>1, <1>2 DEF TypeOK
  <2>4. FdInv'
    <3> SUFFICES ASSUME NEW g \in Fds, IsOpen(g)'
                 PROVE  FdOK(g)'
      BY DEF FdInv
    <3>1. /\ g # f /\ FdOK(g) /\ table'[g] = table[g]
          /\ table[g].owner \in Objects
      BY <1>2, <2>1, <2>2, OwnerIn DEF FdInv, IsOpen
    <3>2. QED
      BY <1>1, <2>3, <3>1 DEF FdOK, object
  <2>5. ObjectInv'
    <3> SUFFICES ASSUME NEW p \in Objects, life'[p] = "live"
                 PROVE  ObjectOK(p)'
      BY DEF ObjectInv
    <3>1. ObjectOK(p)
      BY <1>1, <2>1 DEF ObjectInv, object
    <3>2. CASE p = o
      <4>1. ASSUME o \notin spoiled, mySocket[o] = "SERVER"
            PROVE  Own(o, WelcomeSocket[o], {"listen"})'
        <5>1. /\ WelcomeSocket[o] \in Fds /\ table[WelcomeSocket[o]].use = "listen"
              /\ IsOpen(f) => table[f].use # "listen"
          BY <1>1, <2>1, <4>1, NamesOwn
        <5>2. Own(o, WelcomeSocket[o], {"listen"})
          BY <1>1, <3>1, <3>2, <4>1 DEF ObjectOK
        <5>3. WelcomeSocket[o] # f
          BY <5>1, <5>2 DEF Own, Uses
        <5>4. QED
          BY <1>1, <2>2, <5>1, <5>2, <5>3 DEF Own, Uses, IsOpen
      <4>2. QED
        BY <1>1, <2>3, <3>2, <4>1 DEF ObjectOK, object
    <3>3. CASE p # o
      <4>1. ASSUME NEW g, NEW U, Own(p, g, U) PROVE Own(p, g, U)'
        BY <2>1, <2>2, <3>3, <4>1 DEF Own, Uses, IsOpen
      <4>2. QED
        BY <1>1, <2>3, <3>1, <3>3, <4>1 DEF ObjectOK, object
    <3>4. QED
      BY <3>2, <3>3
  <2>6. QED
    BY <1>1, <2>4, <2>5 DEF DeathExplained
<1>7. QED
  BY <1>3, <1>4, <1>5, <1>6 DEF SocketInv

\* SendData and GetData: they change no socket, and kill the process only on a
\* TCP socket that is not connected or was reset.
LEMMA EndsHolds ==
  ASSUME SocketInv, NEW o \in Objects, Live(o), NEW kills \in BOOLEAN, Ends(o, kills),
         kills => \/ Uses(ConnectionSocket[o], {"tcp", "listen", "reset"})
                  \/ ~Uses(ConnectionSocket[o], {"udp", "stream"})
  PROVE  SocketInv'
<1> DEFINE f == ConnectionSocket[o]
<1>1. /\ life[o] = "live" /\ dead = Nobody
      /\ dead' = (IF kills THEN o ELSE dead) /\ Acts(o, {f})
      /\ UNCHANGED <<object, members, table, stale, again>>
      /\ spoiled' = IF o \in stale THEN spoiled \cup {o} ELSE spoiled
  BY DEF Ends, Live, Running, Spoils
<1>2. TypeOK
  BY DEF SocketInv
<1>3. TypeOK'
  BY <1>1, <1>2, ActsOnOwn DEF TypeOK, object, members
<1>4. StaleMade'
  BY <1>1 DEF SocketInv, StaleMade, object
<1>5. StrayOnlySpoiled'
  BY <1>1, StrayHolds, NamesOwn
<1>6. ASSUME strayed' = {} PROVE FdInv' /\ ObjectInv' /\ DeathExplained'
  <2>1. strayed = {} /\ FdInv /\ ObjectInv
    BY <1>1, <1>2, <1>6, ActsOnOwn DEF SocketInv
  <2>2. FdInv'
    BY <1>1, <2>1 DEF FdInv, FdOK, IsOpen, object, members
  <2>3. ObjectInv'
    BY <1>1, <2>1 DEF ObjectInv, ObjectOK, Own, Uses, IsOpen, object, members
  <2>4. DeathExplained'
    <3> SUFFICES ASSUME kills, o \notin spoiled', o \notin again
                 PROVE  /\ connectionType[o] = "TCP"
                        /\ ~bTCPConnection[o] \/ Uses(f, {"reset"})
      BY <1>1 DEF DeathExplained, object, members, Uses, IsOpen
    <3>1. ObjectOK(o) /\ o \notin spoiled /\ o \notin stale
      BY <1>1, <2>1 DEF ObjectInv
    <3>2. ASSUME bTCPConnection[o] PROVE Uses(f, {"reset"})
      BY <3>1, <3>2 DEF ObjectOK, Own, Uses
    <3>3. ASSUME connectionType[o] = "UDP" PROVE FALSE
      <4>1. Own(o, f, {"udp", "tcp", "stream", "reset"})
        BY <3>1, <3>3 DEF ObjectOK
      <4>2. Uses(f, {"udp"})
        BY <2>1, <3>3, <4>1 DEF Own, Uses, IsOpen, FdInv, FdOK
      <4>3. QED
        BY <4>2 DEF Uses
    <3>4. connectionType[o] \in {"TCP", "UDP"}
      BY <1>2 DEF TypeOK, Transports
    <3>5. QED
      BY <3>2, <3>3, <3>4
  <2>5. QED
    BY <2>2, <2>3, <2>4
<1>7. QED
  BY <1>3, <1>4, <1>5, <1>6 DEF SocketInv

LEMMA SetTypeHolds ==
  ASSUME SocketInv, NEW o \in Objects, NEW r \in Roles, SetType(o, r) PROVE SocketInv'
<1>1. /\ life[o] = "live" /\ dead = Nobody /\ ~bTCPConnection[o]
      /\ UNCHANGED <<life, connectionType, members, table, dead, stale, again, strayed>>
      /\ mySocket' = [mySocket EXCEPT ![o] = r]
      /\ spoiled' = IF r # mySocket[o] THEN spoiled \cup {o} ELSE spoiled
      /\ \E w \in Value(WelcomeSocket[o]) :
           ~(mySocket[o] = "SERVER" /\ connectionType[o] = "TCP" /\ w \in Fds)
  BY DEF SetType, Live, Running, Spoils
<1>2. TypeOK
  BY DEF SocketInv
<1>3. mySocket'[o] = r /\ \A p \in Objects \ {o} : mySocket'[p] = mySocket[p]
  BY <1>1, <1>2 DEF TypeOK
<1>4. TypeOK'
  BY <1>1, <1>2 DEF TypeOK, members
<1>5. StaleMade' /\ StrayOnlySpoiled'
  BY <1>1 DEF SocketInv, StaleMade, StrayOnlySpoiled
<1>6. ASSUME strayed' = {} PROVE FdInv' /\ ObjectInv' /\ DeathExplained'
  <2>1. strayed = {} /\ FdInv /\ ObjectInv
    BY <1>1, <1>6 DEF SocketInv
  <2>2. FdInv'
    <3> SUFFICES ASSUME NEW f \in Fds, IsOpen(f)
                 PROVE  FdOK(f)'
      BY <1>1 DEF FdInv, IsOpen
    <3>1. FdOK(f) /\ table[f].owner \in Objects
      BY <1>2, <2>1, OwnerIn DEF FdInv
    <3>2. table[f].owner = o => table[f].use # "listen"
      BY <1>1, <2>1, ListensFor
    <3>3. QED
      BY <1>1, <1>3, <3>1, <3>2 DEF FdOK, members
  <2>3. ObjectInv'
    BY <1>1, <1>3, <2>1 DEF ObjectInv, ObjectOK, Own, Uses, IsOpen, members
  <2>4. QED
    BY <1>1, <2>2, <2>3 DEF DeathExplained
<1>7. QED
  BY <1>4, <1>5, <1>6 DEF SocketInv

LEMMA ResetHolds == ASSUME SocketInv, NEW f \in Fds, PeerResets(f) PROVE SocketInv'
<1>1. /\ dead = Nobody /\ IsOpen(f) /\ table[f].use = "stream"
      /\ table' = [table EXCEPT ![f].use = "reset"]
      /\ UNCHANGED <<object, members, dead, history>>
  BY DEF PeerResets, Running, Uses
<1>2. TypeOK /\ table[f] \in Socket
  BY <1>1, OwnerIn DEF SocketInv
<1>3. /\ table'[f] = [table[f] EXCEPT !.use = "reset"]
      /\ \A g \in Fds : g # f => table'[g] = table[g]
  BY <1>1, <1>2 DEF TypeOK
<1>4. [table[f] EXCEPT !.use = "reset"] \in Socket
  BY <1>2 DEF Socket
<1>5. table'[f].use = "reset" /\ table'[f].owner = table[f].owner
  BY <1>2, <1>3 DEF Socket
<1>6. table'[f] # Closed
  BY SocketAssumption, <1>3, <1>4
<1>7. TypeOK'
  BY <1>1, <1>2, <1>4 DEF TypeOK, object, members, history
<1>8. StaleMade' /\ StrayOnlySpoiled'
  BY <1>1 DEF SocketInv, StaleMade, StrayOnlySpoiled, object, history
<1>9. ASSUME strayed = {} PROVE FdInv' /\ ObjectInv' /\ DeathExplained'
  <2>1. FdInv /\ ObjectInv
    BY <1>9 DEF SocketInv
  <2>2. FdInv'
    BY <1>1, <1>3, <1>5, <2>1 DEF FdInv, FdOK, IsOpen, object, members, history
  <2>3. ASSUME NEW p, NEW g, NEW U, "stream" \in U => "reset" \in U, Own(p, g, U)
        PROVE  Own(p, g, U)'
    BY <1>1, <1>3, <1>5, <1>6, <2>3 DEF Own, Uses, IsOpen
  <2>4. ObjectInv'
    <3> SUFFICES ASSUME NEW p \in Objects, life'[p] = "live"
                 PROVE  ObjectOK(p)'
      BY DEF ObjectInv
    <3>1. ObjectOK(p)
      BY <1>1, <2>1 DEF ObjectInv, object
    <3>2. /\ \A g : Own(p, g, {"stream", "reset"}) => Own(p, g, {"stream", "reset"})'
          /\ \A g : Own(p, g, {"listen"}) => Own(p, g, {"listen"})'
          /\ \A g : Own(p, g, {"udp", "tcp", "stream", "reset"})
                      => Own(p, g, {"udp", "tcp", "stream", "reset"})'
      BY <2>3
    <3>3. QED
      BY <1>1, <3>1, <3>2 DEF ObjectOK, object, members, history
  <2>5. QED
    BY <1>1, <2>2, <2>4 DEF DeathExplained
<1>10. strayed' = strayed
  BY <1>1 DEF history
<1>11. QED
  BY <1>7, <1>8, <1>9, <1>10 DEF SocketInv

LEMMA StutterHolds == ASSUME SocketInv, UNCHANGED vars PROVE SocketInv'
  BY DEF SocketInv, TypeOK, StaleMade, StrayOnlySpoiled, FdInv, FdOK, ObjectInv, ObjectOK,
     DeathExplained, Own, Uses, IsOpen, vars, object, members, history

LEMMA NextHolds == ASSUME SocketInv, [Next]_vars PROVE SocketInv'
<1>1. ASSUME NEW o \in Objects, Construct(o) PROVE SocketInv'
  BY <1>1, ConstructHolds
<1>2. ASSUME NEW o \in Objects, Call(o) PROVE SocketInv'
  <2>1. CASE ConnectClient(o)
    BY <2>1, ConnectHolds
  <2>2. CASE AcceptServer(o)
    BY <2>2, AcceptHolds
  <2>3. CASE DisconnectTCP(o)
    BY <2>3, DisconnectHolds
  <2>4. CASE SendData(o)
    BY <2>4, EndsHolds DEF SendData
  <2>5. CASE GetData(o)
    BY <2>5, EndsHolds DEF GetData
  <2>6. ASSUME NEW r \in Roles, SetType(o, r) PROVE SocketInv'
    BY <2>6, SetTypeHolds
  <2>7. QED
    BY <1>2, <2>1, <2>2, <2>3, <2>4, <2>5, <2>6 DEF Call
<1>3. ASSUME NEW o \in Objects, Destroy(o) PROVE SocketInv'
  BY <1>3, DestroyHolds
<1>4. ASSUME NEW f \in Fds, PeerResets(f) PROVE SocketInv'
  BY <1>4, ResetHolds
<1>5. CASE UNCHANGED vars
  BY <1>5, StutterHolds
<1>6. QED
  BY <1>1, <1>2, <1>3, <1>4, <1>5 DEF Next

LEMMA SocketInvariant == Spec => []SocketInv
<1>1. Init => SocketInv
  BY InitInv
<1>2. SocketInv /\ [Next]_vars => SocketInv'
  BY NextHolds
<1>3. QED
  BY <1>1, <1>2, PTL DEF Spec

-----------------------------------------------------------------------------
\* Every member and every entry of the table keeps its type.
THEOREM SocketTypeCorrect == Spec => []TypeOK
<1>1. SocketInv => TypeOK
  BY DEF SocketInv
<1>2. QED
  BY <1>1, SocketInvariant, PTL

\* An object that is made, connected, disconnected and destroyed in this order
\* never acts on the socket of another.
THEOREM OnlySpoiledStray == Spec => []StrayOnlySpoiled
<1>1. SocketInv => StrayOnlySpoiled
  BY DEF SocketInv
<1>2. QED
  BY <1>1, SocketInvariant, PTL

\* bTCPConnection tells the truth: a connection of the object's own is open.
THEOREM FlagTellsTruth == Spec => []ConnectedMeansOpen
<1>1. SocketInv => ConnectedMeansOpen
  BY DEF SocketInv, ObjectInv, ObjectOK, Own, Uses, ConnectedMeansOpen
<1>2. QED
  BY <1>1, SocketInvariant, PTL

\* What no living object holds was never connected, or was replaced by a second
\* ConnectTCP.
THEOREM OnlyKnownLeaks == Spec => []LeaksKnown
<1>1. SocketInv => LeaksKnown
  <2> SUFFICES ASSUME SocketInv, strayed = {}, NEW f \in Fds, IsOpen(f)
               PROVE  \/ /\ life[table[f].owner] = "live"
                         /\ f \in {ConnectionSocket[table[f].owner],
                                   WelcomeSocket[table[f].owner]}
                      \/ table[f].use \in {"udp", "tcp"}
                      \/ table[f].owner \in again
    BY DEF LeaksKnown
  <2>1. FdOK(f) /\ table[f] \in Socket
    BY OwnerIn DEF SocketInv, FdInv
  <2>2. table[f].use \in {"udp", "tcp", "listen", "stream", "reset"}
    BY <2>1 DEF Socket
  <2>3. QED
    BY <2>1, <2>2 DEF FdOK
<1>2. QED
  BY <1>1, SocketInvariant, PTL

\* SendData and GetData kill the process only where DeathExplained says.
THEOREM DeathsAreExplained == Spec => []DeathExplained
<1>1. SocketInv => DeathExplained
  BY DEF SocketInv, DeathExplained
<1>2. QED
  BY <1>1, SocketInvariant, PTL
=============================================================================
