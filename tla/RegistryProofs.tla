--------------------------- MODULE RegistryProofs ---------------------------
(***************************************************************************)
(* What TLAPS proves of Registry, for any clients, buffers, workers, kills *)
(* and signals and whatever a freed node reads as.                         *)
(***************************************************************************)
EXTENDS Registry, DataLemmas

Shape ==
    /\ pc \in [Clients -> {"off", "wait", "load", "run", "stuck", "segv"}]
    /\ leaked \in [Clients -> BOOLEAN]
    /\ DOMAIN blocked = Clients
    /\ DOMAIN clients = Clients

(***************************************************************************)
(* Who hangs, hangs on the leaked mutex; it is leaked only by a process    *)
(* that has got to its main loop, from where a list grows only under the   *)
(* mutex.                                                                  *)
(***************************************************************************)
OnMutex(c) ==
    /\ pc[c] = "stuck" \/ blocked[c] > 0 => leaked[c]
    /\ leaked[c] => clients[c].ring = <<>> /\ Started(c)

Hung == Shape /\ \A c \in Clients : OnMutex(c)

LEMMA InitHung == Init => Hung
BY DEF Init, Hung, Shape, OnMutex

LEMMA Stutter ==
    ASSUME Hung, UNCHANGED <<pc, leaked, blocked, clients>>
    PROVE  Hung'
BY DEF Hung, Shape, OnMutex, Started

\* A step of client c keeps what it says of the others, and has to keep OnMutex(c).
Others(c) ==
    \A d \in Clients \ {c} :
        /\ pc'[d] = pc[d] /\ leaked'[d] = leaked[d]
        /\ blocked'[d] = blocked[d] /\ clients'[d] = clients[d]

LEMMA StepOf ==
    ASSUME Hung, NEW c \in Clients, Shape', Others(c), OnMutex(c)'
    PROVE  Hung'
BY DEF Hung, OnMutex, Others, Started

LEMMA ExitStep ==
    ASSUME Hung, NEW c \in Clients, NEW how \in {"off", "segv"}, Exit(c, how)
    PROVE  Hung'
<1>1. Shape' /\ Others(c)
  BY DEF Exit, Hung, Shape, Others
<1>2. OnMutex(c)'
  BY DEF Exit, Hung, Shape, OnMutex
<1>. QED BY <1>1, <1>2, StepOf

\* A client gets from one pc to another without its list's mutex.
LEMMA PcStep ==
    ASSUME Hung, NEW c \in Clients, NEW at \in {"wait", "load", "run"},
           pc' = [pc EXCEPT ![c] = at], ~Started(c),
           UNCHANGED <<leaked, blocked, clients>>
    PROVE  Hung'
<1>1. Shape' /\ Others(c)
  BY DEF Hung, Shape, Others
<1>2. OnMutex(c)'
  BY DEF Hung, Shape, OnMutex
<1>. QED BY <1>1, <1>2, StepOf

\* Main has changed the list, which it does only when the mutex is not leaked.
LEMMA ListStep ==
    ASSUME Hung, NEW c \in Clients, NEW l, clients' = [clients EXCEPT ![c] = l], ~leaked[c],
           UNCHANGED <<pc, leaked, blocked>>
    PROVE  Hung'
<1>1. Shape' /\ Others(c)
  BY DEF Hung, Shape, Others
<1>2. OnMutex(c)'
  BY DEF Hung, Shape, OnMutex
<1>. QED BY <1>1, <1>2, StepOf

\* Main waits for the mutex.
LEMMA MainBlocksStep ==
    ASSUME Hung, NEW c \in Clients, pc[c] = "run", MainBlocks(c), UNCHANGED blocked,
           \/ UNCHANGED leaked /\ leaked[c]
           \/ leaked' = [leaked EXCEPT ![c] = TRUE] /\ (leaked[c] \/ clients[c].ring = <<>>)
    PROVE  Hung'
<1>1. Shape' /\ Others(c)
  BY DEF Hung, Shape, Others, MainBlocks
<1>2. OnMutex(c)'
  BY DEF Hung, Shape, OnMutex, Started, MainBlocks
<1>. QED BY <1>1, <1>2, StepOf
-----------------------------------------------------------------------------
LEMMA ServerPreserves ==
    ASSUME Hung, Server
    PROVE  Hung'
<1>. USE DEF serverVars, clientVars
<1>1. CASE ServeGetClients
  <2>. DEFINE c == ring[Min(ToServe)].tuple
  <2>1. CASE UNCHANGED pc
    BY <1>1, <2>1, Stutter DEF ServeGetClients
  <2>2. CASE pc' # pc
    <3>1. /\ pc[c] = "wait"
          /\ pc' = [pc EXCEPT ![c] = "load"]
          /\ UNCHANGED <<leaked, blocked, clients>>
      BY <1>1, <2>2 DEF ServeGetClients
    <3>2. CASE c \in Clients
      BY <3>1, <3>2, PcStep DEF Started
    <3>3. CASE c \notin Clients
      BY <2>2, <3>1, <3>3 DEF Hung, Shape
    <3>. QED BY <3>2, <3>3
  <2>. QED BY <2>1, <2>2
<1>2. CASE ~ServeGetClients
  BY <1>2, Stutter
     DEF Server, Select, AcceptLogOn, AcceptLogOff, NotifyNext, NotifySend, NotifyDone,
         ServeDone
<1>. QED BY <1>1, <1>2

LEMMA MainPreserves ==
    ASSUME Hung, NEW c \in Clients, Main(c)
    PROVE  Hung'
<1>. USE DEF serverVars
<1>1. CASE ServerGone(c)
  BY <1>1, PcStep DEF ServerGone, Started
<1>2. CASE AddClient(c)
  <2>1. ~leaked[c]
    BY <1>2 DEF AddClient, Hung, OnMutex, Started
  <2>. QED BY <1>2, <2>1, ListStep DEF AddClient
<1>3. CASE StartThreads(c)
  BY <1>3, PcStep DEF StartThreads, Started
<1>4. CASE PushOn(c)
  BY <1>4, Stutter DEF PushOn
<1>5. CASE UserOn(c)
  <2>1. CASE leaked[c]
    BY <1>5, <2>1, MainBlocksStep DEF UserOn, Reads
  <2>2. CASE ~leaked[c]
    BY <1>5, <2>2, ListStep DEF UserOn, Reads
  <2>. QED BY <2>1, <2>2
<1>6. CASE UserOff(c)
  <2>1. CASE leaked[c] \/ clients[c].ring = <<>>
    BY <1>6, <2>1, MainBlocksStep DEF UserOff, Reads
  <2>2. CASE ~(leaked[c] \/ clients[c].ring = <<>>)
    BY <1>6, <2>2, ListStep DEF UserOff, Reads
  <2>. QED BY <2>1, <2>2
<1>7. CASE Segfault(c)
  BY <1>7, ExitStep DEF Segfault
<1>. QED BY <1>1, <1>2, <1>3, <1>4, <1>5, <1>6, <1>7 DEF Main

LEMMA WorkPreserves ==
    ASSUME Hung, NEW c \in Clients, Worker(c)
    PROVE  Hung'
<1>. SUFFICES ASSUME Work(c) PROVE Hung'
  BY Stutter DEF Worker, PushFiles, ComeBack
<1>1. /\ Started(c)
      /\ blocked' = [blocked EXCEPT ![c] = IF leaked[c] THEN @ + 1 ELSE @]
      /\ leaked' = [leaked EXCEPT ![c] = @ \/ clients[c].ring = <<>>]
      /\ UNCHANGED <<pc, clients>>
  BY DEF Work
<1>2. leaked'[c] = (leaked[c] \/ clients[c].ring = <<>>)
  BY <1>1 DEF Hung, Shape
<1>3. leaked' \in [Clients -> BOOLEAN]
  BY <1>1, Zenon DEF Hung, Shape
<1>4. Shape' /\ Others(c)
  BY <1>1, <1>3 DEF Hung, Shape, Others
<1>5. ~leaked[c] => blocked'[c] = blocked[c]
  BY <1>1 DEF Hung, Shape
<1>6. OnMutex(c)'
  BY <1>1, <1>2, <1>5 DEF Hung, OnMutex, Started
<1>. QED BY <1>4, <1>6, StepOf

LEMMA NextPreserves == Hung /\ [Next]_vars => Hung'
<1> SUFFICES ASSUME Hung, [Next]_vars PROVE Hung'
  OBVIOUS
<1>1. ASSUME NEW c \in Clients, Start(c) PROVE Hung'
  BY <1>1, PcStep DEF Start, Started
<1>2. ASSUME NEW c \in Clients, LogOut(c) \/ Crash(c) PROVE Hung'
  BY <1>2, ExitStep DEF LogOut, Crash
<1>3. CASE UNCHANGED vars
  BY <1>3, Stutter DEF vars, clientVars
<1>. QED BY <1>1, <1>2, <1>3, ServerPreserves, MainPreserves, WorkPreserves DEF Next

(***************************************************************************)
(* list_find_element keeps the mutex of an empty list: a thread waits for  *)
(* it for ever only in a client that knows nobody, and so misses nothing   *)
(* but those who come later.                                               *)
(***************************************************************************)
THEOREM HungKnowsNobodyAlways == Spec => []HungKnowsNobody
<1>1. Hung => HungKnowsNobody
  BY DEF Hung, OnMutex, HungKnowsNobody
<1>. QED BY InitHung, NextPreserves, <1>1, PTL DEF Spec
-----------------------------------------------------------------------------
(***************************************************************************)
(* Types.  A list with elements has a size that is not 0, or list_remove   *)
(* could count below it; the loops of the server start at the first entry; *)
(* the server accepts only what is in the backlog.                         *)
(***************************************************************************)
ListOK(l, S) ==
    /\ l \in [ring : Seq(S), size : Nat]
    /\ l.ring # <<>> => l.size # 0

Requests == [kind : {"LOG_ON", "LOG_OFF"}, tuple : Clients, socket : Sockets \cup {NoSocket}]

ServerTypes ==
    /\ ListOK(connected_clients, Entries)
    /\ set \subseteq Sockets \cup {Listening}
    /\ server \in ServerStates
    /\ server.at \in {"notify", "send", "serve"} => server.next # 0
    /\ server.at = "send" => server.next <= Len(ring)
    /\ absent \in BOOLEAN
    /\ backlog \in Seq(Requests)
    /\ server.at = "accept" => backlog # <<>>

CountTypes ==
    /\ session \in [Clients -> Nat]
    /\ starts \in 0 .. MaxStarts /\ crashes \in 0 .. MaxCrashes
    /\ \A c \in Clients : session[c] <= starts

ClientTypes ==
    /\ pc \in [Clients -> {"off", "wait", "load", "run", "stuck", "segv"}]
    /\ leaked \in [Clients -> BOOLEAN]
    /\ pushing \in [Clients -> Tuples \cup {Nobody}]
    /\ blocked \in [Clients -> 0 .. WorkerThreads]
    /\ received \in [Clients -> Seq(Tuples)]
    /\ buffer \in [Clients -> Seq(Tuples)]
    /\ inbox \in [Clients -> Seq(Notices)]
    /\ asking \in [Clients -> Seq(Tuples)]
    /\ \A c \in Clients : Len(buffer[c]) <= Capacity
    /\ \A c \in Clients : blocked[c] + Len(asking[c]) <= WorkerThreads
    /\ DOMAIN clients = Clients
    /\ \A c \in Clients : ListOK(clients[c], Tuples)

Types == ServerTypes /\ CountTypes /\ ClientTypes

\* Appending keeps a list's type,
LEMMA RpushOK ==
    ASSUME NEW S, NEW l, ListOK(l, S), NEW x \in S
    PROVE  ListOK(list_rpush(l, x), S)
<1>1. Append(l.ring, x) \in Seq(S)
  BY AppendProperties DEF ListOK
<1>. QED BY <1>1 DEF ListOK, list_rpush

\* and removing from one with elements.
LEMMA RemoveOK ==
    ASSUME NEW S, NEW l, ListOK(l, S), NEW x, ~RemoveCrashes(l),
           NEW r \in list_remove(l, x, FreedNext)
    PROVE  ListOK(r, S)
<1>. DEFINE n == Len(l.ring)
<1>1. /\ l.ring \in Seq(S) /\ l.ring # <<>> /\ l.size \in Nat \ {0}
      /\ n \in Nat \ {0} /\ l.ring \in [1 .. n -> S]
  BY EmptySeq, LenProperties DEF ListOK, RemoveCrashes
<1>2. PICK q \in RingsAfterRemove(l, x, FreedNext) : r = [ring |-> q, size |-> l.size - 1]
  BY DEF list_remove
<1>3. <<>> \in Seq(S)
  BY EmptySeq
<1>4. Tail(l.ring) \in Seq(S) /\ Tail(l.ring) \o <<Head(l.ring)>> \in Seq(S)
  BY <1>1
<1>5. CASE l.size = 1
  BY <1>2, <1>3, <1>5 DEF RingsAfterRemove, ListOK
<1>6. CASE l.size # 1
  <2>1. Present(l.ring, x) => Without(l.ring, FirstIndex(l.ring, x)) \in Seq(S)
    <3>. DEFINE hits == {i \in 1 .. Len(l.ring) : l.ring[i] = x}
    <3>1. SUFFICES ASSUME Present(l.ring, x)
                   PROVE  Without(l.ring, FirstIndex(l.ring, x)) \in Seq(S)
      OBVIOUS
    <3>2. hits \in SUBSET Nat /\ hits # {}
      BY <1>1, <3>1 DEF Present
    <3>3. FirstIndex(l.ring, x) \in 1 .. n
      BY <3>2, MinNat DEF FirstIndex
    <3>. HIDE DEF n, hits
    <3>4. PICK i \in 1 .. n : i = FirstIndex(l.ring, x)
      BY <3>3
    <3>5. SubSeq(l.ring, 1, i - 1) \in Seq(S) /\ SubSeq(l.ring, i + 1, Len(l.ring)) \in Seq(S)
      BY <1>1 DEF n
    <3>6. Without(l.ring, i) \in Seq(S)
      BY <3>5, ConcatProperties DEF Without
    <3>. QED BY <3>4, <3>6
  <2>2. q \in Seq(S)
    BY <1>3, <1>4, <1>6, <2>1 DEF RingsAfterRemove
  <2>3. l.size - 1 \in Nat \ {0}
    BY <1>1, <1>6
  <2>. QED BY <1>2, <2>2, <2>3 DEF ListOK
<1>. QED BY <1>5, <1>6

\* r is l with another socket for the i-th entry.
OtherSocket(l, r, i, z) ==
    /\ Len(r.ring) = Len(l.ring) /\ r.size = l.size
    /\ \A j \in 1 .. Len(l.ring) :
          r.ring[j] = [tuple |-> l.ring[j].tuple,
                       socket |-> IF j = i THEN z ELSE l.ring[j].socket]

LEMMA SocketOf ==
    ASSUME NEW l, ListOK(l, Entries), NEW i \in 1 .. Len(l.ring),
           NEW z \in Sockets \cup {NoSocket, Dead},
           NEW r, r = [l EXCEPT !.ring[i].socket = z]
    PROVE  ListOK(r, Entries) /\ OtherSocket(l, r, i, z)
<1>. DEFINE e == [l.ring[i] EXCEPT !.socket = z]
<1>1. l.ring \in Seq(Entries) /\ l.size \in Nat
  BY DEF ListOK
<1>2. l.ring[i] \in Entries
  BY <1>1
<1>3. e = [tuple |-> l.ring[i].tuple, socket |-> z] /\ e \in Entries
  BY <1>2 DEF Entries
<1>4. r = [ring |-> [l.ring EXCEPT ![i] = e], size |-> l.size]
  BY DEF ListOK
<1>. HIDE DEF e
<1>5. /\ r.ring \in Seq(Entries) /\ Len(r.ring) = Len(l.ring)
      /\ \A j \in 1 .. Len(l.ring) : r.ring[j] = IF j = i THEN e ELSE l.ring[j]
  BY <1>1, <1>3, <1>4, ExceptSeq
<1>6. ASSUME NEW j \in 1 .. Len(l.ring)
      PROVE  l.ring[j] = [tuple |-> l.ring[j].tuple, socket |-> l.ring[j].socket]
  <2>1. l.ring[j] \in Entries
    BY <1>1
  <2>. QED BY <2>1 DEF Entries
<1>7. r.ring # <<>> => l.ring # <<>>
  BY <1>1, <1>5, EmptySeq
<1>. QED BY <1>1, <1>3, <1>4, <1>5, <1>6, <1>7 DEF ListOK, OtherSocket

\* TuplesBut is the last of the tuples picked from the first entries.
LEMMA TuplesButPicks ==
    ASSUME ring \in Seq(Entries), NEW receiver
    PROVE  \E f \in [0 .. Len(ring) -> Seq(Clients)] :
              /\ TuplesBut(receiver) = f[Len(ring)]
              /\ f[0] = <<>>
              /\ \A i \in 1 .. Len(ring) :
                    f[i] = IF ring[i].tuple = receiver THEN f[i - 1]
                           ELSE Append(f[i - 1], ring[i].tuple)
<1>. DEFINE n == Len(ring)
            S == Seq(Clients)
            step == [i \in 1 .. n |-> [s \in S |->
                        IF ring[i].tuple = receiver THEN s ELSE Append(s, ring[i].tuple)]]
            IsPicked(f) == f = [i \in 0 .. n |->
                              IF i = 0 THEN <<>>
                              ELSE IF ring[i].tuple = receiver THEN f[i - 1]
                              ELSE Append(f[i - 1], ring[i].tuple)]
<1>1. n \in Nat /\ <<>> \in S
  BY LenProperties, EmptySeq
<1>2. \A i \in 1 .. n : ring[i].tuple \in Clients
  <2>1. ASSUME NEW i \in 1 .. n PROVE ring[i] \in Entries
    OBVIOUS
  <2>. QED BY <2>1 DEF Entries
<1>3. step \in [1 .. n -> [S -> S]]
  <2>1. ASSUME NEW i \in 1 .. n, NEW s \in S PROVE Append(s, ring[i].tuple) \in S
    BY <1>2, AppendProperties
  <2>. QED BY <2>1
<1>4. \A i \in 1 .. n, s \in S :
         step[i][s] = IF ring[i].tuple = receiver THEN s ELSE Append(s, ring[i].tuple)
  OBVIOUS
<1>. HIDE DEF step, n, S
<1>5. PICK g \in [0 .. n -> S] : g[0] = <<>> /\ \A i \in 1 .. n : g[i] = step[i][g[i - 1]]
  <2>1. PICK none \in S : none = <<>>
    BY <1>1
  <2>2. PICK g \in [0 .. n -> S] : Iterates(g, n, none, step)
    BY <1>1, <1>3, <2>1, Iterated, Zenon
  <2>. QED BY <2>1, <2>2 DEF Iterates
<1>6. ASSUME NEW i \in 1 .. n
      PROVE  g[i] = IF ring[i].tuple = receiver THEN g[i - 1]
                    ELSE Append(g[i - 1], ring[i].tuple)
  <2>1. i - 1 \in 0 .. n
    BY <1>1
  <2>. QED BY <1>4, <1>5, <2>1
<1>7. IsPicked(g)
  <2>1. ASSUME NEW i \in 0 .. n
        PROVE  g[i] = IF i = 0 THEN <<>>
                      ELSE IF ring[i].tuple = receiver THEN g[i - 1]
                      ELSE Append(g[i - 1], ring[i].tuple)
    <3>1. CASE i = 0
      BY <1>5, <3>1
    <3>2. CASE i # 0
      <4>1. i \in 1 .. n
        BY <3>2
      <4>. QED BY <1>6, <3>2, <4>1
    <3>. QED BY <3>1, <3>2
  <2>. QED BY <2>1
<1>. DEFINE f == CHOOSE h : IsPicked(h)
<1>8. IsPicked(f)
  BY <1>7
<1>9. TuplesBut(receiver) = f[n]
  BY DEF TuplesBut, n
<1>. HIDE DEF f
<1>10. /\ f[0] = <<>>
       /\ \A i \in 1 .. n : f[i] = IF ring[i].tuple = receiver THEN f[i - 1]
                                   ELSE Append(f[i - 1], ring[i].tuple)
  <2>1. \A i \in 0 .. n : f[i] = IF i = 0 THEN <<>>
                              ELSE IF ring[i].tuple = receiver THEN f[i - 1]
                              ELSE Append(f[i - 1], ring[i].tuple)
    BY <1>8, Zenon
  <2>2. 0 \in 0 .. n /\ \A i \in 1 .. n : i \in 0 .. n /\ i # 0
    BY <1>1
  <2>. QED BY <2>1, <2>2
<1>11. \A i \in Nat : i <= n => f[i] = g[i]
  <2>. DEFINE T == {i \in Nat : i <= n => f[i] = g[i]}
  <2>1. 0 \in T
    BY <1>5, <1>10
  <2>2. ASSUME NEW i \in Nat, i \in T PROVE i + 1 \in T
    <3>1. SUFFICES ASSUME i + 1 <= n PROVE f[i + 1] = g[i + 1]
      OBVIOUS
    <3>2. i + 1 \in 1 .. n /\ (i + 1) - 1 = i /\ f[i] = g[i]
      BY <1>1, <2>2, <3>1
    <3>. QED BY <1>6, <1>10, <3>2
  <2>. HIDE DEF T
  <2>3. Nat \subseteq T
    BY <2>1, <2>2, NatInduct, Zenon
  <2>. QED BY <2>3 DEF T
<1>12. TuplesBut(receiver) = g[n]
  BY <1>1, <1>9, <1>11
<1>. QED BY <1>5, <1>6, <1>12 DEF n, S

\* An answer has tuples only.
LEMMA ClientListOK ==
    ASSUME ListOK(connected_clients, Entries), ring # <<>>, NEW receiver
    PROVE  ClientList(receiver) \in Seq(Tuples)
<1>. DEFINE o == TuplesBut(receiver)
            k == connected_clients.size - 1
<1>1. k \in Nat /\ ring \in Seq(Entries)
  BY DEF ListOK, ring
<1>2. o \in Seq(Clients)
  <2>1. Len(ring) \in 0 .. Len(ring)
    BY <1>1, LenProperties
  <2>. QED BY <1>1, <2>1, TuplesButPicks
<1>. HIDE DEF o, k
<1>. DEFINE answer == [i \in 1 .. k |-> IF i <= Len(o) THEN o[i] ELSE Junk]
<1>3. \A i \in 1 .. k : i <= Len(o) => o[i] \in Clients
  BY <1>1, <1>2
<1>4. answer \in [1 .. k -> Tuples]
  BY <1>3 DEF Tuples
<1>5. ClientList(receiver) = answer
  BY DEF ClientList, o, k
<1>. HIDE DEF answer
<1>. QED BY <1>1, <1>4, <1>5, FunctionIsSeq

LEMMA InitTypes == Init => Types
<1>. SUFFICES ASSUME Init PROVE Types
  OBVIOUS
<1>1. ASSUME NEW S PROVE ListOK(list_create, S)
  BY EmptySeq DEF ListOK, list_create
<1>2. ServerTypes
  BY <1>1, EmptySeq DEF Init, ServerTypes, ServerStates
<1>3. CountTypes
  BY RegistryAssumption DEF Init, CountTypes
<1>4. ClientTypes
  BY <1>1, EmptySeq, RegistryAssumption DEF Init, ClientTypes
<1>. QED BY <1>2, <1>3, <1>4 DEF Types

LEMMA UnchangedTypes ==
    /\ ServerTypes /\ UNCHANGED serverVars => ServerTypes'
    /\ CountTypes /\ UNCHANGED <<session, starts, crashes>> => CountTypes'
    /\ ClientTypes /\ UNCHANGED clientVars => ClientTypes'
BY DEF ServerTypes, CountTypes, ClientTypes, serverVars, clientVars, ring

\* The list and its entries, one by one.
LEMMA RingTypes ==
    ASSUME ListOK(connected_clients, Entries)
    PROVE  /\ ring \in Seq(Entries) /\ Len(ring) \in Nat
           /\ \A i \in 1 .. Len(ring) :
                 /\ ring[i].tuple \in Clients
                 /\ ring[i].socket \in Sockets \cup {NoSocket, Dead}
<1>1. ring \in Seq(Entries) /\ Len(ring) \in Nat
  BY LenProperties DEF ListOK, ring
<1>2. ASSUME NEW i \in 1 .. Len(ring) PROVE ring[i] \in Entries
  BY <1>1
<1>. QED BY <1>1, <1>2 DEF Entries

LEMMA SelectTypes == Types /\ Select => ServerTypes'
<1>. SUFFICES ASSUME Types, Select PROVE ServerTypes'
  OBVIOUS
<1>1. set' \subseteq Sockets \cup {Listening}
  BY RingTypes DEF Types, ServerTypes, Select
<1>2. Listening \in set' => backlog # <<>>
  BY RingTypes, RegistryAssumption DEF Types, ServerTypes, Select
<1>3. /\ server' \in ServerStates /\ (server'.at = "serve" => server'.next # 0)
      /\ (server'.at = "accept" => Listening \in set')
      /\ server'.at \in {"accept", "serve"}
  BY DEF Select, ServerStates, Serve
<1>. QED BY <1>1, <1>2, <1>3 DEF Types, ServerTypes, Select, ListOK

LEMMA AcceptTypes == Types /\ (AcceptLogOn \/ AcceptLogOff) => ServerTypes'
<1>. SUFFICES ASSUME Types, AcceptLogOn \/ AcceptLogOff PROVE ServerTypes'
  OBVIOUS
<1>1. backlog \in Seq(Requests) /\ backlog # <<>>
  BY DEF Types, ServerTypes, AcceptLogOn, AcceptLogOff
<1>2. backlog[1] \in Requests /\ Tail(backlog) \in Seq(Requests)
  BY <1>1, HeadTailProperties
<1>3. backlog[1].tuple \in Clients /\ backlog[1].socket \in Sockets \cup {NoSocket}
  BY <1>2 DEF Requests
<1>4. backlog' \in Seq(Requests) /\ set' = set
  BY <1>2 DEF AcceptLogOn, AcceptLogOff
<1>5. /\ server' \in ServerStates /\ (server'.at = "notify" => server'.next # 0)
      /\ server'.at \in {"notify", "down"}
  BY <1>3 DEF AcceptLogOn, AcceptLogOff, ServerStates, Notify, Notices, Down
<1>6. ListOK(connected_clients', Entries)
  <2>1. CASE UNCHANGED connected_clients
    BY <2>1 DEF Types, ServerTypes
  <2>2. CASE ~UNCHANGED connected_clients
    <3>1. PICK x : /\ ~RemoveCrashes(connected_clients)
                   /\ connected_clients' \in list_remove(connected_clients, x, FreedNext)
      BY <2>2 DEF AcceptLogOn, AcceptLogOff
    <3>. QED BY <3>1, RemoveOK DEF Types, ServerTypes
  <2>. QED BY <2>1, <2>2
<1>7. absent' \in BOOLEAN
  BY DEF AcceptLogOn, AcceptLogOff, Types, ServerTypes
<1>. QED BY <1>4, <1>5, <1>6, <1>7 DEF Types, ServerTypes

\* The entry a notification loop is at gets another socket.
LEMMA WithSocketTypes ==
    ASSUME Types, server.at \in {"notify", "send"}, server.next <= Len(ring),
           NEW z \in {NoSocket, Dead}, NEW r, r = WithSocket(z)
    PROVE  ListOK(r, Entries) /\ OtherSocket(connected_clients, r, server.next, z)
<1>1. ListOK(connected_clients, Entries)
  BY DEF Types, ServerTypes
<1>2. PICK i \in 1 .. Len(connected_clients.ring) : i = server.next
  BY <1>1, RingTypes DEF Types, ServerTypes, ServerStates, ring
<1>3. r = [connected_clients EXCEPT !.ring[i].socket = z]
  BY <1>2 DEF WithSocket
<1>4. z \in Sockets \cup {NoSocket, Dead}
  OBVIOUS
<1>5. ListOK(r, Entries) /\ OtherSocket(connected_clients, r, i, z)
  BY <1>1, <1>3, <1>4, SocketOf, Zenon
<1>. QED BY <1>2, <1>5

\* The states of the loops.
LEMMA LoopTypes ==
    ASSUME Types, server.at \in {"notify", "send"}
    PROVE  /\ server.notice \in Notices /\ server.next \in Nat \ {0}
           /\ GoOn \in ServerStates /\ GoOn.at = "notify" /\ GoOn.next = server.next + 1
           /\ GoOn.notice = server.notice /\ GoOn.socket = server.socket
           /\ \A c \in Clients :
                 /\ Sending(c) \in ServerStates /\ Sending(c).at = "send"
                 /\ Sending(c).next = server.next /\ Sending(c).notice = server.notice
                 /\ Sending(c).socket = server.socket /\ Sending(c).to = <<c, session[c]>>
<1>1. /\ server.notice \in Notices /\ server.next \in Nat \ {0}
      /\ server.socket \in Sockets \cup {NoSocket}
  BY DEF Types, ServerTypes, ServerStates
<1>2. \A c \in Clients : <<c, session[c]>> \in Clients \X (0 .. MaxStarts)
  <2>1. \A c \in Clients : session[c] \in 0 .. MaxStarts
    BY RegistryAssumption DEF Types, CountTypes
  <2>. QED BY <2>1
<1>3. server.next + 1 \in Nat
  BY <1>1
<1>4. GoOn \in ServerStates
  BY <1>1, <1>3 DEF GoOn, ServerStates
<1>5. ASSUME NEW c \in Clients PROVE Sending(c) \in ServerStates
  BY <1>1, <1>2 DEF Sending, ServerStates
<1>. QED BY <1>1, <1>4, <1>5 DEF GoOn, Sending

LEMMA NotifyNextTypes == Types /\ NotifyNext => ServerTypes'
<1>. SUFFICES ASSUME Types, NotifyNext PROVE ServerTypes'
  OBVIOUS
<1>1. ListOK(connected_clients', Entries) /\ Len(ring') = Len(ring)
  BY WithSocketTypes DEF NotifyNext, OtherSocket, ring
<1>2. server.next \in 1 .. Len(ring)
  BY LoopTypes, RingTypes DEF NotifyNext, Types, ServerTypes
<1>3. ring[server.next].tuple \in Clients
  BY <1>2, RingTypes DEF Types, ServerTypes
<1>4. server' = Sending(ring[server.next].tuple) \/ server' = GoOn
  BY DEF NotifyNext
<1>5. /\ server' \in ServerStates /\ server'.at \in {"notify", "send"} /\ server'.next # 0
      /\ server'.at = "send" => server'.next = server.next
  BY <1>3, <1>4, LoopTypes DEF NotifyNext
<1>. QED BY <1>1, <1>2, <1>5 DEF Types, ServerTypes, NotifyNext

LEMMA NotifySendTypes == Types /\ NotifySend => ServerTypes' /\ ClientTypes'
<1>. SUFFICES ASSUME Types, NotifySend PROVE ServerTypes' /\ ClientTypes'
  OBVIOUS
<1>1. ListOK(connected_clients', Entries)
  <2>1. server.next <= Len(ring)
    BY DEF Types, ServerTypes, NotifySend
  <2>2. PICK z \in {NoSocket, Dead} : connected_clients' = WithSocket(z)
    BY DEF NotifySend
  <2>. QED BY <2>1, <2>2, WithSocketTypes DEF NotifySend
<1>2. PICK i \in 1 .. Len(ring) : i = server.next
  BY LoopTypes, RingTypes DEF NotifySend, Types, ServerTypes
<1>. DEFINE c == ring[i].tuple
<1>3. c \in Clients /\ server.notice \in Notices
  BY <1>2, RingTypes, LoopTypes DEF Types, ServerTypes, NotifySend
<1>4. /\ server' \in ServerStates /\ server'.at \in {"notify", "down"}
      /\ server'.at = "notify" => server'.next # 0
  BY LoopTypes DEF NotifySend, Down, ServerStates
<1>5. ServerTypes'
  BY <1>1, <1>4 DEF Types, ServerTypes, NotifySend
<1>6. inbox' \in [Clients -> Seq(Notices)]
  <2>1. Append(inbox[c], server.notice) \in Seq(Notices)
    BY <1>3, AppendProperties DEF Types, ClientTypes
  <2>2. inbox' = inbox \/ inbox' = [inbox EXCEPT ![c] = Append(inbox[c], server.notice)]
    BY <1>2 DEF NotifySend
  <2>. HIDE DEF c
  <2>. QED BY <1>3, <2>1, <2>2 DEF Types, ClientTypes
<1>7. ClientTypes'
  BY <1>6 DEF Types, ClientTypes, NotifySend
<1>. QED BY <1>5, <1>7

LEMMA NotifyDoneTypes == Types /\ NotifyDone => ServerTypes'
<1>. SUFFICES ASSUME Types, NotifyDone PROVE ServerTypes'
  OBVIOUS
<1>1. server.notice \in Notices /\ server.socket \in Sockets \cup {NoSocket}
  BY DEF Types, ServerTypes, ServerStates, NotifyDone
<1>. DEFINE e == [tuple |-> server.notice.tuple, socket |-> server.socket]
<1>2. e \in Entries
  BY <1>1 DEF Entries, Notices
<1>. HIDE DEF e
<1>3. ListOK(connected_clients', Entries)
  <2>1. \/ connected_clients' = connected_clients
        \/ connected_clients' = list_rpush(connected_clients, e)
    BY DEF NotifyDone, e
  <2>2. ListOK(list_rpush(connected_clients, e), Entries)
    BY <1>2, RpushOK DEF Types, ServerTypes
  <2>. QED BY <2>1, <2>2 DEF Types, ServerTypes
<1>4. /\ server' \in ServerStates /\ (server'.at = "serve" => server'.next # 0)
      /\ server'.at \in {"serve", "down"}
  BY DEF NotifyDone, ServerStates, Serve, Down
<1>. QED BY <1>3, <1>4 DEF Types, ServerTypes, NotifyDone

\* The next entry to serve is one of the list.
LEMMA NextToServe ==
    ASSUME Types, server.at = "serve", ToServe # {}
    PROVE  /\ Min(ToServe) \in 1 .. Len(ring) /\ Min(ToServe) \in ToServe
           /\ \A j \in ToServe : Min(ToServe) <= j
<1>1. server.next \in Nat \ {0} /\ Len(ring) \in Nat
  BY RingTypes DEF Types, ServerTypes, ServerStates
<1>2. ToServe \in SUBSET Nat /\ ToServe \subseteq 1 .. Len(ring)
  BY <1>1 DEF ToServe
<1>3. Min(ToServe) \in ToServe /\ \A j \in ToServe : Min(ToServe) <= j
  BY <1>2, MinNat
<1>. QED BY <1>2, <1>3

LEMMA ServeTypes == Types /\ (ServeGetClients \/ ServeDone) => ServerTypes' /\ ClientTypes'
<1>. SUFFICES ASSUME Types, ServeGetClients \/ ServeDone PROVE ServerTypes' /\ ClientTypes'
  OBVIOUS
<1>1. CASE ServeDone
  BY <1>1, UnchangedTypes DEF Types, ServerTypes, ServeDone, ServerStates
<1>2. CASE ServeGetClients
  <2>1. ListOK(connected_clients, Entries) /\ server.at = "serve" /\ ToServe # {}
    BY <1>2 DEF Types, ServerTypes, ServeGetClients
  <2>2. PICK i \in 1 .. Len(ring) : i = Min(ToServe)
    BY <2>1, NextToServe
  <2>. DEFINE c == ring[i].tuple
  <2>3. c \in Clients
    BY <2>1, RingTypes
  <2>4. connected_clients' = [connected_clients EXCEPT !.ring[i].socket = NoSocket]
    BY <1>2, <2>2 DEF ServeGetClients
  <2>5. ListOK(connected_clients', Entries)
    <3>1. i \in 1 .. Len(connected_clients.ring) /\ NoSocket \in Sockets \cup {NoSocket, Dead}
      BY DEF ring
    <3>. QED BY <2>1, <2>4, <3>1, SocketOf, Zenon
  <2>6. server' = Serve(i + 1) \/ server' = Down
    BY <1>2, <2>2 DEF ServeGetClients
  <2>7. /\ server' \in ServerStates /\ (server'.at = "serve" => server'.next # 0)
        /\ server'.at \in {"serve", "down"}
    BY <2>6, <2>1, RingTypes DEF ServerStates, Serve, Down
  <2>8. ServerTypes'
    BY <1>2, <2>5, <2>7 DEF Types, ServerTypes, ServeGetClients
  <2>9. pc' \in [Clients -> {"off", "wait", "load", "run", "stuck", "segv"}]
    <3>1. pc' = pc \/ pc' = [pc EXCEPT ![c] = "load"]
      BY <1>2, <2>2 DEF ServeGetClients
    <3>. HIDE DEF c
    <3>. QED BY <2>3, <3>1 DEF Types, ClientTypes
  <2>10. received' \in [Clients -> Seq(Tuples)]
    <3>1. received' = received \/ received' = [received EXCEPT ![c] = ClientList(c)]
      BY <1>2, <2>2 DEF ServeGetClients
    <3>2. ring # <<>>
      BY <2>1, RingTypes, EmptySeq
    <3>3. ClientList(c) \in Seq(Tuples)
      BY <2>1, <3>2, ClientListOK
    <3>. HIDE DEF c
    <3>. QED BY <2>3, <3>1, <3>3 DEF Types, ClientTypes
  <2>11. ClientTypes'
    BY <1>2, <2>9, <2>10 DEF Types, ClientTypes, ServeGetClients
  <2>. QED BY <2>8, <2>11
<1>. QED BY <1>1, <1>2

LEMMA ServerStepTypes == Types /\ Server => Types'
<1>. SUFFICES ASSUME Types, Server PROVE Types'
  OBVIOUS
<1>1. CountTypes'
  BY UnchangedTypes
     DEF Types, Server, Select, AcceptLogOn, AcceptLogOff, NotifyNext, NotifySend, NotifyDone,
         ServeGetClients, ServeDone, clientVars
<1>2. ServerTypes'
  BY SelectTypes, AcceptTypes, NotifyNextTypes, NotifySendTypes, NotifyDoneTypes, ServeTypes
     DEF Server
<1>3. CASE UNCHANGED clientVars
  BY <1>1, <1>2, <1>3, UnchangedTypes DEF Types
<1>4. CASE NotifySend \/ ServeGetClients
  BY <1>1, <1>2, <1>4, NotifySendTypes, ServeTypes DEF Types
<1>. QED BY <1>3, <1>4
     DEF Server, Select, AcceptLogOn, AcceptLogOff, NotifyNext, NotifyDone, ServeDone

LEMMA StartTypes ==
    ASSUME Types, NEW c \in Clients, Start(c)
    PROVE  Types'
<1>. DEFINE log_on == [kind |-> "LOG_ON", tuple |-> c, socket |-> <<c, session'[c]>>]
<1>1. /\ session[c] \in Nat /\ session[c] <= starts /\ starts < MaxStarts /\ starts \in Nat
      /\ session' = [session EXCEPT ![c] = session[c] + 1] /\ starts' = starts + 1
  BY DEF Types, CountTypes, Start
<1>2. session'[c] = session[c] + 1
  BY <1>1 DEF Types, CountTypes
<1>3. session'[c] \in 1 .. MaxStarts
  BY <1>1, <1>2, RegistryAssumption
<1>4. CountTypes'
  <2>1. \A d \in Clients : session'[d] \in Nat /\ session'[d] <= starts'
    BY <1>1 DEF Types, CountTypes
  <2>2. session' \in [Clients -> Nat]
    BY <1>1 DEF Types, CountTypes
  <2>3. starts' \in 0 .. MaxStarts /\ crashes' = crashes
    BY <1>1, RegistryAssumption DEF Start
  <2>. QED BY <2>1, <2>2, <2>3 DEF Types, CountTypes
<1>5. log_on \in Requests
  BY <1>3 DEF Requests, Sockets
<1>. HIDE DEF log_on
<1>6. backlog' = Append(backlog, log_on)
  BY DEF Start, log_on
<1>7. backlog' \in Seq(Requests) /\ backlog' # <<>>
  BY <1>5, <1>6, AppendProperties DEF Types, ServerTypes
<1>8. ServerTypes'
  BY <1>7 DEF Types, ServerTypes, Start, ring
<1>9. ClientTypes'
  BY DEF Types, ClientTypes, Start
<1>. QED BY <1>4, <1>8, <1>9 DEF Types

\* Main pushes: into the buffer when there is room.
LEMMA PushTypes ==
    ASSUME ClientTypes, NEW c \in Clients, NEW tuple \in Tuples, Push(c, tuple)
    PROVE  /\ pushing' \in [Clients -> Tuples \cup {Nobody}]
           /\ buffer' \in [Clients -> Seq(Tuples)]
           /\ \A d \in Clients : Len(buffer'[d]) <= Capacity
<1>1. CASE Len(buffer[c]) < Capacity
  <2>1. buffer[c] \in Seq(Tuples) /\ Len(buffer[c]) \in Nat
    BY LenProperties DEF ClientTypes
  <2>2. PICK s \in Seq(Tuples) : s = Append(buffer[c], tuple)
    BY <2>1, AppendProperties
  <2>3. Len(s) <= Capacity
    BY <1>1, <2>1, <2>2, AppendProperties, RegistryAssumption
  <2>4. buffer' = [buffer EXCEPT ![c] = s] /\ pushing' = [pushing EXCEPT ![c] = Nobody]
    BY <1>1, <2>2 DEF Push
  <2>. QED BY <2>3, <2>4 DEF ClientTypes
<1>2. CASE ~(Len(buffer[c]) < Capacity)
  BY <1>2 DEF ClientTypes, Push
<1>. QED BY <1>1, <1>2

\* The list of one client changes, and keeps its type.
LEMMA ListTypes ==
    ASSUME ClientTypes, NEW c \in Clients, NEW l, ListOK(l, Tuples),
           clients' = [clients EXCEPT ![c] = l]
    PROVE  DOMAIN clients' = Clients /\ \A d \in Clients : ListOK(clients'[d], Tuples)
BY DEF ClientTypes

LEMMA ExitTypes ==
    ASSUME Types, NEW c \in Clients, NEW how \in {"off", "segv"}, Exit(c, how)
    PROVE  ClientTypes'
<1>1. ListOK(list_create, Tuples) /\ <<>> \in Seq(Tuples) /\ <<>> \in Seq(Notices) /\ Len(<<>>) = 0
  BY EmptySeq DEF ListOK, list_create
<1>2. DOMAIN clients' = Clients /\ \A d \in Clients : ListOK(clients'[d], Tuples)
  BY <1>1, ListTypes DEF Types, Exit
<1>3. received' \in [Clients -> Seq(Tuples)] /\ inbox' \in [Clients -> Seq(Notices)]
  BY <1>1 DEF Types, ClientTypes, Exit
<1>4. buffer' \in [Clients -> Seq(Tuples)] /\ \A d \in Clients : Len(buffer'[d]) <= Capacity
  BY <1>1, RegistryAssumption DEF Types, ClientTypes, Exit
<1>5. /\ pc' \in [Clients -> {"off", "wait", "load", "run", "stuck", "segv"}]
      /\ leaked' \in [Clients -> BOOLEAN]
      /\ pushing' \in [Clients -> Tuples \cup {Nobody}]
      /\ blocked' \in [Clients -> 0 .. WorkerThreads]
  BY RegistryAssumption DEF Types, ClientTypes, Exit
<1>6. asking' \in [Clients -> Seq(Tuples)]
  BY <1>1 DEF Types, ClientTypes, Exit
<1>7. ASSUME NEW d \in Clients PROVE blocked'[d] + Len(asking'[d]) <= WorkerThreads
  <2>1. CASE d = c
    <3>1. blocked'[d] = 0 /\ Len(asking'[d]) = 0
      BY <1>1, <2>1 DEF Types, ClientTypes, Exit
    <3>. QED BY <3>1, RegistryAssumption
  <2>2. CASE d # c
    BY <2>2 DEF Types, ClientTypes, Exit
  <2>. QED BY <2>1, <2>2
<1>. QED BY <1>2, <1>3, <1>4, <1>5, <1>6, <1>7 DEF ClientTypes

LEMMA StopTypes ==
    ASSUME Types, NEW c \in Clients, Segfault(c) \/ LogOut(c) \/ Crash(c)
    PROVE  Types'
<1>1. ClientTypes'
  BY ExitTypes DEF Segfault, LogOut, Crash
<1>2. CountTypes'
  BY RegistryAssumption DEF Types, CountTypes, Segfault, LogOut, Crash, Exit
<1>3. backlog' \in Seq(Requests) /\ (backlog # <<>> => backlog' # <<>>)
  <2>. DEFINE r == [kind |-> "LOG_OFF", tuple |-> c, socket |-> NoSocket]
  <2>1. backlog \in Seq(Requests) /\ r \in Requests
    BY DEF Types, ServerTypes, Requests
  <2>. HIDE DEF r
  <2>2. backlog' = backlog \/ backlog' = Append(backlog, r) \/ backlog' = backlog \o <<r, r>>
    BY DEF Segfault, LogOut, Crash, r
  <2>3. Append(backlog, r) \in Seq(Requests) /\ Append(backlog, r) # <<>>
    BY <2>1, AppendProperties
  <2>4. backlog \o <<r, r>> \in Seq(Requests) /\ backlog \o <<r, r>> # <<>>
    <3>1. <<r, r>> \in Seq(Requests) /\ Len(<<r, r>>) = 2
      BY <2>1
    <3>2. backlog \o <<r, r>> \in Seq(Requests) /\ Len(backlog \o <<r, r>>) = Len(backlog) + 2
      BY <2>1, <3>1, ConcatProperties
    <3>. QED BY <2>1, <3>2, EmptySeq
  <2>. QED BY <2>1, <2>2, <2>3, <2>4
<1>4. ServerTypes'
  BY <1>3 DEF Types, ServerTypes, Segfault, LogOut, Crash, Exit, ring
<1>. QED BY <1>1, <1>2, <1>4 DEF Types

\* What a request of the inbox says.
LEMMA ReadsTypes ==
    ASSUME ClientTypes, NEW c \in Clients, NEW kind, Reads(c, kind)
    PROVE  /\ inbox' \in [Clients -> Seq(Notices)]
           /\ Head(inbox[c]).tuple \in Tuples
<1>1. inbox[c] \in Seq(Notices) /\ inbox[c] # <<>>
  BY DEF ClientTypes, Reads
<1>2. Head(inbox[c]) \in Notices /\ Tail(inbox[c]) \in Seq(Notices)
  BY <1>1, HeadTailProperties
<1>. QED BY <1>2 DEF ClientTypes, Reads, Notices, Tuples

LEMMA UserOnTypes ==
    ASSUME ClientTypes, NEW c \in Clients, UserOn(c)
    PROVE  ClientTypes'
<1>. DEFINE t == Head(inbox[c]).tuple
<1>1. /\ inbox' \in [Clients -> Seq(Notices)] /\ t \in Tuples
      /\ UNCHANGED <<received, blocked, asking, leaked>>
  BY ReadsTypes DEF UserOn, Reads
<1>. HIDE DEF t
<1>2. CASE leaked[c]
  BY <1>1, <1>2 DEF ClientTypes, UserOn, MainBlocks
<1>3. CASE ~leaked[c]
  <2>1. clients' = [clients EXCEPT ![c] = list_rpush(clients[c], t)] /\ Push(c, t) /\ pc' = pc
    BY <1>3 DEF UserOn, t
  <2>2. ListOK(list_rpush(clients[c], t), Tuples)
    BY <1>1, RpushOK DEF ClientTypes
  <2>3. DOMAIN clients' = Clients /\ \A d \in Clients : ListOK(clients'[d], Tuples)
    BY <2>1, <2>2, ListTypes
  <2>. QED BY <1>1, <2>1, <2>3, PushTypes DEF ClientTypes
<1>. QED BY <1>2, <1>3

LEMMA UserOffTypes ==
    ASSUME ClientTypes, NEW c \in Clients, UserOff(c)
    PROVE  ClientTypes'
<1>1. /\ inbox' \in [Clients -> Seq(Notices)]
      /\ UNCHANGED <<received, blocked, asking>>
  BY ReadsTypes DEF UserOff, Reads
<1>2. CASE leaked[c] \/ clients[c].ring = <<>>
  BY <1>1, <1>2 DEF ClientTypes, UserOff, MainBlocks
<1>3. CASE ~(leaked[c] \/ clients[c].ring = <<>>)
  <2>1. PICK l \in list_remove(clients[c], Head(inbox[c]).tuple, FreedNext) :
               clients' = [clients EXCEPT ![c] = l]
    BY <1>3 DEF UserOff
  <2>2. ListOK(l, Tuples)
    BY <1>3, RemoveOK DEF ClientTypes, RemoveCrashes
  <2>3. DOMAIN clients' = Clients /\ \A d \in Clients : ListOK(clients'[d], Tuples)
    BY <2>1, <2>2, ListTypes
  <2>. QED BY <1>1, <1>3, <2>3 DEF ClientTypes, UserOff
<1>. QED BY <1>2, <1>3

LEMMA AddClientTypes ==
    ASSUME ClientTypes, NEW c \in Clients, AddClient(c)
    PROVE  ClientTypes'
<1>. DEFINE t == Head(received[c])
<1>1. received[c] \in Seq(Tuples) /\ received[c] # <<>>
  BY DEF ClientTypes, AddClient
<1>2. t \in Tuples /\ Tail(received[c]) \in Seq(Tuples)
  BY <1>1, HeadTailProperties
<1>3. received' \in [Clients -> Seq(Tuples)]
  BY <1>2 DEF ClientTypes, AddClient
<1>. HIDE DEF t
<1>4. ListOK(list_rpush(clients[c], t), Tuples)
  BY <1>2, RpushOK DEF ClientTypes
<1>5. clients' = [clients EXCEPT ![c] = list_rpush(clients[c], t)]
  BY DEF AddClient, t
<1>6. DOMAIN clients' = Clients /\ \A d \in Clients : ListOK(clients'[d], Tuples)
  BY <1>4, <1>5, ListTypes
<1>. QED BY <1>2, <1>3, <1>6, PushTypes DEF ClientTypes, AddClient, t

LEMMA WorkTypes ==
    ASSUME ClientTypes, NEW c \in Clients, Work(c)
    PROVE  ClientTypes'
<1>1. buffer[c] \in Seq(Tuples) /\ buffer[c] # <<>> /\ Len(buffer[c]) <= Capacity
  BY DEF ClientTypes, Work
<1>2. PICK s \in Seq(Tuples) : s = Tail(buffer[c]) /\ Len(s) <= Capacity
  <2>1. /\ Tail(buffer[c]) \in Seq(Tuples) /\ Len(Tail(buffer[c])) = Len(buffer[c]) - 1
        /\ Len(buffer[c]) \in Nat
    BY <1>1, HeadTailProperties, LenProperties
  <2>2. Len(Tail(buffer[c])) <= Capacity
    BY <1>1, <2>1, RegistryAssumption
  <2>. QED BY <2>1, <2>2, Zenon
<1>3. buffer' \in [Clients -> Seq(Tuples)] /\ \A d \in Clients : Len(buffer'[d]) <= Capacity
  BY <1>2 DEF ClientTypes, Work
<1>4. blocked' \in [Clients -> 0 .. WorkerThreads]
  <2>1. blocked[c] \in 0 .. WorkerThreads /\ blocked[c] < WorkerThreads
    <3>1. Len(asking[c]) \in Nat /\ blocked[c] \in 0 .. WorkerThreads
      BY LenProperties DEF ClientTypes
    <3>2. blocked[c] + Len(asking[c]) < WorkerThreads
      BY DEF Work
    <3>. QED BY <3>1, <3>2, RegistryAssumption
  <2>2. PICK n \in 0 .. WorkerThreads : n = IF leaked[c] THEN blocked[c] + 1 ELSE blocked[c]
    BY <2>1, RegistryAssumption
  <2>3. blocked' = [blocked EXCEPT ![c] = n]
    BY <2>2 DEF Work
  <2>. QED BY <2>3 DEF ClientTypes
<1>5. leaked' \in [Clients -> BOOLEAN]
  BY Zenon DEF ClientTypes, Work
<1>6. /\ asking[c] \in Seq(Tuples) /\ Len(asking[c]) \in Nat /\ blocked[c] \in Nat
      /\ Head(buffer[c]) \in Tuples /\ blocked[c] + Len(asking[c]) < WorkerThreads
  BY <1>1, HeadTailProperties, LenProperties DEF ClientTypes, Work
<1>7. PICK t \in Tuples : t = Head(buffer[c])
  BY <1>6
<1>8. PICK q \in Seq(Tuples) :
         /\ q = IF ~leaked[c] /\ Present(clients[c].ring, t) THEN Append(asking[c], t)
                ELSE asking[c]
         /\ Len(q) <= Len(asking[c]) + (IF leaked[c] THEN 0 ELSE 1) /\ Len(q) \in Nat
  <2>1. Append(asking[c], t) \in Seq(Tuples) /\ Len(Append(asking[c], t)) = Len(asking[c]) + 1
    BY <1>6, AppendProperties
  <2>2. CASE ~leaked[c] /\ Present(clients[c].ring, t)
    <3>1. PICK n \in Nat : n = Len(asking[c])
      BY <1>6
    <3>2. Len(Append(asking[c], t)) <= n + 1 /\ Len(Append(asking[c], t)) \in Nat
      BY <2>1, <3>1
    <3>. QED BY <2>1, <2>2, <3>1, <3>2, Zenon
  <2>3. CASE ~(~leaked[c] /\ Present(clients[c].ring, t))
    <3>1. PICK n \in Nat : n = Len(asking[c])
      BY <1>6
    <3>2. n <= n + (IF leaked[c] THEN 0 ELSE 1)
      <4>1. n <= n + 0 /\ n <= n + 1
        BY <3>1
      <4>. QED BY <4>1, Zenon
    <3>. QED BY <1>6, <2>3, <3>1, <3>2, Zenon
  <2>. QED BY <2>2, <2>3
<1>9. asking' = [asking EXCEPT ![c] = q]
  BY <1>7, <1>8 DEF Work
<1>10. asking' \in [Clients -> Seq(Tuples)]
  BY <1>9 DEF ClientTypes
<1>11. ASSUME NEW d \in Clients PROVE blocked'[d] + Len(asking'[d]) <= WorkerThreads
  <2>1. CASE d = c
    <3>1. asking'[c] = q /\ blocked'[c] = IF leaked[c] THEN blocked[c] + 1 ELSE blocked[c]
      BY <1>9 DEF ClientTypes, Work
    <3>. QED BY <1>6, <1>8, <2>1, <3>1, RegistryAssumption
  <2>2. CASE d # c
    BY <1>9, <2>2 DEF ClientTypes, Work
  <2>. QED BY <2>1, <2>2
<1>. QED BY <1>3, <1>4, <1>5, <1>10, <1>11 DEF ClientTypes, Work

LEMMA PushFilesTypes ==
    ASSUME ClientTypes, NEW c \in Clients, PushFiles(c)
    PROVE  ClientTypes'
<1>1. PICK i \in 1 .. Len(asking[c]) :
         buffer' = [buffer EXCEPT ![c] = Append(buffer[c], asking[c][i])]
  BY DEF PushFiles
<1>2. /\ asking[c][i] \in Tuples /\ buffer[c] \in Seq(Tuples) /\ Len(buffer[c]) \in Nat
      /\ Len(buffer[c]) < Capacity
  BY LenProperties DEF ClientTypes, PushFiles
<1>3. PICK s \in Seq(Tuples) : s = Append(buffer[c], asking[c][i]) /\ Len(s) <= Capacity
  <2>1. /\ Append(buffer[c], asking[c][i]) \in Seq(Tuples)
        /\ Len(Append(buffer[c], asking[c][i])) = Len(buffer[c]) + 1
    BY <1>2, AppendProperties
  <2>2. Len(Append(buffer[c], asking[c][i])) <= Capacity
    BY <1>2, <2>1, RegistryAssumption
  <2>. QED BY <2>1, <2>2, Zenon
<1>. QED BY <1>1, <1>3 DEF ClientTypes, PushFiles

LEMMA ComeBackTypes ==
    ASSUME ClientTypes, NEW c \in Clients, ComeBack(c)
    PROVE  ClientTypes'
<1>1. PICK i \in 1 .. Len(asking[c]) : asking' = [asking EXCEPT ![c] = Without(asking[c], i)]
  BY DEF ComeBack
<1>2. PICK n \in Nat \ {0} : n = Len(asking[c]) /\ asking[c] \in [1 .. n -> Tuples]
  BY <1>1, LenProperties DEF ClientTypes
<1>3. Without(asking[c], i) = Removed(n, asking[c], i)
  BY <1>2, RemovedIsWithout DEF Without
<1>4. Removed(n, asking[c], i) \in [1 .. n - 1 -> Tuples] /\ n - 1 \in Nat
  BY <1>2 DEF Removed
<1>5. PICK s \in Seq(Tuples) : s = Without(asking[c], i) /\ Len(s) = n - 1
  BY <1>3, <1>4, FunctionIsSeq
<1>6. asking' = [asking EXCEPT ![c] = s]
  BY <1>1, <1>5
<1>7. ASSUME NEW d \in Clients PROVE blocked[d] + Len(asking'[d]) <= WorkerThreads
  <2>1. CASE d = c
    <3>1. asking'[c] = s /\ blocked[c] \in Nat /\ blocked[c] + n <= WorkerThreads
      BY <1>2, <1>6 DEF ClientTypes
    <3>. QED BY <1>2, <1>5, <2>1, <3>1, RegistryAssumption
  <2>2. CASE d # c
    BY <1>6, <2>2 DEF ClientTypes
  <2>. QED BY <2>1, <2>2
<1>. QED BY <1>6, <1>7 DEF ClientTypes, ComeBack

LEMMA ClientStepTypes ==
    ASSUME Types, NEW c \in Clients,
           Start(c) \/ Main(c) \/ Worker(c) \/ LogOut(c) \/ Crash(c)
    PROVE  Types'
<1>1. CASE Start(c)
  BY <1>1, StartTypes
<1>2. CASE Segfault(c) \/ LogOut(c) \/ Crash(c)
  BY <1>2, StopTypes
<1>3. CASE \/ ServerGone(c) \/ AddClient(c) \/ StartThreads(c) \/ PushOn(c)
           \/ UserOn(c) \/ UserOff(c) \/ Worker(c)
  <2>1. UNCHANGED serverVars /\ UNCHANGED <<session, starts, crashes>>
    BY <1>3
       DEF ServerGone, AddClient, StartThreads, PushOn, UserOn, UserOff, Worker, Work, PushFiles,
           ComeBack, Reads
  <2>2. ServerTypes' /\ CountTypes'
    BY <2>1, UnchangedTypes DEF Types
  <2>3. SUFFICES ClientTypes'
    BY <2>2 DEF Types
  <2>4. CASE ServerGone(c) \/ StartThreads(c)
    BY <2>4 DEF Types, ClientTypes, ServerGone, StartThreads
  <2>5. CASE PushOn(c)
    <3>1. pushing[c] \in Tuples /\ Push(c, pushing[c])
      BY <2>5 DEF Types, ClientTypes, PushOn
    <3>2. /\ pushing' \in [Clients -> Tuples \cup {Nobody}]
          /\ buffer' \in [Clients -> Seq(Tuples)]
          /\ \A d \in Clients : Len(buffer'[d]) <= Capacity
      BY <3>1, PushTypes DEF Types
    <3>. QED BY <2>5, <3>2 DEF Types, ClientTypes, PushOn
  <2>6. CASE AddClient(c) \/ UserOn(c) \/ UserOff(c) \/ Worker(c)
    BY <2>6, AddClientTypes, UserOnTypes, UserOffTypes, WorkTypes, PushFilesTypes, ComeBackTypes
       DEF Types, Worker
  <2>. QED BY <1>3, <2>4, <2>5, <2>6
<1>. QED BY <1>1, <1>2, <1>3 DEF Main

LEMMA NextTypes == Types /\ [Next]_vars => Types'
<1>. SUFFICES ASSUME Types, [Next]_vars PROVE Types'
  OBVIOUS
<1>1. CASE UNCHANGED vars
  BY <1>1, UnchangedTypes DEF Types, vars, clientVars
<1>. QED BY <1>1, ServerStepTypes, ClientStepTypes DEF Next

(***************************************************************************)
(* The types: buffers hold at most Capacity records, no loop of the server *)
(* starts before the first entry, and no size field is counted below 0.    *)
(***************************************************************************)
THEOREM TypeCorrect == Spec => []TypeOK
<1>1. Types => TypeOK
  <2>. SUFFICES ASSUME Types PROVE TypeOK
    OBVIOUS
  <2>1. ASSUME NEW S, NEW s \in Seq(S) PROVE Bounded(s, S)
    BY DEF Bounded
  <2>2. Bounded(ring, Entries) /\ connected_clients.size \in Nat
    BY <2>1 DEF Types, ServerTypes, ListOK, ring
  <2>3. Bounded(backlog, Requests)
    BY <2>1 DEF Types, ServerTypes
  <2>4. session \in [Clients -> 0 .. MaxStarts]
    BY RegistryAssumption DEF Types, CountTypes
  <2>5. ASSUME NEW c \in Clients
        PROVE  /\ Bounded(clients[c].ring, Tuples) /\ clients[c].size \in Nat
               /\ Bounded(received[c], Tuples)
               /\ Bounded(buffer[c], Tuples) /\ Len(buffer[c]) <= Capacity
               /\ Bounded(asking[c], Tuples) /\ Bounded(inbox[c], Notices)
               /\ blocked[c] + Len(asking[c]) <= WorkerThreads
    BY <2>1 DEF Types, ClientTypes, ListOK
  <2>. QED BY <2>2, <2>3, <2>4, <2>5
       DEF Types, ServerTypes, CountTypes, ClientTypes, TypeOK, Requests
<1>. QED BY InitTypes, NextTypes, <1>1, PTL DEF Spec
-----------------------------------------------------------------------------
(* Main waits for room. *)

(***************************************************************************)
(* The handlers list a client before they push its record, and only main,  *)
(* which waits, removes clients: the list has an element meanwhile.        *)
(***************************************************************************)
Waits(c) == pushing[c] # Nobody => clients[c].ring # <<>>

Waiting == Types /\ Hung /\ \A c \in Clients : Waits(c)

LEMMA InitWaiting == Init => Waiting
BY InitTypes, InitHung DEF Init, Waiting, Waits

\* After list_rpush there is an element.
LEMMA RpushIsSome ==
    ASSUME Types, NEW c \in Clients, NEW x \in Tuples
    PROVE  list_rpush(clients[c], x).ring # <<>>
<1>1. clients[c].ring \in Seq(Tuples)
  BY DEF Types, ClientTypes, ListOK
<1>. QED BY <1>1, AppendProperties DEF list_rpush

LEMMA MainWaits ==
    ASSUME Waiting, NEW c \in Clients, Main(c), NEW d \in Clients
    PROVE  Waits(d)'
<1>1. Types /\ Waits(d) /\ DOMAIN clients = Clients /\ DOMAIN pushing = Clients
  BY DEF Waiting, Types, ClientTypes
<1>2. CASE ServerGone(c) \/ StartThreads(c)
  BY <1>1, <1>2 DEF Waits, ServerGone, StartThreads
<1>3. CASE PushOn(c)
  BY <1>1, <1>3 DEF Waits, PushOn, Push
<1>4. CASE AddClient(c)
  <2>1. Head(received[c]) \in Tuples
    <3>1. received[c] \in Seq(Tuples) /\ received[c] # <<>>
      BY <1>1, <1>4 DEF Types, ClientTypes, AddClient
    <3>. QED BY <3>1, HeadTailProperties
  <2>2. list_rpush(clients[c], Head(received[c])).ring # <<>>
    BY <1>1, <2>1, RpushIsSome
  <2>. QED BY <1>1, <1>4, <2>2 DEF Waits, AddClient, Push
<1>5. CASE UserOn(c)
  <2>1. CASE leaked[c]
    BY <1>1, <1>5, <2>1 DEF Waits, UserOn, MainBlocks
  <2>2. CASE ~leaked[c]
    <3>1. Head(inbox[c]).tuple \in Tuples
      BY <1>1, <1>5, ReadsTypes DEF Types, UserOn
    <3>2. list_rpush(clients[c], Head(inbox[c]).tuple).ring # <<>>
      BY <1>1, <3>1, RpushIsSome
    <3>. QED BY <1>1, <1>5, <2>2, <3>2 DEF Waits, UserOn, Push
  <2>. QED BY <2>1, <2>2
<1>6. CASE UserOff(c)
  BY <1>1, <1>6 DEF Waits, UserOff, Reads, MainBlocks
<1>7. CASE Segfault(c)
  BY <1>1, <1>7 DEF Waits, Segfault, Exit
<1>. QED BY <1>2, <1>3, <1>4, <1>5, <1>6, <1>7 DEF Main

LEMMA NextWaiting == Waiting /\ [Next]_vars => Waiting'
<1>. SUFFICES ASSUME Waiting, [Next]_vars PROVE Waiting'
  OBVIOUS
<1>1. Types' /\ Hung'
  BY NextTypes, NextPreserves DEF Waiting
<1>2. SUFFICES ASSUME NEW d \in Clients PROVE Waits(d)'
  BY <1>1 DEF Waiting
<1>3. CASE UNCHANGED <<pushing, clients>>
  BY <1>3 DEF Waiting, Waits
<1>4. ASSUME NEW c \in Clients, LogOut(c) \/ Crash(c) PROVE Waits(d)'
  <2>1. DOMAIN clients = Clients /\ DOMAIN pushing = Clients /\ Waits(d)
    BY DEF Waiting, Types, ClientTypes
  <2>. QED BY <1>4, <2>1 DEF Waits, LogOut, Crash, Exit
<1>5. Server => UNCHANGED <<pushing, clients>>
  BY DEF Server, Select, AcceptLogOn, AcceptLogOff, NotifyNext, NotifySend, NotifyDone,
         ServeGetClients, ServeDone, clientVars
<1>6. ASSUME NEW c \in Clients, Start(c) \/ Worker(c) PROVE UNCHANGED <<pushing, clients>>
  BY <1>6 DEF Start, Worker, Work, PushFiles, ComeBack
<1>7. UNCHANGED vars => UNCHANGED <<pushing, clients>>
  BY DEF vars, clientVars
<1>. QED BY <1>3, <1>4, <1>5, <1>6, <1>7, MainWaits DEF Next

(***************************************************************************)
(* Main is never left waiting in shared_buffer_push by workers that hang   *)
(* on the list's mutex: nobody can leak it meanwhile.                      *)
(***************************************************************************)
THEOREM PushersAlwaysHaveWorkers == Spec => []PushersHaveWorkers
<1>1. ASSUME Waiting PROVE PushersHaveWorkers
  <2>. SUFFICES ASSUME NEW c \in Clients, pc[c] = "run", pushing[c] # Nobody
                PROVE  ~leaked[c] /\ blocked[c] = 0
    BY DEF PushersHaveWorkers
  <2>1. Waits(c) /\ OnMutex(c) /\ blocked[c] \in Nat
    BY <1>1 DEF Waiting, Hung, Types, ClientTypes
  <2>2. ~leaked[c]
    BY <2>1 DEF Waits, OnMutex
  <2>. QED BY <2>1, <2>2 DEF OnMutex
<1>. QED BY InitWaiting, NextWaiting, <1>1, PTL DEF Spec
=============================================================================
