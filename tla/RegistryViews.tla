---------------------------- MODULE RegistryViews ----------------------------
(***************************************************************************)
(* TLAPS: every LOG_OFF finds its entry, and what the server and the       *)
(* clients know of each other agrees; for any clients, buffers and         *)
(* workers, whoever is killed and started again, and whatever a freed      *)
(* list node reads as.                                                     *)
(***************************************************************************)
EXTENDS RegistryProofs

(***************************************************************************)
(* A client is listed once its LOG_ON is handled, before there is an entry *)
(* for it; before the k-th request of the backlog is handled, it is listed *)
(* when its last request before that is a LOG_ON, or there is none and it  *)
(* is listed now.                                                          *)
(***************************************************************************)
InRing(c)  == \E i \in 1 .. Len(ring) : ring[i].tuple = c
Pending(c) == Notifying /\ server.notice = [kind |-> "USER_ON", tuple |-> c]
Listed(c)  == InRing(c) \/ Pending(c)

Silent(c, j, k) == \A m \in j .. k - 1 : backlog[m].tuple # c

Backed(c, k) ==
    \/ Listed(c) /\ Silent(c, 1, k)
    \/ \E j \in 1 .. k - 1 : /\ backlog[j].tuple = c /\ backlog[j].kind = "LOG_ON"
                             /\ Silent(c, j + 1, k)

\* Where there is a LOG_OFF of c, or, after the last request, could be one.
LogsOff(c, k) == IF k = Len(backlog) + 1 THEN Alive(c)
                 ELSE backlog[k].kind = "LOG_OFF" /\ backlog[k].tuple = c

LogOffsFind ==
    \A c \in Clients : \A k \in 1 .. Len(backlog) + 1 : LogsOff(c, k) => Backed(c, k)

Exact(l) == l.size = Len(l.ring)

\* The server runs, and did not lose its list on a freed head.
Serving == server # Down /\ ~Lost(connected_clients)

\* As long as the server has its list, no LOG_OFF comes to it for nothing.
Answered ==
    /\ Types /\ ~absent
    /\ Serving => Exact(connected_clients) /\ LogOffsFind

StepOfClient(c) == Start(c) \/ Main(c) \/ Worker(c) \/ LogOut(c) \/ Crash(c)
-----------------------------------------------------------------------------
(* What list_remove leaves of an exact list: the others, or a lost list. *)

\* r is l without one x.
LostOne(l, r, x) ==
    \E i \in 1 .. Len(l.ring) : l.ring[i] = x /\ r.ring = Removed(Len(l.ring), l.ring, i)

LEMMA ExactIsThere == ASSUME NEW l, Exact(l) PROVE ~Lost(l)
BY EmptySeq DEF Exact, Lost

LEMMA RemoveExact ==
    ASSUME NEW S, NEW l, ListOK(l, S), Exact(l),
           NEW x, Present(l.ring, x), NEW r \in list_remove(l, x, FreedNext), ~Lost(r)
    PROVE  Exact(r) /\ LostOne(l, r, x)
<1>. DEFINE s == l.ring
            n == Len(l.ring)
            hits == {i \in 1 .. n : s[i] = x}
<1>1. n \in Nat /\ s \in [1 .. n -> S] /\ l.size = n /\ n # 0
  BY LenProperties DEF ListOK, Exact, Present
<1>2. l.size \in Nat \ {0}
  BY <1>1 DEF ListOK
<1>3. hits \in SUBSET Nat /\ hits # {}
  BY <1>1 DEF Present
<1>4. FirstIndex(s, x) \in hits
  BY <1>3, MinNat DEF FirstIndex
<1>5. PICK i \in 1 .. n : i = FirstIndex(s, x) /\ s[i] = x
  BY <1>4
<1>6. PICK q \in RingsAfterRemove(l, x, FreedNext) : r = [ring |-> q, size |-> l.size - 1]
  BY DEF list_remove
<1>. HIDE DEF hits
<1>7. Removed(n, s, i) \in [1 .. n - 1 -> S] /\ n - 1 \in Nat
  BY <1>1 DEF Removed
<1>8. Removed(n, s, i) \in Seq(S) /\ Len(Removed(n, s, i)) = n - 1
  BY <1>7, FunctionIsSeq
<1>9. q = Removed(n, s, i)
  <2>1. CASE l.size = 1
    <3>1. q = <<>>
      BY <1>6, <2>1 DEF RingsAfterRemove
    <3>2. Removed(n, s, i) = <<>>
      BY <1>1, <1>8, <2>1, EmptySeq
    <3>. QED BY <3>1, <3>2
  <2>2. CASE l.size # 1 /\ i = 1
    <3>1. q = Tail(s)
      <4>1. ReadsFreedHead(l, x)
        <5>1. l.size > 1
          BY <1>2, <2>2
        <5>. QED BY <1>5, <2>2, <5>1 DEF ReadsFreedHead
      <4>2. q \in {Tail(s), <<>>}
        BY <1>6, <2>2, <4>1 DEF RingsAfterRemove
      <4>3. l.size - 1 # 0
        BY <1>2, <2>2
      <4>. QED BY <1>6, <4>2, <4>3 DEF Lost
    <3>. QED BY <1>1, <2>2, <3>1, TailIsRemoved
  <2>3. CASE l.size # 1 /\ i # 1
    <3>1. q = Without(s, i)
      BY <1>5, <1>6, <2>3 DEF RingsAfterRemove, ReadsFreedHead
    <3>2. Without(s, i) = Removed(n, s, i)
      BY <1>1, RemovedIsWithout DEF Without
    <3>. QED BY <3>1, <3>2
  <2>. QED BY <2>1, <2>2, <2>3
<1>10. Exact(r)
  BY <1>1, <1>6, <1>8, <1>9 DEF Exact
<1>11. r.ring = Removed(n, s, i)
  BY <1>6, <1>9
<1>. QED BY <1>5, <1>10, <1>11 DEF LostOne
-----------------------------------------------------------------------------
(* The backlog: nothing happens to it, the first request is taken, one is added. *)

LEMMA SameBacklog ==
    ASSUME LogOffsFind, UNCHANGED backlog,
           \A c \in Clients : Listed(c) => Listed(c)',
           \A c \in Clients : Alive(c)' => Alive(c)
    PROVE  LogOffsFind'
<1>1. ASSUME NEW c \in Clients, NEW k, Backed(c, k) PROVE Backed(c, k)'
  BY <1>1 DEF Backed, Silent
<1>2. ASSUME NEW c \in Clients, NEW k, LogsOff(c, k)' PROVE LogsOff(c, k)
  BY <1>2 DEF LogsOff
<1>. QED BY <1>1, <1>2 DEF LogOffsFind

LEMMA TakenBacklog ==
    ASSUME LogOffsFind, backlog \in Seq(Requests), backlog # <<>>, backlog' = Tail(backlog),
           \A c \in Clients : IF c = backlog[1].tuple THEN backlog[1].kind = "LOG_ON" => Listed(c)'
                             ELSE Listed(c) => Listed(c)',
           UNCHANGED pc
    PROVE  LogOffsFind'
<1>. DEFINE n == Len(backlog)
<1>1. /\ n \in Nat \ {0} /\ Len(backlog') = n - 1
      /\ \A k \in 1 .. n - 1 : backlog'[k] = backlog[k + 1]
  BY HeadTailProperties, LenProperties, EmptySeq
<1>. HIDE DEF n
<1>2. ASSUME NEW k \in 1 .. n, NEW c, NEW j \in 0 .. k, Silent(c, j + 1, k + 1)
      PROVE  j > 0 => Silent(c, j, k)'
  <2>1. SUFFICES ASSUME j > 0, NEW m \in j .. k - 1 PROVE backlog'[m].tuple # c
    BY DEF Silent
  <2>2. m + 1 \in j + 1 .. (k + 1) - 1 /\ m \in 1 .. n - 1
    BY <1>1, <2>1
  <2>. QED BY <1>1, <1>2, <2>2 DEF Silent
<1>3. ASSUME NEW k \in 1 .. n, NEW c \in Clients, Backed(c, k + 1)
      PROVE  Backed(c, k)'
  <2>1. CASE Listed(c) /\ Silent(c, 1, k + 1)
    <3>1. backlog[1].tuple # c
      BY <1>1, <2>1 DEF Silent
    <3>2. Silent(c, 1, k)'
      <4>1. SUFFICES ASSUME NEW m \in 1 .. k - 1 PROVE backlog'[m].tuple # c
        BY DEF Silent
      <4>2. m + 1 \in 1 .. (k + 1) - 1 /\ m \in 1 .. n - 1
        BY <1>1
      <4>. QED BY <1>1, <2>1, <4>2 DEF Silent
    <3>. QED BY <2>1, <3>1, <3>2 DEF Backed
  <2>2. CASE ~(Listed(c) /\ Silent(c, 1, k + 1))
    <3>1. PICK j \in 1 .. (k + 1) - 1 : /\ backlog[j].tuple = c /\ backlog[j].kind = "LOG_ON"
                                        /\ Silent(c, j + 1, k + 1)
      BY <1>3, <2>2 DEF Backed
    <3>2. j \in 1 .. k /\ j \in 0 .. k /\ j > 0
      BY <3>1
    <3>3. Silent(c, j, k)'
      BY <1>2, <3>1, <3>2
    <3>4. CASE j = 1
      <4>1. Listed(c)'
        BY <3>1, <3>4
      <4>. QED BY <3>3, <3>4, <4>1 DEF Backed
    <3>5. CASE j # 1
      <4>1. j - 1 \in 1 .. k - 1 /\ j - 1 \in 1 .. n - 1 /\ (j - 1) + 1 = j
        BY <1>1, <3>2, <3>5
      <4>2. backlog'[j - 1] = backlog[j]
        BY <1>1, <4>1
      <4>. QED BY <3>1, <3>3, <4>1, <4>2 DEF Backed
    <3>. QED BY <3>4, <3>5
  <2>. QED BY <2>1, <2>2
<1>4. ASSUME NEW c \in Clients, NEW k \in 1 .. n, LogsOff(c, k)' PROVE LogsOff(c, k + 1)
  <2>1. CASE k = n
    BY <1>1, <1>4, <2>1 DEF LogsOff, Alive, n
  <2>2. CASE k # n
    <3>1. k \in 1 .. n - 1 /\ k + 1 # n + 1 /\ k # (n - 1) + 1
      BY <1>1, <2>2
    <3>. QED BY <1>1, <1>4, <3>1 DEF LogsOff, n
  <2>. QED BY <2>1, <2>2
<1>5. 1 .. Len(backlog') + 1 = 1 .. n /\ \A k \in 1 .. n : k + 1 \in 1 .. n + 1
  BY <1>1
<1>. QED BY <1>3, <1>4, <1>5 DEF LogOffsFind, n

LEMMA LongerBacklog ==
    ASSUME LogOffsFind, backlog \in Seq(Requests), NEW r \in Requests,
           backlog' = Append(backlog, r),
           \A c \in Clients : Listed(c) => Listed(c)',
           r.kind = "LOG_OFF" => Alive(r.tuple),
           \A c \in Clients : Alive(c)' => IF c = r.tuple THEN r.kind = "LOG_ON" ELSE Alive(c)
    PROVE  LogOffsFind'
<1>1. PICK n \in Nat : n = Len(backlog)
  BY LenProperties
<1>2. /\ n \in Nat /\ Len(backlog') = n + 1 /\ backlog'[n + 1] = r
      /\ \A k \in 1 .. n : backlog'[k] = backlog[k]
  BY <1>1, AppendProperties
<1>3. ASSUME NEW k \in 1 .. n + 1, NEW c \in Clients, Backed(c, k) PROVE Backed(c, k)'
  <2>1. ASSUME NEW j \in Nat \ {0}, Silent(c, j, k) PROVE Silent(c, j, k)'
    BY <1>2, <2>1 DEF Silent
  <2>2. CASE Listed(c) /\ Silent(c, 1, k)
    BY <2>1, <2>2 DEF Backed
  <2>3. CASE ~(Listed(c) /\ Silent(c, 1, k))
    <3>1. PICK j \in 1 .. k - 1 : /\ backlog[j].tuple = c /\ backlog[j].kind = "LOG_ON"
                                  /\ Silent(c, j + 1, k)
      BY <1>3, <2>3 DEF Backed
    <3>2. j \in 1 .. n /\ j + 1 \in Nat \ {0}
      BY <1>2, <3>1
    <3>. QED BY <1>2, <2>1, <3>1, <3>2 DEF Backed
  <2>. QED BY <2>2, <2>3
<1>4. ASSUME NEW c \in Clients, c # r.tuple, Backed(c, n + 1)'
      PROVE  Backed(c, n + 2)'
  <2>1. ASSUME NEW j \in Nat \ {0}, Silent(c, j, n + 1)' PROVE Silent(c, j, n + 2)'
    BY <1>2, <1>4, <2>1 DEF Silent
  <2>2. CASE Listed(c)' /\ Silent(c, 1, n + 1)'
    BY <2>1, <2>2 DEF Backed
  <2>3. CASE ~(Listed(c)' /\ Silent(c, 1, n + 1)')
    <3>1. PICK j \in 1 .. (n + 1) - 1 :
                 /\ backlog'[j].tuple = c /\ backlog'[j].kind = "LOG_ON"
                 /\ Silent(c, j + 1, n + 1)'
      BY <1>4, <2>3 DEF Backed
    <3>2. j \in 1 .. (n + 2) - 1 /\ j + 1 \in Nat \ {0}
      BY <1>2, <3>1
    <3>. QED BY <2>1, <3>1, <3>2 DEF Backed
  <2>. QED BY <2>2, <2>3
<1>5. ASSUME r.kind = "LOG_ON" PROVE Backed(r.tuple, n + 2)'
  <2>1. n + 1 \in 1 .. (n + 2) - 1 /\ \A m \in (n + 1) + 1 .. (n + 2) - 1 : FALSE
    BY <1>2
  <2>2. Silent(r.tuple, (n + 1) + 1, n + 2)'
    BY <2>1 DEF Silent
  <2>. QED BY <1>2, <1>5, <2>1, <2>2 DEF Backed
<1>6. ASSUME NEW c \in Clients, NEW k \in 1 .. n + 2, LogsOff(c, k)' PROVE Backed(c, k)'
  <2>1. CASE k = n + 2
    <3>1. Alive(c)'
      BY <1>2, <1>6, <2>1 DEF LogsOff
    <3>2. CASE c = r.tuple
      BY <1>5, <2>1, <3>1, <3>2
    <3>3. CASE c # r.tuple
      <4>1. LogsOff(c, n + 1) /\ n + 1 \in 1 .. n + 1
        BY <1>1, <1>2, <3>1, <3>3 DEF LogsOff
      <4>2. Backed(c, n + 1)'
        BY <1>1, <1>3, <4>1 DEF LogOffsFind
      <4>. QED BY <1>4, <2>1, <3>3, <4>2
    <3>. QED BY <3>2, <3>3
  <2>2. CASE k = n + 1
    <3>1. c = r.tuple /\ r.kind = "LOG_OFF"
      BY <1>2, <1>6, <2>2 DEF LogsOff
    <3>2. LogsOff(c, n + 1) /\ n + 1 \in 1 .. n + 1
      BY <1>1, <1>2, <3>1 DEF LogsOff
    <3>. QED BY <1>1, <1>3, <2>2, <3>2 DEF LogOffsFind
  <2>3. CASE k # n + 2 /\ k # n + 1
    <3>1. k \in 1 .. n /\ k \in 1 .. n + 1 /\ k # (n + 1) + 1
      BY <1>2, <2>3
    <3>2. LogsOff(c, k)
      BY <1>1, <1>2, <1>6, <2>3, <3>1 DEF LogsOff
    <3>. QED BY <1>1, <1>3, <3>1, <3>2 DEF LogOffsFind
  <2>. QED BY <2>1, <2>2, <2>3
<1>7. Len(backlog') + 1 = n + 2
  BY <1>2
<1>. QED BY <1>6, <1>7 DEF LogOffsFind
-----------------------------------------------------------------------------
(* The server's steps and its ring. *)

\* Without one element a sequence has the others.
LEMMA RemovedKeeps ==
    ASSUME NEW n \in Nat, NEW s, NEW i \in 1 .. n
    PROVE  /\ \A j \in 1 .. n \ {i} : \E k \in 1 .. n - 1 : Removed(n, s, i)[k] = s[j]
           /\ \A k \in 1 .. n - 1 : \E j \in 1 .. n \ {i} : Removed(n, s, i)[k] = s[j]
<1>1. ASSUME NEW j \in 1 .. n \ {i}
      PROVE  \E k \in 1 .. n - 1 : Removed(n, s, i)[k] = s[j]
  <2>1. CASE j < i
    <3>1. j \in 1 .. n - 1 /\ Removed(n, s, i)[j] = s[j]
      BY <2>1 DEF Removed
    <3>. QED BY <3>1
  <2>2. CASE j > i
    <3>1. j - 1 \in 1 .. n - 1 /\ Removed(n, s, i)[j - 1] = s[j]
      BY <2>2 DEF Removed
    <3>. QED BY <3>1
  <2>. QED BY <2>1, <2>2
<1>2. ASSUME NEW k \in 1 .. n - 1
      PROVE  \E j \in 1 .. n \ {i} : Removed(n, s, i)[k] = s[j]
  <2>1. CASE k < i
    BY <2>1 DEF Removed
  <2>2. CASE k >= i
    <3>1. k + 1 \in 1 .. n \ {i} /\ Removed(n, s, i)[k] = s[k + 1]
      BY <2>2 DEF Removed
    <3>. QED BY <3>1
  <2>. QED BY <2>1, <2>2
<1>. QED BY <1>1, <1>2


\* A LOG_OFF that finds an entry removes it, unless the server does not go on.
LEMMA LoggedOff ==
    ASSUME Types, Exact(connected_clients), AcceptLogOff, ~absent', Serving'
    PROVE  /\ Exact(connected_clients)'
           /\ server' = Notify("USER_OFF", backlog[1].tuple, NoSocket)
           /\ \E i \in 1 .. Len(ring) : /\ ring[i].tuple = backlog[1].tuple
                                       /\ ring' = Removed(Len(ring), ring, i)
<1>1. PICK c \in Clients : c = backlog[1].tuple
  <2>1. backlog \in Seq(Requests) /\ backlog # <<>>
    BY DEF Types, ServerTypes, AcceptLogOff
  <2>2. backlog[1] \in Requests
    BY <2>1, HeadTailProperties
  <2>. QED BY <2>2 DEF Requests
<1>2. Present(EntryTuples.ring, c)
  <2>1. ~Lost(connected_clients)
    BY ExactIsThere
  <2>. QED BY <1>1, <2>1 DEF AcceptLogOff
<1>3. ListOK(connected_clients, Entries) /\ Exact(connected_clients)
  BY DEF Types, ServerTypes
<1>. DEFINE u == [i \in 1 .. Len(ring) |-> ring[i].tuple]
            hits == {i \in 1 .. Len(u) : u[i] = c}
            e == EntryToRemove(c)
<1>4. u \in [1 .. Len(ring) -> Clients] /\ Len(ring) \in Nat
  BY <1>3, RingTypes
<1>5. u \in Seq(Clients) /\ Len(u) = Len(ring)
  BY <1>4, FunctionIsSeq
<1>6. hits \in SUBSET Nat /\ hits # {} /\ Present(u, c)
  BY <1>2, <1>4, <1>5 DEF EntryTuples, Present
<1>7. Min(hits) \in hits
  BY <1>6, MinNat
<1>8. Min(hits) \in 1 .. Len(ring) /\ ring[Min(hits)].tuple = c
  BY <1>5, <1>7
<1>9. e = ring[Min(hits)]
  BY <1>6 DEF EntryToRemove, EntryTuples, FirstIndex
<1>. HIDE DEF hits, u, e
<1>10. Present(connected_clients.ring, e) /\ e.tuple = c
  BY <1>8, <1>9 DEF Present, ring
<1>11. /\ connected_clients' \in list_remove(connected_clients, e, FreedNext)
       /\ server' = Notify("USER_OFF", c, NoSocket)
  BY <1>1 DEF AcceptLogOff, Serving, e
<1>12. Exact(connected_clients') /\ LostOne(connected_clients, connected_clients', e)
  <2>1. ~Lost(connected_clients')
    BY DEF Serving
  <2>. QED BY <1>3, <1>10, <1>11, <2>1, RemoveExact, Zenon
<1>. QED BY <1>1, <1>10, <1>11, <1>12 DEF LostOne, ring

\* Where a loop of the server is in the list.
AtEntry == IF Notifying THEN server.next ELSE Min(ToServe)

\* The loops change sockets only.
LEMMA SocketsOnly ==
    ASSUME Types, NotifyNext \/ NotifySend \/ ServeGetClients
    PROVE  \E i \in 1 .. Len(ring), z \in Sockets \cup {NoSocket, Dead} :
              /\ i = AtEntry
              /\ z \in {NoSocket, Dead}
              /\ connected_clients'.size = connected_clients.size /\ Len(ring') = Len(ring)
              /\ \A j \in 1 .. Len(ring) :
                    ring'[j] = [tuple |-> ring[j].tuple,
                                socket |-> IF j = i THEN z ELSE ring[j].socket]
<1>1. ListOK(connected_clients, Entries)
  BY DEF Types, ServerTypes
<1>2. PICK i \in 1 .. Len(ring), z \in Sockets \cup {NoSocket, Dead} :
         /\ i = AtEntry
         /\ z \in {NoSocket, Dead}
         /\ connected_clients' = [connected_clients EXCEPT !.ring[i].socket = z]
  <2>1. CASE NotifyNext
    <3>1. server.next \in 1 .. Len(ring) /\ Notifying
      BY <2>1, RingTypes, LoopTypes, <1>1 DEF NotifyNext, Notifying
    <3>. QED BY <2>1, <3>1 DEF NotifyNext, WithSocket, AtEntry
  <2>2. CASE NotifySend
    <3>1. server.next \in 1 .. Len(ring) /\ Notifying
      BY <2>2, RingTypes, LoopTypes, <1>1 DEF NotifySend, Notifying, Types, ServerTypes
    <3>. QED BY <2>2, <3>1 DEF NotifySend, WithSocket, AtEntry
  <2>3. CASE ServeGetClients
    <3>1. Min(ToServe) \in 1 .. Len(ring) /\ server.at = "serve"
      BY <2>3, NextToServe DEF ServeGetClients
    <3>. QED BY <2>3, <3>1 DEF ServeGetClients, AtEntry, Notifying
  <2>. QED BY <2>1, <2>2, <2>3
<1>3. i \in 1 .. Len(connected_clients.ring)
  BY DEF ring
<1>4. OtherSocket(connected_clients, connected_clients', i, z)
  BY <1>1, <1>2, <1>3, SocketOf, Zenon
<1>. QED BY <1>2, <1>4 DEF OtherSocket, ring
-----------------------------------------------------------------------------
(* An exact list stays exact, and the LOG_OFFs stay answered, while the server *)
(* serves. *)

LEMMA LoopsKeepExact ==
    ASSUME Types, Exact(connected_clients), NotifyNext \/ NotifySend \/ ServeGetClients, Serving'
    PROVE  Exact(connected_clients)' /\ (LogOffsFind => LogOffsFind')
<1>1. PICK i \in 1 .. Len(ring), z \in Sockets \cup {NoSocket, Dead} :
         /\ connected_clients'.size = connected_clients.size /\ Len(ring') = Len(ring)
         /\ \A j \in 1 .. Len(ring) :
               ring'[j] = [tuple |-> ring[j].tuple,
                           socket |-> IF j = i THEN z ELSE ring[j].socket]
  BY SocketsOnly
<1>2. ASSUME NEW c \in Clients PROVE Listed(c) => Listed(c)'
  <2>1. ASSUME InRing(c) PROVE InRing(c)'
    <3>1. PICK j \in 1 .. Len(ring) : ring[j].tuple = c
      BY <2>1 DEF InRing
    <3>2. ring'[j] = [tuple |-> c, socket |-> IF j = i THEN z ELSE ring[j].socket]
      BY <1>1, <3>1, Zenon
    <3>3. j \in 1 .. Len(ring') /\ ring'[j].tuple = c
      BY <1>1, <3>2
    <3>. QED BY <3>3 DEF InRing
  <2>2. ASSUME Pending(c) PROVE Pending(c)'
    <3>1. server.at \in {"notify", "send"} /\ ~ServeGetClients
      BY <2>2 DEF Pending, Notifying, ServeGetClients
    <3>2. server' = GoOn \/ server' = Sending(ring[server.next].tuple)
      BY <3>1 DEF NotifyNext, NotifySend, Serving
    <3>3. server'.at \in {"notify", "send"} /\ server'.notice = server.notice
      BY <3>2 DEF GoOn, Sending
    <3>. QED BY <2>2, <3>3 DEF Pending, Notifying
  <2>. QED BY <2>1, <2>2 DEF Listed
<1>3. ASSUME NEW c \in Clients, Alive(c)' PROVE Alive(c)
  <2>1. pc[c] = pc'[c] \/ pc[c] = "wait"
    BY DEF Types, ClientTypes, NotifyNext, NotifySend, ServeGetClients, clientVars
  <2>. QED BY <1>3, <2>1 DEF Alive
<1>4. backlog' = backlog
  BY DEF NotifyNext, NotifySend, ServeGetClients
<1>5. LogOffsFind => LogOffsFind'
  BY <1>2, <1>3, <1>4, SameBacklog
<1>6. Exact(connected_clients)'
  BY <1>1 DEF Exact, ring
<1>. QED BY <1>5, <1>6

LEMMA NotifyDoneKeepsExact ==
    ASSUME Types, Exact(connected_clients), NotifyDone
    PROVE  /\ server' = Serve(1)
           /\ connected_clients' =
                 IF server.notice.kind = "USER_OFF" THEN connected_clients
                 ELSE list_rpush(connected_clients,
                                 [tuple |-> server.notice.tuple, socket |-> server.socket])
           /\ Exact(connected_clients)' /\ (LogOffsFind => LogOffsFind')
<1>. DEFINE e == [tuple |-> server.notice.tuple, socket |-> server.socket]
<1>1. ~RpushCrashes(connected_clients)
  BY ExactIsThere DEF RpushCrashes
<1>2. /\ server' = Serve(1)
      /\ connected_clients' = IF server.notice.kind = "USER_OFF" THEN connected_clients
                              ELSE list_rpush(connected_clients, e)
  BY <1>1 DEF NotifyDone
<1>3. e \in Entries /\ server.notice \in Notices
  BY DEF NotifyDone, Types, ServerTypes, ServerStates, Entries, Notices
<1>4. connected_clients.ring \in Seq(Entries) /\ connected_clients.size \in Nat
  BY DEF Types, ServerTypes, ListOK
<1>5. e.tuple = server.notice.tuple
  OBVIOUS
<1>. HIDE DEF e
<1>6. CASE server.notice.kind = "USER_OFF"
  <2>1. ASSUME NEW c \in Clients PROVE Listed(c) => Listed(c)'
    BY <1>2, <1>6 DEF Listed, Pending, InRing, ring
  <2>2. LogOffsFind => LogOffsFind'
    BY <2>1, SameBacklog DEF NotifyDone, Alive, clientVars
  <2>. QED BY <1>2, <1>6, <2>2 DEF Exact, e
<1>7. CASE server.notice.kind # "USER_OFF"
  <2>1. connected_clients' = [ring |-> Append(connected_clients.ring, e),
                              size |-> connected_clients.size + 1]
    BY <1>2, <1>7 DEF list_rpush
  <2>2. PICK n \in Nat : n = Len(ring)
    BY <1>4, LenProperties DEF ring
  <2>3. /\ Len(ring') = n + 1 /\ ring'[n + 1] = e
        /\ \A i \in 1 .. n : ring'[i] = ring[i]
    BY <1>3, <1>4, <2>1, <2>2, AppendProperties DEF ring
  <2>4. ASSUME NEW c \in Clients PROVE Listed(c) => Listed(c)'
    <3>1. InRing(c) => InRing(c)'
      BY <2>2, <2>3 DEF InRing
    <3>2. Pending(c) => InRing(c)'
      <4>1. n + 1 \in 1 .. n + 1
        OBVIOUS
      <4>. QED BY <1>5, <2>3, <4>1 DEF InRing, Pending
    <3>. QED BY <3>1, <3>2 DEF Listed
  <2>5. LogOffsFind => LogOffsFind'
    BY <2>4, SameBacklog DEF NotifyDone, Alive, clientVars
  <2>6. Exact(connected_clients)'
    BY <2>1, <2>2, <2>3 DEF Exact, ring
  <2>. QED BY <1>2, <2>5, <2>6 DEF e
<1>. QED BY <1>6, <1>7

LEMMA AcceptKeepsExact ==
    ASSUME Types, Exact(connected_clients), AcceptLogOn \/ AcceptLogOff, ~absent', Serving'
    PROVE  Exact(connected_clients)' /\ (LogOffsFind => LogOffsFind')
<1>1. backlog \in Seq(Requests) /\ backlog # <<>> /\ backlog' = Tail(backlog) /\ UNCHANGED pc
  BY DEF Types, ServerTypes, AcceptLogOn, AcceptLogOff, clientVars
<1>2. ASSUME NEW c \in Clients, Listed(c) PROVE InRing(c)
  BY <1>2 DEF Listed, Pending, Notifying, AcceptLogOn, AcceptLogOff
<1>3. CASE AcceptLogOn
  <2>1. ASSUME NEW c \in Clients
        PROVE  IF c = backlog[1].tuple THEN backlog[1].kind = "LOG_ON" => Listed(c)'
               ELSE Listed(c) => Listed(c)'
    <3>1. Listed(c) => Listed(c)'
      BY <1>2, <1>3 DEF AcceptLogOn, Listed, InRing, ring
    <3>2. c = backlog[1].tuple => Listed(c)'
      BY <1>3 DEF AcceptLogOn, Listed, Pending, Notifying, Notify
    <3>. QED BY <3>1, <3>2
  <2>2. LogOffsFind => LogOffsFind'
    BY <1>1, <2>1, TakenBacklog
  <2>. QED BY <1>3, <2>2 DEF Exact, AcceptLogOn
<1>4. CASE AcceptLogOff
  <2>1. Exact(connected_clients)'
    BY <1>4, LoggedOff
  <2>2. PICK i \in 1 .. Len(ring) :
           ring[i].tuple = backlog[1].tuple /\ ring' = Removed(Len(ring), ring, i)
    BY <1>4, LoggedOff
  <2>3. PICK n \in Nat \ {0} : n = Len(ring) /\ ring \in [1 .. n -> Entries]
    BY LenProperties, RingTypes DEF Types, ServerTypes
  <2>4. Removed(n, ring, i) \in [1 .. n - 1 -> Entries] /\ n - 1 \in Nat
    BY <2>3 DEF Removed
  <2>5. Len(ring') = n - 1
    BY <2>2, <2>3, <2>4, FunctionIsSeq
  <2>6. ASSUME NEW c \in Clients
        PROVE  IF c = backlog[1].tuple THEN backlog[1].kind = "LOG_ON" => Listed(c)'
               ELSE Listed(c) => Listed(c)'
    <3>1. CASE c = backlog[1].tuple
      BY <1>4, <3>1 DEF AcceptLogOff
    <3>2. CASE c # backlog[1].tuple
      <4>1. SUFFICES ASSUME Listed(c) PROVE Listed(c)'
        BY <3>2
      <4>2. PICK j \in 1 .. n \ {i} : ring[j].tuple = c
        BY <1>2, <2>2, <2>3, <3>2, <4>1 DEF InRing
      <4>3. \A m \in 1 .. n \ {i} : \E k \in 1 .. n - 1 : Removed(n, ring, i)[k] = ring[m]
        <5>1. PICK N \in Nat : N = n
          OBVIOUS
        <5>2. PICK I \in 1 .. N : I = i
          BY <2>2, <2>3, <5>1
        <5>3. \A m \in 1 .. N \ {I} : \E k \in 1 .. N - 1 : Removed(N, ring, I)[k] = ring[m]
          BY <5>2, RemovedKeeps
        <5>. QED BY <5>1, <5>2, <5>3
      <4>4. PICK k \in 1 .. n - 1 : Removed(n, ring, i)[k] = ring[j]
        BY <4>2, <4>3
      <4>5. ring'[k].tuple = c
        BY <2>2, <2>3, <4>2, <4>4
      <4>. QED BY <2>5, <4>5 DEF Listed, InRing
    <3>. QED BY <3>1, <3>2
  <2>7. LogOffsFind => LogOffsFind'
    BY <1>1, <2>6, TakenBacklog
  <2>. QED BY <2>1, <2>7
<1>. QED BY <1>3, <1>4

LEMMA ServerKeepsExact ==
    ASSUME Types, Exact(connected_clients), Server, ~absent', Serving'
    PROVE  Exact(connected_clients)' /\ (LogOffsFind => LogOffsFind')
<1>1. CASE Select \/ ServeDone
  <2>1. ASSUME NEW c \in Clients PROVE Listed(c) => Listed(c)'
    BY <1>1 DEF Select, ServeDone, Listed, InRing, Pending, Notifying, ring
  <2>2. LogOffsFind => LogOffsFind'
    BY <1>1, <2>1, SameBacklog DEF Select, ServeDone, Alive, clientVars
  <2>. QED BY <1>1, <2>2 DEF Exact, Select, ServeDone
<1>. QED BY <1>1, AcceptKeepsExact, LoopsKeepExact, NotifyDoneKeepsExact DEF Server

\* The server is left alone by a client, but for its backlog.
LEMMA ServerStays ==
    ASSUME NEW c, StepOfClient(c)
    PROVE  UNCHANGED <<connected_clients, server, absent>>
BY DEF StepOfClient, Start, Main, Worker, Work, PushFiles, ComeBack, LogOut, Crash, Exit,
       ServerGone, AddClient, StartThreads, PushOn, UserOn, UserOff, Segfault, Reads, serverVars

\* A list that was lost, and a server that is down, stay so.
LEMMA ServingWas ==
    ASSUME Types, [Next]_vars, Serving'
    PROVE  Serving
<1>1. CASE UNCHANGED vars
  BY <1>1 DEF vars, serverVars, Serving, Lost
<1>2. ASSUME NEW c \in Clients, StepOfClient(c) PROVE Serving
  BY <1>2, ServerStays DEF Serving, Lost
<1>3. CASE Server
  <2>1. server # Down
    BY <1>3 DEF Server, Select, AcceptLogOn, AcceptLogOff, NotifyNext, NotifySend, NotifyDone,
                ServeGetClients, ServeDone, Down
  <2>2. CASE Lost(connected_clients)
    <3>1. connected_clients.ring = <<>> /\ ring = <<>> /\ Len(ring) = 0
      BY <2>2, EmptySeq DEF Lost, ring
    <3>2. ~NotifyNext /\ ~NotifySend /\ ~ServeGetClients
      BY <3>1, SocketsOnly
    <3>3. CASE NotifyDone
      BY <2>2, <3>3 DEF NotifyDone, RpushCrashes, Serving
    <3>4. CASE AcceptLogOff
      BY <3>1, <3>4 DEF AcceptLogOff, RemoveCrashes, Serving
    <3>5. CASE Select \/ AcceptLogOn \/ ServeDone
      BY <2>2, <3>5 DEF Select, AcceptLogOn, ServeDone, Serving
    <3>. QED BY <1>3, <3>2, <3>3, <3>4, <3>5 DEF Server
  <2>. QED BY <2>1, <2>2 DEF Serving
<1>. QED BY <1>1, <1>2, <1>3 DEF Next, StepOfClient
-----------------------------------------------------------------------------
(* Every LOG_OFF finds its entry, when a client sends one. *)

LEMMA InitAnswered == Init => Answered
<1>. SUFFICES ASSUME Init PROVE Answered
  OBVIOUS
<1>1. Exact(list_create)
  BY EmptySeq DEF Exact, list_create
<1>2. LogOffsFind
  <2>1. Len(backlog) = 0
    BY EmptySeq DEF Init
  <2>. QED BY <2>1 DEF Init, LogOffsFind, LogsOff, Alive
<1>. QED BY <1>1, <1>2, InitTypes DEF Init, Answered

LEMMA EntryIsFound ==
    ASSUME Answered, AcceptLogOff
    PROVE  ~absent'
<1>1. PICK c \in Clients : c = backlog[1].tuple
  <2>1. backlog \in Seq(Requests) /\ backlog # <<>>
    BY DEF Answered, Types, ServerTypes, AcceptLogOff
  <2>2. backlog[1] \in Requests
    BY <2>1, HeadTailProperties
  <2>. QED BY <2>2 DEF Requests
<1>2. SUFFICES ASSUME ~Lost(connected_clients) PROVE Present(EntryTuples.ring, c)
  BY <1>1 DEF AcceptLogOff, Answered
<1>3. LogOffsFind
  BY <1>2 DEF AcceptLogOff, Answered, Serving, Down
<1>4. Len(backlog) \in Nat \ {0}
  BY LenProperties, EmptySeq DEF Answered, Types, ServerTypes, AcceptLogOff
<1>5. 1 \in 1 .. Len(backlog) + 1 /\ LogsOff(c, 1)
  BY <1>1, <1>4 DEF LogsOff, AcceptLogOff
<1>6. Backed(c, 1)
  BY <1>3, <1>5 DEF LogOffsFind
<1>7. InRing(c)
  BY <1>6 DEF Backed, Listed, Pending, Notifying, AcceptLogOff
<1>8. ListOK(connected_clients, Entries)
  BY DEF Answered, Types, ServerTypes
<1>9. /\ EntryTuples.ring \in Seq(Clients) /\ Len(EntryTuples.ring) = Len(ring)
      /\ \A i \in 1 .. Len(ring) : EntryTuples.ring[i] = ring[i].tuple
  <2>1. EntryTuples.ring = [i \in 1 .. Len(ring) |-> ring[i].tuple] /\ Len(ring) \in Nat
    BY <1>8, RingTypes DEF EntryTuples
  <2>2. EntryTuples.ring \in [1 .. Len(ring) -> Clients]
    BY <1>8, <2>1, RingTypes
  <2>. QED BY <2>1, <2>2, FunctionIsSeq
<1>. QED BY <1>7, <1>9 DEF InRing, Present

LEMMA ServerAnswered ==
    ASSUME Answered, Server
    PROVE  ~absent' /\ (Serving' => Exact(connected_clients)' /\ LogOffsFind')
<1>1. ~absent'
  BY EntryIsFound
     DEF Server, Select, AcceptLogOn, NotifyNext, NotifySend, NotifyDone, ServeGetClients,
         ServeDone, Answered
<1>2. ASSUME Serving' PROVE Exact(connected_clients)' /\ LogOffsFind'
  <2>1. Serving
    BY <1>2, ServingWas DEF Answered, Next
  <2>. QED BY <1>1, <1>2, <2>1, ServerKeepsExact DEF Answered
<1>. QED BY <1>1, <1>2

LEMMA ClientAnswered ==
    ASSUME ~DoubleSignals, Types, LogOffsFind, NEW c \in Clients, StepOfClient(c)
    PROVE  LogOffsFind'
<1>1. UNCHANGED <<connected_clients, server>>
  BY ServerStays
<1>2. \A d \in Clients : Listed(d) => Listed(d)'
  BY <1>1 DEF Listed, InRing, Pending, Notifying, ring
<1>3. /\ backlog \in Seq(Requests)
      /\ pc \in [Clients -> {"off", "wait", "load", "run", "stuck", "segv"}]
  BY DEF Types, ServerTypes, ClientTypes
<1>4. CASE Start(c)
  <2>1. PICK r : r = [kind |-> "LOG_ON", tuple |-> c, socket |-> <<c, session'[c]>>]
    OBVIOUS
  <2>2. r \in Requests /\ backlog' = Append(backlog, r)
    <3>1. backlog' = Append(backlog, r)
      BY <1>4, <2>1 DEF Start
    <3>2. session'[c] \in 1 .. MaxStarts
      <4>1. /\ session[c] \in Nat /\ session[c] <= starts /\ starts < MaxStarts /\ starts \in Nat
            /\ session'[c] = session[c] + 1
        BY <1>4 DEF Start, Types, CountTypes
      <4>. QED BY <4>1, RegistryAssumption
    <3>. QED BY <2>1, <3>1, <3>2 DEF Requests, Sockets
  <2>3. ASSUME NEW d \in Clients, Alive(d)'
        PROVE  IF d = r.tuple THEN r.kind = "LOG_ON" ELSE Alive(d)
    BY <1>3, <1>4, <2>1, <2>3 DEF Start, Alive
  <2>4. r.kind # "LOG_OFF"
    BY <2>1
  <2>. QED BY <1>2, <1>3, <2>2, <2>3, <2>4, LongerBacklog
<1>5. CASE LogOut(c) /\ ~UNCHANGED backlog
  <2>1. PICK r : r = [kind |-> "LOG_OFF", tuple |-> c, socket |-> NoSocket]
    OBVIOUS
  <2>2. backlog' = Append(backlog, r) /\ Started(c) /\ r \in Requests
    BY <1>5, <2>1 DEF LogOut, Requests
  <2>3. ASSUME NEW d \in Clients, Alive(d)'
        PROVE  IF d = r.tuple THEN r.kind = "LOG_ON" ELSE Alive(d)
    BY <1>3, <1>5, <2>1, <2>3 DEF LogOut, Exit, Alive
  <2>4. Alive(r.tuple)
    BY <2>1, <2>2 DEF Started, Alive
  <2>. QED BY <1>2, <1>3, <2>2, <2>3, <2>4, LongerBacklog
<1>6. CASE UNCHANGED backlog /\ ~Start(c)
  <2>1. ASSUME NEW d \in Clients, Alive(d)' PROVE Alive(d)
    <3>1. CASE Segfault(c) \/ LogOut(c) \/ Crash(c)
      BY <1>3, <2>1, <3>1 DEF Alive, Segfault, LogOut, Crash, Exit
    <3>2. CASE Worker(c) \/ (Main(c) /\ ~Segfault(c))
      BY <1>3, <2>1, <3>2
         DEF Alive, Main, Worker, Work, PushFiles, ComeBack, ServerGone, AddClient, StartThreads,
             PushOn, UserOn, UserOff, Reads, MainBlocks
    <3>. QED BY <1>6, <3>1, <3>2 DEF StepOfClient
  <2>. QED BY <1>2, <1>6, <2>1, SameBacklog
<1>7. UNCHANGED backlog \/ Start(c) \/ LogOut(c)
  BY DEF StepOfClient, Main, Worker, Work, PushFiles, ComeBack, Crash, Exit, ServerGone, AddClient,
         StartThreads, PushOn, UserOn, UserOff, Segfault, Reads, serverVars
<1>. QED BY <1>4, <1>5, <1>6, <1>7

LEMMA NextAnswered ==
    ASSUME ~DoubleSignals
    PROVE  Answered /\ [Next]_vars => Answered'
<1>. SUFFICES ASSUME Answered, [Next]_vars PROVE Answered'
  OBVIOUS
<1>1. Types'
  BY NextTypes DEF Answered
<1>2. CASE UNCHANGED vars
  <2>1. /\ UNCHANGED <<connected_clients, server, absent, backlog, pc>>
        /\ Serving' = Serving /\ Exact(connected_clients)' = Exact(connected_clients)
    BY <1>2 DEF vars, serverVars, clientVars, Serving, Lost, Exact
  <2>2. LogOffsFind => LogOffsFind'
    BY <2>1, SameBacklog DEF Listed, InRing, Pending, Notifying, ring, Alive
  <2>. QED BY <1>1, <2>1, <2>2 DEF Answered
<1>3. CASE Server
  BY <1>1, <1>3, ServerAnswered DEF Answered
<1>4. ASSUME NEW c \in Clients, StepOfClient(c) PROVE Answered'
  <2>1. /\ UNCHANGED <<connected_clients, server, absent>>
        /\ Serving' = Serving /\ Exact(connected_clients)' = Exact(connected_clients)
    BY <1>4, ServerStays DEF Serving, Lost, Exact
  <2>. QED BY <1>1, <1>4, <2>1, ClientAnswered DEF Answered
<1>. QED BY <1>2, <1>3, <1>4 DEF Next, StepOfClient

(***************************************************************************)
(* A LOG_OFF that comes to a list that was not lost finds an entry of its  *)
(* client, if no client sends two: each comes after a LOG_ON that no other *)
(* LOG_OFF answers.  A client listed twice, or with the entry of a process *)
(* that was killed, may lose the other entry, but never none.              *)
(***************************************************************************)
THEOREM LogOffsFindEntries ==
    ASSUME ~DoubleSignals
    PROVE  Spec => []LogOffFindsEntry
<1>1. Answered => LogOffFindsEntry
  BY DEF Answered, LogOffFindsEntry
<1>. QED BY InitAnswered, NextAnswered, <1>1, PTL DEF Spec
-----------------------------------------------------------------------------
(* The views. *)

Queued(c) == \E k \in 1 .. Len(backlog) : backlog[k].tuple = c

\* A client that was never started: nobody has heard of it.
Unheard(c) ==
    /\ pc[c] = "off" /\ inbox[c] = <<>> /\ clients[c] = list_create /\ received[c] = <<>>
    /\ ~Listed(c) /\ ~Queued(c)

\* A notice to c, when the loop is connected with c, goes to its first process.
SendsToFirst(c) ==
    server.at = "send" /\ ring[server.next].tuple = c => server.to = <<c, 1>>

(***************************************************************************)
(* The first process of a client stands in one place: in one LOG_ON of the *)
(* backlog, in the one the server handles, or in one entry; and it is the  *)
(* process a notice to that entry is sent to.                              *)
(***************************************************************************)
OnePlace(c) ==
    /\ \A k, m \in 1 .. Len(backlog) : backlog[k].tuple = c /\ backlog[m].tuple = c => k = m
    /\ \A k \in 1 .. Len(backlog) : backlog[k].tuple = c => backlog[k].kind = "LOG_ON"
    /\ Queued(c) => ~Listed(c)
    /\ Pending(c) => ~InRing(c)
    /\ \A i, j \in 1 .. Len(ring) : ring[i].tuple = c /\ ring[j].tuple = c => i = j
    /\ SendsToFirst(c)

\* While it waits it knows nobody, and as long as its entry has the socket it
\* waits on, it was told nothing either.
KnowsNothing(c) ==
    /\ clients[c] = list_create /\ received[c] = <<>>
    /\ ~InRing(c) => inbox[c] = <<>>
    /\ \A i \in 1 .. Len(ring) :
          ring[i].tuple = c /\ ring[i].socket = <<c, 1>> =>
              /\ inbox[c] = <<>>
              /\ server.at = "notify" => server.next <= i
              /\ server.at = "send" => server.next < i

KnowsOthers(c) ==
    /\ InRing(c)
    /\ \A t \in Tuples \ {c} : Replay(c, t) = Told(c, t)

ViewOf(c) ==
    /\ session[c] = 0 => Unheard(c)
    /\ session[c] = 1 /\ pc[c] \in {"wait", "load", "run"} => OnePlace(c)
    /\ session[c] = 1 /\ pc[c] = "wait" => KnowsNothing(c)
    /\ session[c] = 1 /\ pc[c] \in {"load", "run"} /\ ~Lost(clients[c]) => KnowsOthers(c)

\* A client's list is exact, until its head is lost.
ClientExact(c) == Exact(clients[c]) \/ (Lost(clients[c]) /\ Started(c))

Live == Serving /\ ~absent

Views ==
    /\ Types /\ \A c \in Clients : ClientExact(c)
    /\ Live => Exact(connected_clients) /\ \A c \in Clients : ViewOf(c)
-----------------------------------------------------------------------------
(* How often a tuple or a notice is in a sequence. *)

LEMMA TimesType ==
    ASSUME NEW S, NEW s \in Seq(S), NEW t
    PROVE  Times(s, t) = Count(Len(s), s, t) /\ Times(s, t) \in Nat
<1>1. Times(s, t) = Count(Len(s), s, t) /\ Len(s) \in Nat
  BY LenProperties DEF Times, Count, Places
<1>. QED BY <1>1, CountType

LEMMA TimesNone == ASSUME NEW t PROVE Times(<<>>, t) = 0
<1>1. <<>> \in Seq(Nat) /\ Len(<<>>) = 0
  BY EmptySeq
<1>2. Times(<<>>, t) = Count(0, <<>>, t)
  BY <1>1, TimesType
<1>. QED BY <1>2, CountNone

LEMMA TimesAppend ==
    ASSUME NEW S, NEW s \in Seq(S), NEW x \in S, NEW t
    PROVE  Times(Append(s, x), t) = IF x = t THEN Times(s, t) + 1 ELSE Times(s, t)
<1>. DEFINE r == Append(s, x)
<1>1. PICK n \in Nat : n = Len(s)
  BY LenProperties
<1>2. /\ r \in Seq(S) /\ Len(r) = n + 1 /\ r[n + 1] = x
      /\ \A i \in 1 .. n : r[i] = s[i]
  BY <1>1, AppendProperties
<1>. HIDE DEF r
<1>3. Times(s, t) = Count(n, s, t) /\ Times(r, t) = Count(n + 1, r, t)
  BY <1>1, <1>2, TimesType
<1>4. Count(n + 1, r, t) = IF r[n + 1] = t THEN Count(n, s, t) + 1 ELSE Count(n, s, t)
  <2>1. \A i \in 1 .. n : r[i] = s[i]
    BY <1>2
  <2>. QED BY <2>1, CountOneMore
<1>. QED BY <1>2, <1>3, <1>4 DEF r

LEMMA TimesRemoved ==
    ASSUME NEW S, NEW s \in Seq(S), NEW i \in 1 .. Len(s), NEW t
    PROVE  /\ Removed(Len(s), s, i) \in Seq(S) /\ Len(Removed(Len(s), s, i)) = Len(s) - 1
           /\ Times(Removed(Len(s), s, i), t) = IF s[i] = t THEN Times(s, t) - 1 ELSE Times(s, t)
<1>. DEFINE n == Len(s)
            r == Removed(n, s, i)
<1>1. n \in Nat \ {0} /\ n - 1 \in Nat /\ s \in [1 .. n -> S]
  BY LenProperties
<1>2. r \in [1 .. n - 1 -> S]
  BY <1>1 DEF Removed
<1>. HIDE DEF n
<1>3. r \in Seq(S) /\ Len(r) = n - 1
  BY <1>1, <1>2, FunctionIsSeq
<1>4. Times(r, t) = Count(n - 1, r, t)
  BY <1>3, TimesType
<1>5. Times(s, t) = Count(n, s, t)
  BY TimesType DEF n
<1>6. Count(n - 1, r, t) = IF s[i] = t THEN Count(n, s, t) - 1 ELSE Count(n, s, t)
  <2>1. i \in 1 .. n
    BY DEF n
  <2>. QED BY <1>1, <2>1, CountOneLess
<1>. QED BY <1>3, <1>4, <1>5, <1>6 DEF n

LEMMA TimesTail ==
    ASSUME NEW S, NEW s \in Seq(S), s # <<>>, NEW t
    PROVE  /\ Tail(s) \in Seq(S) /\ Head(s) \in S
           /\ Times(Tail(s), t) = IF Head(s) = t THEN Times(s, t) - 1 ELSE Times(s, t)
<1>1. Len(s) \in Nat \ {0} /\ s \in [1 .. Len(s) -> S]
  BY LenProperties, EmptySeq
<1>2. Tail(s) = Removed(Len(s), s, 1)
  BY <1>1, TailIsRemoved
<1>3. Head(s) = s[1] /\ Head(s) \in S /\ 1 \in 1 .. Len(s)
  BY <1>1, HeadTailProperties
<1>4. /\ Removed(Len(s), s, 1) \in Seq(S)
      /\ Times(Removed(Len(s), s, 1), t) = IF s[1] = t THEN Times(s, t) - 1 ELSE Times(s, t)
  BY <1>3, TimesRemoved
<1>. QED BY <1>2, <1>3, <1>4

\* The tuples of the server's list.
tuples == EntryTuples.ring

LEMMA TuplesOfRing ==
    ASSUME ListOK(connected_clients, Entries)
    PROVE  /\ tuples \in Seq(Clients) /\ Len(tuples) = Len(ring) /\ Len(ring) \in Nat
           /\ \A i \in 1 .. Len(ring) : tuples[i] = ring[i].tuple
<1>1. Len(ring) \in Nat /\ \A i \in 1 .. Len(ring) : ring[i].tuple \in Clients
  BY RingTypes
<1>2. tuples = [i \in 1 .. Len(ring) |-> ring[i].tuple]
  BY DEF tuples, EntryTuples
<1>3. tuples \in [1 .. Len(ring) -> Clients]
  BY <1>1, <1>2
<1>. QED BY <1>1, <1>2, <1>3, FunctionIsSeq

(***************************************************************************)
(* The answer to GET_CLIENTS: with one entry for the receiver, and a size  *)
(* that is exact, it has the tuples of all the others, as often as the     *)
(* list, and no junk.                                                      *)
(***************************************************************************)
LEMMA AnswerIsOthers ==
    ASSUME ListOK(connected_clients, Entries), Exact(connected_clients),
           NEW c, NEW e \in 1 .. Len(ring), ring[e].tuple = c,
           \A i \in 1 .. Len(ring) : ring[i].tuple = c => i = e
    PROVE  \A t : t # c => Times(ClientList(c), t) = Times(tuples, t)
<1>. DEFINE n == Len(ring)
            u == tuples
<1>1. /\ u \in Seq(Clients) /\ Len(u) = n /\ n \in Nat
      /\ \A i \in 1 .. n : u[i] = ring[i].tuple
  BY TuplesOfRing
<1>2. connected_clients.size = n
  BY DEF Exact, ring
<1>3. PICK f \in [0 .. n -> Seq(Clients)] :
         /\ TuplesBut(c) = f[n] /\ f[0] = <<>>
         /\ \A i \in 1 .. n : f[i] = IF ring[i].tuple = c THEN f[i - 1]
                                     ELSE Append(f[i - 1], ring[i].tuple)
  BY RingTypes, TuplesButPicks
<1>. HIDE DEF n, u
<1>. DEFINE Good(i) == /\ Len(f[i]) = i - Count(i, u, c)
                       /\ \A t : t # c => Times(f[i], t) = Count(i, u, t)
            T == {i \in Nat : i <= n => Good(i)}
<1>4. 0 \in T
  <2>1. Good(0)
    BY <1>3, CountNone, TimesNone, EmptySeq
  <2>. QED BY <2>1
<1>5. ASSUME NEW i \in Nat, i \in T PROVE i + 1 \in T
  <2>. SUFFICES ASSUME i + 1 <= n PROVE Good(i + 1)
    OBVIOUS
  <2>1. /\ i + 1 \in 1 .. n /\ i \in 0 .. n /\ (i + 1) - 1 = i /\ i <= n
    BY <1>1
  <2>2. f[i] \in Seq(Clients) /\ u[i + 1] \in Clients /\ u[i + 1] = ring[i + 1].tuple
    BY <1>1, <2>1
  <2>3. f[i + 1] = IF u[i + 1] = c THEN f[i] ELSE Append(f[i], u[i + 1])
    BY <1>3, <2>1, <2>2
  <2>4. Good(i)
    BY <1>5, <2>1
  <2>5. \A t : Count(i + 1, u, t) = IF u[i + 1] = t THEN Count(i, u, t) + 1 ELSE Count(i, u, t)
    BY CountOneMore
  <2>6. Count(i, u, c) \in Nat /\ Len(f[i]) \in Nat
    BY <2>2, CountType, LenProperties
  <2>7. Len(f[i + 1]) = (i + 1) - Count(i + 1, u, c)
    <3>1. Len(Append(f[i], u[i + 1])) = Len(f[i]) + 1
      BY <2>2, AppendProperties
    <3>. QED BY <2>3, <2>4, <2>5, <2>6, <3>1
  <2>8. ASSUME NEW t, t # c PROVE Times(f[i + 1], t) = Count(i + 1, u, t)
    <3>1. Times(f[i], t) = Count(i, u, t)
      BY <2>4, <2>8
    <3>2. Times(Append(f[i], u[i + 1]), t)
             = IF u[i + 1] = t THEN Times(f[i], t) + 1 ELSE Times(f[i], t)
      BY <2>2, TimesAppend
    <3>. QED BY <2>3, <2>5, <2>8, <3>1, <3>2
  <2>. QED BY <2>7, <2>8
<1>. HIDE DEF T
<1>6. n \in T
  BY <1>1, <1>4, <1>5, NatInduct, Zenon
<1>7. Good(n)
  BY <1>1, <1>6 DEF T
<1>8. Count(n, u, c) = 1
  <2>1. Places(n, u, c) = {e}
    BY <1>1 DEF Places, n
  <2>. QED BY <2>1, FS_Singleton DEF Count
<1>9. f[n] \in Seq(Clients) /\ Len(f[n]) = n - 1
  BY <1>1, <1>7, <1>8
<1>10. ClientList(c) = f[n]
  <2>. DEFINE o == f[n]
              m == n - 1
  <2>1. o = [i \in 1 .. m |-> o[i]]
    BY <1>9, LenProperties
  <2>2. TuplesBut(c) = o /\ connected_clients.size - 1 = m /\ Len(o) = m
    BY <1>2, <1>3, <1>9
  <2>. HIDE DEF o, m
  <2>3. ClientList(c) = [i \in 1 .. m |-> IF i <= m THEN o[i] ELSE Junk]
    BY <2>2 DEF ClientList
  <2>4. \A i \in 1 .. m : i <= m
    BY <1>1 DEF m
  <2>5. ClientList(c) = o
    BY <2>1, <2>3, <2>4
  <2>. QED BY <2>5 DEF o
<1>11. ASSUME NEW t, t # c PROVE Times(ClientList(c), t) = Times(u, t)
  <2>1. Times(u, t) = Count(n, u, t)
    BY <1>1, TimesType
  <2>. QED BY <1>7, <1>10, <1>11, <2>1
<1>. QED BY <1>11 DEF u
-----------------------------------------------------------------------------
(* What the server has told, in two terms. *)

ToldYet(c) == \E i \in 1 .. server.next - 1 : ring[i].tuple = c

\* A notice of t is counted before it has come to c, or when it has.
Extra(c, t) ==
    IF /\ Notifying /\ server.notice.tuple = t
       /\ \/ server.notice.kind = "USER_ON" /\ ToldYet(c)
          \/ server.notice.kind = "USER_OFF" /\ ~ToldYet(c)
    THEN 1 ELSE 0

LEMMA ToldIsSum ==
    ASSUME NEW c, NEW t
    PROVE  /\ Told(c, t) = Times(tuples, t) + Extra(c, t)
           /\ Told(c, t)' = Times(tuples', t) + Extra(c, t)'
<1>1. Told(c, t) = Times(tuples, t) + Extra(c, t)
  BY DEF Told, Extra, ToldYet, tuples
<1>2. Told(c, t)' = Times(tuples', t) + Extra(c, t)'
  BY DEF Told, Extra, ToldYet, tuples
<1>. QED BY <1>1, <1>2

\* All that is counted is a number.
LEMMA CountsAreNumbers ==
    ASSUME Types, NEW c \in Clients, NEW t
    PROVE  /\ Times(clients[c].ring, t) \in Nat /\ Times(received[c], t) \in Nat
           /\ Times(inbox[c], t) \in Nat /\ Times(tuples, t) \in Nat
<1>1. /\ clients[c].ring \in Seq(Tuples) /\ received[c] \in Seq(Tuples)
      /\ inbox[c] \in Seq(Notices) /\ tuples \in Seq(Clients)
  BY TuplesOfRing DEF Types, ServerTypes, ClientTypes, ListOK
<1>. QED BY <1>1, TimesType

\* Where the server is in a loop, or waits for a request, it runs.
LEMMA ServerAt ==
    ASSUME Types
    PROVE  /\ Notifying => server.notice \in Notices /\ server.next \in Nat \ {0}
           /\ server.at # "down" => server # Down
BY LoopTypes DEF Notifying, Down

\* A step that leads to where the views are spoken of starts there.
LEMMA LiveWas ==
    ASSUME Views, [Next]_vars, Live'
    PROVE  /\ Live /\ Types /\ Exact(connected_clients)
           /\ \A c \in Clients : ViewOf(c) /\ ClientExact(c)
<1>1. absent => absent'
  BY ServerStays
     DEF Next, Server, Select, AcceptLogOn, AcceptLogOff, NotifyNext, NotifySend, NotifyDone,
         ServeGetClients, ServeDone, StepOfClient, vars, serverVars
<1>2. Serving
  BY ServingWas DEF Views, Live
<1>. QED BY <1>1, <1>2 DEF Views, Live

\* A step after which the client's own state and its places are what they were.
LEMMA SameView ==
    ASSUME NEW c \in Clients, ViewOf(c),
           /\ session'[c] = session[c] /\ pc'[c] = pc[c] /\ inbox'[c] = inbox[c]
           /\ clients'[c] = clients[c] /\ received'[c] = received[c],
           /\ Listed(c)' = Listed(c) /\ Queued(c)' = Queued(c),
           OnePlace(c) => OnePlace(c)', KnowsNothing(c) => KnowsNothing(c)',
           InRing(c)' = InRing(c), \A t \in Tuples \ {c} : Told(c, t)' = Told(c, t)
    PROVE  ViewOf(c)'
<1>1. Unheard(c) => Unheard(c)'
  BY DEF Unheard
<1>2. KnowsOthers(c) => KnowsOthers(c)'
  BY DEF KnowsOthers, Replay
<1>. QED BY <1>1, <1>2 DEF ViewOf

LEMMA QuietViews ==
    ASSUME Views, Live', Select \/ ServeDone, NEW c \in Clients
    PROVE  ViewOf(c)'
<1>1. /\ UNCHANGED <<connected_clients, backlog, session, pc, inbox, clients, received>>
      /\ ~Notifying /\ server'.at \notin {"notify", "send"}
  BY DEF Select, ServeDone, clientVars, Serve, Notifying
<1>2. ViewOf(c)
  BY LiveWas DEF Next, Server
<1>3. /\ Listed(c)' = Listed(c) /\ Queued(c)' = Queued(c) /\ InRing(c)' = InRing(c)
      /\ Pending(c)' = Pending(c) /\ ring' = ring /\ ~Notifying'
  BY <1>1 DEF Listed, Queued, InRing, Pending, Notifying, ring
<1>4. OnePlace(c) => OnePlace(c)'
  BY <1>1, <1>3 DEF OnePlace, SendsToFirst
<1>5. KnowsNothing(c) => KnowsNothing(c)'
  BY <1>1, <1>3 DEF KnowsNothing
<1>6. ASSUME NEW t PROVE Told(c, t)' = Told(c, t)
  BY <1>1, <1>3 DEF Told, EntryTuples
<1>. QED BY <1>1, <1>2, <1>3, <1>4, <1>5, <1>6, SameView

-----------------------------------------------------------------------------
(* The server's steps, one by one. *)

\* The backlog without its first request.
LEMMA BacklogTail ==
    ASSUME Types, server.at = "accept", backlog' = Tail(backlog)
    PROVE  /\ backlog[1] \in Requests /\ Len(backlog) \in Nat \ {0}
           /\ Len(backlog') = Len(backlog) - 1
           /\ \A k \in 1 .. Len(backlog') :
                 k + 1 \in 1 .. Len(backlog) /\ backlog'[k] = backlog[k + 1]
<1>1. backlog \in Seq(Requests) /\ backlog # <<>>
  BY DEF Types, ServerTypes
<1>2. /\ backlog[1] \in Requests /\ Len(backlog) \in Nat \ {0} /\ Len(backlog') = Len(backlog) - 1
      /\ \A k \in 1 .. Len(backlog) - 1 : backlog'[k] = backlog[k + 1]
  BY <1>1, HeadTailProperties, LenProperties, EmptySeq
<1>. QED BY <1>2

LEMMA QueuedLess ==
    ASSUME Types, server.at = "accept", backlog' = Tail(backlog), NEW c
    PROVE  /\ Queued(c)' => Queued(c)
           /\ backlog[1].tuple = c => Queued(c)
           /\ OnePlace(c) =>
                 /\ \A k, m \in 1 .. Len(backlog') :
                       backlog'[k].tuple = c /\ backlog'[m].tuple = c => k = m
                 /\ \A k \in 1 .. Len(backlog') :
                       backlog'[k].tuple = c => backlog'[k].kind = "LOG_ON"
                 /\ backlog[1].tuple = c => backlog[1].kind = "LOG_ON" /\ ~Queued(c)'
<1>1. /\ Len(backlog) \in Nat \ {0} /\ 1 \in 1 .. Len(backlog)
      /\ \A k \in 1 .. Len(backlog') :
             k + 1 \in 1 .. Len(backlog) /\ backlog'[k] = backlog[k + 1] /\ k + 1 # 1
  <2>1. Len(backlog) \in Nat \ {0} /\ Len(backlog') \in Nat
    BY BacklogTail
  <2>. QED BY <2>1, BacklogTail
<1>2. ASSUME Queued(c)' PROVE Queued(c)
  BY <1>1, <1>2 DEF Queued
<1>3. backlog[1].tuple = c => Queued(c)
  BY <1>1 DEF Queued
<1>4. ASSUME OnePlace(c), NEW k \in 1 .. Len(backlog'), NEW m \in 1 .. Len(backlog'),
             backlog'[k].tuple = c, backlog'[m].tuple = c
      PROVE  k = m
  <2>1. k + 1 = m + 1
    BY <1>1, <1>4 DEF OnePlace
  <2>. QED BY <2>1
<1>5. ASSUME OnePlace(c), NEW k \in 1 .. Len(backlog'), backlog'[k].tuple = c
      PROVE  backlog'[k].kind = "LOG_ON"
  BY <1>1, <1>5 DEF OnePlace
<1>6. ASSUME OnePlace(c), backlog[1].tuple = c
      PROVE  backlog[1].kind = "LOG_ON" /\ ~Queued(c)'
  BY <1>1, <1>6 DEF OnePlace, Queued
<1>. QED BY <1>2, <1>3, <1>4, <1>5, <1>6

LEMMA LogOnViews ==
    ASSUME Views, Live', AcceptLogOn, NEW c \in Clients
    PROVE  ViewOf(c)'
<1>. DEFINE d == backlog[1].tuple
<1>1. /\ UNCHANGED <<connected_clients, session, pc, inbox, clients, received>>
      /\ server.at = "accept" /\ backlog' = Tail(backlog)
      /\ server' = Notify("USER_ON", d, backlog[1].socket)
  BY DEF AcceptLogOn, clientVars
<1>2. ViewOf(c) /\ Types
  BY LiveWas DEF Next, Server
<1>. HIDE DEF d
<1>3. /\ ring' = ring /\ InRing(c)' = InRing(c) /\ ~Pending(c) /\ (Pending(c)' <=> c = d)
      /\ server'.next = 1 /\ server'.at = "notify" /\ server'.notice.kind = "USER_ON"
  BY <1>1 DEF InRing, Pending, Notifying, ring, Notify
<1>4. /\ Queued(c)' => Queued(c)
      /\ c = d => Queued(c)
      /\ OnePlace(c) => /\ \A k, m \in 1 .. Len(backlog') :
                               backlog'[k].tuple = c /\ backlog'[m].tuple = c => k = m
                        /\ \A k \in 1 .. Len(backlog') :
                               backlog'[k].tuple = c => backlog'[k].kind = "LOG_ON"
                        /\ c = d => ~Queued(c)'
  BY <1>1, <1>2, QueuedLess DEF d
<1>5. Unheard(c) => Unheard(c)'
  BY <1>1, <1>3, <1>4 DEF Unheard, Listed
<1>6. OnePlace(c) => OnePlace(c)'
  BY <1>3, <1>4 DEF OnePlace, SendsToFirst, Listed
<1>7. KnowsNothing(c) => KnowsNothing(c)'
  <2>1. \A i \in 1 .. Len(ring) : server'.next <= i
    BY <1>3
  <2>. QED BY <1>1, <1>3, <2>1 DEF KnowsNothing
<1>8. KnowsOthers(c) => KnowsOthers(c)'
  <2>1. ASSUME NEW t PROVE Told(c, t)' = Told(c, t)
    <3>1. Extra(c, t) = 0
      BY <1>1 DEF Extra, Notifying
    <3>2. Extra(c, t)' = 0
      BY <1>3 DEF Extra, ToldYet
    <3>3. tuples' = tuples
      BY <1>3 DEF tuples, EntryTuples
    <3>. QED BY <3>1, <3>2, <3>3, ToldIsSum
  <2>. QED BY <1>1, <1>3, <2>1 DEF KnowsOthers, Replay
<1>. QED BY <1>1, <1>2, <1>5, <1>6, <1>7, <1>8 DEF ViewOf

LEMMA LogOffViews ==
    ASSUME Views, Live', AcceptLogOff, NEW c \in Clients
    PROVE  ViewOf(c)'
<1>. DEFINE d == backlog[1].tuple
<1>1. /\ UNCHANGED <<session, pc, inbox, clients, received>>
      /\ server.at = "accept" /\ backlog' = Tail(backlog) /\ backlog[1].kind = "LOG_OFF"
  BY DEF AcceptLogOff, clientVars
<1>2. ViewOf(c) /\ Types /\ Exact(connected_clients) /\ ~absent' /\ Serving'
  BY LiveWas DEF Next, Server, Live
<1>3. PICK e \in 1 .. Len(ring) : ring[e].tuple = d /\ ring' = Removed(Len(ring), ring, e)
  BY <1>2, LoggedOff
<1>4. server' = Notify("USER_OFF", d, NoSocket)
  BY <1>2, LoggedOff
<1>5. /\ ring \in Seq(Entries) /\ Len(ring) \in Nat \ {0} /\ Len(ring') = Len(ring) - 1
      /\ \A i \in 1 .. Len(ring') : ring'[i] = IF i < e THEN ring[i] ELSE ring[i + 1]
  <2>1. ring \in Seq(Entries) /\ Len(ring) \in Nat \ {0}
    BY <1>2, RingTypes DEF Types, ServerTypes
  <2>2. Len(ring') = Len(ring) - 1
    BY <1>3, <2>1, TimesRemoved
  <2>. QED BY <1>3, <2>1, <2>2 DEF Removed
<1>6. /\ Queued(c)' => Queued(c)
      /\ c = d => Queued(c)
      /\ OnePlace(c) => /\ \A k, m \in 1 .. Len(backlog') :
                               backlog'[k].tuple = c /\ backlog'[m].tuple = c => k = m
                        /\ \A k \in 1 .. Len(backlog') :
                               backlog'[k].tuple = c => backlog'[k].kind = "LOG_ON"
                        /\ c # d
  BY <1>1, <1>2, QueuedLess
<1>. HIDE DEF d
<1>7. /\ ~Pending(c) /\ ~Pending(c)'
      /\ server'.next = 1 /\ server'.at = "notify"
      /\ server'.notice.kind = "USER_OFF" /\ server'.notice.tuple = d
  BY <1>1, <1>4 DEF Pending, Notifying, Notify
<1>. DEFINE old(i) == IF i < e THEN i ELSE i + 1
<1>8. /\ \A i \in 1 .. Len(ring') : old(i) \in 1 .. Len(ring) /\ ring'[i] = ring[old(i)]
      /\ \A i, j \in 1 .. Len(ring') : old(i) = old(j) => i = j
  BY <1>5
<1>. HIDE DEF old
<1>9. InRing(c)' => InRing(c)
  BY <1>8 DEF InRing
<1>10. Unheard(c) => Unheard(c)'
  BY <1>1, <1>6, <1>7, <1>9 DEF Unheard, Listed
<1>11. OnePlace(c) => OnePlace(c)'
  <2>1. ASSUME OnePlace(c), NEW i \in 1 .. Len(ring'), NEW j \in 1 .. Len(ring'),
               ring'[i].tuple = c, ring'[j].tuple = c
        PROVE  i = j
    BY <1>8, <2>1 DEF OnePlace
  <2>. QED BY <1>6, <1>7, <1>9, <2>1 DEF OnePlace, SendsToFirst, Listed
<1>12. OnePlace(c) => InRing(c)' = InRing(c)
  <2>1. ASSUME OnePlace(c), InRing(c) PROVE InRing(c)'
    <3>1. PICK j \in 1 .. Len(ring) : ring[j].tuple = c /\ j # e
      BY <1>3, <1>6, <2>1 DEF InRing
    <3>2. PICK k \in 1 .. Len(ring) - 1 : Removed(Len(ring), ring, e)[k] = ring[j]
      <4>1. PICK n \in Nat : n = Len(ring)
        BY <1>5
      <4>2. j \in 1 .. n \ {e} /\ e \in 1 .. n
        BY <3>1, <4>1
      <4>3. \A m \in 1 .. n \ {e} : \E k \in 1 .. n - 1 : Removed(n, ring, e)[k] = ring[m]
        BY <4>2, RemovedKeeps
      <4>. QED BY <4>1, <4>2, <4>3
    <3>. QED BY <1>3, <1>5, <3>1, <3>2 DEF InRing
  <2>2. InRing(c) \in BOOLEAN /\ InRing(c)' \in BOOLEAN
    BY DEF InRing
  <2>. QED BY <1>9, <2>1, <2>2
<1>13. OnePlace(c) /\ KnowsNothing(c) => KnowsNothing(c)'
  <2>. SUFFICES ASSUME OnePlace(c), KnowsNothing(c) PROVE KnowsNothing(c)'
    OBVIOUS
  <2>1. ASSUME NEW i \in 1 .. Len(ring'), ring'[i].tuple = c, ring'[i].socket = <<c, 1>>
        PROVE  inbox[c] = <<>> /\ server'.next <= i
    BY <1>7, <1>8, <2>1 DEF KnowsNothing
  <2>. QED BY <1>1, <1>7, <1>12, <2>1 DEF KnowsNothing
<1>14. OnePlace(c) /\ KnowsOthers(c) => KnowsOthers(c)'
  <2>. SUFFICES ASSUME OnePlace(c), KnowsOthers(c) PROVE KnowsOthers(c)'
    OBVIOUS
  <2>1. ASSUME NEW t PROVE Told(c, t)' = Told(c, t)
    <3>1. Extra(c, t) = 0
      BY <1>1 DEF Extra, Notifying
    <3>2. Extra(c, t)' = IF d = t THEN 1 ELSE 0
      BY <1>7 DEF Extra, ToldYet, Notifying
    <3>3. /\ tuples \in Seq(Clients) /\ Len(tuples) = Len(ring)
          /\ \A i \in 1 .. Len(ring) : tuples[i] = ring[i].tuple
      BY <1>2, TuplesOfRing DEF Types, ServerTypes
    <3>4. tuples' = Removed(Len(tuples), tuples, e)
      <4>1. tuples' = [i \in 1 .. Len(ring') |-> ring'[i].tuple]
        BY DEF tuples, EntryTuples
      <4>2. ASSUME NEW i \in 1 .. Len(ring')
            PROVE  ring'[i].tuple = IF i < e THEN tuples[i] ELSE tuples[i + 1]
        BY <1>5, <3>3
      <4>. QED BY <1>5, <3>3, <4>1, <4>2 DEF Removed
    <3>5. Times(tuples', t) = IF d = t THEN Times(tuples, t) - 1 ELSE Times(tuples, t)
      BY <1>3, <3>3, <3>4, TimesRemoved
    <3>6. Times(tuples, t) \in Nat
      BY <1>2, CountsAreNumbers
    <3>. QED BY <3>1, <3>2, <3>5, <3>6, ToldIsSum
  <2>. QED BY <1>1, <1>12, <2>1 DEF KnowsOthers, Replay
<1>. QED BY <1>1, <1>2, <1>10, <1>11, <1>13, <1>14 DEF ViewOf

\* The loops change the socket of one entry, so nobody's place.
LEMMA LoopsKeepPlaces ==
    ASSUME Types, NotifyNext \/ NotifySend \/ ServeGetClients, NEW c
    PROVE  \E i \in 1 .. Len(ring) :
              /\ i = AtEntry
              /\ Len(ring') = Len(ring) /\ tuples' = tuples
              /\ \A j \in 1 .. Len(ring) :
                    /\ ring'[j].tuple = ring[j].tuple
                    /\ j # i => ring'[j].socket = ring[j].socket
              /\ ring'[i].socket \notin Sockets
              /\ InRing(c)' = InRing(c) /\ Queued(c)' = Queued(c)
              /\ OnePlace(c) /\ Pending(c)' = Pending(c) /\ SendsToFirst(c)' => OnePlace(c)'
<1>1. PICK i \in 1 .. Len(ring), z \in Sockets \cup {NoSocket, Dead} :
         /\ i = AtEntry
         /\ z \in {NoSocket, Dead}
         /\ connected_clients'.size = connected_clients.size /\ Len(ring') = Len(ring)
         /\ \A j \in 1 .. Len(ring) :
               ring'[j] = [tuple |-> ring[j].tuple,
                           socket |-> IF j = i THEN z ELSE ring[j].socket]
  BY SocketsOnly
<1>2. ASSUME NEW j \in 1 .. Len(ring)
      PROVE  /\ ring'[j].tuple = ring[j].tuple
             /\ ring'[j].socket = IF j = i THEN z ELSE ring[j].socket
  <2>1. ring'[j] = [tuple |-> ring[j].tuple,
                    socket |-> IF j = i THEN z ELSE ring[j].socket]
    BY <1>1, Zenon
  <2>. QED BY <2>1
<1>3. Len(ring') = Len(ring) /\ z \notin Sockets
  BY <1>1, RegistryAssumption
<1>4. tuples' = tuples
  <2>1. tuples' = [j \in 1 .. Len(ring') |-> ring'[j].tuple]
    BY DEF tuples, EntryTuples
  <2>2. tuples = [j \in 1 .. Len(ring) |-> ring[j].tuple]
    BY DEF tuples, EntryTuples
  <2>. QED BY <1>2, <1>3, <2>1, <2>2
<1>5. backlog' = backlog
  BY DEF NotifyNext, NotifySend, ServeGetClients
<1>6. InRing(c)' = InRing(c) /\ Queued(c)' = Queued(c)
  BY <1>2, <1>3, <1>5 DEF InRing, Queued
<1>7. OnePlace(c) /\ Pending(c)' = Pending(c) /\ SendsToFirst(c)' => OnePlace(c)'
  BY <1>2, <1>3, <1>5, <1>6 DEF OnePlace, Listed
<1>8. i = AtEntry
  BY <1>1
<1>. QED BY <1>2, <1>3, <1>4, <1>6, <1>7, <1>8

\* A client that is not at the entry a loop leaves has been told what it had been.
LEMMA NobodyNew ==
    ASSUME NEW i \in 1 .. Len(ring), NEW c, ring[i].tuple # c,
           server.next - 1 = i - 1, server'.next - 1 = i,
           \A j \in 1 .. Len(ring) : ring'[j].tuple = ring[j].tuple
    PROVE  ToldYet(c)' = ToldYet(c)
<1>1. ASSUME ToldYet(c) PROVE ToldYet(c)'
  <2>1. PICK j \in 1 .. i - 1 : ring[j].tuple = c
    BY <1>1 DEF ToldYet
  <2>2. j \in 1 .. i /\ ring'[j].tuple = c
    BY <2>1
  <2>. QED BY <2>2 DEF ToldYet
<1>2. ASSUME ToldYet(c)' PROVE ToldYet(c)
  <2>1. PICK j \in 1 .. i : ring'[j].tuple = c
    BY <1>2 DEF ToldYet
  <2>2. j \in 1 .. i - 1 /\ ring[j].tuple = c
    BY <2>1
  <2>. QED BY <2>2 DEF ToldYet
<1>3. ToldYet(c) \in BOOLEAN /\ ToldYet(c)' \in BOOLEAN
  BY DEF ToldYet
<1>. QED BY <1>1, <1>2, <1>3

LEMMA NotifyNextViews ==
    ASSUME Views, Live', NotifyNext, NEW c \in Clients
    PROVE  ViewOf(c)'
<1>1. /\ UNCHANGED <<session, pc, inbox, clients, received>> /\ server.at = "notify"
      /\ Notifying
  BY DEF NotifyNext, Notifying, clientVars
<1>2. ViewOf(c) /\ Types /\ server.next \in Nat \ {0}
  BY <1>1, LiveWas, ServerAt DEF Next, Server
<1>3. PICK i \in 1 .. Len(ring) :
         /\ i = AtEntry
         /\ Len(ring') = Len(ring) /\ tuples' = tuples
         /\ \A j \in 1 .. Len(ring) :
               /\ ring'[j].tuple = ring[j].tuple
               /\ j # i => ring'[j].socket = ring[j].socket
         /\ ring'[i].socket \notin Sockets
         /\ InRing(c)' = InRing(c) /\ Queued(c)' = Queued(c)
         /\ OnePlace(c) /\ Pending(c)' = Pending(c) /\ SendsToFirst(c)' => OnePlace(c)'
  BY <1>2, LoopsKeepPlaces
<1>4. i = server.next /\ i \in Nat
  BY <1>1, <1>2, <1>3 DEF AtEntry
<1>5. PICK d \in Clients : d = ring[i].tuple
  BY <1>2, RingTypes DEF Types, ServerTypes
<1>6. /\ server'.at \in {"notify", "send"} /\ server'.notice = server.notice
      /\ server'.at = "send" => server'.next = i /\ server'.to = <<d, session[d]>>
      /\ server'.at = "notify" => server'.next = i + 1 /\ ~Alive(d)
  <2>1. server' = IF Alive(d) THEN Sending(d) ELSE GoOn
    BY <1>4, <1>5 DEF NotifyNext
  <2>. QED BY <1>1, <1>2, <1>4, <2>1, LoopTypes
<1>7. Pending(c)' = Pending(c) /\ Listed(c)' = Listed(c) /\ Notifying'
  BY <1>1, <1>3, <1>6 DEF Pending, Listed, Notifying
<1>8. c = d => InRing(c)
  BY <1>5 DEF InRing
<1>9. Unheard(c) => Unheard(c)'
  BY <1>1, <1>3, <1>7 DEF Unheard
<1>10. OnePlace(c) /\ session[c] = 1 => OnePlace(c)'
  BY <1>3, <1>5, <1>6, <1>7 DEF SendsToFirst
<1>11. KnowsNothing(c) => KnowsNothing(c)'
  <2>. SUFFICES ASSUME KnowsNothing(c) PROVE KnowsNothing(c)'
    OBVIOUS
  <2>1. ASSUME NEW j \in 1 .. Len(ring'), ring'[j].tuple = c, ring'[j].socket = <<c, 1>>
        PROVE  /\ inbox'[c] = <<>>
               /\ server'.at = "notify" => server'.next <= j
               /\ server'.at = "send" => server'.next < j
    <3>1. <<c, 1>> \in Sockets
      BY RegistryAssumption DEF Sockets
    <3>2. j \in 1 .. Len(ring) /\ j # i /\ ring[j].tuple = c /\ ring[j].socket = <<c, 1>>
      BY <1>3, <2>1, <3>1
    <3>3. inbox[c] = <<>> /\ server.next <= j
      BY <1>1, <3>2 DEF KnowsNothing
    <3>4. i < j /\ i + 1 <= j
      BY <1>4, <3>2, <3>3
    <3>. QED BY <1>1, <1>6, <3>3, <3>4
  <2>. QED BY <1>1, <1>3, <2>1 DEF KnowsNothing
<1>12. Alive(c) /\ KnowsOthers(c) => KnowsOthers(c)'
  <2>. SUFFICES ASSUME Alive(c), KnowsOthers(c), NEW t \in Tuples \ {c}
                PROVE  Replay(c, t)' = Told(c, t)'
    BY <1>3 DEF KnowsOthers
  <2>1. ToldYet(c)' = ToldYet(c)
    <3>1. CASE server'.at = "send"
      <4>1. server'.next = server.next /\ \A j \in 1 .. i - 1 : ring'[j].tuple = ring[j].tuple
        BY <1>3, <1>4, <1>6, <3>1
      <4>. QED BY <1>4, <4>1 DEF ToldYet
    <3>2. CASE server'.at = "notify"
      <4>1. c # d /\ server'.next = i + 1
        BY <1>6, <3>2
      <4>2. server.next - 1 = i - 1 /\ server'.next - 1 = i
        BY <1>4, <4>1
      <4>. QED BY <1>3, <1>5, <4>1, <4>2, NobodyNew
    <3>. QED BY <1>6, <3>1, <3>2
  <2>2. Extra(c, t)' = Extra(c, t)
    BY <1>1, <1>6, <1>7, <2>1 DEF Extra
  <2>3. Replay(c, t)' = Replay(c, t)
    BY <1>1 DEF Replay
  <2>. QED BY <1>3, <2>2, <2>3, ToldIsSum DEF KnowsOthers
<1>. QED BY <1>1, <1>2, <1>9, <1>10, <1>11, <1>12 DEF ViewOf, Alive

LEMMA NotifySendViews ==
    ASSUME Views, Live', NotifySend, NEW c \in Clients
    PROVE  ViewOf(c)'
<1>1. UNCHANGED <<session, pc, clients, received>> /\ server.at = "send" /\ Notifying
  BY DEF NotifySend, Notifying
<1>2. /\ ViewOf(c) /\ Types /\ server' # Down
      /\ server.notice \in Notices /\ server.next \in Nat \ {0}
  BY <1>1, LiveWas, ServerAt DEF Next, Server, Live, Serving
<1>3. PICK i \in 1 .. Len(ring) :
         /\ i = AtEntry
         /\ Len(ring') = Len(ring) /\ tuples' = tuples
         /\ \A j \in 1 .. Len(ring) :
               /\ ring'[j].tuple = ring[j].tuple
               /\ j # i => ring'[j].socket = ring[j].socket
         /\ ring'[i].socket \notin Sockets
         /\ InRing(c)' = InRing(c) /\ Queued(c)' = Queued(c)
         /\ OnePlace(c) /\ Pending(c)' = Pending(c) /\ SendsToFirst(c)' => OnePlace(c)'
  BY <1>2, LoopsKeepPlaces
<1>. DEFINE d == ring[i].tuple
            notice == server.notice
<1>4. /\ server'.at = "notify" /\ server'.next = i + 1 /\ server'.notice = notice
      /\ inbox' = IF Alive(d) /\ server.to = <<d, session[d]>>
                  THEN [inbox EXCEPT ![d] = Append(inbox[d], notice)] ELSE inbox
      /\ server.next = i
  <2>1. server.next = i
    BY <1>1, <1>3 DEF AtEntry
  <2>2. server' = GoOn
    BY <1>2 DEF NotifySend
  <2>3. server'.at = "notify" /\ server'.next = i + 1 /\ server'.notice = notice
    BY <1>1, <1>2, <2>1, <2>2, LoopTypes
  <2>. QED BY <2>1, <2>3 DEF NotifySend
<1>5. d \in Clients /\ inbox \in [Clients -> Seq(Notices)]
  BY <1>2, RingTypes DEF Types, ServerTypes, ClientTypes
<1>6. c # d => inbox'[c] = inbox[c]
  BY <1>4, <1>5
<1>7. c = d => InRing(c)
  BY DEF InRing
<1>8. Pending(c)' = Pending(c) /\ Listed(c)' = Listed(c)
  BY <1>1, <1>3, <1>4 DEF Pending, Listed, Notifying
<1>. HIDE DEF d, notice
<1>9. Unheard(c) => Unheard(c)'
  BY <1>1, <1>3, <1>6, <1>7, <1>8 DEF Unheard, Listed
<1>10. OnePlace(c) => OnePlace(c)'
  BY <1>3, <1>4, <1>8 DEF SendsToFirst
<1>11. OnePlace(c) /\ KnowsNothing(c) => KnowsNothing(c)'
  <2>. SUFFICES ASSUME OnePlace(c), KnowsNothing(c) PROVE KnowsNothing(c)'
    OBVIOUS
  <2>1. ASSUME NEW j \in 1 .. Len(ring'), ring'[j].tuple = c, ring'[j].socket = <<c, 1>>
        PROVE  inbox'[c] = <<>> /\ server'.next <= j /\ server'.at # "send"
    <3>1. <<c, 1>> \in Sockets
      BY RegistryAssumption DEF Sockets
    <3>2. j \in 1 .. Len(ring) /\ j # i /\ ring[j].tuple = c /\ ring[j].socket = <<c, 1>>
      BY <1>3, <2>1, <3>1
    <3>3. inbox[c] = <<>> /\ server.next < j
      BY <1>1, <3>2 DEF KnowsNothing
    <3>4. c # d
      BY <3>2 DEF OnePlace, d
    <3>. QED BY <1>3, <1>4, <1>6, <3>2, <3>3, <3>4
  <2>2. ~InRing(c)' => inbox'[c] = <<>>
    BY <1>3, <1>6, <1>7 DEF KnowsNothing
  <2>. QED BY <1>1, <2>1, <2>2 DEF KnowsNothing
<1>12. Alive(c) /\ session[c] = 1 /\ OnePlace(c) /\ KnowsOthers(c) => KnowsOthers(c)'
  <2>. SUFFICES ASSUME Alive(c), session[c] = 1, OnePlace(c), KnowsOthers(c),
                       NEW t \in Tuples \ {c}
                PROVE  Replay(c, t)' = Told(c, t)'
    BY <1>3 DEF KnowsOthers
  <2>1. Replay(c, t) = Told(c, t)
    BY DEF KnowsOthers
  <2>2. CASE c # d
    <3>1. Replay(c, t)' = Replay(c, t)
      BY <1>1, <1>6, <2>2 DEF Replay
    <3>2. ToldYet(c)' = ToldYet(c)
      <4>1. server.next - 1 = i - 1 /\ server'.next - 1 = i /\ ring[i].tuple # c
        BY <1>2, <1>3, <1>4, <2>2 DEF d
      <4>. QED BY <1>3, <4>1, NobodyNew
    <3>3. Extra(c, t)' = Extra(c, t)
      BY <1>1, <1>4, <3>2 DEF Extra, Notifying, notice
    <3>. QED BY <1>3, <2>1, <3>1, <3>3, ToldIsSum
  <2>3. CASE c = d
    <3>1. ~ToldYet(c) /\ ToldYet(c)'
      <4>1. server.next - 1 = i - 1 /\ server'.next - 1 = i
        BY <1>2, <1>3, <1>4
      <4>2. i \in 1 .. i /\ ring'[i].tuple = c
        BY <1>3, <2>3 DEF d
      <4>3. ASSUME NEW j \in 1 .. i - 1 PROVE ring[j].tuple # c
        <5>1. j \in 1 .. Len(ring) /\ j # i
          BY <1>3
        <5>. QED BY <2>3, <5>1 DEF OnePlace, d
      <4>. QED BY <4>1, <4>2, <4>3 DEF ToldYet
    <3>2. inbox'[c] = Append(inbox[c], notice)
      <4>1. server.to = <<c, session[c]>>
        BY <1>1, <1>4, <2>3 DEF OnePlace, SendsToFirst, d
      <4>. QED BY <1>4, <1>5, <2>3, <4>1
    <3>. DEFINE on == [kind |-> "USER_ON", tuple |-> t]
                off == [kind |-> "USER_OFF", tuple |-> t]
    <3>3. notice = [kind |-> notice.kind, tuple |-> notice.tuple]
          /\ notice.kind \in {"USER_ON", "USER_OFF"}
      BY <1>2 DEF Notices, notice
    <3>4. /\ notice = on <=> notice.kind = "USER_ON" /\ notice.tuple = t
          /\ notice = off <=> notice.kind = "USER_OFF" /\ notice.tuple = t
      BY <3>3
    <3>5. inbox[c] \in Seq(Notices) /\ notice \in Notices
      BY <1>2, <1>5 DEF notice
    <3>. HIDE DEF on, off
    <3>6. /\ Times(inbox'[c], on)
                = IF notice = on THEN Times(inbox[c], on) + 1 ELSE Times(inbox[c], on)
          /\ Times(inbox'[c], off)
                = IF notice = off THEN Times(inbox[c], off) + 1 ELSE Times(inbox[c], off)
      BY <3>2, <3>5, TimesAppend
    <3>7. /\ Times(clients[c].ring, t) \in Nat /\ Times(received[c], t) \in Nat
          /\ Times(inbox[c], on) \in Nat /\ Times(inbox[c], off) \in Nat /\ Times(tuples, t) \in Nat
      BY <1>2, CountsAreNumbers
    <3>8. /\ Replay(c, t) = Times(clients[c].ring, t) + Times(received[c], t)
                                + Times(inbox[c], on) - Times(inbox[c], off)
          /\ Replay(c, t)' = Times(clients[c].ring, t) + Times(received[c], t)
                                 + Times(inbox'[c], on) - Times(inbox'[c], off)
      BY <1>1 DEF Replay, on, off
    <3>9. /\ Extra(c, t) = IF notice = off THEN 1 ELSE 0
          /\ Extra(c, t)' = IF notice = on THEN 1 ELSE 0
      BY <1>1, <1>4, <3>1, <3>4 DEF Extra, Notifying, notice
    <3>10. ~(notice = on /\ notice = off)
      BY <3>4
    <3>11. /\ Told(c, t) = Times(tuples, t) + Extra(c, t)
           /\ Told(c, t)' = Times(tuples, t) + Extra(c, t)'
      BY <1>3, ToldIsSum
    <3>12. CASE notice = on
      <4>1. notice # off /\ Extra(c, t) = 0 /\ Extra(c, t)' = 1
        BY <3>9, <3>10, <3>12
      <4>2. /\ Times(inbox'[c], on) = Times(inbox[c], on) + 1
            /\ Times(inbox'[c], off) = Times(inbox[c], off)
        BY <3>6, <3>12, <4>1
      <4>3. Replay(c, t)' = Replay(c, t) + 1
        BY <3>7, <3>8, <4>2
      <4>4. Told(c, t)' = Told(c, t) + 1
        BY <3>7, <3>11, <4>1
      <4>. QED BY <2>1, <4>3, <4>4
    <3>13. CASE notice = off
      <4>1. notice # on /\ Extra(c, t) = 1 /\ Extra(c, t)' = 0
        BY <3>9, <3>10, <3>13
      <4>2. /\ Times(inbox'[c], off) = Times(inbox[c], off) + 1
            /\ Times(inbox'[c], on) = Times(inbox[c], on)
        BY <3>6, <3>13, <4>1
      <4>3. Replay(c, t)' = Replay(c, t) - 1
        BY <3>7, <3>8, <4>2
      <4>4. Told(c, t)' = Told(c, t) - 1
        BY <3>7, <3>11, <4>1
      <4>. QED BY <2>1, <4>3, <4>4
    <3>14. CASE notice # on /\ notice # off
      BY <2>1, <3>6, <3>7, <3>8, <3>9, <3>11, <3>14
    <3>. QED BY <3>12, <3>13, <3>14
  <2>. QED BY <2>2, <2>3
<1>. QED BY <1>1, <1>2, <1>9, <1>10, <1>11, <1>12 DEF ViewOf, Alive

LEMMA NotifyDoneViews ==
    ASSUME Views, Live', NotifyDone, NEW c \in Clients
    PROVE  ViewOf(c)'
<1>1. /\ UNCHANGED <<backlog, session, pc, inbox, clients, received>>
      /\ server.at = "notify" /\ Notifying /\ server.next > Len(ring)
  BY DEF NotifyDone, Notifying, clientVars
<1>2. /\ ViewOf(c) /\ Types /\ Exact(connected_clients)
      /\ server.notice \in Notices /\ server.next \in Nat \ {0}
  BY <1>1, LiveWas, ServerAt DEF Next, Server
<1>. DEFINE d == server.notice.tuple
            e == [tuple |-> d, socket |-> server.socket]
<1>3. /\ server' = Serve(1)
      /\ connected_clients' = IF server.notice.kind = "USER_OFF" THEN connected_clients
                              ELSE list_rpush(connected_clients, e)
  BY <1>2, NotifyDoneKeepsExact
<1>4. server'.at = "serve" /\ ~Notifying' /\ ~Pending(c)' /\ (Queued(c)' <=> Queued(c))
  BY <1>1, <1>3 DEF Serve, Pending, Notifying, Queued
<1>5. /\ ring \in Seq(Entries) /\ Len(ring) \in Nat
      /\ tuples \in Seq(Clients) /\ Len(tuples) = Len(ring)
      /\ \A i \in 1 .. Len(ring) : tuples[i] = ring[i].tuple
  BY <1>2, RingTypes, TuplesOfRing DEF Types, ServerTypes
<1>6. InRing(c) => ToldYet(c)
  <2>1. 1 .. Len(ring) \subseteq 1 .. server.next - 1
    BY <1>1, <1>2, <1>5
  <2>. QED BY <2>1 DEF InRing, ToldYet
<1>7. \A t : Extra(c, t)' = 0
  BY <1>4 DEF Extra
<1>8. CASE server.notice.kind = "USER_OFF"
  <2>1. ring' = ring /\ ~Pending(c) /\ InRing(c)' = InRing(c) /\ tuples' = tuples
    BY <1>3, <1>8 DEF Pending, InRing, ring, tuples, EntryTuples
  <2>2. Listed(c)' = Listed(c)
    BY <1>4, <2>1 DEF Listed, InRing, Pending
  <2>3. OnePlace(c) => OnePlace(c)'
    BY <1>1, <1>4, <2>1, <2>2 DEF OnePlace, SendsToFirst
  <2>4. KnowsNothing(c) => KnowsNothing(c)'
    BY <1>1, <1>4, <2>1 DEF KnowsNothing
  <2>5. KnowsOthers(c) => KnowsOthers(c)'
    <3>. SUFFICES ASSUME KnowsOthers(c), NEW t \in Tuples \ {c} PROVE Replay(c, t)' = Told(c, t)'
      BY <2>1 DEF KnowsOthers
    <3>1. Extra(c, t) = 0
      BY <1>6, <1>8 DEF Extra, KnowsOthers
    <3>2. Told(c, t)' = Told(c, t)
      BY <1>7, <2>1, <3>1, ToldIsSum
    <3>3. Replay(c, t)' = Replay(c, t)
      BY <1>1 DEF Replay
    <3>. QED BY <3>2, <3>3 DEF KnowsOthers
  <2>6. Unheard(c) => Unheard(c)'
    BY <1>1, <1>4, <2>2 DEF Unheard
  <2>. QED BY <1>1, <1>2, <2>3, <2>4, <2>5, <2>6 DEF ViewOf
<1>9. CASE server.notice.kind # "USER_OFF"
  <2>1. server.notice.kind = "USER_ON" /\ (Pending(c) <=> c = d) /\ e \in Entries
    <3>1. /\ server.notice.kind = "USER_ON" /\ d \in Clients
          /\ server.notice = [kind |-> "USER_ON", tuple |-> d]
      BY <1>2, <1>9 DEF Notices
    <3>2. Pending(c) <=> c = d
      BY <1>1, <3>1 DEF Pending
    <3>3. server.socket \in Sockets \cup {NoSocket}
      BY <1>1, <1>2 DEF Types, ServerTypes, ServerStates
    <3>. QED BY <3>1, <3>2, <3>3 DEF Entries
  <2>2. e.tuple = d
    OBVIOUS
  <2>3. ring' = Append(ring, e)
    BY <1>3, <1>9 DEF list_rpush, ring
  <2>. HIDE DEF d, e
  <2>4. PICK n \in Nat : n = Len(ring)
    BY <1>5
  <2>5. /\ Len(ring') = n + 1 /\ ring'[n + 1] = e /\ n + 1 \in 1 .. n + 1
        /\ \A i \in 1 .. n : ring'[i] = ring[i]
    BY <1>5, <2>1, <2>3, <2>4, AppendProperties
  <2>6. ASSUME NEW i \in 1 .. Len(ring'), ring'[i].tuple = c
        PROVE  IF i = n + 1 THEN c = d
               ELSE i \in 1 .. Len(ring) /\ ring[i].tuple = c /\ ring'[i] = ring[i]
    <3>1. CASE i = n + 1
      BY <2>2, <2>5, <2>6, <3>1
    <3>2. CASE i # n + 1
      <4>1. i \in 1 .. n
        BY <2>5, <3>2
      <4>. QED BY <2>4, <2>5, <2>6, <3>2, <4>1
    <3>. QED BY <3>1, <3>2
  <2>7. InRing(c)' <=> InRing(c) \/ c = d
    <3>1. InRing(c) => InRing(c)'
      BY <2>4, <2>5 DEF InRing
    <3>2. c = d => InRing(c)'
      BY <2>2, <2>5 DEF InRing
    <3>3. InRing(c)' => InRing(c) \/ c = d
      BY <2>6 DEF InRing
    <3>. QED BY <3>1, <3>2, <3>3
  <2>8. Unheard(c) => Unheard(c)'
    BY <1>1, <1>4, <2>1, <2>7 DEF Unheard, Listed
  <2>9. OnePlace(c) => OnePlace(c)'
    <3>. SUFFICES ASSUME OnePlace(c) PROVE OnePlace(c)'
      OBVIOUS
    <3>1. ASSUME NEW i \in 1 .. Len(ring'), NEW j \in 1 .. Len(ring'),
                 ring'[i].tuple = c, ring'[j].tuple = c
          PROVE  i = j
      <4>1. CASE c = d
        <5>1. ~InRing(c)
          BY <2>1, <4>1 DEF OnePlace
        <5>2. i = n + 1 /\ j = n + 1
          BY <2>6, <3>1, <5>1 DEF InRing
        <5>. QED BY <5>2
      <4>2. CASE c # d
        <5>1. i \in 1 .. Len(ring) /\ ring[i].tuple = c /\ j \in 1 .. Len(ring) /\ ring[j].tuple = c
          BY <2>6, <3>1, <4>2
        <5>. QED BY <5>1 DEF OnePlace
      <4>. QED BY <4>1, <4>2
    <3>2. Queued(c)' => ~Listed(c)'
      BY <1>4, <2>1, <2>7 DEF OnePlace, Listed
    <3>3. Pending(c)' => ~InRing(c)'
      BY <1>4
    <3>. QED BY <1>1, <1>4, <3>1, <3>2, <3>3 DEF OnePlace, SendsToFirst
  <2>10. OnePlace(c) /\ KnowsNothing(c) => KnowsNothing(c)'
    <3>. SUFFICES ASSUME OnePlace(c), KnowsNothing(c) PROVE KnowsNothing(c)'
      OBVIOUS
    <3>1. ASSUME NEW i \in 1 .. Len(ring'), ring'[i].tuple = c, ring'[i].socket = <<c, 1>>
          PROVE  inbox[c] = <<>>
      <4>1. CASE i = n + 1
        <5>1. Pending(c)
          BY <2>1, <2>6, <3>1, <4>1
        <5>. QED BY <5>1 DEF OnePlace, KnowsNothing
      <4>2. CASE i # n + 1
        <5>1. i \in 1 .. Len(ring) /\ ring[i].tuple = c /\ ring[i].socket = <<c, 1>>
          BY <2>6, <3>1, <4>2
        <5>. QED BY <5>1 DEF KnowsNothing
      <4>. QED BY <4>1, <4>2
    <3>. QED BY <1>1, <1>4, <2>7, <3>1 DEF KnowsNothing
  <2>11. OnePlace(c) /\ KnowsOthers(c) => KnowsOthers(c)'
    <3>. SUFFICES ASSUME OnePlace(c), KnowsOthers(c), NEW t \in Tuples \ {c}
                  PROVE  Replay(c, t)' = Told(c, t)'
      BY <2>7 DEF KnowsOthers
    <3>1. Extra(c, t) = IF d = t THEN 1 ELSE 0
      BY <1>1, <1>6, <2>1 DEF Extra, KnowsOthers, d
    <3>2. tuples' = Append(tuples, d)
      <4>1. tuples' = [i \in 1 .. Len(ring') |-> ring'[i].tuple]
        BY DEF tuples, EntryTuples
      <4>2. d \in Clients
        BY <2>1, <2>2 DEF Entries
      <4>3. tuples' = Pushed(n, tuples, d)
        BY <1>5, <2>2, <2>4, <2>5, <4>1 DEF Pushed
      <4>4. tuples \in [1 .. n -> Clients]
        BY <1>5, <2>4
      <4>. QED BY <4>2, <4>3, <4>4, PushedIsAppend
    <3>3. Times(tuples', t) = IF d = t THEN Times(tuples, t) + 1 ELSE Times(tuples, t)
      <4>1. d \in Clients
        BY <2>1, <2>2 DEF Entries
      <4>. QED BY <1>5, <3>2, <4>1, TimesAppend
    <3>4. Times(tuples, t) \in Nat
      BY <1>2, CountsAreNumbers
    <3>5. Told(c, t)' = Told(c, t)
      BY <1>7, <3>1, <3>3, <3>4, ToldIsSum
    <3>6. Replay(c, t)' = Replay(c, t)
      BY <1>1 DEF Replay
    <3>. QED BY <3>5, <3>6 DEF KnowsOthers
  <2>. QED BY <1>1, <1>2, <2>8, <2>9, <2>10, <2>11 DEF ViewOf
<1>. QED BY <1>8, <1>9

LEMMA ServeViews ==
    ASSUME Views, Live', ServeGetClients, NEW c \in Clients
    PROVE  ViewOf(c)'
<1>1. /\ UNCHANGED <<backlog, session, inbox, clients>>
      /\ server.at = "serve" /\ ~Notifying /\ ToServe # {}
  BY DEF ServeGetClients, Notifying
<1>2. /\ ViewOf(c) /\ Types /\ Exact(connected_clients) /\ server' # Down
      /\ ListOK(connected_clients, Entries)
  BY LiveWas DEF Next, Server, Live, Serving, Types, ServerTypes
<1>3. PICK i \in 1 .. Len(ring) :
         /\ i = Min(ToServe)
         /\ Len(ring') = Len(ring) /\ tuples' = tuples
         /\ \A j \in 1 .. Len(ring) :
               /\ ring'[j].tuple = ring[j].tuple
               /\ j # i => ring'[j].socket = ring[j].socket
         /\ ring'[i].socket \notin Sockets
         /\ InRing(c)' = InRing(c) /\ Queued(c)' = Queued(c)
         /\ OnePlace(c) /\ Pending(c)' = Pending(c) /\ SendsToFirst(c)' => OnePlace(c)'
  <2>1. AtEntry = Min(ToServe)
    BY <1>1 DEF AtEntry
  <2>. QED BY <1>2, <2>1, LoopsKeepPlaces
<1>. DEFINE d == ring[i].tuple
            reads == pc[d] = "wait" /\ ring[i].socket = <<d, session[d]>>
<1>4. /\ d \in Clients /\ server' = Serve(i + 1)
      /\ IF reads
         THEN /\ pc' = [pc EXCEPT ![d] = "load"]
              /\ received' = [received EXCEPT ![d] = ClientList(d)]
         ELSE UNCHANGED <<pc, received>>
  BY <1>2, <1>3, RingTypes DEF ServeGetClients
<1>5. /\ pc \in [Clients -> {"off", "wait", "load", "run", "stuck", "segv"}]
      /\ DOMAIN received = Clients
  BY <1>2 DEF Types, ClientTypes
<1>6. /\ server'.at = "serve" /\ ~Pending(c) /\ ~Pending(c)' /\ Listed(c)' = Listed(c)
      /\ OnePlace(c) => OnePlace(c)'
  BY <1>1, <1>3, <1>4 DEF Serve, Pending, Notifying, SendsToFirst, Listed
<1>7. \A t : Extra(c, t) = 0 /\ Extra(c, t)' = 0
  BY <1>1, <1>6 DEF Extra, Notifying
<1>8. \A t : Told(c, t) = Times(tuples, t) /\ Told(c, t)' = Times(tuples, t)
  <2>1. \A t : Times(tuples, t) \in Nat
    BY <1>2, CountsAreNumbers
  <2>. QED BY <1>3, <1>7, <2>1, ToldIsSum
<1>9. CASE ~(reads /\ c = d)
  <2>1. pc'[c] = pc[c] /\ received'[c] = received[c]
    BY <1>4, <1>5, <1>9
  <2>2. KnowsNothing(c) => KnowsNothing(c)'
    <3>. SUFFICES ASSUME KnowsNothing(c) PROVE KnowsNothing(c)'
      OBVIOUS
    <3>1. ASSUME NEW j \in 1 .. Len(ring'), ring'[j].tuple = c, ring'[j].socket = <<c, 1>>
          PROVE  inbox[c] = <<>>
      <4>1. <<c, 1>> \in Sockets
        BY RegistryAssumption DEF Sockets
      <4>2. j \in 1 .. Len(ring) /\ j # i /\ ring[j].tuple = c /\ ring[j].socket = <<c, 1>>
        BY <1>3, <3>1, <4>1
      <4>. QED BY <4>2 DEF KnowsNothing
    <3>. QED BY <1>1, <1>3, <1>6, <2>1, <3>1 DEF KnowsNothing
  <2>. QED BY <1>1, <1>2, <1>3, <1>6, <1>8, <2>1, <2>2, SameView
<1>10. CASE reads /\ c = d
  <2>1. /\ pc[c] = "wait" /\ pc'[c] = "load" /\ received'[c] = ClientList(c)
        /\ ring[i].tuple = c /\ ring[i].socket = <<c, session[c]>>
    BY <1>4, <1>5, <1>10
  <2>. HIDE DEF d, reads
  <2>2. session[c] # 0
    BY <1>2, <2>1 DEF ViewOf, Unheard
  <2>3. SUFFICES ASSUME session[c] = 1 PROVE OnePlace(c)' /\ KnowsOthers(c)'
    BY <1>1, <2>1, <2>2 DEF ViewOf
  <2>4. OnePlace(c) /\ KnowsNothing(c)
    BY <1>2, <2>1, <2>3 DEF ViewOf
  <2>5. inbox[c] = <<>> /\ clients[c].ring = <<>>
    BY <2>1, <2>3, <2>4 DEF KnowsNothing, list_create
  <2>6. InRing(c)'
    BY <1>3, <2>1 DEF InRing
  <2>7. ASSUME NEW t \in Tuples \ {c} PROVE Replay(c, t)' = Told(c, t)'
    <3>1. Times(ClientList(c), t) = Times(tuples, t)
      <4>1. \A k \in 1 .. Len(ring) : ring[k].tuple = c => k = i
        BY <2>1, <2>4 DEF OnePlace
      <4>2. \A u : u # c => Times(ClientList(c), u) = Times(tuples, u)
        BY <1>2, <2>1, <4>1, AnswerIsOthers
      <4>. QED BY <4>2
    <3>2. Replay(c, t)' = Times(<<>>, t) + Times(ClientList(c), t)
             + Times(<<>>, [kind |-> "USER_ON", tuple |-> t])
             - Times(<<>>, [kind |-> "USER_OFF", tuple |-> t])
      BY <1>1, <2>1, <2>5 DEF Replay
    <3>3. Times(tuples, t) \in Nat
      BY <1>2, CountsAreNumbers
    <3>. QED BY <1>8, <3>1, <3>2, <3>3, TimesNone
  <2>. QED BY <1>6, <2>4, <2>6, <2>7 DEF KnowsOthers
<1>. QED BY <1>9, <1>10

-----------------------------------------------------------------------------
(* The clients' steps. *)

LEMMA PlacesStay ==
    ASSUME NEW d, StepOfClient(d)
    PROVE  /\ ring' = ring /\ tuples' = tuples
           /\ \A c : /\ InRing(c)' = InRing(c) /\ Pending(c)' = Pending(c) /\ Listed(c)' = Listed(c)
                     /\ SendsToFirst(c)' = SendsToFirst(c)
                     /\ \A t : Told(c, t)' = Told(c, t)
<1>1. UNCHANGED <<connected_clients, server>>
  BY ServerStays
<1>2. ring' = ring /\ EntryTuples' = EntryTuples
  BY <1>1 DEF ring, EntryTuples
<1>. QED BY <1>1, <1>2 DEF tuples, InRing, Pending, Listed, SendsToFirst, Notifying, Told

LEMMA OthersStay ==
    ASSUME Types, NEW d \in Clients, StepOfClient(d), NEW c \in Clients \ {d}
    PROVE  /\ session'[c] = session[c] /\ pc'[c] = pc[c] /\ inbox'[c] = inbox[c]
           /\ clients'[c] = clients[c] /\ received'[c] = received[c]
<1>1. /\ DOMAIN session = Clients /\ DOMAIN pc = Clients /\ DOMAIN inbox = Clients
      /\ DOMAIN clients = Clients /\ DOMAIN received = Clients
  BY DEF Types, ClientTypes, CountTypes
<1>2. CASE Start(d)
  BY <1>1, <1>2 DEF Start
<1>3. CASE LogOut(d) \/ Crash(d) \/ Segfault(d)
  BY <1>1, <1>3 DEF LogOut, Crash, Segfault, Exit
<1>4. CASE ServerGone(d) \/ AddClient(d) \/ StartThreads(d) \/ PushOn(d) \/ Worker(d)
  BY <1>1, <1>4 DEF ServerGone, AddClient, StartThreads, PushOn, Worker, Work, PushFiles, ComeBack
<1>5. CASE UserOn(d) \/ UserOff(d)
  BY <1>1, <1>5 DEF UserOn, UserOff, Reads, MainBlocks
<1>. QED BY <1>2, <1>3, <1>4, <1>5 DEF StepOfClient, Main

\* What is queued after a client's step: what was, and perhaps requests of its own.
LEMMA BacklogGrows ==
    ASSUME Types, NEW d \in Clients, StepOfClient(d)
    PROVE  /\ Len(backlog) \in Nat /\ Len(backlog') \in Nat /\ Len(backlog') >= Len(backlog)
           /\ \A k \in 1 .. Len(backlog) : backlog'[k] = backlog[k]
           /\ \A k \in Len(backlog) + 1 .. Len(backlog') : backlog'[k].tuple = d
           /\ Start(d) => /\ Len(backlog') = Len(backlog) + 1
                          /\ backlog'[Len(backlog) + 1].kind = "LOG_ON"
<1>1. backlog \in Seq(Requests) /\ Len(backlog) \in Nat
  BY LenProperties DEF Types, ServerTypes
<1>2. PICK n \in Nat : n = Len(backlog)
  BY <1>1
<1>3. CASE UNCHANGED backlog /\ ~Start(d)
  BY <1>1, <1>3
<1>4. ASSUME NEW r, backlog' = Append(backlog, r)
      PROVE  /\ Len(backlog') = n + 1 /\ backlog'[n + 1] = r
             /\ \A k \in 1 .. n : backlog'[k] = backlog[k]
  <2>1. backlog \in Seq(Requests \cup {r}) /\ r \in Requests \cup {r}
    BY <1>1
  <2>2. /\ Len(Append(backlog, r)) = Len(backlog) + 1
        /\ Append(backlog, r)[Len(backlog) + 1] = r
        /\ \A k \in 1 .. Len(backlog) : Append(backlog, r)[k] = backlog[k]
    BY <2>1, AppendProperties
  <2>. QED BY <1>2, <1>4, <2>2
<1>5. CASE Start(d)
  <2>1. PICK r : r = [kind |-> "LOG_ON", tuple |-> d, socket |-> <<d, session'[d]>>]
    OBVIOUS
  <2>2. r.tuple = d /\ r.kind = "LOG_ON" /\ backlog' = Append(backlog, r)
    BY <1>5, <2>1 DEF Start
  <2>. QED BY <1>2, <1>4, <2>2
<1>6. CASE LogOut(d) /\ ~Start(d)
  <2>1. PICK r : r = [kind |-> "LOG_OFF", tuple |-> d, socket |-> NoSocket]
    OBVIOUS
  <2>2. r.tuple = d /\ r \in Requests
    BY <2>1 DEF Requests
  <2>3. backlog' \in {backlog, Append(backlog, r), backlog \o <<r, r>>}
    BY <1>6, <2>1 DEF LogOut
  <2>4. CASE backlog' = Append(backlog, r)
    BY <1>2, <1>4, <1>6, <2>2, <2>4
  <2>5. CASE backlog' = backlog \o <<r, r>>
    <3>1. <<r, r>> \in Seq(Requests) /\ Len(<<r, r>>) = 2
      BY <2>2
    <3>2. /\ Len(backlog') = n + 2
          /\ \A k \in 1 .. n + 2 : backlog'[k] = IF k <= n THEN backlog[k] ELSE <<r, r>>[k - n]
      BY <1>1, <1>2, <2>5, <3>1, ConcatProperties
    <3>3. ASSUME NEW k \in n + 1 .. n + 2 PROVE backlog'[k] = r
      <4>1. k \in 1 .. n + 2 /\ ~(k <= n) /\ k - n \in 1 .. 2
        OBVIOUS
      <4>2. <<r, r>>[k - n] = r
        BY <4>1
      <4>. QED BY <3>2, <4>1, <4>2
    <3>. QED BY <1>2, <1>6, <2>2, <3>2, <3>3
  <2>6. CASE backlog' = backlog
    BY <1>1, <1>6, <2>6
  <2>. QED BY <2>3, <2>4, <2>5, <2>6
<1>7. UNCHANGED backlog \/ Start(d) \/ LogOut(d)
  BY DEF StepOfClient, Main, Worker, Work, PushFiles, ComeBack, Crash, Exit, ServerGone, AddClient,
         StartThreads, PushOn, UserOn, UserOff, Segfault, Reads, serverVars
<1>. QED BY <1>3, <1>5, <1>6, <1>7

LEMMA OthersViews ==
    ASSUME Types, NEW d \in Clients, StepOfClient(d), NEW c \in Clients \ {d}, ViewOf(c)
    PROVE  ViewOf(c)'
<1>1. PICK n \in Nat, m \in Nat : n = Len(backlog) /\ m = Len(backlog') /\ m >= n
  BY BacklogGrows
<1>2. /\ \A k \in 1 .. n : backlog'[k] = backlog[k]
      /\ \A k \in n + 1 .. m : backlog'[k].tuple = d
  BY <1>1, BacklogGrows
<1>3. ASSUME NEW k \in 1 .. m, backlog'[k].tuple = c
      PROVE  k \in 1 .. n /\ backlog'[k] = backlog[k]
  <2>1. k \in 1 .. n
    BY <1>1, <1>2, <1>3
  <2>. QED BY <1>2, <2>1
<1>4. Queued(c)' = Queued(c)
  <2>1. Queued(c)' => Queued(c)
    BY <1>1, <1>3 DEF Queued
  <2>2. Queued(c) => Queued(c)'
    BY <1>1, <1>2 DEF Queued
  <2>3. Queued(c) \in BOOLEAN /\ Queued(c)' \in BOOLEAN
    BY DEF Queued
  <2>. QED BY <2>1, <2>2, <2>3
<1>5. OnePlace(c) => OnePlace(c)'
  BY <1>1, <1>3, <1>4, PlacesStay DEF OnePlace
<1>6. KnowsNothing(c) => KnowsNothing(c)'
  BY OthersStay, PlacesStay, ServerStays DEF KnowsNothing
<1>. QED BY <1>4, <1>5, <1>6, OthersStay, PlacesStay, SameView

\* A client that was never started runs nothing.
LEMMA RunsSinceStart ==
    ASSUME NEW c \in Clients, ViewOf(c), pc[c] # "off"
    PROVE  session[c] # 0
BY DEF ViewOf, Unheard

\* Once a client has stopped or hangs, there is nothing to say of its first process.
LEMMA StoppedViews ==
    ASSUME NEW c \in Clients, ViewOf(c), pc[c] # "off",
           session'[c] = session[c], pc'[c] \in {"off", "segv", "stuck"}
    PROVE  ViewOf(c)'
BY RunsSinceStart DEF ViewOf

LEMMA StartViews ==
    ASSUME Types, NEW c \in Clients, ViewOf(c), Start(c)
    PROVE  ViewOf(c)'
<1>1. /\ session[c] \in Nat /\ session'[c] = session[c] + 1 /\ pc'[c] = "wait"
      /\ UNCHANGED <<inbox, clients, received>>
  BY DEF Types, CountTypes, ClientTypes, Start
<1>2. SUFFICES ASSUME session[c] = 0 PROVE OnePlace(c)' /\ KnowsNothing(c)'
  BY <1>1 DEF ViewOf
<1>3. Unheard(c) /\ StepOfClient(c)
  BY <1>2 DEF ViewOf, StepOfClient
<1>4. ~Listed(c)' /\ ~InRing(c)' /\ ~Pending(c)'
  BY <1>3, PlacesStay DEF Unheard, Listed
<1>5. PICK n \in Nat : n = Len(backlog)
  BY <1>3, BacklogGrows
<1>6. /\ Len(backlog') = n + 1 /\ backlog'[n + 1].kind = "LOG_ON"
      /\ \A k \in 1 .. n : backlog'[k] = backlog[k] /\ backlog[k].tuple # c
  BY <1>3, <1>5, BacklogGrows DEF Unheard, Queued
<1>7. ASSUME NEW k \in 1 .. n + 1, backlog'[k].tuple = c PROVE k = n + 1
  BY <1>6, <1>7
<1>8. SendsToFirst(c)'
  <2>1. SendsToFirst(c)
    <3>1. server.at = "send" => server.next \in 1 .. Len(ring)
      BY LoopTypes, RingTypes DEF Types, ServerTypes
    <3>. QED BY <1>3, <3>1 DEF SendsToFirst, Unheard, Listed, InRing
  <2>. QED BY <1>3, <2>1, PlacesStay
<1>9. OnePlace(c)'
  BY <1>4, <1>6, <1>7, <1>8 DEF OnePlace, InRing
<1>10. KnowsNothing(c)'
  BY <1>1, <1>3, <1>4 DEF KnowsNothing, Unheard, InRing
<1>. QED BY <1>9, <1>10

\* A client that runs on knows what it knew, when the counts come out the same,
\* or lost its list.
LEMMA RunningViews ==
    ASSUME NEW c \in Clients, ViewOf(c), StepOfClient(c), UNCHANGED <<backlog, session>>,
           pc[c] \in {"load", "run"}, pc'[c] \in {"load", "run"},
           ~Lost(clients'[c]) =>
               ~Lost(clients[c]) /\ \A t \in Tuples : Replay(c, t)' = Replay(c, t)
    PROVE  ViewOf(c)'
<1>1. OnePlace(c) => OnePlace(c)'
  BY PlacesStay DEF OnePlace, Queued
<1>2. ~Lost(clients'[c]) /\ KnowsOthers(c) => KnowsOthers(c)'
  BY PlacesStay DEF KnowsOthers
<1>. QED BY <1>1, <1>2, RunsSinceStart DEF ViewOf

\* A step that leaves alone all that the views are about.
LEMMA ApartViews ==
    ASSUME NEW c \in Clients, ViewOf(c), StepOfClient(c),
           UNCHANGED <<backlog, session, pc, inbox, clients, received>>
    PROVE  ViewOf(c)'
<1>1. Queued(c)' = Queued(c)
  BY DEF Queued
<1>2. OnePlace(c) => OnePlace(c)'
  BY <1>1, PlacesStay DEF OnePlace
<1>3. KnowsNothing(c) => KnowsNothing(c)'
  BY PlacesStay, ServerStays DEF KnowsNothing
<1>. QED BY <1>1, <1>2, <1>3, PlacesStay, SameView

\* Main takes the next client of the answer into its list.
LEMMA AddClientCounts ==
    ASSUME Types, NEW c \in Clients, AddClient(c), NEW t
    PROVE  Replay(c, t)' = Replay(c, t)
<1>1. /\ received[c] \in Seq(Tuples) /\ received[c] # <<>>
      /\ clients[c].ring \in Seq(Tuples) /\ inbox' = inbox
  BY DEF Types, ClientTypes, ListOK, AddClient
<1>2. PICK x : x = Head(received[c])
  OBVIOUS
<1>3. clients'[c].ring = Append(clients[c].ring, x) /\ received'[c] = Tail(received[c])
  BY <1>2 DEF Types, ClientTypes, AddClient, list_rpush
<1>4. /\ x \in Tuples
      /\ Times(received'[c], t)
            = IF x = t THEN Times(received[c], t) - 1 ELSE Times(received[c], t)
  BY <1>1, <1>2, <1>3, TimesTail
<1>5. Times(clients'[c].ring, t)
         = IF x = t THEN Times(clients[c].ring, t) + 1 ELSE Times(clients[c].ring, t)
  BY <1>1, <1>3, <1>4, TimesAppend
<1>6. Times(received[c], t) \in Nat /\ Times(clients[c].ring, t) \in Nat
  BY CountsAreNumbers
<1>7. Times(clients'[c].ring, t) + Times(received'[c], t)
         = Times(clients[c].ring, t) + Times(received[c], t)
  BY <1>4, <1>5, <1>6
<1>. QED BY <1>1, <1>7 DEF Replay

\* Main takes a notice, and does to its list what the notice says.
LEMMA NoticeCounts ==
    ASSUME Types, NEW c \in Clients, NEW kind \in {"USER_ON", "USER_OFF"}, Reads(c, kind), NEW t,
           NEW x, x = Head(inbox[c]).tuple,
           Times(clients'[c].ring, t)
              = IF x # t THEN Times(clients[c].ring, t)
                ELSE IF kind = "USER_ON" THEN Times(clients[c].ring, t) + 1
                ELSE Times(clients[c].ring, t) - 1
    PROVE  Replay(c, t)' = Replay(c, t)
<1>. DEFINE on == [kind |-> "USER_ON", tuple |-> t]
            off == [kind |-> "USER_OFF", tuple |-> t]
            head == Head(inbox[c])
<1>1. /\ inbox[c] \in Seq(Notices) /\ inbox[c] # <<>> /\ head.kind = kind
      /\ inbox'[c] = Tail(inbox[c]) /\ received' = received
  BY DEF Types, ClientTypes, Reads
<1>2. head \in Notices /\ head = [kind |-> kind, tuple |-> x]
  <2>1. head \in Notices
    BY <1>1, TimesTail
  <2>. QED BY <1>1, <2>1 DEF Notices
<1>3. /\ head = on <=> kind = "USER_ON" /\ x = t
      /\ head = off <=> kind = "USER_OFF" /\ x = t
  BY <1>2
<1>. HIDE DEF on, off, head
<1>4. \A y : Times(inbox'[c], y) = IF head = y THEN Times(inbox[c], y) - 1 ELSE Times(inbox[c], y)
  BY <1>1, TimesTail DEF head
<1>5. /\ Times(clients[c].ring, t) \in Nat /\ Times(received[c], t) \in Nat
      /\ Times(inbox[c], on) \in Nat /\ Times(inbox[c], off) \in Nat
  BY CountsAreNumbers
<1>6. /\ Replay(c, t) = Times(clients[c].ring, t) + Times(received[c], t)
                            + Times(inbox[c], on) - Times(inbox[c], off)
      /\ Replay(c, t)' = Times(clients'[c].ring, t) + Times(received[c], t)
                             + Times(inbox'[c], on) - Times(inbox'[c], off)
  BY <1>1 DEF Replay, on, off
<1>7. CASE x # t
  <2>1. Times(inbox'[c], on) = Times(inbox[c], on) /\ Times(inbox'[c], off) = Times(inbox[c], off)
    BY <1>3, <1>4, <1>7
  <2>. QED BY <1>6, <1>7, <2>1
<1>8. CASE x = t /\ kind = "USER_ON"
  <2>1. /\ Times(inbox'[c], on) = Times(inbox[c], on) - 1
        /\ Times(inbox'[c], off) = Times(inbox[c], off)
    BY <1>3, <1>4, <1>8
  <2>2. Times(clients'[c].ring, t) = Times(clients[c].ring, t) + 1
    BY <1>8
  <2>. QED BY <1>5, <1>6, <2>1, <2>2
<1>9. CASE x = t /\ kind = "USER_OFF"
  <2>1. /\ Times(inbox'[c], on) = Times(inbox[c], on)
        /\ Times(inbox'[c], off) = Times(inbox[c], off) - 1
    BY <1>3, <1>4, <1>9
  <2>2. Times(clients'[c].ring, t) = Times(clients[c].ring, t) - 1
    BY <1>9
  <2>. QED BY <1>5, <1>6, <2>1, <2>2
<1>. QED BY <1>7, <1>8, <1>9

LEMMA UserOnCounts ==
    ASSUME Types, NEW c \in Clients, UserOn(c), ~leaked[c], NEW t
    PROVE  Replay(c, t)' = Replay(c, t)
<1>1. PICK x : x = Head(inbox[c]).tuple
  OBVIOUS
<1>2. x \in Tuples /\ Reads(c, "USER_ON") /\ clients[c].ring \in Seq(Tuples)
  BY <1>1, ReadsTypes DEF Types, ClientTypes, ListOK, UserOn
<1>3. clients'[c].ring = Append(clients[c].ring, x)
  BY <1>1 DEF Types, ClientTypes, UserOn, list_rpush
<1>4. Times(clients'[c].ring, t)
         = IF x = t THEN Times(clients[c].ring, t) + 1 ELSE Times(clients[c].ring, t)
  BY <1>2, <1>3, TimesAppend
<1>. QED BY <1>1, <1>2, <1>4, NoticeCounts

LEMMA UserOffCounts ==
    ASSUME Types, NEW c \in Clients, Exact(clients[c]), UserOff(c),
           ~leaked[c], clients[c].ring # <<>>, ~Lost(clients'[c]), NEW t
    PROVE  Replay(c, t)' = Replay(c, t)
<1>1. PICK x : x = Head(inbox[c]).tuple
  OBVIOUS
<1>2. /\ Reads(c, "USER_OFF") /\ ListOK(clients[c], Tuples)
      /\ clients[c].ring \in Seq(Tuples) /\ DOMAIN clients = Clients
  BY DEF Types, ClientTypes, ListOK, UserOff
<1>3. PICK l \in list_remove(clients[c], x, FreedNext) :
         Present(clients[c].ring, x) /\ clients' = [clients EXCEPT ![c] = l]
  BY <1>1 DEF UserOff
<1>4. LostOne(clients[c], clients'[c], x)
  <2>1. LostOne(clients[c], l, x)
    <3>1. ~Lost(l)
      BY <1>2, <1>3
    <3>. QED BY <1>2, <1>3, <3>1, RemoveExact
  <2>. QED BY <1>2, <1>3, <2>1
<1>5. PICK i \in 1 .. Len(clients[c].ring) :
         /\ clients[c].ring[i] = x
         /\ clients'[c].ring = Removed(Len(clients[c].ring), clients[c].ring, i)
  BY <1>4 DEF LostOne
<1>6. Times(clients'[c].ring, t)
         = IF x = t THEN Times(clients[c].ring, t) - 1 ELSE Times(clients[c].ring, t)
  BY <1>2, <1>5, TimesRemoved
<1>. QED BY <1>1, <1>2, <1>6, NoticeCounts

LEMMA OwnViews ==
    ASSUME Types, server # Down, NEW c \in Clients, ViewOf(c), ClientExact(c), StepOfClient(c)
    PROVE  ViewOf(c)'
<1>1. pc \in [Clients -> {"off", "wait", "load", "run", "stuck", "segv"}]
  BY DEF Types, ClientTypes
<1>2. CASE Start(c)
  BY <1>2, StartViews
<1>3. CASE Segfault(c) \/ LogOut(c) \/ Crash(c)
  <2>1. pc[c] # "off" /\ session' = session /\ pc'[c] \in {"off", "segv"}
    BY <1>1, <1>3 DEF Segfault, LogOut, Crash, Exit, Started, Alive
  <2>. QED BY <2>1, StoppedViews
<1>4. CASE PushOn(c) \/ Worker(c)
  BY <1>4, ApartViews DEF PushOn, Worker, Work, PushFiles, ComeBack, serverVars
<1>5. CASE StartThreads(c) \/ AddClient(c)
  <2>1. /\ UNCHANGED <<backlog, session>> /\ pc[c] = "load" /\ pc'[c] \in {"load", "run"}
    BY <1>1, <1>5 DEF StartThreads, AddClient, serverVars
  <2>2. ~Lost(clients[c])
    BY <2>1, ExactIsThere DEF ClientExact, Started
  <2>3. \A t \in Tuples : Replay(c, t)' = Replay(c, t)
    <3>1. CASE StartThreads(c)
      BY <3>1 DEF StartThreads, Replay
    <3>. QED BY <1>5, <3>1, AddClientCounts
  <2>. QED BY <2>1, <2>2, <2>3, RunningViews
<1>6. CASE UserOn(c) \/ UserOff(c)
  <2>1. UNCHANGED <<backlog, session>> /\ pc[c] = "run"
    BY <1>6 DEF UserOn, UserOff, Reads, serverVars
  <2>2. CASE MainBlocks(c)
    BY <1>1, <2>1, <2>2, StoppedViews DEF MainBlocks
  <2>3. CASE ~MainBlocks(c)
    <3>1. pc' = pc /\ ~leaked[c] /\ (UserOff(c) => clients[c].ring # <<>>) /\ ~Lost(clients[c])
      BY <1>6, <2>3 DEF UserOn, UserOff, RpushCrashes, Lost
    <3>2. Exact(clients[c])
      BY <3>1 DEF ClientExact
    <3>3. ASSUME ~Lost(clients'[c]), NEW t \in Tuples PROVE Replay(c, t)' = Replay(c, t)
      BY <1>6, <3>1, <3>2, <3>3, UserOnCounts, UserOffCounts
    <3>. QED BY <2>1, <3>1, <3>3, RunningViews
  <2>. QED BY <2>2, <2>3
<1>7. ~ServerGone(c)
  BY DEF ServerGone
<1>. QED BY <1>2, <1>3, <1>4, <1>5, <1>6, <1>7 DEF StepOfClient, Main

\* What the client's steps do to its list.
LEMMA OwnList ==
    ASSUME Types, NEW c \in Clients, ClientExact(c), StepOfClient(c)
    PROVE  ClientExact(c)'
<1>1. /\ ListOK(clients[c], Tuples) /\ DOMAIN clients = Clients /\ DOMAIN pc = Clients
  BY DEF Types, ClientTypes
<1>2. ASSUME NEW l, Exact(l) \/ (Lost(l) /\ Started(c)'), clients' = [clients EXCEPT ![c] = l]
      PROVE  ClientExact(c)'
  BY <1>1, <1>2 DEF ClientExact
<1>3. CASE UNCHANGED clients /\ ~(Segfault(c) \/ LogOut(c) \/ Crash(c))
  <2>1. Started(c) => Started(c)'
    BY <1>1, <1>3
       DEF StepOfClient, Start, Main, Worker, Work, PushFiles, ComeBack, ServerGone, AddClient,
           StartThreads, PushOn, UserOn, UserOff, Reads, MainBlocks, Started
  <2>. QED BY <1>3, <2>1 DEF ClientExact
<1>4. CASE Segfault(c) \/ LogOut(c) \/ Crash(c)
  <2>1. Exact(list_create)
    BY EmptySeq DEF Exact, list_create
  <2>. QED BY <1>2, <1>4, <2>1 DEF Segfault, LogOut, Crash, Exit
<1>5. ASSUME NEW t \in Tuples, Exact(clients[c]) PROVE Exact(list_rpush(clients[c], t))
  <2>1. Len(Append(clients[c].ring, t)) = Len(clients[c].ring) + 1
    BY <1>1, AppendProperties DEF ListOK
  <2>. QED BY <1>5, <2>1 DEF Exact, list_rpush
<1>6. CASE AddClient(c)
  <2>1. received[c] \in Seq(Tuples) /\ received[c] # <<>> /\ ~Started(c)
    BY <1>6 DEF Types, ClientTypes, AddClient, Started
  <2>2. Head(received[c]) \in Tuples /\ Exact(clients[c])
    BY <2>1, HeadTailProperties DEF ClientExact
  <2>. QED BY <1>2, <1>5, <1>6, <2>2 DEF AddClient
<1>7. CASE UserOn(c) /\ ~UNCHANGED clients
  <2>1. Head(inbox[c]).tuple \in Tuples
    BY <1>7, ReadsTypes DEF Types, UserOn
  <2>2. Exact(clients[c])
    BY <1>7 DEF UserOn, MainBlocks, RpushCrashes, ClientExact
  <2>. QED BY <1>2, <1>5, <1>7, <2>1, <2>2 DEF UserOn, MainBlocks
<1>8. CASE UserOff(c) /\ ~UNCHANGED clients
  <2>1. PICK l \in list_remove(clients[c], Head(inbox[c]).tuple, FreedNext) :
           /\ Present(clients[c].ring, Head(inbox[c]).tuple) /\ clients[c].ring # <<>>
           /\ clients' = [clients EXCEPT ![c] = l]
    BY <1>8 DEF UserOff, MainBlocks
  <2>2. Started(c)'
    BY <1>8 DEF UserOff, Reads, MainBlocks, Started
  <2>3. Exact(clients[c])
    BY <2>1 DEF ClientExact, Lost
  <2>4. Exact(l) \/ Lost(l)
    BY <1>1, <2>1, <2>3, RemoveExact
  <2>. QED BY <1>2, <2>1, <2>2, <2>4
<1>. QED BY <1>3, <1>4, <1>6, <1>7, <1>8
     DEF StepOfClient, Start, Main, ServerGone, StartThreads, PushOn, Worker, Work, PushFiles,
         ComeBack
-----------------------------------------------------------------------------
(* All steps. *)

LEMMA InitViews == Init => Views
<1>. SUFFICES ASSUME Init PROVE Views
  OBVIOUS
<1>1. Types /\ Exact(list_create)
  BY InitTypes, EmptySeq DEF Exact, list_create
<1>2. ASSUME NEW c \in Clients PROVE ViewOf(c)
  <2>1. Len(ring) = 0 /\ Len(backlog) = 0 /\ session[c] = 0 /\ pc[c] = "off"
    BY EmptySeq DEF Init, ring, list_create
  <2>2. ~Listed(c) /\ ~Queued(c)
    BY <2>1 DEF Init, Listed, InRing, Pending, Notifying, Queued
  <2>3. Unheard(c)
    BY <2>2 DEF Init, Unheard
  <2>. QED BY <2>1, <2>3 DEF ViewOf
<1>. QED BY <1>1, <1>2 DEF Init, Views, ClientExact

LEMMA NextLists ==
    ASSUME Views, [Next]_vars, NEW c \in Clients
    PROVE  ClientExact(c)'
<1>1. ClientExact(c) /\ Types
  BY DEF Views
<1>2. CASE UNCHANGED vars
  BY <1>1, <1>2 DEF vars, clientVars, ClientExact, Started
<1>3. CASE Server
  <2>1. clients' = clients /\ (Started(c) => Started(c)')
    BY <1>1, <1>3 DEF Server, Select, AcceptLogOn, AcceptLogOff, NotifyNext, NotifySend, NotifyDone,
       ServeGetClients, ServeDone, clientVars, Started, Types, ClientTypes
  <2>. QED BY <1>1, <2>1 DEF ClientExact
<1>4. ASSUME NEW d \in Clients, StepOfClient(d), d # c PROVE ClientExact(c)'
  <2>1. clients'[c] = clients[c] /\ pc'[c] = pc[c]
    BY <1>1, <1>4, OthersStay
  <2>. QED BY <1>1, <2>1 DEF ClientExact, Started
<1>. QED BY <1>1, <1>2, <1>3, <1>4, OwnList DEF Next, StepOfClient

LEMMA NextViews == Views /\ [Next]_vars => Views'
<1>. SUFFICES ASSUME Views, [Next]_vars PROVE Views'
  OBVIOUS
<1>1. Types'
  BY NextTypes DEF Views
<1>2. SUFFICES ASSUME Live' PROVE Exact(connected_clients)' /\ \A c \in Clients : ViewOf(c)'
  BY <1>1, NextLists DEF Views
<1>3. /\ Live /\ Types /\ Exact(connected_clients) /\ server # Down
      /\ \A c \in Clients : ViewOf(c) /\ ClientExact(c)
  BY <1>2, LiveWas DEF Live, Serving
<1>4. CASE UNCHANGED vars
  <2>1. ASSUME NEW c \in Clients PROVE ViewOf(c)' = ViewOf(c)
    BY <1>4 DEF vars, serverVars, clientVars, ViewOf, Unheard, OnePlace, KnowsNothing, KnowsOthers,
                SendsToFirst, Listed, InRing, Pending, Notifying, Queued, ring, Replay, Told,
                EntryTuples
  <2>2. Exact(connected_clients)'
    BY <1>3, <1>4 DEF vars, serverVars
  <2>. QED BY <1>3, <2>1, <2>2
<1>5. CASE Server
  <2>1. Exact(connected_clients)'
    BY <1>2, <1>3, <1>5, ServerKeepsExact DEF Live
  <2>2. ASSUME NEW c \in Clients PROVE ViewOf(c)'
    BY <1>2, <1>5, QuietViews, LogOnViews, LogOffViews, NotifyNextViews, NotifySendViews,
       NotifyDoneViews, ServeViews DEF Server
  <2>. QED BY <2>1, <2>2
<1>6. ASSUME NEW d \in Clients, StepOfClient(d)
      PROVE  Exact(connected_clients)' /\ \A c \in Clients : ViewOf(c)'
  <2>1. Exact(connected_clients)'
    BY <1>3, <1>6, ServerStays
  <2>2. ASSUME NEW c \in Clients PROVE ViewOf(c)'
    <3>1. CASE c = d
      BY <1>3, <1>6, <3>1, OwnViews
    <3>2. CASE c # d
      BY <1>3, <1>6, <3>2, OthersViews
    <3>. QED BY <3>1, <3>2
  <2>. QED BY <2>1, <2>2
<1>. QED BY <1>4, <1>5, <1>6 DEF Next, StepOfClient

(***************************************************************************)
(* A client that has its CLIENT_LIST knows the others the server knows:    *)
(* the answer, and the notices that follow it, leave nobody out and name   *)
(* nobody twice, however the server's loops and the clients' steps fall,   *)
(* and whoever dies.  It is the first process of the client that does so,  *)
(* as long as neither its list nor the server's was lost on a freed head,  *)
(* the server runs, and no LOG_OFF came for a client that is not listed    *)
(* (which LogOffsFindEntries excludes when nobody sends two).              *)
(***************************************************************************)
THEOREM ViewsAlwaysAgree == Spec => []ViewsAgree
<1>1. Views => ViewsAgree
  BY DEF Views, Live, Serving, ViewOf, KnowsOthers, ViewsAgree
<1>. QED BY InitViews, NextViews, <1>1, PTL DEF Spec
=============================================================================
