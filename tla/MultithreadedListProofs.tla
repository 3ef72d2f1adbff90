---------------------- MODULE MultithreadedListProofs ----------------------
(***************************************************************************)
(* What TLAPS proves of MultithreadedList, for any threads, elements,      *)
(* nodes and outcomes of reading a freed node.                             *)
(***************************************************************************)
EXTENDS MultithreadedList, DataLemmas

InBody(t) == pc[t] \in Calls /\ pc[t].at = "body"

(***************************************************************************)
(* The discipline of list->mutex: whoever is in a body holds it, and a     *)
(* list without a mutex has nobody hold it.                                *)
(***************************************************************************)
Discipline ==
    /\ multithreaded \in BOOLEAN
    /\ pc \in [Threads -> Calls \cup {Run, Segv}]
    /\ mutex \in Threads \cup {NoThread}
    /\ multithreaded => \A t \in Threads : InBody(t) => mutex = t
    /\ ~multithreaded => mutex = NoThread

Inductive == Discipline /\ LeakedMeansEmpty

LEMMA InitInductive == Init => Inductive
BY ListAssumption DEF Init, Inductive, Discipline, LeakedMeansEmpty, Leaked, InBody,
   Run, Calls

\* A call is a record, "run" and "segv" are others.
LEMMA Distinct == Run \notin Calls /\ Segv \notin Calls /\ Run # Segv
BY DEF Run, Segv, Calls

\* The end of a body that unlocks.
LEMMA UnlockStep ==
    ASSUME Inductive, NEW t \in Threads, InBody(t), Unlock(t)
    PROVE  Inductive'
<1>1. /\ pc' \in [Threads -> Calls \cup {Run, Segv}]
      /\ pc'[t] = Run
      /\ \A s \in Threads \ {t} : pc'[s] = pc[s]
  BY DEF Unlock, Inductive, Discipline
<1>2. mutex' = NoThread /\ multithreaded' = multithreaded
  BY DEF Unlock, Inductive, Discipline
<1>3. Discipline'
  <2>1. ASSUME NEW s \in Threads, InBody(s)', multithreaded PROVE FALSE
    BY <1>1, <2>1, Distinct DEF Inductive, Discipline, InBody
  <2>. QED BY <1>1, <1>2, <2>1 DEF Inductive, Discipline
<1>4. LeakedMeansEmpty'
  BY <1>2, ListAssumption DEF LeakedMeansEmpty, Leaked
<1>. QED BY <1>3, <1>4 DEF Inductive

\* The process dies: nobody is outside with the mutex who was not before.
LEMMA CrashStep ==
    ASSUME Inductive, NEW t \in Threads, InBody(t), Crash(t)
    PROVE  Inductive'
<1>1. /\ pc' \in [Threads -> Calls \cup {Run, Segv}]
      /\ pc'[t] = Segv
      /\ \A s \in Threads \ {t} : pc'[s] = pc[s]
      /\ mutex' = mutex /\ head' = head /\ multithreaded' = multithreaded
  BY DEF Crash, Inductive, Discipline, ring
<1>2. Discipline'
  BY <1>1, Distinct DEF Inductive, Discipline, InBody
<1>3. Leaked' => Leaked
  BY <1>1, Distinct DEF Leaked
<1>. QED BY <1>1, <1>2, <1>3 DEF Inductive, LeakedMeansEmpty

LEMMA Step == Inductive /\ [Next]_vars => Inductive'
<1> SUFFICES ASSUME Inductive, [Next]_vars PROVE Inductive'
  OBVIOUS
<1>1. ASSUME NEW t \in Threads, NEW x \in Elements,
             NEW op \in {"rpush", "remove", "exists", "find"}, Call(t, op, x)
      PROVE  Inductive'
  <2>1. /\ pc' \in [Threads -> Calls \cup {Run, Segv}]
        /\ pc[t] = Run /\ pc'[t].at = "lock"
        /\ \A s \in Threads \ {t} : pc'[s] = pc[s]
        /\ mutex' = mutex /\ head' = head /\ multithreaded' = multithreaded
    BY <1>1 DEF Call, Calls, Inductive, Discipline, ring
  <2>2. Discipline'
    BY <2>1 DEF Inductive, Discipline, InBody
  <2>3. Leaked' => Leaked
    BY <2>1 DEF Leaked
  <2>. QED BY <2>1, <2>2, <2>3 DEF Inductive, LeakedMeansEmpty
<1>2. ASSUME NEW t \in Threads, Lock(t) PROVE Inductive'
  <2>1. /\ pc[t] \in Calls /\ pc'[t] = [pc[t] EXCEPT !.at = "body"]
        /\ \A s \in Threads \ {t} : pc'[s] = pc[s]
        /\ head' = head /\ multithreaded' = multithreaded
        /\ pc' = [pc EXCEPT ![t] = [pc[t] EXCEPT !.at = "body"]]
    BY <1>2 DEF Lock, Inductive, Discipline, ring
  <2>2. pc'[t] \in Calls /\ pc'[t].at = "body"
    BY <2>1 DEF Calls
  <2>3. pc' \in [Threads -> Calls \cup {Run, Segv}]
    BY <2>1, <2>2 DEF Inductive, Discipline
  <2>4. CASE multithreaded
    <3>1. mutex = NoThread /\ mutex' = t
      BY <1>2, <2>4 DEF Lock
    <3>2. \A s \in Threads : ~InBody(s)
      BY <2>4, <3>1, ListAssumption DEF Inductive, Discipline
    <3>3. Discipline'
      BY <2>1, <2>3, <2>4, <3>1, <3>2 DEF Discipline, InBody
    <3>4. ~Leaked'
      BY <2>2, <3>1, Distinct DEF Leaked
    <3>. QED BY <3>3, <3>4 DEF Inductive, LeakedMeansEmpty
  <2>5. CASE ~multithreaded
    <3>1. mutex' = NoThread
      BY <1>2, <2>5 DEF Lock, Inductive, Discipline
    <3>. QED BY <2>1, <2>3, <2>5, <3>1, ListAssumption
             DEF Inductive, Discipline, LeakedMeansEmpty, Leaked
  <2>. QED BY <2>4, <2>5
<1>3. ASSUME NEW t \in Threads, list_rpush(t) PROVE Inductive'
  BY <1>3, UnlockStep DEF list_rpush, In, InBody
<1>4. ASSUME NEW t \in Threads, list_remove(t) PROVE Inductive'
  BY <1>4, UnlockStep DEF list_remove, In, InBody
<1>5. ASSUME NEW t \in Threads, list_remove_null(t) PROVE Inductive'
  BY <1>5, CrashStep DEF list_remove_null, In, InBody
<1>6. ASSUME NEW t \in Threads, list_element_exists(t) PROVE Inductive'
  BY <1>6, UnlockStep DEF list_element_exists, In, InBody
<1>7. ASSUME NEW t \in Threads, list_find_element(t) PROVE Inductive'
  BY <1>7, UnlockStep DEF list_find_element, In, InBody
<1>8. ASSUME NEW t \in Threads, list_find_element_empty(t) PROVE Inductive'
  <2>1. /\ pc' \in [Threads -> Calls \cup {Run, Segv}]
        /\ pc'[t] = Run
        /\ \A s \in Threads \ {t} : pc'[s] = pc[s]
        /\ mutex' = mutex /\ head' = NULL /\ multithreaded' = multithreaded
    BY <1>8 DEF list_find_element_empty, Inductive, Discipline, ring
  <2>2. Discipline'
    BY <2>1, Distinct DEF Inductive, Discipline, InBody
  <2>. QED BY <2>1, <2>2 DEF Inductive, LeakedMeansEmpty
<1>9. ASSUME NEW t \in Threads, Dereference(t) PROVE Inductive'
  BY <1>9, CrashStep DEF Dereference, In, InBody
<1>10. CASE UNCHANGED vars
  BY <1>10 DEF vars, ring, Inductive, Discipline, InBody, LeakedMeansEmpty, Leaked
<1>. QED
  BY <1>1, <1>2, <1>3, <1>4, <1>5, <1>6, <1>7, <1>8, <1>9, <1>10 DEF Next, Body

(***************************************************************************)
(* A thread that is outside the list's functions with the mutex got it     *)
(* from the early return of list_find_element, and nobody can have entered *)
(* since: the list is empty, and stays so.                                 *)
(***************************************************************************)
THEOREM LeakedMeansEmptyAlways == Spec => []LeakedMeansEmpty
<1>1. Inductive => LeakedMeansEmpty
  BY DEF Inductive
<1>. QED BY InitInductive, Step, <1>1, PTL DEF Spec
-----------------------------------------------------------------------------
(***************************************************************************)
(* The n nodes of a ring in order, and what is said of them of the fields  *)
(* head, next, previous and data (h, nx, pv, d: here old, there new).      *)
(***************************************************************************)
Chain(n, s, h, nx) ==
    /\ n \in Nat \ {0}
    /\ s \in [1 .. n -> Nodes]
    /\ s[1] = h
    /\ \A i, j \in 1 .. n : s[i] = s[j] => i = j
    /\ \A i \in 1 .. n : nx[s[i]] = s[After(i, n)]

IsRing(n, s, h, nx, pv, d) ==
    /\ Chain(n, s, h, nx)
    /\ \A i \in 1 .. n : pv[s[After(i, n)]] = s[i]
    /\ \A i \in 1 .. n : d[s[i]] # NULL

\* The elements of the nodes.
Image(n, s, d) == [i \in 1 .. n |-> d[s[i]]]

\* The ring s, whose elements are e.
Shows(n, s, e, h, nx, pv, d) == IsRing(n, s, h, nx, pv, d) /\ e = Image(n, s, d)

\* Visited, of a head and next pointers.
Walked(h, nx) ==
    LET walk[k \in Nat] == IF k = 0 THEN h ELSE nx[walk[k - 1]]
        length == Min({k \in 1 .. Cardinality(Nodes) : walk[k] = h})
    IN  IF h \notin Nodes THEN <<>> ELSE [i \in 1 .. length |-> walk[i - 1]]

\* Visited and Visited' are the same function of the fields.
LEMMA VisitedIsWalked ==
    Visited = Walked(head, next) /\ Visited' = Walked(head', next')
<1>1. Visited = Walked(head, next)
  BY DEF Visited, Walked
<1>2. Visited' = Walked(head', next')
  BY DEF Visited, Walked
<1>. QED BY <1>1, <1>2

\* A ring has at most as many nodes as there are.
LEMMA ChainIsShort ==
    ASSUME NEW n, NEW s, NEW h, NEW nx, Chain(n, s, h, nx)
    PROVE  Cardinality(Nodes) \in Nat /\ n <= Cardinality(Nodes)
<1>1. n \in Nat /\ 1 \in Int /\ n \in Int
  BY DEF Chain
<1>2. Cardinality(1 .. n) = n
  <2>1. Cardinality(1 .. n) = IF 1 > n THEN 0 ELSE n - 1 + 1
    BY <1>1, FS_Interval, Zenon
  <2>. QED BY <1>1, <2>1
<1>3. s \in Injection(1 .. n, Nodes)
  BY DEF Chain, Injection, IsInjective
<1>4. Cardinality(1 .. n) <= Cardinality(Nodes)
  BY <1>3, ListAssumption, FS_Injection
<1>. QED BY <1>2, <1>4, ListAssumption, FS_CardinalityType

\* The loops that follow next from the head visit a ring's nodes in order.
LEMMA WalkedIsChain ==
    ASSUME NEW n, NEW s, NEW h, NEW nx, Chain(n, s, h, nx)
    PROVE  Walked(h, nx) = s
<1>. DEFINE IsWalk(w) == w = [k \in Nat |-> IF k = 0 THEN h ELSE nx[w[k - 1]]]
            walk == CHOOSE w : IsWalk(w)
            round == [k \in Nat |-> s[(k % n) + 1]]
            closing == {k \in 1 .. Cardinality(Nodes) : walk[k] = h}
<1>1. n \in Nat \ {0} /\ \A i \in 1 .. n : s[i] \in Nodes
  BY DEF Chain
<1>2. IsWalk(round)
  <2>1. ASSUME NEW k \in Nat
        PROVE  round[k] = IF k = 0 THEN h ELSE nx[round[k - 1]]
    <3>1. CASE k = 0
      BY <1>1, <3>1, ModSuccessor DEF Chain
    <3>2. CASE k # 0
      <4>. DEFINE j == k - 1
      <4>1. j \in Nat /\ k = j + 1
        BY <3>2
      <4>2. j % n \in 0 .. n - 1 /\ k % n = IF j % n = n - 1 THEN 0 ELSE (j % n) + 1
        BY <1>1, <4>1, ModSuccessor
      <4>3. (k % n) + 1 = After((j % n) + 1, n)
        BY <1>1, <4>2 DEF After
      <4>4. nx[s[(j % n) + 1]] = s[After((j % n) + 1, n)]
        <5>1. (j % n) + 1 \in 1 .. n
          BY <1>1, <4>2
        <5>. QED BY <5>1 DEF Chain
      <4>. QED BY <3>2, <4>1, <4>3, <4>4
    <3>. QED BY <3>1, <3>2
  <2>. QED BY <2>1
<1>3. IsWalk(walk)
  BY <1>2
<1>. HIDE DEF walk, round
<1>4. walk[0] = h /\ \A k \in Nat : walk[k + 1] = nx[walk[k]]
  BY <1>3
<1>. HIDE DEF IsWalk
<1>5. \A k \in Nat : k < n => walk[k] = s[k + 1]
  <2>. DEFINE T == {k \in Nat : k < n => walk[k] = s[k + 1]}
  <2>1. 0 \in T
    BY <1>1, <1>4 DEF Chain
  <2>2. ASSUME NEW k \in Nat, k \in T PROVE k + 1 \in T
    <3>1. CASE k + 1 < n
      <4>1. k + 1 \in 1 .. n /\ walk[k] = s[k + 1] /\ After(k + 1, n) = k + 1 + 1
        BY <1>1, <2>2, <3>1 DEF After
      <4>2. nx[s[k + 1]] = s[k + 1 + 1]
        BY <4>1 DEF Chain
      <4>. QED BY <1>4, <4>1, <4>2
    <3>. QED BY <3>1
  <2>. HIDE DEF T
  <2>3. Nat \subseteq T
    BY <2>1, <2>2, NatInduct
  <2>. QED BY <2>3 DEF T
<1>6. walk[n] = h
  <2>1. n - 1 \in Nat /\ n - 1 < n /\ (n - 1) + 1 = n
    BY <1>1
  <2>2. walk[n - 1] = s[n] /\ walk[n] = nx[walk[n - 1]]
    BY <1>4, <1>5, <2>1
  <2>. QED BY <1>1, <2>2 DEF Chain, After
<1>7. Min(closing) = n
  <2>1. closing \in SUBSET Nat /\ n \in closing
    BY <1>1, <1>6, ChainIsShort
  <2>2. ASSUME NEW k \in closing PROVE n <= k
    <3>1. k \in Nat \ {0} /\ walk[k] = s[1]
      BY ChainIsShort DEF Chain
    <3>2. CASE k < n
      BY <1>1, <1>5, <3>1, <3>2 DEF Chain
    <3>. QED BY <1>1, <3>1, <3>2
  <2>. HIDE DEF closing
  <2>. QED BY <2>1, <2>2, MinIs
<1>8. Walked(h, nx) = [i \in 1 .. n |-> walk[i - 1]]
  <2>1. h \in Nodes
    BY <1>1 DEF Chain
  <2>. QED BY <1>7, <2>1 DEF Walked, walk, IsWalk, closing
<1>9. \A i \in 1 .. n : walk[i - 1] = s[i]
  <2>1. ASSUME NEW i \in 1 .. n PROVE i - 1 \in Nat /\ i - 1 < n /\ (i - 1) + 1 = i
    BY <1>1
  <2>. QED BY <1>5, <2>1
<1>10. s = [i \in 1 .. n |-> s[i]]
  BY DEF Chain
<1>. QED BY <1>8, <1>9, <1>10
-----------------------------------------------------------------------------
(* What the bodies do to a ring. *)

\* The neighbours in a ring, with the ends spelt out.
LEMMA Neighbours ==
    ASSUME NEW n, NEW s, NEW h, NEW nx, NEW pv, NEW d, IsRing(n, s, h, nx, pv, d)
    PROVE  /\ n \in Nat \ {0} /\ \A i \in 1 .. n : s[i] \in Nodes
           /\ h = s[1] /\ pv[h] = s[n]
           /\ \A i \in 2 .. n : pv[s[i]] = s[i - 1]
           /\ nx[s[n]] = h
           /\ \A i \in 1 .. n - 1 : nx[s[i]] = s[i + 1]
<1>1. n \in Nat \ {0} /\ (\A i \in 1 .. n : s[i] \in Nodes) /\ h = s[1]
  BY DEF IsRing, Chain
<1>2. pv[h] = s[n] /\ nx[s[n]] = h
  BY <1>1 DEF IsRing, Chain, After
<1>3. ASSUME NEW i \in 2 .. n PROVE pv[s[i]] = s[i - 1]
  <2>1. i - 1 \in 1 .. n /\ After(i - 1, n) = i
    BY <1>1 DEF After
  <2>. QED BY <2>1 DEF IsRing
<1>4. ASSUME NEW i \in 1 .. n - 1 PROVE nx[s[i]] = s[i + 1]
  <2>1. i \in 1 .. n /\ After(i, n) = i + 1
    BY <1>1 DEF After
  <2>. QED BY <2>1 DEF IsRing, Chain
<1>. QED BY <1>1, <1>2, <1>3, <1>4

\* list_rpush between the last node and the head.
LEMMA PushedNode ==
    ASSUME NEW n, NEW s, NEW h,
           NEW nx \in [Nodes -> Nodes], NEW pv \in [Nodes -> Nodes],
           NEW d \in [Nodes -> Elements \cup {NULL}], IsRing(n, s, h, nx, pv, d),
           NEW node \in Nodes, d[node] = NULL, NEW x \in Elements,
           NEW nx1, nx1 = [nx EXCEPT ![pv[h]] = node, ![node] = h],
           NEW pv1, pv1 = [pv EXCEPT ![h] = node, ![node] = pv[h]],
           NEW d1, d1 = [d EXCEPT ![node] = x]
    PROVE  Shows(n + 1, Pushed(n, s, node), Pushed(n, Image(n, s, d), x), h, nx1, pv1, d1)
<1>. DEFINE w == Pushed(n, s, node)
<1>1. n \in Nat \ {0} /\ (\A i \in 1 .. n : s[i] \in Nodes) /\ pv[h] = s[n] /\ s[1] = h
  BY Neighbours
<1>2. \A i \in 1 .. n : s[i] # node
  BY DEF IsRing
<1>3. /\ w \in [1 .. n + 1 -> Nodes]
      /\ w[n + 1] = node /\ \A i \in 1 .. n : w[i] = s[i]
  BY <1>1 DEF Pushed
<1>. HIDE DEF w
<1>4. /\ \A m \in Nodes : nx1[m] = IF m = node THEN h ELSE IF m = s[n] THEN node ELSE nx[m]
      /\ \A m \in Nodes : pv1[m] = IF m = node THEN s[n] ELSE IF m = h THEN node ELSE pv[m]
      /\ \A m \in Nodes : d1[m] = IF m = node THEN x ELSE d[m]
  BY <1>1
<1>5. \A i, j \in 1 .. n + 1 : w[i] = w[j] => i = j
  <2>1. ASSUME NEW i \in 1 .. n, NEW j \in 1 .. n, w[i] = w[j] PROVE i = j
    BY <1>3, <2>1 DEF IsRing, Chain
  <2>2. \A i \in 1 .. n + 1 : i \in 1 .. n \/ i = n + 1
    BY <1>1
  <2>. QED BY <1>1, <1>2, <1>3, <2>1, <2>2
<1>6. ASSUME NEW i \in 1 .. n + 1
      PROVE  nx1[w[i]] = w[After(i, n + 1)] /\ pv1[w[After(i, n + 1)]] = w[i]
  <2>1. CASE i = n + 1
    BY <1>1, <1>2, <1>3, <1>4, <2>1 DEF After
  <2>2. CASE i = n
    BY <1>1, <1>2, <1>3, <1>4, <2>2 DEF After
  <2>3. CASE i \in 1 .. n - 1
    <3>1. /\ i \in 1 .. n /\ i + 1 \in 2 .. n /\ i + 1 \in 1 .. n
          /\ After(i, n + 1) = i + 1
          /\ w[i] = s[i] /\ w[i + 1] = s[i + 1]
      BY <1>1, <1>3, <2>3 DEF After
    <3>2. s[i] # s[n] /\ s[i + 1] # h
      BY <1>1, <2>3, <3>1 DEF IsRing, Chain
    <3>3. nx[s[i]] = s[i + 1]
      BY <2>3, Neighbours
    <3>4. pv[s[i + 1]] = s[i]
      <4>1. (i + 1) - 1 = i
        BY <2>3
      <4>. QED BY <3>1, <4>1, Neighbours
    <3>. QED BY <1>1, <1>2, <1>4, <3>1, <3>2, <3>3, <3>4
  <2>. QED BY <1>1, <2>1, <2>2, <2>3
<1>7. \A i \in 1 .. n + 1 : d1[w[i]] = IF i = n + 1 THEN x ELSE d[s[i]]
  BY <1>1, <1>2, <1>3, <1>4
<1>8. \A i \in 1 .. n + 1 : d1[w[i]] # NULL
  BY <1>1, <1>7, ListAssumption DEF IsRing
<1>9. n + 1 \in Nat \ {0} /\ w[1] = h
  BY <1>1, <1>3
<1>10. IsRing(n + 1, w, h, nx1, pv1, d1)
  BY <1>3, <1>5, <1>6, <1>8, <1>9 DEF IsRing, Chain
<1>11. Image(n + 1, w, d1) = Pushed(n, Image(n, s, d), x)
  <2>1. \A i \in 1 .. n + 1 :
           d1[w[i]] = IF i = n + 1 THEN x ELSE Image(n, s, d)[i]
    BY <1>1, <1>7 DEF Image
  <2>2. Pushed(n, Image(n, s, d), x) =
           [i \in 1 .. n + 1 |-> IF i = n + 1 THEN x ELSE Image(n, s, d)[i]]
    BY DEF Pushed
  <2>. QED BY <2>1, <2>2 DEF Image
<1>. QED BY <1>10, <1>11 DEF w, Shows

\* list_rpush into an empty list: the node is its own neighbour.
LEMMA FirstNode ==
    ASSUME NEW nx, NEW pv, NEW d \in [Nodes -> Elements \cup {NULL}], NEW node \in Nodes,
           NEW x \in Elements, nx[node] = node, pv[node] = node,
           NEW d1, d1 = [d EXCEPT ![node] = x]
    PROVE  Shows(1, <<node>>, <<x>>, node, nx, pv, d1)
<1>1. \A i \in 1 .. 1 : i = 1
  OBVIOUS
<1>2. <<node>> \in [1 .. 1 -> Nodes] /\ <<node>>[1] = node
  OBVIOUS
<1>3. d1[node] = x /\ x # NULL
  BY ListAssumption
<1>4. IsRing(1, <<node>>, node, nx, pv, d1)
  BY <1>1, <1>2, <1>3 DEF IsRing, Chain, After
<1>5. Image(1, <<node>>, d1) = <<x>>
  BY <1>1, <1>2, <1>3 DEF Image
<1>. QED BY <1>4, <1>5 DEF Shows

\* __list_remove of the i-th of several nodes; the head moves on if it was the first.
LEMMA RemovedNode ==
    ASSUME NEW n, NEW s, NEW h,
           NEW nx \in [Nodes -> Nodes], NEW pv \in [Nodes -> Nodes],
           NEW d \in [Nodes -> Elements \cup {NULL}], IsRing(n, s, h, nx, pv, d), n # 1,
           NEW i \in 1 .. n,
           NEW nx1, nx1 = [nx EXCEPT ![pv[s[i]]] = nx[s[i]], ![s[i]] = s[i]],
           NEW pv1, pv1 = [pv EXCEPT ![nx[s[i]]] = pv[s[i]], ![s[i]] = s[i]],
           NEW d1, d1 = [d EXCEPT ![s[i]] = NULL]
    PROVE  Shows(n - 1, Removed(n, s, i), Removed(n, Image(n, s, d), i),
                 IF i = 1 THEN nx[h] ELSE h, nx1, pv1, d1)
<1>. DEFINE w == Removed(n, s, i)
            Old(j) == IF j < i THEN j ELSE j + 1
            before == IF i = 1 THEN n ELSE i - 1
            after == After(i, n)
<1>1. n \in Nat /\ n >= 2 /\ (\A k \in 1 .. n : s[k] \in Nodes) /\ s[1] = h
  BY Neighbours
<1>2. before \in 1 .. n /\ after \in 1 .. n /\ before # i /\ after # i
  BY <1>1 DEF After
<1>3. /\ \A k \in 1 .. n : After(k, n) \in 1 .. n
      /\ \A k \in 1 .. n : After(k, n) = i <=> k = before
      /\ \A k \in 1 .. n : After(k, n) = after <=> k = i
  BY <1>1 DEF After
<1>4. /\ \A j \in 1 .. n - 1 : Old(j) \in 1 .. n /\ Old(j) # i
      /\ \A j, k \in 1 .. n - 1 : Old(j) = Old(k) => j = k
      /\ \A j \in 1 .. n - 1 : After(j, n - 1) \in 1 .. n - 1
  BY <1>1 DEF After
<1>5. \A j \in 1 .. n - 1 :
         Old(After(j, n - 1)) = IF Old(j) = before THEN after ELSE After(Old(j), n)
  BY <1>1 DEF After
<1>6. w = [j \in 1 .. n - 1 |-> s[Old(j)]]
  BY DEF Removed
<1>7. n - 1 \in Nat \ {0} /\ w \in [1 .. n - 1 -> Nodes]
      /\ \A j \in 1 .. n - 1 : w[j] = s[Old(j)]
  BY <1>1, <1>4, <1>6
<1>8. pv[s[i]] = s[before] /\ nx[s[i]] = s[after]
  <2>1. After(before, n) = i
    BY <1>2, <1>3
  <2>. QED BY <1>2, <2>1 DEF IsRing, Chain
<1>9. \A k, m \in 1 .. n : s[k] = s[m] => k = m
  BY DEF IsRing, Chain
<1>10. /\ \A k \in 1 .. n : nx[s[k]] = s[After(k, n)]
       /\ \A k \in 1 .. n : pv[s[After(k, n)]] = s[k]
       /\ \A k \in 1 .. n : d[s[k]] # NULL
  BY DEF IsRing, Chain
<1>11. w[1] = IF i = 1 THEN nx[h] ELSE h
  BY <1>1, <1>7, <1>8 DEF After
<1>. HIDE DEF w, Old, before, after
<1>12. /\ \A m \in Nodes : nx1[m] = IF m = s[i] THEN s[i] ELSE IF m = s[before] THEN s[after]
                                   ELSE nx[m]
       /\ \A m \in Nodes : pv1[m] = IF m = s[i] THEN s[i] ELSE IF m = s[after] THEN s[before]
                                   ELSE pv[m]
       /\ \A m \in Nodes : d1[m] = IF m = s[i] THEN NULL ELSE d[m]
  BY <1>1, <1>2, <1>8
<1>13. \A j, k \in 1 .. n - 1 : w[j] = w[k] => j = k
  BY <1>4, <1>7, <1>9
<1>14. ASSUME NEW j \in 1 .. n - 1
       PROVE  /\ nx1[w[j]] = w[After(j, n - 1)]
              /\ pv1[w[After(j, n - 1)]] = w[j]
              /\ d1[w[j]] = d[s[Old(j)]]
  <2>. DEFINE k == Old(j)
  <2>1. /\ k \in 1 .. n /\ k # i /\ After(k, n) \in 1 .. n
        /\ w[j] = s[k] /\ s[k] # s[i] /\ s[k] \in Nodes
    BY <1>1, <1>3, <1>4, <1>7, <1>9
  <2>2. w[After(j, n - 1)] = s[IF k = before THEN after ELSE After(k, n)]
    BY <1>4, <1>5, <1>7
  <2>. HIDE DEF k
  <2>3. CASE k = before
    <3>1. s[after] \in Nodes /\ s[after] # s[i] /\ w[After(j, n - 1)] = s[after]
      BY <1>1, <1>2, <1>9, <2>2, <2>3
    <3>. QED BY <1>12, <2>1, <2>3, <3>1 DEF k
  <2>4. CASE k # before
    <3>1. s[k] # s[before] /\ After(k, n) # i /\ After(k, n) # after
      BY <1>2, <1>3, <1>9, <2>1, <2>4
    <3>2. /\ s[After(k, n)] # s[i] /\ s[After(k, n)] # s[after]
          /\ s[After(k, n)] \in Nodes /\ w[After(j, n - 1)] = s[After(k, n)]
      BY <1>1, <1>2, <1>9, <2>1, <2>2, <2>4, <3>1
    <3>3. nx[s[k]] = s[After(k, n)] /\ pv[s[After(k, n)]] = s[k]
      BY <1>10, <2>1
    <3>. QED BY <1>12, <2>1, <3>1, <3>2, <3>3 DEF k
  <2>. QED BY <2>3, <2>4
<1>15. \A j \in 1 .. n - 1 : d1[w[j]] # NULL
  BY <1>4, <1>10, <1>14
<1>16. IsRing(n - 1, w, IF i = 1 THEN nx[h] ELSE h, nx1, pv1, d1)
  BY <1>7, <1>11, <1>13, <1>14, <1>15 DEF IsRing, Chain
<1>17. Image(n - 1, w, d1) = Removed(n, Image(n, s, d), i)
  <2>1. \A j \in 1 .. n - 1 : d1[w[j]] = Image(n, s, d)[Old(j)]
    BY <1>4, <1>14 DEF Image
  <2>2. Removed(n, Image(n, s, d), i) = [j \in 1 .. n - 1 |-> Image(n, s, d)[Old(j)]]
    BY DEF Removed, Old
  <2>. QED BY <2>1, <2>2 DEF Image
<1>. QED BY <1>16, <1>17 DEF w, Shows

\* The head moves on and nothing else.
LEMMA RotatedRing ==
    ASSUME NEW n, NEW s, NEW h, NEW nx, NEW pv, NEW d, IsRing(n, s, h, nx, pv, d)
    PROVE  Shows(n, Rotated(n, s), Rotated(n, Image(n, s, d)), nx[h], nx, pv, d)
<1>. DEFINE w == Rotated(n, s)
<1>1. n \in Nat \ {0} /\ (\A k \in 1 .. n : s[k] \in Nodes) /\ s[1] = h
  BY Neighbours
<1>2. /\ \A k \in 1 .. n : After(k, n) \in 1 .. n
      /\ \A j, k \in 1 .. n : After(j, n) = After(k, n) => j = k
  BY <1>1 DEF After
<1>3. w \in [1 .. n -> Nodes] /\ \A k \in 1 .. n : w[k] = s[After(k, n)]
  BY <1>1, <1>2 DEF Rotated
<1>4. w[1] = nx[h] /\ \A k \in 1 .. n : nx[s[k]] = s[After(k, n)]
  BY <1>1, <1>3 DEF IsRing, Chain
<1>. HIDE DEF w
<1>5. \A j, k \in 1 .. n : w[j] = w[k] => j = k
  BY <1>2, <1>3 DEF IsRing, Chain
<1>6. \A k \in 1 .. n : nx[w[k]] = w[After(k, n)] /\ pv[w[After(k, n)]] = w[k] /\ d[w[k]] # NULL
  BY <1>2, <1>3, <1>4 DEF IsRing
<1>7. IsRing(n, w, nx[h], nx, pv, d)
  BY <1>1, <1>3, <1>4, <1>5, <1>6 DEF IsRing, Chain
<1>8. Image(n, w, d) = Rotated(n, Image(n, s, d))
  <2>1. \A k \in 1 .. n : d[w[k]] = Image(n, s, d)[After(k, n)]
    BY <1>2, <1>3 DEF Image
  <2>2. Rotated(n, Image(n, s, d)) = [k \in 1 .. n |-> Image(n, s, d)[After(k, n)]]
    BY DEF Rotated
  <2>. QED BY <2>1, <2>2 DEF Image
<1>. QED BY <1>7, <1>8 DEF w, Shows
-----------------------------------------------------------------------------
(***************************************************************************)
(* The links in every state: those of a free node lead to itself, those of *)
(* the node that list->head points to are a ring.                          *)
(***************************************************************************)
Links(h, sz, nx, pv, d) ==
    /\ h \in Nodes \cup {NULL, Wild}
    /\ sz \in 0 .. Cardinality(Nodes)
    /\ nx \in [Nodes -> Nodes]
    /\ pv \in [Nodes -> Nodes]
    /\ d \in [Nodes -> Elements \cup {NULL}]
    /\ \A m \in Nodes : d[m] = NULL => nx[m] = m /\ pv[m] = m
    /\ sz = 0 => h = NULL
    /\ h \in Nodes => /\ IsRing(Len(Walked(h, nx)), Walked(h, nx), h, nx, pv, d)
                      /\ sz <= Len(Walked(h, nx))

RingInv == Links(head, size, next, previous, data)

\* Of a ring the loops visit every node.
LEMMA WalkedIsRing ==
    ASSUME NEW n, NEW s, NEW h, NEW nx, NEW pv, NEW d, IsRing(n, s, h, nx, pv, d)
    PROVE  Walked(h, nx) = s /\ Len(Walked(h, nx)) = n
<1>1. Walked(h, nx) = s
  BY WalkedIsChain DEF IsRing
<1>2. n \in Nat /\ s \in [1 .. n -> Nodes]
  BY DEF IsRing, Chain
<1>. QED BY <1>1, <1>2, FunctionIsSeq

\* A state with a ring, and one without.
LEMMA RingedLinks ==
    ASSUME NEW n, NEW s, NEW h, NEW sz, NEW nx \in [Nodes -> Nodes],
           NEW pv \in [Nodes -> Nodes], NEW d \in [Nodes -> Elements \cup {NULL}],
           IsRing(n, s, h, nx, pv, d), sz \in 1 .. n,
           \A m \in Nodes : d[m] = NULL => nx[m] = m /\ pv[m] = m
    PROVE  Links(h, sz, nx, pv, d)
<1>1. Walked(h, nx) = s /\ Len(Walked(h, nx)) = n
  BY WalkedIsRing
<1>2. n <= Cardinality(Nodes) /\ Cardinality(Nodes) \in Nat /\ n \in Nat
  <2>1. Chain(n, s, h, nx)
    BY DEF IsRing
  <2>. QED BY <2>1, ChainIsShort, Neighbours
<1>3. h \in Nodes
  BY Neighbours
<1>. HIDE DEF IsRing
<1>. QED BY <1>1, <1>2, <1>3 DEF Links

\* A state with a null or wild head has its types and its free nodes.
LEMMA RinglessLinks ==
    ASSUME NEW h \in {NULL, Wild}, NEW sz \in 0 .. Cardinality(Nodes), sz = 0 => h = NULL,
           NEW nx \in [Nodes -> Nodes], NEW pv \in [Nodes -> Nodes],
           NEW d \in [Nodes -> Elements \cup {NULL}],
           \A m \in Nodes : d[m] = NULL => nx[m] = m /\ pv[m] = m
    PROVE  Links(h, sz, nx, pv, d)
BY ListAssumption DEF Links

\* What the invariant says of the list now ...
LEMMA ListNow ==
    ASSUME RingInv, head \in Nodes
    PROVE  /\ IsRing(Len(Visited), Visited, head, next, previous, data)
           /\ Len(Visited) \in Nat \ {0}
           /\ size \in 1 .. Len(Visited)
           /\ RingElements = Image(Len(Visited), Visited, data)
           /\ RingElements \in [1 .. Len(Visited) -> Elements]
           /\ RingElements \in Seq(Elements) /\ Len(RingElements) = Len(Visited)
<1>. DEFINE n == Len(Visited)
<1>1. Visited = Walked(head, next)
  BY VisitedIsWalked
<1>2. IsRing(n, Visited, head, next, previous, data) /\ size <= n
  BY <1>1 DEF RingInv, Links
<1>3. n \in Nat \ {0} /\ \A i \in 1 .. n : Visited[i] \in Nodes
  BY <1>2, Neighbours
<1>. HIDE DEF n
<1>4. size \in 1 .. n
  <2>1. size \in Nat /\ size # 0
    BY ListAssumption, FS_CardinalityType DEF RingInv, Links
  <2>. QED BY <1>2, <1>3, <2>1
<1>5. RingElements = Image(n, Visited, data)
  BY DEF RingElements, Image, n
<1>6. \A i \in 1 .. n : data[Visited[i]] \in Elements
  <2>1. \A i \in 1 .. n : data[Visited[i]] # NULL
    BY <1>2 DEF IsRing
  <2>. QED BY <1>3, <2>1 DEF RingInv, Links
<1>7. RingElements \in [1 .. n -> Elements]
  BY <1>5, <1>6 DEF Image
<1>8. RingElements \in Seq(Elements) /\ Len(RingElements) = n
  BY <1>3, <1>7, FunctionIsSeq
<1>. QED BY <1>2, <1>3, <1>4, <1>5, <1>7, <1>8 DEF n

\* Without a head the loops visit nothing.
LEMMA NoListNow ==
    /\ head \notin Nodes => Visited = <<>> /\ RingElements = <<>>
    /\ head' \notin Nodes => Visited' = <<>> /\ RingElements' = <<>>
<1>1. \A i \in 1 .. 0 : FALSE
  OBVIOUS
<1>. QED BY <1>1, VisitedIsWalked DEF Walked, RingElements

\* ... and after a step that leaves the ring w.
LEMMA ListThen ==
    ASSUME NEW n, NEW w, NEW e, Shows(n, w, e, head', next', previous', data')
    PROVE  Visited' = w /\ RingElements' = e
<1>1. Visited' = w /\ Len(w) = n
  BY VisitedIsWalked, WalkedIsRing DEF Shows
<1>. QED BY <1>1 DEF RingElements, Image, Shows
-----------------------------------------------------------------------------
(* What the bodies do to the list. *)

\* list_rpush appends the element.
LEMMA Pushing ==
    ASSUME RingInv, NEW t \in Threads, list_rpush(t)
    PROVE  /\ RingInv'
           /\ ~ (RingElements = <<>> /\ size # 0)
           /\ RingElements' = Append(RingElements, pc[t].element)
           /\ size' = size + 1
<1>. DEFINE n == Len(Visited)
<1>0. PICK x \in Elements : x = pc[t].element
  BY DEF list_rpush, In, Calls
<1>1. PICK node \in Nodes :
         /\ data[node] = NULL
         /\ data' = [data EXCEPT ![node] = x]
         /\ IF size # 0
            THEN LET left_side == previous[head] IN
                 /\ next' = [next EXCEPT ![left_side] = node, ![node] = head]
                 /\ previous' = [previous EXCEPT ![head] = node, ![node] = left_side]
                 /\ UNCHANGED head
            ELSE /\ head' = node
                 /\ UNCHANGED <<next, previous>>
  BY <1>0 DEF list_rpush, Allocated
<1>2. size' = size + 1 /\ (head \in Nodes \/ size = 0)
  BY DEF list_rpush
<1>3. /\ next \in [Nodes -> Nodes] /\ previous \in [Nodes -> Nodes]
      /\ data \in [Nodes -> Elements \cup {NULL}]
      /\ data[node] = NULL /\ next[node] = node /\ previous[node] = node
      /\ \A m \in Nodes : data[m] = NULL => next[m] = m /\ previous[m] = m
  BY <1>1 DEF RingInv, Links
<1>4. /\ data' \in [Nodes -> Elements \cup {NULL}]
      /\ \A m \in Nodes : data'[m] = NULL => data[m] = NULL /\ m # node
  <2>1. x \in Elements /\ node \in Nodes /\ x # NULL
    BY ListAssumption
  <2>2. \A m \in Nodes : data'[m] = IF m = node THEN x ELSE data[m]
    BY <1>1, <1>3
  <2>3. data' \in [Nodes -> Elements \cup {NULL}]
    BY <1>1, <1>3
  <2>. QED BY <2>1, <2>2, <2>3
<1>5. CASE size # 0
  <2>1. head \in Nodes
    BY <1>2, <1>5
  <2>2. /\ IsRing(n, Visited, head, next, previous, data)
        /\ n \in Nat \ {0} /\ size \in 1 .. n
        /\ RingElements = Image(n, Visited, data) /\ RingElements \in [1 .. n -> Elements]
    BY <2>1, ListNow
  <2>. HIDE DEF n
  <2>3. /\ next' = [next EXCEPT ![previous[head]] = node, ![node] = head]
        /\ previous' = [previous EXCEPT ![head] = node, ![node] = previous[head]]
        /\ head' = head
    BY <1>1, <1>5
  <2>4. Shows(n + 1, Pushed(n, Visited, node), Pushed(n, RingElements, x),
              head', next', previous', data')
    <3>1. node \in Nodes /\ data[node] = NULL /\ data' = [data EXCEPT ![node] = x]
      BY <1>1, <1>3
    <3>2. Shows(n + 1, Pushed(n, Visited, node), Pushed(n, Image(n, Visited, data), x),
                head, next', previous', data')
      BY <1>3, <2>2, <2>3, <3>1, PushedNode, Zenon
    <3>. QED BY <2>2, <2>3, <3>2
  <2>5. /\ next' \in [Nodes -> Nodes] /\ previous' \in [Nodes -> Nodes]
        /\ \A m \in Nodes : data'[m] = NULL => next'[m] = m /\ previous'[m] = m
    <3>1. previous[head] \in Nodes /\ data[previous[head]] # NULL /\ data[head] # NULL
      <4>1. n \in 1 .. n /\ 1 \in 1 .. n
        BY <2>2
      <4>2. previous[head] = Visited[n] /\ head = Visited[1] /\ Visited[n] \in Nodes
        BY <2>2, <4>1, Neighbours
      <4>. QED BY <2>2, <4>1, <4>2 DEF IsRing
    <3>. QED BY <1>1, <1>3, <1>4, <2>1, <2>3, <3>1
  <2>6. size' \in 1 .. n + 1
    BY <1>2, <2>2
  <2>7. RingInv'
    <3>1. IsRing(n + 1, Pushed(n, Visited, node), head', next', previous', data')
      BY <2>4 DEF Shows
    <3>. QED BY <1>4, <2>5, <2>6, <3>1, RingedLinks DEF RingInv
  <2>8. RingElements' = Append(RingElements, x)
    <3>1. RingElements' = Pushed(n, RingElements, x)
      BY <2>4, ListThen
    <3>2. n \in Nat
      BY <2>2
    <3>3. Append(RingElements, x) = Pushed(n, RingElements, x)
      <4>1. RingElements \in [1 .. n -> Elements]
        BY <2>2
      <4>. QED BY <3>2, <4>1, PushedIsAppend, Zenon
    <3>. QED BY <3>1, <3>3
  <2>9. RingElements # <<>>
    <3>1. Len(RingElements) = n
      BY <2>1, ListNow DEF n
    <3>. QED BY <2>2, <3>1
  <2>. QED BY <1>0, <1>2, <2>7, <2>8, <2>9
<1>6. CASE size = 0
  <2>1. /\ next' = next /\ previous' = previous /\ head' = node
    BY <1>1, <1>6
  <2>2. Shows(1, <<node>>, <<x>>, head', next', previous', data')
    <3>1. node \in Nodes /\ next'[node] = node /\ previous'[node] = node
          /\ data' = [data EXCEPT ![node] = x] /\ data \in [Nodes -> Elements \cup {NULL}]
      BY <1>1, <1>3, <2>1
    <3>2. Shows(1, <<node>>, <<x>>, node, next', previous', data')
      BY <3>1, FirstNode, Zenon
    <3>. QED BY <2>1, <3>2
  <2>3. RingInv'
    <3>1. size' \in 1 .. 1
      BY <1>2, <1>6
    <3>2. \A m \in Nodes : data'[m] = NULL => next'[m] = m /\ previous'[m] = m
      BY <1>3, <1>4, <2>1
    <3>3. IsRing(1, <<node>>, head', next', previous', data')
      BY <2>2 DEF Shows
    <3>. QED BY <1>3, <1>4, <2>1, <3>1, <3>2, <3>3, RingedLinks DEF RingInv
  <2>4. RingElements' = <<x>>
    BY <2>2, ListThen
  <2>5. head \notin Nodes
    BY <1>6, ListAssumption DEF RingInv, Links
  <2>6. RingElements = <<>>
    BY <2>5, NoListNow
  <2>7. <<x>> = Append(<<>>, x)
    OBVIOUS
  <2>. QED BY <1>0, <1>2, <1>6, <2>3, <2>4, <2>6, <2>7
<1>. QED BY <1>5, <1>6

\* The loop of list_remove stops at the first element that is equal.
LEMMA Stopping ==
    ASSUME RingInv, head \in Nodes, NEW x
    PROVE  /\ Found(x) <=> LO!Present(RingElements, x)
           /\ Found(x) => \E i \in 1 .. Len(Visited) :
                             i = LO!FirstIndex(RingElements, x) /\ Stop(x) = Visited[i]
           /\ ~Found(x) => Stop(x) = head
<1>. DEFINE n == Len(Visited)
            hits == {i \in 1 .. n : data[Visited[i]] = x}
            Hits == {i \in 1 .. Len(RingElements) : RingElements[i] = x}
<1>1. n \in Nat /\ Len(RingElements) = n /\ RingElements = Image(n, Visited, data)
  BY ListNow
<1>2. Stop(x) = IF hits = {} THEN head ELSE Visited[Min(hits)]
  BY DEF Stop
<1>3. LO!FirstIndex(RingElements, x) = Min(Hits)
  BY DEF LO!FirstIndex, LO!Min, Min
<1>4. Found(x) <=> hits # {}
  BY DEF Found
<1>5. LO!Present(RingElements, x) <=> Hits # {}
  BY DEF LO!Present
<1>. HIDE DEF n
<1>6. hits = Hits
  BY <1>1 DEF Image
<1>7. hits # {} => Min(hits) \in 1 .. n
  <2>1. hits \in SUBSET Nat
    BY <1>1
  <2>. QED BY <2>1, MinNat
<1>. HIDE DEF hits, Hits
<1>. QED BY <1>2, <1>3, <1>4, <1>5, <1>6, <1>7 DEF n

(***************************************************************************)
(* list_remove takes out the first element that is equal, if the size was  *)
(* not 1 and the freed head still had its pointer; without such an element *)
(* it turns the ring by one.                                               *)
(***************************************************************************)
LEMMA Removing ==
    ASSUME RingInv, NEW t \in Threads, list_remove(t),
           NEW x, x = pc[t].element, NEW n, n = Len(Visited)
    PROVE  /\ RingInv'
           /\ head \in Nodes
           /\ size' = size - 1
           /\ \/ /\ size = 1
                 /\ RingElements' = <<>>
              \/ /\ size # 1
                 /\ LO!Present(RingElements, x) /\ LO!FirstIndex(RingElements, x) = 1
                 /\ \/ "old" \in FreedNext /\ RingElements' = Removed(n, RingElements, 1)
                    \/ "null" \in FreedNext /\ RingElements' = <<>>
                    \/ "wild" \in FreedNext /\ head' = Wild
              \/ /\ size # 1
                 /\ LO!Present(RingElements, x)
                 /\ \E i \in 2 .. n : /\ i = LO!FirstIndex(RingElements, x)
                                      /\ RingElements' = Removed(n, RingElements, i)
              \/ /\ size # 1
                 /\ ~LO!Present(RingElements, x)
                 /\ RingElements' = Rotated(n, RingElements)
<1>1. head \in Nodes /\ size' = size - 1
  BY DEF list_remove
<1>2. /\ IsRing(n, Visited, head, next, previous, data)
      /\ n \in Nat \ {0} /\ size \in 1 .. n
      /\ RingElements = Image(n, Visited, data)
      /\ RingElements \in [1 .. n -> Elements]
  BY <1>1, ListNow
<1>3. /\ next \in [Nodes -> Nodes] /\ previous \in [Nodes -> Nodes]
      /\ data \in [Nodes -> Elements \cup {NULL}]
      /\ \A m \in Nodes : data[m] = NULL => next[m] = m /\ previous[m] = m
      /\ size' \in 0 .. Cardinality(Nodes)
  <2>1. size \in 0 .. Cardinality(Nodes) /\ Cardinality(Nodes) \in Nat
    BY ListAssumption, FS_CardinalityType DEF RingInv, Links
  <2>. QED BY <1>1, <1>2, <2>1 DEF RingInv, Links
<1>4. \A i \in 1 .. n : Visited[i] \in Nodes /\ data[Visited[i]] # NULL
  <2>1. \A i \in 1 .. n : Visited[i] \in Nodes
    BY <1>2, Neighbours
  <2>. QED BY <1>2, <2>1 DEF IsRing
<1>5. CASE ~Found(x)
  <2>1. /\ next' = next /\ previous' = previous /\ data' = data
        /\ size' = 0 => head' = NULL
        /\ size' # 0 => head' = next[head]
    <3>1. Stop(x) = head
      BY <1>1, <1>5, Stopping
    <3>. QED BY <1>5, <3>1 DEF list_remove
  <2>2. ~LO!Present(RingElements, x)
    BY <1>1, <1>5, Stopping
  <2>3. CASE size = 1
    <3>1. head' = NULL /\ size' = 0
      BY <1>1, <2>1, <2>3
    <3>2. RingInv'
      BY <1>3, <2>1, <3>1, RinglessLinks DEF RingInv
    <3>3. RingElements' = <<>>
      BY <3>1, NoListNow, ListAssumption
    <3>. QED BY <1>1, <2>3, <3>2, <3>3
  <2>4. CASE size # 1
    <3>1. size' # 0 /\ size' \in 1 .. n
      BY <1>1, <1>2, <2>4
    <3>2. Shows(n, Rotated(n, Visited), Rotated(n, RingElements), head', next', previous', data')
      <4>1. Shows(n, Rotated(n, Visited), Rotated(n, Image(n, Visited, data)),
                  next[head], next, previous, data)
        BY <1>2, RotatedRing
      <4>. QED BY <1>2, <2>1, <3>1, <4>1
    <3>3. RingElements' = Rotated(n, RingElements)
      BY <3>2, ListThen
    <3>4. RingInv'
      <4>1. IsRing(n, Rotated(n, Visited), head', next', previous', data')
        BY <3>2 DEF Shows
      <4>2. \A m \in Nodes : data'[m] = NULL => next'[m] = m /\ previous'[m] = m
        BY <1>3, <2>1
      <4>. QED BY <1>3, <2>1, <3>1, <4>1, <4>2, RingedLinks DEF RingInv
    <3>. QED BY <1>1, <2>2, <2>4, <3>3, <3>4
  <2>. QED BY <2>3, <2>4
<1>6. CASE Found(x)
  <2>1. PICK i \in 1 .. n : i = LO!FirstIndex(RingElements, x) /\ Stop(x) = Visited[i]
    BY <1>1, <1>6, Stopping
  <2>2. LO!Present(RingElements, x)
    BY <1>1, <1>6, Stopping
  <2>. DEFINE curr == Visited[i]
  <2>3. /\ next' = [next EXCEPT ![previous[curr]] = next[curr], ![curr] = curr]
        /\ previous' = [previous EXCEPT ![next[curr]] = previous[curr], ![curr] = curr]
        /\ data' = [data EXCEPT ![curr] = NULL]
        /\ \/ size' = 0 /\ head' = NULL
           \/ size' # 0 /\ head # curr /\ head' = head
           \/ size' # 0 /\ head = curr /\ head' \in Freed(head)
    BY <1>6, <2>1 DEF list_remove
  <2>4. curr \in Nodes /\ previous[curr] \in Nodes /\ next[curr] \in Nodes
    BY <1>3, <1>4
  <2>5. /\ next' \in [Nodes -> Nodes] /\ previous' \in [Nodes -> Nodes]
        /\ data' \in [Nodes -> Elements \cup {NULL}]
    BY <1>3, <2>3, <2>4
  <2>6. \A m \in Nodes : data'[m] = NULL => next'[m] = m /\ previous'[m] = m
    <3>1. data[previous[curr]] # NULL /\ data[next[curr]] # NULL
      <4>1. PICK j \in 1 .. n : After(j, n) = i
        <5>1. n \in Nat \ {0}
          BY <1>2
        <5>2. CASE i = 1
          BY <5>1, <5>2 DEF After
        <5>3. CASE i # 1
          BY <5>1, <5>3, i - 1 \in 1 .. n DEF After
        <5>. QED BY <5>2, <5>3
      <4>2. previous[curr] = Visited[j]
        BY <1>2, <4>1 DEF IsRing
      <4>3. next[curr] = Visited[After(i, n)] /\ After(i, n) \in 1 .. n
        BY <1>2 DEF IsRing, Chain, After
      <4>. QED BY <1>4, <4>2, <4>3
    <3>2. ASSUME NEW m \in Nodes, data'[m] = NULL PROVE m = curr \/ data[m] = NULL
      BY <1>3, <2>3, <2>4, <3>2
    <3>3. next'[curr] = curr /\ previous'[curr] = curr
      BY <1>3, <2>3, <2>4
    <3>4. ASSUME NEW m \in Nodes, m # curr, data[m] = NULL
          PROVE  next'[m] = m /\ previous'[m] = m
      <4>1. m # previous[curr] /\ m # next[curr] /\ next[m] = m /\ previous[m] = m
        BY <1>3, <3>1, <3>4
      <4>. QED BY <1>3, <2>3, <2>4, <3>4, <4>1
    <3>. QED BY <3>2, <3>3, <3>4
  <2>7. head = Visited[1] /\ (head = curr <=> i = 1)
    <3>1. 1 \in 1 .. n /\ head = Visited[1] /\ \A k, j \in 1 .. n : Visited[k] = Visited[j] => k = j
      BY <1>2 DEF IsRing, Chain
    <3>. QED BY <3>1
  <2>8. CASE head' \notin Nodes
    <3>1. RingElements' = <<>>
      BY <2>8, NoListNow
    <3>2. \/ size' = 0 /\ head' = NULL
          \/ size' # 0 /\ i = 1 /\ "null" \in FreedNext /\ head' = NULL
          \/ size' # 0 /\ i = 1 /\ "wild" \in FreedNext /\ head' = Wild
      <4>1. head' \in Freed(head) => \/ head' = next[head]
                                     \/ "null" \in FreedNext /\ head' = NULL
                                     \/ "wild" \in FreedNext /\ head' = Wild
        BY ListAssumption DEF Freed
      <4>2. next[head] \in Nodes
        BY <1>1, <1>3
      <4>. QED BY <1>1, <2>3, <2>7, <2>8, <4>1, <4>2
    <3>3. RingInv'
      BY <1>3, <2>5, <2>6, <3>2, RinglessLinks DEF RingInv
    <3>4. size' = 0 <=> size = 1
      BY <1>1, <1>2
    <3>. QED BY <1>1, <2>1, <2>2, <3>1, <3>2, <3>3, <3>4
  <2>9. CASE head' \in Nodes
    <3>1. /\ size' # 0
          /\ i = 1 => "old" \in FreedNext /\ head' = next[head]
          /\ i # 1 => head' = head
      <4>1. head' \in Freed(head) => "old" \in FreedNext /\ head' = next[head]
        BY <2>9, ListAssumption DEF Freed
      <4>2. head' # NULL
        BY <2>9, ListAssumption
      <4>. QED BY <2>3, <2>7, <4>1, <4>2
    <3>2. size # 1 /\ n # 1 /\ size' \in 1 .. n - 1
      BY <1>1, <1>2, <3>1
    <3>3. head' = IF i = 1 THEN next[head] ELSE head
      BY <3>1
    <3>4. Shows(n - 1, Removed(n, Visited, i), Removed(n, RingElements, i),
                head', next', previous', data')
      <4>1. Shows(n - 1, Removed(n, Visited, i), Removed(n, Image(n, Visited, data), i),
                  IF i = 1 THEN next[head] ELSE head, next', previous', data')
        BY <1>2, <1>3, <2>3, <3>2, RemovedNode, Zenon
      <4>. QED BY <1>2, <3>3, <4>1
    <3>5. RingElements' = Removed(n, RingElements, i)
      BY <3>4, ListThen
    <3>6. RingInv'
      <4>1. IsRing(n - 1, Removed(n, Visited, i), head', next', previous', data')
        BY <3>4 DEF Shows
      <4>. QED BY <2>5, <2>6, <3>2, <4>1, RingedLinks DEF RingInv
    <3>7. i # 1 => i \in 2 .. n
      BY <1>2
    <3>. QED BY <1>1, <2>1, <2>2, <3>1, <3>2, <3>5, <3>6, <3>7
  <2>. QED BY <2>8, <2>9
<1>. QED BY <1>5, <1>6

\* Every other step leaves the links alone.
LEMMA OtherSteps ==
    ASSUME [Next]_vars
    PROVE  \/ \E t \in Threads : list_rpush(t)
           \/ \E t \in Threads : list_remove(t)
           \/ UNCHANGED ring
<1>1. ASSUME NEW t \in Threads, Body(t)
      PROVE  list_rpush(t) \/ list_remove(t) \/ UNCHANGED ring
  BY <1>1 DEF Body, list_remove_null, list_element_exists, list_find_element,
     list_find_element_empty, Dereference, Crash
<1>2. ASSUME NEW t \in Threads, Lock(t) PROVE UNCHANGED ring
  BY <1>2 DEF Lock
<1>3. ASSUME NEW t \in Threads, NEW op, NEW x, Call(t, op, x) PROVE UNCHANGED ring
  BY <1>3 DEF Call
<1>. QED BY <1>1, <1>2, <1>3 DEF Next, vars

\* At first every node is free.
LEMMA InitRing == Init => RingInv
<1> SUFFICES ASSUME Init PROVE RingInv
  OBVIOUS
<1>1. 0 \in 0 .. Cardinality(Nodes)
  BY ListAssumption, FS_CardinalityType
<1>. QED BY <1>1, RinglessLinks DEF Init, RingInv

\* Every step keeps the ring.
LEMMA RingStep == RingInv /\ [Next]_vars => RingInv'
<1> SUFFICES ASSUME RingInv, [Next]_vars PROVE RingInv'
  OBVIOUS
<1>1. ASSUME NEW t \in Threads, list_rpush(t) PROVE RingInv'
  BY <1>1, Pushing
<1>2. ASSUME NEW t \in Threads, list_remove(t) PROVE RingInv'
  BY <1>2, Removing
<1>3. CASE UNCHANGED ring
  BY <1>3 DEF ring, RingInv
<1>. QED BY <1>1, <1>2, <1>3, OtherSteps

(***************************************************************************)
(* The links with the discipline of the mutex, who calls what, and what    *)
(* the searches returned.                                                  *)
(***************************************************************************)
Callers == \A t \in Threads :
    pc[t] \in Calls /\ pc[t].op \in {"rpush", "remove"} => t \in Mutators

Results == result \in [Threads -> BOOLEAN \cup {NoResult}]

ListInv == Inductive /\ RingInv /\ Callers /\ Results

\* The invariant holds at first,
LEMMA InitListInv == Init => ListInv
BY InitInductive, InitRing, Distinct DEF Init, ListInv, Callers, Results

\* and every step keeps it.
LEMMA ListStep == ListInv /\ [Next]_vars => ListInv'
<1> SUFFICES ASSUME ListInv, [Next]_vars PROVE ListInv'
  OBVIOUS
<1>1. Inductive' /\ RingInv'
  BY Step, RingStep DEF ListInv
<1>2. /\ Callers /\ Results /\ pc \in [Threads -> Calls \cup {Run, Segv}]
  BY DEF ListInv, Inductive, Discipline
<1>3. ASSUME NEW t \in Threads, NEW x \in Elements,
             NEW op \in {"rpush", "remove", "exists", "find"}, Call(t, op, x)
      PROVE  Callers' /\ Results'
  <2>1. /\ pc'[t].op = op /\ \A s \in Threads \ {t} : pc'[s] = pc[s]
        /\ op \in {"rpush", "remove"} => t \in Mutators
        /\ result' = result
    BY <1>2, <1>3 DEF Call
  <2>. QED BY <1>2, <2>1 DEF Callers, Results
<1>4. ASSUME NEW t \in Threads, Lock(t) PROVE Callers' /\ Results'
  <2>1. /\ pc'[t].op = pc[t].op /\ pc[t] \in Calls /\ \A s \in Threads \ {t} : pc'[s] = pc[s]
        /\ result' = result
    BY <1>2, <1>4 DEF Lock, Calls
  <2>. QED BY <1>2, <2>1 DEF Callers, Results
<1>5. ASSUME NEW t \in Threads, Body(t) PROVE Callers' /\ Results'
  <2>1. pc' = [pc EXCEPT ![t] = Run] \/ pc' = [pc EXCEPT ![t] = Segv]
    BY <1>5 DEF Body, list_rpush, list_remove, list_remove_null, list_element_exists,
       list_find_element, list_find_element_empty, Dereference, Crash, Unlock
  <2>2. Callers'
    BY <1>2, <2>1, Distinct DEF Callers
  <2>3. result' = result \/ \E b \in BOOLEAN : result' = [result EXCEPT ![t] = b]
    BY <1>5 DEF Body, list_rpush, list_remove, list_remove_null, list_element_exists,
       list_find_element, list_find_element_empty, Dereference, Crash, Found
  <2>4. Results'
    BY <1>2, <2>3 DEF Results
  <2>. QED BY <2>2, <2>4
<1>6. ASSUME UNCHANGED vars PROVE Callers' /\ Results'
  <2>1. pc' = pc /\ result' = result
    BY <1>6 DEF vars
  <2>. QED BY <1>2, <2>1 DEF Callers, Results
<1>7. Callers' /\ Results'
  BY <1>3, <1>4, <1>5, <1>6 DEF Next
<1>. QED BY <1>1, <1>7 DEF ListInv

\* The variables have their types: no link leads out of the heap, and the size
\* never exceeds the number of nodes there are.
THEOREM TypeCorrect == Spec => []TypeOK
<1>1. ListInv => TypeOK
  BY DEF ListInv, Inductive, Discipline, RingInv, Links, Results, TypeOK
<1>. QED BY InitListInv, ListStep, <1>1, PTL DEF Spec

\* RingOK is what RingInv says of the nodes visited, without their order.
LEMMA RingInvGivesRingOK == RingInv => RingOK
<1> SUFFICES ASSUME RingInv PROVE RingOK
  OBVIOUS
<1>1. size = 0 => head = NULL
  BY DEF RingInv, Links
<1>2. ASSUME head \in Nodes
      PROVE  LET visited == {Visited[i] : i \in 1 .. Len(Visited)} IN
             /\ Cardinality(visited) = Len(Visited)
             /\ size \in 1 .. Len(Visited)
             /\ \A n \in visited :
                   n \in Allocated /\ previous[next[n]] = n /\ next[previous[n]] = n
  <2>. DEFINE n == Len(Visited)
              visited == {Visited[i] : i \in 1 .. n}
  <2>1. IsRing(n, Visited, head, next, previous, data) /\ n \in Nat \ {0} /\ size \in 1 .. n
    BY <1>2, ListNow
  <2>. HIDE DEF n
  <2>2. Visited \in [1 .. n -> Nodes] /\ \A i, j \in 1 .. n : Visited[i] = Visited[j] => i = j
    BY <2>1 DEF IsRing, Chain
  <2>3. Cardinality(visited) = n
    <3>1. Visited \in Bijection(1 .. n, visited)
      BY <2>2 DEF Bijection, Injection, Surjection, IsInjective
    <3>2. 1 \in Int /\ n \in Int
      BY <2>1
    <3>3. IsFiniteSet(1 .. n) /\ Cardinality(1 .. n) = IF 1 > n THEN 0 ELSE n - 1 + 1
      BY <3>2, FS_Interval, Zenon
    <3>4. Cardinality(visited) = Cardinality(1 .. n)
      BY <3>1, <3>3, FS_Bijection, Zenon DEF ExistsBijection
    <3>. QED BY <2>1, <3>3, <3>4
  <2>4. ASSUME NEW i \in 1 .. n
        PROVE  /\ Visited[i] \in Allocated
               /\ previous[next[Visited[i]]] = Visited[i]
               /\ next[previous[Visited[i]]] = Visited[i]
    <3>1. Visited[i] \in Allocated
      BY <2>1, <2>2 DEF IsRing, Allocated
    <3>2. previous[next[Visited[i]]] = Visited[i]
      BY <2>1 DEF IsRing, Chain
    <3>3. PICK j \in 1 .. n : After(j, n) = i
      <4>1. CASE i = 1
        BY <2>1, <4>1 DEF After
      <4>2. CASE i # 1
        BY <2>1, <4>2, i - 1 \in 1 .. n DEF After
      <4>. QED BY <4>1, <4>2
    <3>4. next[previous[Visited[i]]] = Visited[i]
      BY <2>1, <3>3 DEF IsRing, Chain
    <3>. QED BY <3>1, <3>2, <3>4
  <2>. QED BY <2>1, <2>3, <2>4 DEF n
<1>. QED BY <1>1, <1>2 DEF RingOK

\* As long as the head points to a node, the links from it are a ring of
\* allocated nodes, both ways, which is at least as long as list->size says.
THEOREM RingCorrect == Spec => []RingOK
BY InitRing, RingStep, RingInvGivesRingOK, PTL DEF Spec
-----------------------------------------------------------------------------
(* The list is the one that ListOps and SequenceList describe. *)

\* Only one thread is ever in a call that changes the list.
LEMMA OneChanger ==
    ASSUME ListInv, NEW s \in Threads, NEW t \in Threads,
           In(s, "rpush") \/ In(s, "remove"), In(t, "rpush") \/ In(t, "remove")
    PROVE  s = t
<1>1. s \in Mutators /\ t \in Mutators
  BY DEF ListInv, Callers, In
<1>. QED BY <1>1, ListAssumption

\* What list_rpush and list_remove change is what ListOps says.
LEMMA BodiesStep ==
    ASSUME ListInv, [Next]_vars, NEW t \in Threads
    PROVE  /\ In(t, "rpush") /\ ring' # ring =>
                 /\ ~LO!RpushCrashes(AbstractList)
                 /\ AbstractList' = LO!list_rpush(AbstractList, pc[t].element)
           /\ In(t, "remove") /\ ring' # ring =>
                 /\ ~LO!RemoveCrashes(AbstractList)
                 /\ \/ AbstractList' \in
                          LO!list_remove(AbstractList, pc[t].element, FreedNext)
                    \/ /\ head' = Wild
                       /\ LO!RemoveGoesWild(AbstractList, pc[t].element, FreedNext)
<1>. DEFINE x == pc[t].element
<1>0. RingInv
  BY DEF ListInv
<1>1. ASSUME In(t, "rpush"), ring' # ring PROVE list_rpush(t)
  <2>1. PICK s \in Threads : list_rpush(s) \/ list_remove(s)
    BY <1>1, OtherSteps
  <2>2. In(s, "rpush") \/ In(s, "remove")
    BY <2>1 DEF list_rpush, list_remove
  <2>3. s = t
    BY <1>1, <2>2, OneChanger
  <2>. QED BY <1>1, <2>1, <2>3 DEF list_remove, In
<1>2. ASSUME In(t, "remove"), ring' # ring PROVE list_remove(t)
  <2>1. PICK s \in Threads : list_rpush(s) \/ list_remove(s)
    BY <1>2, OtherSteps
  <2>2. In(s, "rpush") \/ In(s, "remove")
    BY <2>1 DEF list_rpush, list_remove
  <2>3. s = t
    BY <1>2, <2>2, OneChanger
  <2>. QED BY <1>2, <2>1, <2>3 DEF list_rpush, In
<1>3. ASSUME list_rpush(t)
      PROVE  /\ ~LO!RpushCrashes(AbstractList)
             /\ AbstractList' = LO!list_rpush(AbstractList, x)
  <2>1. /\ ~ (RingElements = <<>> /\ size # 0)
        /\ RingElements' = Append(RingElements, x) /\ size' = size + 1
    BY <1>0, <1>3, Pushing
  <2>. QED BY <2>1 DEF AbstractList, LO!RpushCrashes, LO!Lost, LO!list_rpush
<1>4. ASSUME list_remove(t)
      PROVE  /\ ~LO!RemoveCrashes(AbstractList)
             /\ \/ AbstractList' \in LO!list_remove(AbstractList, x, FreedNext)
                \/ /\ head' = Wild
                   /\ LO!RemoveGoesWild(AbstractList, x, FreedNext)
  <2>. DEFINE e == RingElements
              n == Len(Visited)
  <2>1. head \in Nodes /\ size' = size - 1
    BY <1>0, <1>4, Removing
  <2>2. e \in Seq(Elements) /\ Len(e) = n /\ n \in Nat \ {0} /\ size \in 1 .. n
        /\ e \in [1 .. n -> Elements]
    BY <1>0, <2>1, ListNow
  <2>. DEFINE l == AbstractList
              old == "old" \in FreedNext    null == "null" \in FreedNext
              here == LO!Present(e, x)      first == LO!FirstIndex(e, x)
  <2>3. l.ring = e /\ l.size = size
    BY DEF AbstractList
  <2>4. LO!ReadsFreedHead(l, x) <=> here /\ first = 1 /\ size # 1
    BY <2>2, <2>3 DEF LO!ReadsFreedHead
  <2>5. \/ RingElements' \in LO!RingsAfterRemove(l, x, FreedNext)
        \/ head' = Wild /\ LO!RemoveGoesWild(l, x, FreedNext)
    <3>1. CASE size = 1
      <4>1. RingElements' = <<>>
        BY <1>0, <1>4, <3>1, Removing
      <4>. QED BY <2>3, <3>1, <4>1 DEF LO!RingsAfterRemove
    <3>2. CASE size # 1 /\ here /\ first = 1
      <4>1. \/ old /\ RingElements' = Removed(n, e, 1)
            \/ null /\ RingElements' = <<>>
            \/ "wild" \in FreedNext /\ head' = Wild
        BY <1>0, <1>4, <3>2, Removing
      <4>2. Removed(n, e, 1) = Tail(e)
        BY <2>2, TailIsRemoved
      <4>3. LO!RingsAfterRemove(l, x, FreedNext) =
               {IF o = "old" THEN Tail(e) ELSE <<>> : o \in FreedNext \ {"wild"}}
        BY <2>3, <2>4, <3>2 DEF LO!RingsAfterRemove
      <4>4. old => Tail(e) \in LO!RingsAfterRemove(l, x, FreedNext)
        BY <4>3
      <4>5. null => <<>> \in LO!RingsAfterRemove(l, x, FreedNext)
        BY <4>3
      <4>. QED BY <2>4, <3>2, <4>1, <4>2, <4>4, <4>5 DEF LO!RemoveGoesWild
    <3>3. CASE size # 1 /\ here /\ first # 1
      <4>1. PICK i \in 2 .. n : i = first /\ RingElements' = Removed(n, e, i)
        BY <1>0, <1>4, <3>3, Removing
      <4>2. Removed(n, e, i) = LO!Without(e, i)
        <5>1. n \in Nat /\ i \in 1 .. n /\ e \in [1 .. n -> Elements]
          BY <2>2
        <5>. HIDE DEF n, e
        <5>2. SubSeq(e, 1, i - 1) \o SubSeq(e, i + 1, Len(e)) = Removed(n, e, i)
          BY <5>1, RemovedIsWithout, Zenon
        <5>. QED BY <5>2, Zenon DEF LO!Without
      <4>3. LO!RingsAfterRemove(l, x, FreedNext) = {LO!Without(e, first)}
        BY <2>3, <2>4, <3>3 DEF LO!RingsAfterRemove
      <4>. QED BY <4>1, <4>2, <4>3
    <3>4. CASE size # 1 /\ ~here
      <4>1. RingElements' = Rotated(n, e)
        BY <1>0, <1>4, <3>4, Removing
      <4>2. Rotated(n, e) = Tail(e) \o <<Head(e)>>
        BY <2>2, TailIsRemoved
      <4>3. LO!RingsAfterRemove(l, x, FreedNext) = {Tail(e) \o <<Head(e)>>}
        BY <2>3, <2>4, <3>4 DEF LO!RingsAfterRemove
      <4>. QED BY <4>1, <4>2, <4>3
    <3>. QED BY <3>1, <3>2, <3>3, <3>4
  <2>6. AbstractList' = [ring |-> RingElements', size |-> size - 1]
    BY <2>1 DEF AbstractList
  <2>7. ~LO!RemoveCrashes(AbstractList)
    BY <2>2, <2>3 DEF LO!RemoveCrashes
  <2>8. RingElements' \in LO!RingsAfterRemove(l, x, FreedNext) =>
           AbstractList' \in LO!list_remove(l, x, FreedNext)
    BY <2>3, <2>6 DEF LO!list_remove
  <2>. QED BY <2>5, <2>7, <2>8
<1>. QED BY <1>1, <1>2, <1>3, <1>4

\* The pointer manipulations of list_rpush and list_remove do to the elements
\* and the size what the operators of ListOps say, whatever a freed node holds.
THEOREM BodiesImplementListOps == Spec => BodiesAreListOps
<1>1. ListInv /\ [Next]_vars =>
         [\A t \in Threads :
            /\ In(t, "rpush") /\ ring' # ring =>
                  /\ ~LO!RpushCrashes(AbstractList)
                  /\ AbstractList' = LO!list_rpush(AbstractList, pc[t].element)
            /\ In(t, "remove") /\ ring' # ring =>
                  /\ ~LO!RemoveCrashes(AbstractList)
                  /\ \/ AbstractList' \in
                           LO!list_remove(AbstractList, pc[t].element, FreedNext)
                     \/ /\ head' = Wild
                        /\ LO!RemoveGoesWild(AbstractList, pc[t].element, FreedNext)
         ]_vars
  BY BodiesStep
<1>. QED BY InitListInv, ListStep, <1>1, PTL DEF Spec, BodiesAreListOps

\* A search tells whether the element is in the sequence.
LEMMA Searching ==
    ASSUME ListInv, NEW t \in Threads,
           \/ list_element_exists(t)
           \/ list_find_element(t)
           \/ list_find_element_empty(t)
    PROVE  SL!Next
<1>1. PICK x \in Elements : x = pc[t].element
  BY DEF list_element_exists, list_find_element, list_find_element_empty, In, Calls
<1>2. Found(x) <=> SL!Present(RingElements, x)
  <2>1. CASE head \in Nodes
    BY <2>1, Stopping DEF ListInv, LO!Present, SL!Present
  <2>2. CASE head \notin Nodes
    <3>1. \A i \in 1 .. 0 : FALSE
      OBVIOUS
    <3>. QED BY <2>2, <3>1, NoListNow DEF Found, SL!Present
  <2>. QED BY <2>1, <2>2
<1>3. ring' = ring
  BY DEF list_element_exists, list_find_element, list_find_element_empty
<1>4. RingElements' = RingElements
  BY <1>3, VisitedIsWalked DEF ring, RingElements
<1>5. CASE list_element_exists(t) \/ list_find_element(t)
  <2>1. result' = [result EXCEPT ![t] = Found(x)]
    BY <1>1, <1>5 DEF list_element_exists, list_find_element
  <2>2. Found(x) = SL!Present(RingElements, x)
    BY <1>2, Zenon DEF Found, SL!Present
  <2>3. SL!Search(t, x)
    BY <1>4, <2>1, <2>2 DEF SL!Search
  <2>. QED BY <2>3 DEF SL!Next
<1>6. CASE list_find_element_empty(t)
  <2>1. result' = [result EXCEPT ![t] = FALSE] /\ head \notin Nodes
    BY <1>6, ListAssumption DEF list_find_element_empty
  <2>2. ~Found(x)
    <3>1. \A i \in 1 .. 0 : FALSE
      OBVIOUS
    <3>. QED BY <2>1, <3>1, NoListNow DEF Found
  <2>3. SL!Present(RingElements, x) = FALSE
    BY <1>2, <2>2, Zenon DEF SL!Present
  <2>4. SL!Search(t, x)
    BY <1>4, <2>1, <2>3 DEF SL!Search
  <2>. QED BY <2>4 DEF SL!Next
<1>. QED BY <1>5, <1>6

\* The i-th element is the first that is equal to x, and is gone.
LEMMA RemoveFrom ==
    ASSUME NEW n \in Nat \ {0}, RingElements \in [1 .. n -> Elements], NEW x \in Elements,
           NEW i \in 1 .. n,
           LO!Present(RingElements, x), i = LO!FirstIndex(RingElements, x),
           RingElements' = Removed(n, RingElements, i), result' = result
    PROVE  SL!Next
<1>1. n \in Nat
  OBVIOUS
<1>2. SL!Without(RingElements, i) = Removed(n, RingElements, i)
  BY <1>1, RemovedIsWithout, Zenon DEF SL!Without
<1>3. i = SL!FirstIndex(RingElements, x) /\ SL!Present(RingElements, x)
  BY DEF SL!FirstIndex, SL!Min, Min, LO!FirstIndex, LO!Min, SL!Present, LO!Present
<1>4. SL!Remove(x)
  BY <1>2, <1>3 DEF SL!Remove
<1>. QED BY <1>4 DEF SL!Next

\* Every step between exact sizes is one of the sequence or leaves it alone.
LEMMA SequenceStep ==
    ASSUME ListInv, [Next]_vars
    PROVE  [Exact /\ Exact' => SL!Next]_(SL!vars)
<1>. SUFFICES ASSUME Exact, Exact' PROVE SL!Next \/ UNCHANGED SL!vars
  OBVIOUS
<1>0. RingInv
  BY DEF ListInv
<1>1. ASSUME NEW t \in Threads, list_rpush(t) PROVE SL!Next
  <2>1. PICK x \in Elements : x = pc[t].element
    BY <1>1 DEF list_rpush, In, Calls
  <2>2. RingElements' = Append(RingElements, x) /\ result' = result
    BY <1>0, <1>1, <2>1, Pushing DEF list_rpush
  <2>3. SL!Rpush(x)
    BY <2>2 DEF SL!Rpush
  <2>. QED BY <2>3 DEF SL!Next
<1>2. ASSUME NEW t \in Threads, list_remove(t) PROVE SL!Next
  <2>. DEFINE n == Len(Visited)
              e == RingElements
  <2>1. PICK x \in Elements : x = pc[t].element
    BY <1>2 DEF list_remove, In, Calls
  <2>2. result' = result /\ head \in Nodes
    BY <1>2 DEF list_remove
  <2>3. /\ e \in [1 .. n -> Elements] /\ Len(e) = n /\ n \in Nat \ {0} /\ size = n
        /\ size' = Len(RingElements') /\ size' = n - 1
    BY <1>0, <1>2, <2>1, <2>2, ListNow, Removing DEF Exact
  <2>4. CASE RingElements' = <<>>
    <3>1. n = 1
      <4>1. n - 1 = Len(<<>>) /\ n \in Nat
        BY <2>3, <2>4, Zenon
      <4>. HIDE DEF n
      <4>. QED BY <4>1
    <3>2. PICK y \in Elements : y = e[1]
      BY <2>3
    <3>3. LO!Present(e, y) /\ 1 = LO!FirstIndex(e, y)
      <4>. DEFINE hits == {i \in 1 .. Len(e) : e[i] = y}
      <4>1. hits \in SUBSET Nat /\ 1 \in hits /\ \A m \in hits : 1 <= m
        BY <2>3, <3>1, <3>2
      <4>2. LO!FirstIndex(e, y) = Min(hits)
        BY DEF LO!FirstIndex, LO!Min, Min
      <4>3. LO!Present(e, y)
        BY <4>1 DEF LO!Present
      <4>. HIDE DEF hits
      <4>. QED BY <4>1, <4>2, <4>3, MinIs
    <3>4. Removed(1, e, 1) = <<>>
      <4>1. Removed(1, e, 1) \in [1 .. 0 -> Elements]
        BY DEF Removed
      <4>. QED BY <4>1
    <3>. HIDE DEF n, e
    <3>5. RingElements' = Removed(n, e, 1) /\ 1 \in 1 .. n
      BY <2>4, <3>1, <3>4
    <3>. QED BY <2>2, <2>3, <3>3, <3>5, RemoveFrom DEF e
  <2>5. CASE RingElements' = Rotated(n, e)
    <3>1. Rotated(n, e) \in [1 .. n -> Elements] /\ n \in Nat
      BY <2>3 DEF Rotated, After
    <3>2. Len(Rotated(n, e)) = n
      BY <3>1, FunctionIsSeq
    <3>3. n - 1 = Len(Rotated(n, e))
      BY <2>3, <2>5, Zenon
    <3>. HIDE DEF n
    <3>. QED BY <3>1, <3>2, <3>3
  <2>6. CASE \E i \in 1 .. n : /\ LO!Present(e, x) /\ i = LO!FirstIndex(e, x)
                               /\ RingElements' = Removed(n, e, i)
    BY <2>2, <2>3, <2>6, RemoveFrom
  <2>7. head' = Wild => RingElements' = <<>>
    BY NoListNow, ListAssumption
  <2>8. 1 \in 1 .. n /\ \A i \in 2 .. n : i \in 1 .. n
    BY <2>3
  <2>. HIDE DEF n
  <2>9. \/ RingElements' = <<>>
        \/ RingElements' = Rotated(n, e)
        \/ \E i \in 1 .. n : /\ LO!Present(e, x) /\ i = LO!FirstIndex(e, x)
                             /\ RingElements' = Removed(n, e, i)
    BY <1>0, <1>2, <2>1, <2>7, <2>8, Removing DEF n
  <2>. QED BY <2>4, <2>5, <2>6, <2>9
<1>3. ASSUME ring' = ring, result' = result PROVE UNCHANGED SL!vars
  BY <1>3, VisitedIsWalked DEF ring, SL!vars, RingElements
<1>4. ASSUME NEW t \in Threads, Body(t) PROVE SL!Next \/ UNCHANGED SL!vars
  <2>1. CASE list_element_exists(t) \/ list_find_element(t) \/ list_find_element_empty(t)
    BY <2>1, Searching
  <2>2. CASE list_remove_null(t) \/ Dereference(t)
    BY <1>3, <2>2 DEF list_remove_null, Dereference, Crash
  <2>. QED BY <1>1, <1>2, <1>4, <2>1, <2>2 DEF Body
<1>5. ASSUME NEW t \in Threads, Lock(t) PROVE UNCHANGED SL!vars
  BY <1>3, <1>5 DEF Lock
<1>6. ASSUME NEW t \in Threads, NEW op, NEW x, Call(t, op, x) PROVE UNCHANGED SL!vars
  BY <1>3, <1>6 DEF Call
<1>7. ASSUME UNCHANGED vars PROVE UNCHANGED SL!vars
  BY <1>3, <1>7 DEF vars
<1>. QED BY <1>4, <1>5, <1>6, <1>7 DEF Next

\* The list implements the sequence its header promises, as long as no absent
\* element was removed and no freed node was read after it was overwritten.
THEOREM ListImplementsSequence == Spec => ListIsSequence
<1>1. Init => SL!Init
  <2>1. Init => RingElements = <<>>
    BY NoListNow, ListAssumption DEF Init
  <2>. QED BY <2>1 DEF Init, SL!Init
<1>2. ListInv /\ [Next]_vars => [Exact /\ Exact' => SL!Next]_(SL!vars)
  BY SequenceStep
<1>. QED BY InitListInv, ListStep, <1>1, <1>2, PTL DEF Spec, ListIsSequence
=============================================================================
